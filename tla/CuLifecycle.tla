----------------------------- MODULE CuLifecycle -----------------------------
(***************************************************************************)
(* Start and stop of the CU-CP process: main, App.Start and App.Stop,      *)
(* InitContext, the NG association with its read loop, bounded channel and *)
(* dispatching goroutines, and the goroutines that wait for a signal or    *)
(* for the cancellation of the context.                                    *)
(***************************************************************************)
EXTENDS Integers, Sequences

CONSTANTS
  Cap,      \* capacity of ReadCh (defaultChannelBuffer)
  MaxMsg,   \* bound: messages that the AMF sends
  MaxSig    \* bound: signals that the operator sends

ASSUME BoundAssumption == Cap \in Nat \ {0} /\ MaxMsg \in Nat /\ MaxSig \in Nat

VARIABLES
  main,     \* the main goroutine
  ng,       \* the NG association
  net,      \* messages of the AMF that the read loop has not read
  nsent,    \* how many messages the AMF has sent
  ReadCh,   \* the channel: its buffer
  closed,   \* whether ReadCh is closed
  lost,     \* messages dropped because ReadCh was full
  hand,     \* the goroutine of each message of the AMF
  amf,      \* amf.State
  listener, \* cu.F1APListener
  watcher,  \* the goroutine that waits for cuCtx.Ctx
  exiter,   \* the goroutine in main that calls os.Exit
  pending,  \* goroutines whose signal channel holds a signal
  nsig,     \* how many signals were sent
  alive     \* the process has not exited

vars == <<main, ng, net, nsent, ReadCh, closed, lost, hand, amf, listener,
          watcher, exiter, pending, nsig, alive>>

ngVars == <<ng, net, nsent, ReadCh, closed, lost>>
sigVars == <<watcher, exiter, pending, nsig, alive>>

\* A message of the AMF: its number, and whether it is NGSetupResponse.
AmfMsg == [id : 1 .. MaxMsg, setup : BOOLEAN]

TypeOK ==
  /\ main \in {"connect", "request", "ready", "listen", "start", "notify",
               "wait", "stop", "terminate"}
  /\ ng \in {"down", "up", "closed"}
  /\ net \in Seq(AmfMsg)
  /\ nsent \in 0 .. MaxMsg
  /\ ReadCh \in Seq(AmfMsg) /\ Len(ReadCh) <= Cap
  /\ closed \in BOOLEAN
  /\ lost \subseteq AmfMsg
  /\ hand \in [1 .. MaxMsg -> {"none", "setup", "other", "ready", "done"}]
  /\ amf \in {"AMF_INACTIVE", "AMF_ACTIVE"}
  /\ listener \in {"none", "open"}
  /\ watcher \in {"none", "start", "never", "watch", "terminate"}
  /\ exiter \in {"none", "start", "wait"}
  /\ pending \subseteq {"main", "exiter"}
  /\ nsig \in 0 .. MaxSig
  /\ alive \in BOOLEAN

Init ==
  /\ main = "connect"
  /\ ng = "down"
  /\ net = <<>>
  /\ nsent = 0
  /\ ReadCh = <<>>
  /\ closed = FALSE
  /\ lost = {}
  /\ hand = [i \in 1 .. MaxMsg |-> "none"]
  /\ amf = "AMF_INACTIVE"
  /\ listener = "none"
  /\ watcher = "none"
  /\ exiter = "none"
  /\ pending = {}
  /\ nsig = 0
  /\ alive = TRUE

-----------------------------------------------------------------------------
(***************************************************************************)
(* Start.                                                                  *)
(***************************************************************************)

\* initAmfConn: Connect starts the read loop; without an association the
\* process exits.
InitAmfConn ==
  /\ alive /\ main = "connect"
  /\ \/ main' = "request" /\ ng' = "up" /\ UNCHANGED alive
     \/ alive' = FALSE /\ UNCHANGED <<main, ng>>
  /\ UNCHANGED <<net, nsent, ReadCh, closed, lost, hand, amf, listener,
                 watcher, exiter, pending, nsig>>

\* SendNgSetupRequest: Send ignores a failed write.
SendNgSetupRequest ==
  /\ alive /\ main = "request"
  /\ main' = "ready"
  /\ UNCHANGED <<ngVars, hand, amf, listener, sigVars>>

\* <-cuCtx.IsReadyNgap in InitContext meets IsReadyNgap <- true in
\* handlerNgSetupResponse: the channel has no buffer.
Ready(i) ==
  /\ alive /\ main = "ready"
  /\ hand[i] = "ready"
  /\ main' = "listen"
  /\ hand' = [hand EXCEPT ![i] = "done"]
  /\ UNCHANGED <<ngVars, amf, listener, sigVars>>

\* initF1APServer, and the goroutine that waits for the context.
InitF1APServer ==
  /\ alive /\ main = "listen"
  /\ \/ main' = "start" /\ listener' = "open" /\ watcher' = "start"
        /\ UNCHANGED alive
     \/ alive' = FALSE /\ UNCHANGED <<main, listener, watcher>>
  /\ UNCHANGED <<ngVars, hand, amf, exiter, pending, nsig>>

\* The end of App.Start replaces cuCtx.Ctx; main starts the exiter.
Start ==
  /\ alive /\ main = "start"
  /\ main' = "notify"
  /\ exiter' = "start"
  /\ UNCHANGED <<ngVars, hand, amf, listener, watcher, pending, nsig, alive>>

\* The watcher reads cuCtx.Ctx without synchronisation with Start: it waits
\* for the background context, forever, or for the one Stop cancels.  Ctx is
\* an interface, two words: a read that meets the write may see the type of
\* one context with the data of the other, and the process faults.
Watch ==
  /\ alive /\ watcher = "start"
  /\ \/ watcher' = (IF main = "start" THEN "never" ELSE "watch")
        /\ UNCHANGED alive
     \/ main = "start" /\ alive' = FALSE /\ UNCHANGED watcher
  /\ UNCHANGED <<main, ngVars, hand, amf, listener, exiter, pending, nsig>>

-----------------------------------------------------------------------------
(***************************************************************************)
(* The NG association.                                                     *)
(***************************************************************************)

\* The AMF (external) sends a message once the association is up, and
\* NGSetupResponse once it has the request.
AmfSends ==
  /\ alive /\ ng = "up" /\ nsent < MaxMsg
  /\ \E s \in BOOLEAN :
       /\ s => main \notin {"connect", "request"}
       /\ net' = Append(net, [id |-> nsent + 1, setup |-> s])
  /\ nsent' = nsent + 1
  /\ UNCHANGED <<main, ng, ReadCh, closed, lost, hand, amf, listener, sigVars>>

\* The association fails (external).
AmfLost ==
  /\ alive /\ ng = "up"
  /\ ng' = "closed"
  /\ UNCHANGED <<main, net, nsent, ReadCh, closed, lost, hand, amf, listener,
                 sigVars>>

\* Mutant: the channel takes one message too few.
ReadLoopShort ==
  /\ alive /\ ~closed
  /\ \/ /\ net # <<>>
        /\ net' = Tail(net)
        /\ IF Len(ReadCh) < Cap - 1
             THEN ReadCh' = Append(ReadCh, Head(net)) /\ UNCHANGED lost
             ELSE lost' = lost \cup {Head(net)} /\ UNCHANGED ReadCh
        /\ UNCHANGED closed
     \/ /\ net = <<>> /\ ng = "closed"
        /\ closed' = TRUE
        /\ UNCHANGED <<net, ReadCh, lost>>
  /\ UNCHANGED <<main, ng, nsent, hand, amf, listener, sigVars>>

\* Mutant: the channel takes one message too many.
ReadLoopLong ==
  /\ alive /\ ~closed
  /\ \/ /\ net # <<>>
        /\ net' = Tail(net)
        /\ IF Len(ReadCh) < Cap + 1
             THEN ReadCh' = Append(ReadCh, Head(net)) /\ UNCHANGED lost
             ELSE lost' = lost \cup {Head(net)} /\ UNCHANGED ReadCh
        /\ UNCHANGED closed
     \/ /\ net = <<>> /\ ng = "closed"
        /\ closed' = TRUE
        /\ UNCHANGED <<net, ReadCh, lost>>
  /\ UNCHANGED <<main, ng, nsent, hand, amf, listener, sigVars>>

\* readLoop: one message into ReadCh, dropped when the channel is full; it
\* returns and closes ReadCh at the end of the association.
ReadLoop ==
  /\ alive /\ ~closed
  /\ \/ /\ net # <<>>
        /\ net' = Tail(net)
        /\ IF Len(ReadCh) < Cap
             THEN ReadCh' = Append(ReadCh, Head(net)) /\ UNCHANGED lost
             ELSE lost' = lost \cup {Head(net)} /\ UNCHANGED ReadCh
        /\ UNCHANGED closed
     \/ /\ net = <<>> /\ ng = "closed"
        /\ closed' = TRUE
        /\ UNCHANGED <<net, ReadCh, lost>>
  /\ UNCHANGED <<main, ng, nsent, hand, amf, listener, sigVars>>

\* The range loop of initAmfConn: a goroutine for each message.
Dispatch ==
  /\ alive /\ ReadCh # <<>>
  /\ ReadCh' = Tail(ReadCh)
  /\ hand' = [hand EXCEPT ![Head(ReadCh).id] =
                IF Head(ReadCh).setup THEN "setup" ELSE "other"]
  /\ UNCHANGED <<main, ng, net, nsent, closed, lost, amf, listener, sigVars>>

\* Mutant: the handler reports before it has set the state of the AMF.
HandlerNgSetupResponseEarly(i) ==
  /\ alive /\ hand[i] = "setup"
  /\ hand' = [hand EXCEPT ![i] = "ready"]
  /\ UNCHANGED <<main, ngVars, amf, listener, sigVars>>

\* handlerNgSetupResponse up to IsReadyNgap <- true.
HandlerNgSetupResponse(i) ==
  /\ alive /\ hand[i] = "setup"
  /\ amf' = "AMF_ACTIVE"
  /\ hand' = [hand EXCEPT ![i] = "ready"]
  /\ UNCHANGED <<main, ngVars, listener, sigVars>>

\* Every other message: the handlers of CuCp, or a warning.
DispatchOther(i) ==
  /\ alive /\ hand[i] = "other"
  /\ hand' = [hand EXCEPT ![i] = "done"]
  /\ UNCHANGED <<main, ngVars, amf, listener, sigVars>>

-----------------------------------------------------------------------------
(***************************************************************************)
(* Stop.                                                                   *)
(***************************************************************************)

\* signal.Notify in the exiter and in waitForShutdown.
ExiterNotify ==
  /\ alive /\ exiter = "start"
  /\ exiter' = "wait"
  /\ UNCHANGED <<main, ngVars, hand, amf, listener, watcher, pending, nsig,
                 alive>>

WaitForShutdown ==
  /\ alive /\ main = "notify"
  /\ main' = "wait"
  /\ UNCHANGED <<ngVars, hand, amf, listener, sigVars>>

\* SIGINT or SIGTERM (external): to every channel registered so far; the
\* default action ends a process that has registered none.
Signal ==
  /\ alive /\ nsig < MaxSig
  /\ nsig' = nsig + 1
  /\ LET registered ==
           {g \in {"main", "exiter"} :
              \/ g = "main" /\ main \in {"wait", "stop", "terminate"}
              \/ g = "exiter" /\ exiter = "wait"}
     IN  /\ pending' = pending \cup registered
         /\ alive' = (registered # {})
  /\ UNCHANGED <<main, ngVars, hand, amf, listener, watcher, exiter>>

\* The exiter has its signal: os.Exit.
Exit ==
  /\ alive /\ exiter = "wait" /\ "exiter" \in pending
  /\ alive' = FALSE
  /\ UNCHANGED <<main, ngVars, hand, amf, listener, watcher, exiter, pending,
                 nsig>>

\* main has its signal: App.Stop cancels the context ...
Stop ==
  /\ alive /\ main = "wait" /\ "main" \in pending
  /\ main' = "stop"
  /\ pending' = pending \ {"main"}
  /\ UNCHANGED <<ngVars, hand, amf, listener, watcher, exiter, nsig, alive>>

\* ... and calls Terminate, whose first statement sends on cu.Close.  Nobody
\* receives from it: n2.Close, close(f1apStop) and F1APListener.Close, which
\* follow, are never reached.
Terminate ==
  /\ alive /\ main = "stop"
  /\ main' = "terminate"
  /\ UNCHANGED <<ngVars, hand, amf, listener, sigVars>>

\* The watcher, when it waits for the cancelled context, does the same.
WatcherTerminate ==
  /\ alive /\ watcher = "watch" /\ main \in {"stop", "terminate"}
  /\ watcher' = "terminate"
  /\ UNCHANGED <<main, ngVars, hand, amf, listener, exiter, pending, nsig,
                 alive>>

-----------------------------------------------------------------------------
\* A step of the program itself.
Process ==
  \/ InitAmfConn \/ SendNgSetupRequest \/ InitF1APServer \/ Start \/ Watch
  \/ ReadLoop \/ Dispatch
  \/ \E i \in 1 .. MaxMsg :
       Ready(i) \/ HandlerNgSetupResponse(i) \/ DispatchOther(i)
  \/ ExiterNotify \/ WaitForShutdown \/ Exit \/ Stop \/ Terminate
  \/ WatcherTerminate

Next == Process \/ AmfSends \/ AmfLost \/ Signal

Spec == Init /\ [][Next]_vars

\* Every goroutine that can run does.
Fairness ==
  /\ WF_vars(InitAmfConn) /\ WF_vars(SendNgSetupRequest)
  /\ WF_vars(InitF1APServer) /\ WF_vars(Start) /\ WF_vars(Watch)
  /\ WF_vars(ReadLoop) /\ WF_vars(Dispatch)
  /\ \A i \in 1 .. MaxMsg :
       WF_vars(Ready(i) \/ HandlerNgSetupResponse(i) \/ DispatchOther(i))
  /\ WF_vars(ExiterNotify) /\ WF_vars(WaitForShutdown) /\ WF_vars(Exit)
  /\ WF_vars(Stop) /\ WF_vars(Terminate) /\ WF_vars(WatcherTerminate)

FairSpec == Spec /\ Fairness

-----------------------------------------------------------------------------
(***************************************************************************)
(* Properties.                                                             *)
(***************************************************************************)

\* DUs can connect only when the AMF has accepted the CU-CP: the unbuffered
\* channel IsReadyNgap orders the handler of NGSetupResponse, which runs in
\* a goroutine of its own, before initF1APServer.  This is the order of
\* InitContext and of planning.md; README.md lists the F1AP server first.
F1AfterNg == listener = "open" => amf = "AMF_ACTIVE"

\* An NGSetupResponse makes the CU-CP start, unless the process ends first or
\* the AMF has sent more messages than ReadCh holds and this one was dropped:
\* InitContext waits without a timeout and nothing repeats the request.
Starts ==
  \A i \in 1 .. MaxMsg :
    (\E k \in 1 .. Len(net) : net[k] = [id |-> i, setup |-> TRUE]) ~>
      \/ listener = "open"
      \/ ~alive
      \/ nsent > Cap /\ [id |-> i, setup |-> TRUE] \in lost

\* A signal that main receives makes it close the NG association and the F1AP
\* listener.
GracefulShutdown ==
  alive /\ "main" \in pending ~> ng # "up" /\ listener # "open"
-----------------------------------------------------------------------------
(***************************************************************************)
(* The inductive invariant: who may have passed IsReadyNgap.               *)
(***************************************************************************)
IInv ==
  /\ \A i \in 1 .. MaxMsg : hand[i] = "ready" => amf = "AMF_ACTIVE"
  /\ main \notin {"connect", "request", "ready"} => amf = "AMF_ACTIVE"
  /\ F1AfterNg
=============================================================================
