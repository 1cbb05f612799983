# central-unit: TLA+ models and proofs

The repository is the control plane of a 5G gNB central unit (CU-CP) in Go. It
connects to one AMF over NGAP/SCTP, accepts distributed units (DUs) over
F1AP/SCTP, and relays the registration of a UE between them. The modules here
model that program; TLC checks them on small instances and TLAPS proves the
central safety properties for every instance.

All paths below are relative to the repository unless they name a module.

## 1. The system

| Component | State | Operations | Interacts with |
|---|---|---|---|
| UE registration (`internal/context/protocol_*.go`, `handle_amf.go`, `handle_ue.go`) | `cu.UE` (the only UE context), `IdRrcUeGenerator`, the fields of `GNBUe` | one handler per RRC message, UE Context Setup Response, Downlink NAS Transport, Initial Context Setup Request | DU and UE through F1AP, AMF through NGAP; handlers share `cu.UE` |
| F1AP server and F1 Setup (`f1_server.go`, `protocol_f1c.go`, `du/`) | listener, `TempDuConn`, `DuPool`, `cu.DU`, `GNBDU.SctpConn` | accept, read, dispatch, F1 Setup Request | DUs; the UE handlers send through `cu.DU` |
| Lifecycle and NG Setup (`cmd/main.go`, `internal/app`, `context_init.go`, `context_cucp.go`) | `IsReadyNgap`, `Close`, `Ctx`, `amf.State` | start, NG Setup, signals, stop | blocks until the AMF answers, then opens the F1AP server |
| NG transport (`internal/transport/sctpclient.go`) | association, `ReadCh` (bounded) | connect, read loop, send, close | feeds `dispatch` |
| AMF context (`amfcontext/`) | name, state, linked lists of PLMNs and slices | add PLMN, add slice, send | filled by NG Setup |
| Authentication and SQN (`uecontext/auth.go`, `sqn.go`, `milenage.go`, `ueauth.go`) | SQN, K_AMF, RAND | check of a challenge, resynchronisation, key derivation | not called by the registration handlers yet |
| Security context (`uecontext/secctx.go`) | keys, NH/NCC | key derivation | called by nothing |
| FSM library (`internal/common/fsm`) | `State`: current, next, `slock`; transition table | send event, chain event, force state | worker pool and callbacks of its user; used nowhere yet |
| PLMN conversions (`context_cucp.go`, `amfcontext.go`, `uecontext.go`, `handle_du.go`) | none | digits to octets and back, comparison | F1 Setup, NG Setup, UE context |
| 5G-S-TMSI conversions (`internal/common/utils`), configuration (`pkg/config`), logging | none | pure functions, start-up, output | |

What is hard in it:

* **A goroutine per message, no locks.** `go cu.dispatchF1(rawMsg)` and
  `go cu.dispatch(amf, rawMsg)` give every message its own goroutine. Messages
  that arrive in order are handled in any order and interleave at every
  access to shared state.
* **One shared UE context.** Handlers take `cu.UE`, whoever the message is
  about. Only `handleULRRCMessageTransfer` compares an id of the message with
  the context.
* **State that is handed from one handler to another** - `ue.State`,
  `AmfUeNgapId`, `RegistrationAccept`, `TempDuConn` - without synchronisation.
* **Waiting without timeouts**: NG Setup, and the channel `Close`.
* **Callbacks under a lock** in the FSM library: they run for other events
  while further events, their own included, wait for the same lock.
* **Two counters that drift apart**: the SQN of the UE and of the network, over
  lost, repeated and late challenges.

Section 6 gives the properties that make each component correct, and
`PROJECT.json` lists the hazards line by line with the properties that would
catch them.

## 2. Modules

| Module | Contents |
|---|---|
| `CuCp` | UE registration: handlers, UE context, and the peers (DU, UE, AMF) as their environment |
| `NasRelay` | abstract: the CU-CP as a relay of NAS PDUs, implemented by `CuCp` |
| `Plmn` | MCC, MNC and their octets: the conversions and the comparison |
| `F1Server` | associations, F1 Setup, `TempDuConn`, `cu.DU`, `DuPool`; uses `Plmn` |
| `CuLifecycle` | process start and stop, NG association and its channel, NG Setup, signals |
| `AmfContext` | the lists of networks and slices filled by NG Setup; uses `Plmn` |
| `Fsm` | the state machine library with its users as environment |
| `SerialFsm` | abstract: a state machine that handles each event in one step, implemented by `Fsm` |
| `UeAuth` | challenges, SQN, resynchronisation, K_AMF; the network as environment |
| `MC...` | constants for TLC |
| `CuCpProofs`, `NasRelayProofs`, `PlmnProofs`, `F1ServerProofs`, `CuLifecycleProofs`, `AmfContextProofs`, `FsmProofs`, `UeAuthProofs` | theorems and proofs |

`CuCp`, `F1Server` and `CuLifecycle` meet at their boundaries: `CuLifecycle` establishes that the
F1AP server opens only after NG Setup (`F1AfterNg`), `F1Server` that `cu.DU` is
set before a UE message can need it (`NoNilDu`), and `CuCp` starts from there:
`cu.AMF` and `cu.DU` are set and do not change.

Definitions named `...Unchecked`, `...Forgets`, `...Early` and so on, each with
a comment "Mutant", are wrong variants of the definition that follows. They are
used in no specification: substituting one for the definition makes the
property listed in `PROJECT.json` fail.

### CuCp

`ue[a]` is the `GNBUe` that attach `a` creates; `cuUE` is the pointer `cu.UE`.
`go[m]` is the goroutine of inbound message `m`: `pc` is where it stands, `ue`
its local variable `ue`, `buf` the encoded NGAP message. A message that is in
the network and a goroutine that has not run yet cannot be told apart, so a
peer that sends `m` moves it to `"start"`.

A handler is cut where another goroutine or a peer could tell the difference:

| Code | Actions |
|---|---|
| `handleInitialULRRCMessageTransfer`, `createUE`, `handleRRCSetupRequest` | `HandleInitialULRRCMessageTransfer` (loads the generator), `CreateUE` (stores it, publishes the context), `HandleRRCSetupRequest` (fills the context, sends RRCSetup, or refuses) |
| `handleULRRCMessageTransfer` | same name: takes `cu.UE`, checks the DU UE id, may refuse malformed messages |
| `handleRrcSetupComplete`, `handleULInformationTransfer` | same names (the assignment of `State`), then `SendNasPdu` (reads it), `NgInitialUEMessage` (builds the message, assigns `State`) or `NgUplinkNasTransport` (reads the ids, builds the message), then `SendNgap` |
| `handleRRCSecurityModeComplete` | same name: sends the UE Context Setup Request |
| `handleRRCReconfigurationComplete` | same name (the assignment of `State`), `NgInitialContextSetupResponse` (reads the ids, builds the message), then `SendNgap` |
| `handleNgDownlinkNasTransport` | `LoadUE`, the assignment of `AmfUeNgapId`, `SendDLInformationTransfer` |
| `handlerInitialContextSetupRequest` | `LoadUE`, the action of that name (`CreateUeContext`), `StoreRegistrationAccept` |
| `handleRRCUEContextSetupResponse` | `LoadUE`, then the action of that name |

Data: a NAS PDU is `<<UE, step, transmission>>`. Outbound messages keep the
ids, the bearer and the NAS PDU, which is what a peer acts on. A nil
dereference sets `panic`, which ends the process. `rrc.Encode` of a nil cell
group is external code: it panics or returns an error. `f1Out` and `ngOut` are
the sets of messages written; no message is ever written twice with the same
contents, except where a peer could not tell.

Three sets of constants say which messages may be bad; each member may still
arrive in good order.

* `Malformed`: messages that a handler refuses before they have any effect
  (undecodable, no C1 choice, no container, a bad 5G-S-TMSI).
* `Bodiless`: messages that decode, but to another choice than the one the
  handler dereferences, or without an optional field that it uses
  (`protocol_f1c.go:141`, `protocol_rrc.go:118`, `:155`). These end the process:
  `panic = "message"`. No property says that they do not.
* `Incomplete`: setups that are refused after `createUE` has published the
  context.

**The peers.** The program deviates from its own documented procedure
(`procedure.md`) in four places, and a peer that insists on the documents gets
nowhere:

* the DL RRC Message Transfer carries the ids of the AMF and of the DU where
  those of the UE belong (`handle_amf.go:162`): tolerance `"wrong_dl_ids"`;
* the RRCReconfiguration is written without an F1AP header
  (`protocol_f1c.go:315`): tolerance `"raw_rrc"`. The run `raw` takes it away and
  shows that registration then never completes;
* no AS SecurityModeCommand is ever sent (`handle_amf.go:184`; the project's
  README lists it as planned). A UE in `Unprompted` completes AS security all the
  same, at any time after its answer to the last NAS request; other UEs wait for
  the command, and never register;
* the Registration Accept is taken from the InitialContextSetupRequest and sent
  in the RRCReconfiguration, where `procedure.md:70-72` shows it in a
  DownlinkNASTransport after the InitialContextSetupResponse. The AMF of the
  model does what the code expects.

An unprompted UE cannot know whether the CU-CP has been asked to set up its
context. Its SecurityModeComplete may therefore come before the
InitialContextSetupRequest, and then the RRCReconfiguration carries an empty NAS
PDU and the InitialContextSetupResponse goes out too early. Both are reachable in
the runs. `SecurityInTime` says that this has not happened; it is the premise of
`RegistrationCompletes` and of nothing else.

A switched-off UE (`SwitchOff`) may send one uplink NAS PDU of its own accord.

**`NasRelay`.** The refinement mapping forgets contexts, ids and goroutines and
keeps the NAS PDUs that were written to either side (`NasUp`, `NasDown`). A
step of `CuCp` that writes a NAS PDU is a step of the relay, every other one a
stutter. The relay alters no PDU and passes one on only after the one it answers:
a PDU that overtakes its cause, that is skipped or that has other contents would
not be a step of it. It promises less than one may wish in two respects. An
RRCReconfiguration with an empty PDU is a step (`Blank`), allowed once a UE was
sent the last request before its Accept. And the relay says nothing of the
recipient: the program addresses downlink NAS with the ids of the AMF and the DU
or with none, so that with overlapping attaches the Accept of one UE may leave in
the RRCReconfiguration meant for another.

### F1Server and Plmn

`conn[c]` is an association with its reader, `req[c]` the goroutine of its
F1SetupRequest. A context is named after the association whose request created
it. `SendF1SetupResponse` reads the shared `TempDuConn`; `SendF1ap` writes only
if that association is still open. The accept loop serves any number of
associations at once; `Overlap` is an assumption about the DUs: whether one
connects while the goroutines of another association are still at work. Without
it the program keeps its promises (safety of which is proved); with it
`NoNilDu` and `OwnNetworkOnly` remain (proved as well), and `ResponseToRequester`
and `NoDuplicateDu` fail, as the runs `overlap` and `duplicate` show.

`Plmn` writes an octet string as the sequence of its half octets, in the order
of the hexadecimal form that the code builds with `Sprintf` and takes apart by
index. `PlmnIdentity` is how a peer encodes a network (TS 38.413, TS 38.473)
and the reference for the code's conversions. Networks have an MNC of two or three
digits; the program indexes the digits without a check.

### CuLifecycle

One control state per goroutine: `main`, the watcher of `InitContext`, the
goroutine in `main.go` that calls `os.Exit`, the read loop, the range loop over
`ReadCh`, and one per NGAP message. `ReadCh` is a bounded sequence that drops
what does not fit. The unbuffered channel `IsReadyNgap` is a rendezvous
(`Ready`). `Watch` has the outcomes of the data race on `cuCtx.Ctx`: the old
context, the new one, or a torn interface value that faults.

### AmfContext

A linked list is a sequence of nodes with the index of the successor, a head
and, as in the code, a separate counter. `Walk` is the loop of `AddedPlmn` and
`AddedSlice`, turn by turn, and `Added` the whole of them; `Reached` is the loop
of `GetPlmnSupport` and `GetSliceSupport`, `GetSupport` the whole of those. `Report` is the end of `handlerNgSetupResponse`, which reads
both lists back by index. A further NGSetupResponse appends to the lists of the
first. Responses are handled one at a time.

### Fsm

`job[e]` says where event `e` is: sent, waiting for `slock`, chained, handled,
done. `run` is what the goroutine that holds `slock` is doing: the three
callbacks of `transit` and the assignment of the state are steps of their own,
so that senders, workers, `ForceSetState` and other goroutines get in between.
A callback may do nothing, chain an event or send one. It does not wait for an
answer, which the comment on `SendEvent` forbids.

| Code | Actions |
|---|---|
| `SendEvent`, `SyncSendEvent`, pool | `SendEvent`, `SyncSendEvent`, `Work` |
| closure of `handleEvent` | `HandleEvent` (lock, lookup, answer), `Unlock` |
| `transit` | `CallBack` (event, exit, entry), `SetState` |
| `processNextEvent` | `ProcessNextEvent` |
| `ForceSetState` | same name |

`SerialFsm` is what a caller may rely on. Under the mapping an event takes
effect when `transit` looks it up, although `state.current` changes only after
two callbacks: `Committed` is the state from then on. `ForceSetState` takes no
`slock`, so `SerialFsm` promises only that it may be without effect.

### UeAuth

`auth` is the `AuthContext` of the UE. The network is external: it uses the
`Sqn` and the `Milenage.ValidateAuts` of the same package. Ciphers are
symbolic: a function of the subscriber key is the tuple of its arguments, so
two results are equal exactly if their arguments are. `UeChallenged` delivers
any challenge ever sent, any number of times, with the SQN altered or not;
answers stay in `answers`, so they may be lost, repeated or late.

The order of the checks is the code's: the MAC under the UE's own AMF, then the
SQN (a smaller one is refused, an equal one accepted), then the counter and
the keys. `Reset` adds `SQN_IND - 1` and then increments, and so jumps to 0
beyond `SQN_MAX` instead of wrapping to the remainder. A UE whose counter is
that close to the end is locked out: it refuses every small SQN, and each AUTS
resets the network to 0 again. `wrapped` marks that point, and the properties
are stated up to it.

## 3. Runs

| Run | Instance | Shows |
|---|---|---|
| `one` | 1 unprompted UE, 2 NAS rounds, 1 retransmission of each, fair | `AmfUeIdEchoed`, `RelaysNas`, and that registration completes |
| `two` | 2 attaches, 1 round: an unprompted one, and one that may be refused halfway, malformed, bodiless and switched off | `NoNilUe`, `OwnCellGroup`, `InitialUeFirstUnlessOff`, `AmfUeIdGiven`, `StateOwned` while `cu.UE` is replaced |
| `overtake` | 1 attach that may be switched off | **violated**: a later NAS PDU becomes the InitialUEMessage |
| `raw` | DU that delivers only F1AP | **violated**: never registered |
| `reconnect` | 7 associations in sequence: a DU that reconnects, and one each with two cells, another network first, no cell, no network, the MNC digits in another order; fair | `NoNilDu`, `DownlinkFollows`, `OwnNetworkOnly`, `ValidAnswered` |
| `duplicate` | 2 overlapping associations, same gNB-DU ID | **violated**: the context of the first is replaced |
| `overlap` | 2 overlapping associations of different DUs | **violated**: the response to one goes to the other |
| `start` | channel of 2, 3 NGAP messages, 2 signals, fair | `F1AfterNg`, `Starts` |
| `stop` | 1 message, 1 signal, fair | **violated**: `Terminate` never gets past `Close` |
| `fsm` | 4 events (a change each way, a loop, a non-transitional one), 2 states, 2 workers, 1 forced state, fair | `SerialEvents`, `RunToCompletion`, `EventHandled` |
| `auth` | `SQN_MAX` 24, `SQN_IND` 4, 4 vectors, 2 given up, 20 pairs of initial counters, fair | `KeysAgree`, `KeyNeverOlder`, `InSync`, `Authenticates` |
| `amf` | 2 responses of up to 2 networks with up to 2 slices each | `NoNilSupport`, `SupportKept` |

The bounds. Two attaches are enough for one to replace the context of the
other at every point of every handler, which is the only way attaches affect
one another; the theorems cover any number. Two rounds and one retransmission
give a late answer, a repeated request and a following round at the same time.
In `two` the second attach may be good, refused, broken or switched off, so that
each of these meets every point of the first. Seven associations are one of each kind of F1SetupRequest
the handler distinguishes, and two valid ones for a reconnection. Three messages
against a channel of two overflow it. Four events are one of each kind that the
library distinguishes; they may all wait for the two workers, chain one another
or be sent from callbacks. Four vectors are a refused challenge, a given-up one,
a resynchronisation and a confirmed challenge with a late one besides; the
counters start at and next to both ends of their range, the network ahead,
level or behind. Two responses of two networks reach every branch of the list
walk. `MaxMsg`, `MaxSig`, `MaxForce`, `MaxVectors`, `MaxLost`, `MaxItems` and `MaxResponses`
bound the environment; nothing of the program is bounded, except that `auth`
scales `SQN_MAX` and `SQN_IND` down.

Deadlock is not checked: in each model the system may legitimately stop (all
messages handled, no more DUs, process exited).

Five runs expect a violation. Each has in `PROJECT.json` (`findings`) the
sentence of the documentation that the code contradicts. Two more findings belong
to passing runs: that `RegistrationCompletes` holds only for UEs that need no
SecurityModeCommand (`one`; with `Unprompted = {}` it fails), and that the order of
`F1AfterNg` (`start`), which the code and `planning.md:112-115` have, is the
reverse of the one in the project's README (lines 184-185).

## 4. Fairness

Weak fairness for every step of a goroutine that can run: the Go scheduler is
preemptive and starves none, and no handler waits for a lock. In `CuCp`
(`RegistrationCompletes`) also for the answers of the peers; no UE has to
attach, be switched off, and no timer has to expire first. In `F1Server` for
the request of a DU that has connected, never for connecting or
disconnecting. In `CuLifecycle` for the goroutines only: the AMF need never
send anything, and signals need not come. In `Fsm` for the workers and for the
goroutine that waits for `slock` or holds it: a Go mutex is handed over after a
bounded wait, and callbacks return because they must not wait for answers.
Nobody has to send an event. In `UeAuth` the fairness is the network's: it
tries again until a challenge is confirmed, and a challenge that it does not
give up, and the answer to it, get through.

## 5. Proofs

`CuCpProofs`, for every set of attaches, every number of rounds and
retransmissions, every set of tolerances and of malformed, bodiless and refused
messages, and UEs that complete AS security as early as they like:

* `TypeCorrect`, `NeverNilUe`, `ContextOwned` from the assumptions named in
  `CuCp` - notably that a DU gives each UE a different GNB-DU UE F1AP ID, which
  is all that separates two UEs in this program;
* `InitialOnceFirst`: `InitialUeFirstUnlessOff`, the order of the messages of
  every UE that speaks only when asked, whatever switched-off UEs do besides.
  The run `overtake` shows that the exception is needed;
* `IdGiven`: the id in a message to the AMF is one the AMF gave out, however
  many attaches overlap;
* `CellGroupOwn`: `OwnCellGroup`, that the crash at `protocol_f1c.go:260` needs
  the context of another attach;
* `IdEchoed`: `AmfUeIdEchoed`, until a second UE attaches.

None of the properties is inductive. `NoNilUe` says nothing about who may hold
which context, so `IInv` adds where every message comes from:

* `MsgCaused`, `F1Caused`, `NgCaused`, `AcceptCaused`: whatever is sent,
  received or stored about a UE exists because its RRC setup was accepted
  (`HasCell`) and, unless that UE is switched off, because the goroutine that sent
  its InitialUEMessage has returned (`Introduced`, `Known`). Hence no
  ULInformationTransfer of a UE is in flight while its RRCSetupComplete is
  being handled.
* `OwnContext`: an uplink handler that has passed the id check holds the
  context of the UE that sent its message. With `HasCell` this excludes a nil
  `NrCellId`.
* `Published`: `cu.UE` is set from the first `createUE` on, and never reset.
* `NasState`: the `State` that `SendNasPdu` is about to read is the one its
  own handler has assigned, and the message it builds has the matching type.

The proof has one lemma for message arrivals, one for the three steps of the
RRC setup, one for the uplink handlers, one for the downlink ones; lemmas
`OneGoroutine`, `Monotone` and `KnownStable` carry what other goroutines leave
unchanged, so that each case argues only about the conjuncts it can disturb.

**The order of the procedure.** `AmfUeIdGiven` is about a value that one handler
stores in a context and another sends, with attaches that replace each other's
context in `cu.UE`. A downlink message may well be applied to the wrong context;
what is proved is that nothing is then sent that was not filled in. The invariant
is `OrderInv`:

* `ContextAttached`: contexts that are in use (`cu.UE`, the `ue` of a
  goroutine, a context with a cell) are those of attaches.
* `SetupDone`: the setup of a context with a cell is over. `createUE` is the
  only place where `cu.UE` is assigned, so such a context never returns to
  `cu.UE` once another has replaced it (lemma `NeverBack`).
* `CellGroupSet`: a context with a cell has a cell group. With `MsgCaused` this
  gives `OwnCellGroup`: the UE of a UEContextSetupResponse has both.
* `Ordered`: how far the procedure must have come for a message to be received
  (`MsgOrder`), handled (`StepOrder`) or sent (`F1Order`, `NgOrder`). It is
  stated by facts that no step undoes (lemma `OrderStable`): `Given`, `HasId` and
  `CurrentHasId`.

`CurrentHasId` is the point of the argument. That a DownlinkNASTransport for
`a` has been handled does not mean that the context of `a` has an id: the id may
have gone into another context. But this happens only if `cu.UE` was no longer
`a`, and then it never is again, so the id check of
`handleULRRCMessageTransfer` drops every later answer of `a`. Hence "if `cu.UE`
is `a`, then `a` has an id" is kept, and an answer that passes the check finds
the id (`HasId`). The Registration Request and a switch-off are excepted, since
they answer nothing.

**Until a second UE attaches.** Which id a context holds can only be said while
`cu.UE` is not replaced. `AmfUeIdEchoed` is therefore stated under `OneAttach`, a
condition on the state: no second RRCSetupRequest has come yet. It covers the
first UE of every execution, for every set of attaches, and follows from `IInv`
and `OrderInv`: the only ids given out are then those of that attach. It excepts
UEs in `SwitchOff`, which may speak before the AMF has assigned an id.

`NasRelayProofs`: `Refinement`, that `CuCp` implements `NasRelay`, and
`RelayInOrder`, which follows for the implementation. Besides `IInv` the
refinement needs `RelayInv`: a NAS PDU that is under way answers one that was
relayed (`NasCaused`), and so does the Registration Accept kept in a context,
even if it is another UE's (`AcceptRelayed`); and a UE whose context the DU is
asked to set up was sent the last request (`ContextAsked`), which is when an
empty PDU may go out.

`F1ServerProofs`, for every set of associations and contents of the requests:
`TypeCorrect`, `NeverNilDu` and `OwnNetwork` with overlapping associations,
`Followed` without. `OwnNetwork` rests on the lemmas of
`PlmnProofs`. `IInv` says that a pointer is set before the step that
needs it (`Assigned`), that at most one association is being served if they do
not overlap (`Alone`), and that then `TempDuConn`, `cu.DU` and `SctpConn` are
those of this association (`Current`).

`TypeOK` needs `IInv` in `F1Server`: `SendF1ap` indexes `conn` with a pointer
that is nil until `SendF1SetupResponse` has set it.

`PlmnProofs`, for every MCC and every MNC of two or three digits: the octets
that the program builds are those of its peers and stand for one network only
(`Octets`, `Matches`, and the theorem `PlmnRoundTrip`), by cases on the number
of digits of the MNC.

`AmfContextProofs`, for every set of networks and slices and any number of
responses: `TypeCorrect`, `NeverNilSupport` and `NothingLost` (`SupportKept`).
`IInv` says that each list is `Linked`: what was told, node after node, with
the right counter. What remains is that one append keeps this (`AddedLinked`)
and that reading by index gives it back (`SupportLinked`). Both are about loops,
and the provers cannot use the library's induction rules, which take a
predicate as parameter. The argument is by the least counterexample instead:
a loop is compared with a closed form of its state after `k` turns
(`WalkExpected`, `ReachedLinked`); if they differed there would be a first turn
at which they do (`FirstTurn`, from the well-foundedness of the naturals, and
`EveryTurn`), and
one turn from the state before it gives the state after it (`TurnMoves`,
`TurnAppends`). `PlmnRoundTrip` shows that the digits stored are those told.

`CuLifecycleProofs`, for every channel capacity and number of messages and
signals: `TypeCorrect` and `NgBeforeF1`. The property is about two goroutines
that meet on `IsReadyNgap`, so `IInv` adds that a handler that is about to send
on the channel, and a `main` that has received from it, both find the AMF
active.

`FsmProofs`, for every table, set of events and number of workers:
`TypeCorrect`, `ChainedFirst` (`RunToCompletion`) and `Serialised`, the
refinement of `SerialFsm`. `IInv` says that exactly the holder of `slock` is
running, that a chained event is at `"chained"`, and that each event is in the
queue once; the refinement needs this to show that an event takes effect once.

`UeAuthProofs`, for every `SQN_MAX`, `SQN_IND`, initial counters and number of
vectors: `TypeCorrect`, `Agreement` (`KeysAgree`), `NoOlderKey` and `OneResync`
(`InSync`). The properties speak of the latest challenge only; `IInv` adds what
holds of all: the SQNs of the vectors increase up to the network's counter
(`Ordered`), the UE's counter and key are those of the challenge it accepted
last (`Accepted`), an answer RES* belongs to a challenge not after that one,
and an AUTS carries a counter beyond the SQN it refused, the UE's present
one if it answers the latest challenge (`Answered`). This last part is what
makes a late AUTS harmless.

Only model-checked: liveness (`RegistrationCompletes`, `ValidAnswered`,
`Starts`, `EventHandled`, `Authenticates`), because TLAPS does not reason about
fairness here. Every invariant and every other action property or refinement
of a passing run is also a theorem.

## 6. What makes each component correct

* Registration: no nil `cu.UE` or cell (`NoNilUe`), and no cell group missing from
  a UE's own context (`OwnCellGroup`); the AMF first hears of a UE through one
  InitialUEMessage (`InitialUeFirstUnlessOff`; without the exception,
  `InitialUeFirst`, it is violated); NAS is relayed unaltered and in causal order
  (`RelaysNas`); uplink messages carry an id the AMF gave out (`AmfUeIdGiven`),
  the first UE's its own (`AmfUeIdEchoed`); the `State` of a UE is changed by that
  UE only (`StateOwned`); a UE that attaches alone is registered, if its
  SecurityModeComplete is not early (`RegistrationCompletes`).

  Not promised, and reachable in the models with two attaches, which the
  project's README (lines 202-206) has as future work: the AMF UE NGAP ID and the
  Registration Accept of one UE may end up in the context of another
  (`handle_amf.go:131`, `:235`); `rrc.Encode` ends the process when a half-built or
  refused attach has replaced `cu.UE` (`protocol_f1c.go:260`); two contexts may get
  the same RRC UE id (`handle_ue.go:16`). A bodiless message ends the process with
  one attach already.
* F1AP server: answers go to the requester (`ResponseToRequester`, violated with
  overlapping associations), downlink traffic follows a reconnection
  (`DownlinkFollows`), `cu.DU` is never used
  unset (`NoNilDu`), only DUs of the own network are admitted
  (`OwnNetworkOnly`), valid requests are answered (`ValidAnswered`), ids are
  unique among connected DUs (`NoDuplicateDu`, violated).
* Lifecycle: no DU before the AMF (`F1AfterNg`), start-up completes (`Starts`),
  stopping releases the association and the listener (`GracefulShutdown`,
  violated).
* AMF context: what the AMF supports is kept and read back as told
  (`SupportKept`, `NoNilSupport`).
* FSM library: events take effect one at a time and completely
  (`SerialEvents`), chained events first (`RunToCompletion`), and none is
  forgotten (`EventHandled`).
* Authentication: both sides use the same key (`KeysAgree`), never an older one
  (`KeyNeverOlder`), one resynchronisation suffices (`InSync`), and
  authentication succeeds in the end (`Authenticates`).

## 7. Not modelled, and what is left

Not modelled:

* logging and YAML configuration: sequential, no state afterwards;
* the ASN.1 codecs, AES, HMAC and SCTP: external libraries, represented by
  their results;
* `uecontext/secctx.go`: called by nothing, a chain of derivations whose only
  failures are those of an external library;
* `common/utils/asn1.go` (5G-S-TMSI): shifts over bit strings whose alignment
  is the choice of the external decoders;
* `sctpserver.go`: commented out as a whole;
* E1AP and CU-UP: described in the documents, absent from the code;
* two NGSetupResponses handled at the same time in `AmfContext`: the program
  asks for one.

Left to do, in order:

1. Association loss in `CuCp`: `cu.DU` replaced and messages lost while a UE
   registers; composition with `F1Server`.
2. The lists of `AmfContext` with concurrent handlers, if the program ever
   repeats NG Setup.
