------------------------------- MODULE MCCuCp -------------------------------
(***************************************************************************)
(* Instances of CuCp for TLC.                                              *)
(***************************************************************************)
EXTENDS CuCp, TLC

CONSTANTS a1, a2

\* GNB-DU UE F1AP IDs and AMF UE NGAP IDs: different from each other, from
\* the DU id and from the placeholder 1 of createUE.
MCDuUeId == [a \in Attach |-> IF a = a1 THEN 41 ELSE 42]
MCAmfUeId == [a \in Attach |-> IF a = a1 THEN 11 ELSE 12]

AllTolerances == {"wrong_dl_ids", "raw_rrc"}
NoRawTolerance == {"wrong_dl_ids"}

\* Messages of a2 that may be refused, and that may end the process.
MCMalformed == {In("RRCSetupRequest", a2, 0, 0),
                In("ULInformationTransfer", a2, 1, 0)}
MCBodiless == {In("RRCSetupRequest", a2, 0, 0),
               In("RRCSetupComplete", a2, 0, 0),
               In("ULInformationTransfer", a2, Off, 0)}
=============================================================================
