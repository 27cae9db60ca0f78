---------------------------- MODULE MCScanDrift ----------------------------
(***************************************************************************)
(* Small instances of ScanDrift for TLC.                                   *)
(***************************************************************************)
EXTENDS ScanDrift, TLC

\* What a device may be meant to carry: what it carries, or something else.
TwoVersions == 1..2

\* Which of two versions a device is meant to carry tells nothing, and neither does what a
\* device carries that is not in the source of truth: one of each kind is enough.
OneOfAKind ==
    /\ Init
    /\ \A d \in Devices :
          /\ intent[d] \in {1, Absent}
          /\ intent[d] = Absent => config[d] = [half \in Halves |-> 1]

FairSpecOfEachKind == OneOfAKind /\ [][Next]_vars /\ WF_vars(Works)
============================================================================
