-------------------------- MODULE MCDriftSchedule --------------------------
(***************************************************************************)
(* Small instances of DriftSchedule for TLC.                               *)
(***************************************************************************)
EXTENDS DriftSchedule, TLC

\* The use case has a schedule an operator made, in either mode, paused or not; or one whose
\* interval was replaced outside snapl; or a running one from before runs had a timeout; or
\* none.
Settled == {NoSchedule} \cup
    {s \in [exists : {TRUE}, interval : Intervals \cup {"none"}, mode : Modes,
            paused : BOOLEAN, timeout : {"RUN_TIMEOUT", "none"}, running : {0}] :
        s.timeout = "RUN_TIMEOUT" \/ (~s.paused /\ s.interval # "none")}

\* Operators and intervals are told apart and nothing else: safety only.
OperatorSymmetry == Permutations(Operators) \cup Permutations(Intervals)
============================================================================
