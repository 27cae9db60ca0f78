--------------------------- MODULE MCDeployIntent ---------------------------
(***************************************************************************)
(* Small instances of DeployIntent for TLC.                                *)
(***************************************************************************)
EXTENDS DeployIntent, TLC

\* Every path is a field of one entity, so that a field intent leaves unset can
\* stand beside one it sets.
OneEntity == [p \in Paths |-> "entity"]

\* Configuration values are told apart and nothing else: safety only.
ValueSymmetry == Permutations(Values) \cup Permutations(Paths)
============================================================================
