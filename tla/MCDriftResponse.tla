-------------------------- MODULE MCDriftResponse --------------------------
(***************************************************************************)
(* Small instances of DriftResponse for TLC.                               *)
(***************************************************************************)
EXTENDS DriftResponse, TLC

\* Devices are told apart and nothing else: safety only.
DeviceSymmetry == Permutations(Devices)
============================================================================
