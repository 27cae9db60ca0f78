---------------------------- MODULE MCReconcile ----------------------------
(***************************************************************************)
(* Small instances of Reconcile for TLC.                                   *)
(***************************************************************************)
EXTENDS Reconcile, TLC

\* One ending for each of the ways ReconcileDevices tells apart, and a deploy that
\* wrote the device without having it verified.
OneOfEach == {"SUCCEEDED", "VERIFICATION_FAILED", "APPLY_FAILED", "DEVICE_NOT_FOUND", "FAILED_STATUS",
              "CANCELLED_STATUS"}
============================================================================
