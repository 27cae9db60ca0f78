--------------------------- MODULE DeployContract ---------------------------
(***************************************************************************)
(* What a deploy promises its callers (the CLI, ReconcileDevices), stated  *)
(* without its activities, attempts or audit records: at most one          *)
(* execution per device is open, each closes once, and how it closed says  *)
(* whether the device was written.  DeployIntent implements this module;   *)
(* what composes deploys is modelled over it.                              *)
(***************************************************************************)
EXTENDS Integers

CONSTANTS Devices, MaxRuns

VARIABLES
    open,     \* is an execution of the device's workflow id open?
    runs,     \* how many have been started
    ended,    \* how each of them closed
    written   \* which of them reached the device

contractVars == <<open, runs, ended, written>>

\* The device was certainly written, and verified after it.
Touched == {"SUCCEEDED", "VERIFICATION_FAILED", "COLLECT_FAILED"}

\* The device was certainly not written, and never will be by this run.
Untouched == {"DEVICE_NOT_FOUND", "INTENT_UNAVAILABLE"}

\* Nothing is promised about the device.
Uncertain == {"APPLY_FAILED", "CANCELLED", "FAILED_STATUS", "CANCELLED_STATUS",
              "TERMINATED_STATUS"}

ContractInit ==
    /\ open = [d \in Devices |-> FALSE]
    /\ runs = [d \in Devices |-> 0]
    /\ ended = [d \in Devices |-> [n \in 1..MaxRuns |-> "open"]]
    /\ written = [d \in Devices |-> [n \in 1..MaxRuns |-> FALSE]]

Start(d) ==
    /\ ~open[d]
    /\ runs[d] < MaxRuns
    /\ open' = [open EXCEPT ![d] = TRUE]
    /\ runs' = [runs EXCEPT ![d] = @ + 1]
    /\ UNCHANGED <<ended, written>>

\* A SET of run n reaches the device, perhaps long after the run closed.
Write(d, n) ==
    /\ n <= runs[d]
    /\ ended[d][n] \notin Untouched
    /\ written' = [written EXCEPT ![d][n] = TRUE]
    /\ UNCHANGED <<open, runs, ended>>

End(d, ending) ==
    /\ open[d]
    /\ ending \in Touched => written[d][runs[d]]
    /\ ending \in Untouched => ~written[d][runs[d]]
    /\ open' = [open EXCEPT ![d] = FALSE]
    /\ ended' = [ended EXCEPT ![d][runs[d]] = ending]
    /\ UNCHANGED <<runs, written>>

ContractNext ==
    \E d \in Devices :
        \/ Start(d)
        \/ \E n \in 1..MaxRuns : Write(d, n)
        \/ \E ending \in Touched \cup Untouched \cup Uncertain : End(d, ending)

ContractSpec == ContractInit /\ [][ContractNext]_contractVars
============================================================================
