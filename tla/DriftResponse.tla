--------------------------- MODULE DriftResponse ---------------------------
(***************************************************************************)
(* The DriftResponse workflow                                              *)
(* (orchestrator/snapl_orchestrator/workflows/drift_response.py): a run a  *)
(* drift schedule starts, its ScanDrift child, the devices it selects      *)
(* (remediation.py), its ReconcileDevices child and its audit records.     *)
(*                                                                         *)
(* The children are what their own modules promise: a scan returns one     *)
(* verdict per device, returns an empty result when it was cancelled,      *)
(* fails, or closes cancelled; a reconcile returns one result per device,  *)
(* fails or closes cancelled, and goes on when it outlives its run.  The   *)
(* retries of an audit write are one step.                                 *)
(***************************************************************************)
EXTENDS Integers, FiniteSets

CONSTANTS
    Devices,    \* of the use case
    MaxRuns     \* bound: runs of the schedule

\* "none" is the device of a record about the run as a whole.
ASSUME ResponseAssumption == MaxRuns \in Nat /\ "none" \notin Devices

VARIABLES
    run,    \* each run of the schedule: where it stands and what it knows
    log     \* the audit records of each run

vars == <<run, log>>

Runs == 1..MaxRuns

\* What a scan says of a device.  A forward device has at least one difference a
\* deploy can fix; it may have undesired config as well.
Verdicts == {"clean", "forward", "undesired", "errored"}

\* What a reconcile says of a device it was given.
Results == {"succeeded", "failed", "skipped"}

\* How far it is with the device: no deploy yet, one in flight, or the result.
Progress == Results \cup {"none", "deploying"}

Closed == {"RETURNED", "FAILED", "CANCELLED", "TIMED_OUT"}

\* How a child stands: not started, running, or how it closed.
Children == {"none", "open", "returned", "absorbed", "failed", "cancelled", "terminated"}

\* failure is what the run raises at its end; "none" when it returns a result.  patched
\* tells whether it started after abandon-remediation-on-close shipped.
NoRun == [pc |-> "none", mode |-> "report", patched |-> TRUE, cancel |-> "none", scan |-> "none",
          verdict |-> [d \in Devices |-> "clean"], repair |-> "none",
          result |-> [d \in Devices |-> "none"], targets |-> {}, failure |-> "none"]

Init ==
    /\ run = [n \in Runs |-> NoRun]
    /\ log = [n \in Runs |-> {}]

Change(n, r) == run' = [run EXCEPT ![n] = r]

Goto(n, pc) == Change(n, [run[n] EXCEPT !.pc = pc])

Open(n) == run[n].pc \notin Closed \cup {"none"}

\* The overlap policy is SKIP: the schedule starts a run when the last has closed.
Fire(n) ==
    /\ run[n].pc = "none"
    /\ \A other \in Runs : other < n => run[other].pc \in Closed
    /\ \E mode \in {"report", "remediate"}, patched \in BOOLEAN :
          Change(n, [NoRun EXCEPT !.pc = "starting", !.mode = mode, !.patched = patched])
    /\ UNCHANGED log

-----------------------------------------------------------------------------
(***************************************************************************)
(* Audit records                                                           *)
(***************************************************************************)

\* A record about the run as a whole (device "none"), or about one device.
Record(event, device, says) == [event |-> event, device |-> device, says |-> says]

Write(n, record) == log' = [log EXCEPT ![n] = @ \cup {record}]

\* remediation.select_remediation.
Fixable(n) == {d \in Devices : run[n].verdict[d] = "forward"}
Excluded(n) == {d \in Devices : run[n].verdict[d] \in {"undesired", "errored"}}

\* The devices of _device_payloads: none in report mode.
Decided(n) ==
    IF run[n].mode = "remediate" THEN run[n].targets \cup Excluded(n) ELSE {}

\* _remediation_result, or why the device was left alone.
Says(n, d) ==
    IF d \notin run[n].targets THEN run[n].verdict[d]
    ELSE IF run[n].repair = "returned" THEN run[n].result[d]
    ELSE "unknown"

Unrecorded(n) == {d \in Decided(n) : Record("response", d, Says(n, d)) \notin log[n]}

RecordStarted(n) ==
    /\ run[n].pc = "starting"
    /\ Write(n, Record("started", "none", run[n].mode))
    /\ Change(n, [run[n] EXCEPT !.pc = "scanning", !.scan = "open"])

\* One record per device repaired or excluded, in the order of the scan.
RecordDecision(n) ==
    /\ run[n].pc = "deciding"
    /\ \E d \in Unrecorded(n) : Write(n, Record("response", d, Says(n, d)))
    /\ UNCHANGED run

\* Then the record of the use case.
RecordSummary(n) ==
    /\ run[n].pc = "deciding" /\ Unrecorded(n) = {}
    /\ Write(n, Record("response", "none", run[n].mode))
    /\ Goto(n, "ending")

\* The run's last record: _record_end, or the success.
LastRecord(n) ==
    CASE run[n].failure = "none" -> Record("terminated", "none", "success")
      [] run[n].failure = "cancelled" -> Record("cancelled", "none", "cancelled")
      [] OTHER -> Record("terminated", "none", run[n].failure)

\* A run that raises closes cancelled only when it was asked to; a child that was
\* cancelled on its own makes it fail.
CloseAs(n) ==
    IF run[n].failure = "none" THEN "RETURNED"
    ELSE IF run[n].failure = "cancelled" /\ run[n].cancel # "none" THEN "CANCELLED"
    ELSE "FAILED"

RecordEnd(n) ==
    /\ run[n].pc = "ending"
    /\ Write(n, LastRecord(n))
    /\ Goto(n, CloseAs(n))

\* The records the run may be writing.
Writing(n) ==
    CASE run[n].pc = "starting" -> {Record("started", "none", run[n].mode)}
      [] run[n].pc = "deciding" /\ Unrecorded(n) # {} ->
            {Record("response", d, Says(n, d)) : d \in Unrecorded(n)}
      [] run[n].pc = "deciding" -> {Record("response", "none", run[n].mode)}
      [] run[n].pc = "ending" -> {LastRecord(n)}
      [] OTHER -> {}

\* A write whose last attempt failed, or that a cancellation broke into, ends the run
\* at once: nothing catches it.  The record may be in the log all the same.
RecordBreaks(n) ==
    /\ Writing(n) # {}
    /\ \/ Goto(n, "FAILED")
       \/ run[n].cancel = "requested" /\ Goto(n, "CANCELLED")
    /\ \/ UNCHANGED log
       \/ \E record \in Writing(n) : Write(n, record)

-----------------------------------------------------------------------------
(***************************************************************************)
(* The scan                                                                *)
(***************************************************************************)

\* The ScanDrift child closes: with a verdict for every device, with the empty
\* result of a scan that was cancelled, or without a result.
ScanCloses(n) ==
    /\ run[n].scan = "open"
    /\ \/ \E verdict \in [Devices -> Verdicts] :
             Change(n, [run[n] EXCEPT !.scan = "returned", !.verdict = verdict])
       \/ \E how \in {"absorbed", "failed", "cancelled"} :
             Change(n, [run[n] EXCEPT !.scan = how])
    /\ UNCHANGED log

\* Seeded fault: the empty result of a cancelled scan is taken for a clean scan.
HearAnyScan(n) ==
    /\ run[n].pc = "scanning" /\ run[n].scan \in {"returned", "absorbed"}
    /\ IF run[n].mode = "remediate" /\ Fixable(n) # {}
         THEN Change(n, [run[n] EXCEPT !.pc = "repairing", !.repair = "open",
                                       !.targets = Fixable(n)])
         ELSE Goto(n, "deciding")
    /\ UNCHANGED log

\* The scan returned: a remediate run with something to fix starts the reconcile.
HearScan(n) ==
    /\ run[n].pc = "scanning" /\ run[n].scan = "returned"
    /\ IF run[n].mode = "remediate" /\ Fixable(n) # {}
         THEN Change(n, [run[n] EXCEPT !.pc = "repairing", !.repair = "open",
                                       !.targets = Fixable(n)])
         ELSE Goto(n, "deciding")
    /\ UNCHANGED log

\* Seeded fault: the reason recorded is the state of the child.
HearNoScanRaw(n) ==
    /\ run[n].pc = "scanning" /\ run[n].scan \in {"absorbed", "failed", "cancelled"}
    /\ Change(n, [run[n] EXCEPT !.pc = "ending", !.failure = run[n].scan])
    /\ UNCHANGED log

\* The scan evaluated nothing: it failed, closed cancelled, or returned the empty
\* result of a scan cancelled on its own.
HearNoScan(n) ==
    /\ run[n].pc = "scanning" /\ run[n].scan \in {"absorbed", "failed", "cancelled"}
    /\ Change(n, [run[n] EXCEPT !.pc = "ending",
                                !.failure = CASE run[n].scan = "absorbed" -> "scan_cancelled"
                                              [] run[n].scan = "failed" -> "intent_unavailable"
                                              [] run[n].scan = "cancelled" -> "cancelled"])
    /\ UNCHANGED log

-----------------------------------------------------------------------------
(***************************************************************************)
(* The repair                                                              *)
(***************************************************************************)

\* A deploy of the device is in flight for another repair of the schedule.
InFlight(d) == \E n \in Runs : run[n].result[d] = "deploying"

Advance(n, d, progress) ==
    /\ run[n].repair = "open" /\ d \in run[n].targets
    /\ Change(n, [run[n] EXCEPT !.result[d] = progress])
    /\ UNCHANGED log

\* The reconcile starts the device's deploy, which has one workflow id per device.
DeployStarts(n, d) ==
    /\ run[n].result[d] = "none" /\ ~InFlight(d)
    /\ Advance(n, d, "deploying")

\* Another deploy of the device is in flight: of an earlier run, or of an operator.
DeploySkipped(n, d) == run[n].result[d] = "none" /\ Advance(n, d, "skipped")

DeployCloses(n, d) ==
    /\ run[n].result[d] = "deploying"
    /\ \E result \in {"succeeded", "failed"} : Advance(n, d, result)

\* What closing does to the deploys in flight: the server terminates them.
Cut(n) == [d \in Devices |-> IF run[n].result[d] = "deploying" THEN "failed"
                             ELSE run[n].result[d]]

\* The ReconcileDevices child closes, perhaps after the run that started it: with a
\* result for every device, or without one.
RepairCloses(n) ==
    /\ run[n].repair = "open"
    /\ \/ /\ \A d \in run[n].targets : run[n].result[d] \in Results
          /\ Change(n, [run[n] EXCEPT !.repair = "returned"])
       \/ \E how \in {"failed", "cancelled"} :
             Change(n, [run[n] EXCEPT !.repair = how, !.result = Cut(n)])
    /\ UNCHANGED log

\* Seeded fault: a reconcile that failed ends the run before the decisions are recorded.
HearRepairRaising(n) ==
    /\ run[n].pc = "repairing" /\ run[n].repair \in {"returned", "failed", "cancelled"}
    /\ Change(n, [run[n] EXCEPT
           !.pc = IF run[n].repair = "returned" THEN "deciding" ELSE "ending",
           !.failure = CASE run[n].repair = "returned" -> "none"
                         [] run[n].repair = "failed" -> "remediation_failed"
                         [] run[n].repair = "cancelled" -> "cancelled"])
    /\ UNCHANGED log

\* Seeded fault: a run that has passed its cancellation on no longer listens.
HearRepairDeaf(n) ==
    /\ run[n].pc = "repairing" /\ run[n].repair \in {"returned", "failed", "cancelled"}
    /\ run[n].cancel # "delivered"
    /\ Change(n, [run[n] EXCEPT
           !.pc = "deciding",
           !.failure = CASE run[n].repair = "returned" -> "none"
                         [] run[n].repair = "failed" -> "remediation_failed"
                         [] run[n].repair = "cancelled" -> "cancelled"])
    /\ UNCHANGED log

\* The reconcile's failure is kept until every decision is recorded.
HearRepair(n) ==
    /\ run[n].pc = "repairing" /\ run[n].repair \in {"returned", "failed", "cancelled"}
    /\ Change(n, [run[n] EXCEPT
           !.pc = "deciding",
           !.failure = CASE run[n].repair = "returned" -> "none"
                         [] run[n].repair = "failed" -> "remediation_failed"
                         [] run[n].repair = "cancelled" -> "cancelled"])
    /\ UNCHANGED log

-----------------------------------------------------------------------------
(***************************************************************************)
(* Cancelling, and the server                                              *)
(***************************************************************************)

RequestCancel(n) ==
    /\ Open(n) /\ run[n].cancel = "none"
    /\ Change(n, [run[n] EXCEPT !.cancel = "requested"])
    /\ UNCHANGED log

\* A cancelled run asks its scan to cancel and does not wait for it (TRY_CANCEL).
CancelScan(n) ==
    /\ run[n].pc = "scanning" /\ run[n].cancel = "requested"
    /\ Change(n, [run[n] EXCEPT !.cancel = "delivered", !.pc = "ending",
                                !.failure = "cancelled"])
    /\ UNCHANGED log

\* It asks its reconcile too, and waits: however that closes is heard by HearRepair.
CancelRepair(n) ==
    /\ run[n].pc = "repairing" /\ run[n].cancel = "requested"
    /\ Change(n, [run[n] EXCEPT !.cancel = "delivered"])
    /\ UNCHANGED log

\* RUN_TIMEOUT, or an operator's terminate: the server closes the run without running
\* its code.  The record it was writing may land all the same; whether it does so at once or
\* later makes no difference to a run that is over.
CloseByServer(n) ==
    /\ Open(n)
    /\ Goto(n, "TIMED_OUT")
    /\ \/ UNCHANGED log
       \/ \E record \in Writing(n) : Write(n, record)

\* Parent close policy TERMINATE, the default: the server terminates the scan of a
\* run that has closed.
TerminateScan(n) ==
    /\ run[n].pc \in Closed /\ run[n].scan = "open"
    /\ Change(n, [run[n] EXCEPT !.scan = "terminated"])
    /\ UNCHANGED log

\* The repair is abandoned, unless the run is older than the patch.
TerminateRepair(n) ==
    /\ run[n].pc \in Closed /\ run[n].repair = "open" /\ ~run[n].patched
    /\ Change(n, [run[n] EXCEPT !.repair = "terminated", !.result = Cut(n)])
    /\ UNCHANGED log

-----------------------------------------------------------------------------
(***************************************************************************)
(* Specification                                                           *)
(***************************************************************************)

\* What a worker does for the run.
Works(n) ==
    \/ RecordStarted(n) \/ RecordDecision(n) \/ RecordSummary(n) \/ RecordEnd(n)
    \/ RecordBreaks(n) \/ HearScan(n) \/ HearNoScan(n) \/ HearRepair(n)
    \/ CancelScan(n) \/ CancelRepair(n)

Next ==
    \E n \in Runs :
        \/ Fire(n) \/ Works(n) \/ ScanCloses(n) \/ RepairCloses(n)
        \/ \E d \in Devices : DeployStarts(n, d) \/ DeploySkipped(n, d) \/ DeployCloses(n, d)
        \/ RequestCancel(n) \/ CloseByServer(n) \/ TerminateScan(n) \/ TerminateRepair(n)

Spec == Init /\ [][Next]_vars

\* A worker is running, and a scan and a reconcile close in one way or another, as their
\* own modules promise of them.  Nothing is asked of the timeout: the runs of a schedule made
\* before runs had one do not reach it.
FairSpec ==
    /\ Spec
    /\ \A n \in Runs : WF_vars(Works(n)) /\ WF_vars(ScanCloses(n)) /\ WF_vars(RepairCloses(n))

-----------------------------------------------------------------------------
(***************************************************************************)
(* What is promised                                                        *)
(***************************************************************************)

Failures == {"none", "scan_cancelled", "intent_unavailable", "remediation_failed", "cancelled"}

Saying == {"report", "remediate", "success", "unknown"} \cup Failures \cup Results \cup Verdicts

\* Type correctness.
TypeOK ==
    /\ run \in [Runs ->
          [pc : {"none", "starting", "scanning", "repairing", "deciding", "ending"} \cup Closed,
           mode : {"report", "remediate"}, patched : BOOLEAN, cancel : {"none", "requested", "delivered"},
           scan : Children, verdict : [Devices -> Verdicts], repair : Children,
           result : [Devices -> Progress], targets : SUBSET Devices,
           failure : Failures]]
    /\ \A n \in Runs : log[n] \subseteq
          [event : {"started", "response", "terminated", "cancelled"},
           device : Devices \cup {"none"}, says : Saying]

\* models.py:135: a cancelled scan must not read as a clean one.  A run that returns a
\* result has the verdict of every device, and its log no other ending.
ReturnedMeansScanned ==
    \A n \in Runs : run[n].pc = "RETURNED" =>
        /\ run[n].scan = "returned"
        /\ run[n].targets # {} => run[n].repair = "returned"
        /\ \A record \in log[n] : record.event # "cancelled"

\* The run got as far as deciding what to do with each device.
Heard(n) == run[n].repair # "none" \/ run[n].failure = "none"

\* specs/009 FR-020: when the run's last record is in the log, so is what it decided
\* on every device it repaired or excluded, each once and as the reconcile told it.  There
\* is one last record, and it fits how the run closed: a run that returned says success,
\* and a run that says success was about to return.
DecisionsAreRecorded ==
    \A n \in Runs :
        LET endings == {x \in log[n] : x.event \in {"terminated", "cancelled"}}
            success == Record("terminated", "none", "success")
        IN /\ endings # {} =>
                 \A d \in Devices :
                    {record.says : record \in {x \in log[n] : x.device = d}} =
                        IF d \in Decided(n) /\ Heard(n) THEN {Says(n, d)} ELSE {}
           /\ Cardinality(endings) <= 1
           /\ run[n].pc = "RETURNED" => success \in log[n]
           /\ success \in log[n] => run[n].failure = "none"

\* schedules.py:75: with overlap SKIP a run that does not end holds the schedule's slot.  A
\* run hears its scan and its repair however they close, its own cancellation in between or
\* not, writes its records or gives them up, and ends without a timeout to end it.
SlotIsGivenBack == \A n \in Runs : Open(n) ~> ~Open(n)

============================================================================
