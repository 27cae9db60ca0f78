---------------------------- MODULE DeployIntent ----------------------------
(***************************************************************************)
(* The DeployIntent workflow                                               *)
(* (orchestrator/snapl_orchestrator/workflows/deploy_intent.py) as Temporal *)
(* runs it: fetch intent, apply it, collect the device's state, compare    *)
(* the two, and write an audit record around every one of these steps.     *)
(*                                                                         *)
(* An execution is a chain of awaits.  At each await one activity attempt  *)
(* is in flight; it answers, or it is lost (worker crash, start-to-close   *)
(* timeout) and Temporal retries it up to the policy's maximum.  A         *)
(* cancellation is delivered once, at whatever await the execution stands. *)
(* What a lost or cancelled attempt was doing is not undone: its gNMI SET  *)
(* and its INSERT may still land later, or never.                          *)
(*                                                                         *)
(* A configuration maps every path to a value or to Unset.  A deploy is a  *)
(* gNMI update at "/", a merge: it sets the paths intent names and leaves  *)
(* the others alone.                                                       *)
(***************************************************************************)
EXTENDS Integers

CONSTANTS
    Devices,          \* the devices of the source of truth
    Paths, Values,    \* the configuration items compared, and what they may hold
    EntityOf,         \* the interface, session ... of which a path is a field
    Unset,            \* a path that carries nothing
    Missing,          \* no desired state, or no successful collection
    MaxRuns,          \* bound: executions of one device's workflow id
    AuditAttempts,    \* _AUDIT_RETRY.maximum_attempts
    FetchAttempts,    \* _INTENT_RETRY.maximum_attempts
    ApplyAttempts,    \* _APPLY_RETRY.maximum_attempts
    CollectAttempts,  \* _COLLECT_RETRY.maximum_attempts
    DetectAttempts,   \* _DETECT_RETRY.maximum_attempts
    Timeouts          \* may an attempt outlive its start-to-close timeout?

ASSUME BoundsAssumption ==
    /\ MaxRuns \in Nat \ {0}
    /\ AuditAttempts \in Nat \ {0}
    /\ FetchAttempts \in Nat \ {0}
    /\ ApplyAttempts \in Nat \ {0}
    /\ CollectAttempts \in Nat \ {0}
    /\ DetectAttempts \in Nat \ {0}
    /\ Timeouts \in BOOLEAN

ASSUME NullAssumption ==
    /\ Unset \notin Values
    /\ Missing \notin [Paths -> Values \cup {Unset}]

VARIABLES
    intent,   \* the source of truth: each device's desired state
    config,   \* the configuration each device carries
    runs,     \* how many executions of each workflow id have been started
    exec,     \* the open execution of each workflow id, or Idle
    cancel,   \* its cancellation request: none, requested or delivered
    ended,    \* how each execution closed
    stored,   \* the rows of the audit log
    writing,  \* INSERTs whose attempt was abandoned and that may still commit
    setting,  \* gNMI SETs whose attempt was abandoned and that may still land
    landed,   \* history: the executions a SET of which reached the device
    writer,   \* history: the execution whose SET reached the device last
    edited    \* history: was the device configured by hand since the last collect?

vars == <<intent, config, runs, exec, cancel, ended, stored, writing, setting,
          landed, writer, edited>>

(***************************************************************************)
(* Data                                                                    *)
(***************************************************************************)

Runs == 1..MaxRuns

Config == [Paths -> Values \cup {Unset}]

\* DesiredState of a device, as the SoT returns it; Missing when it has none.
Intents == Config \cup {Missing}

Merge(carried, desired) ==
    [p \in Paths |-> IF desired[p] = Unset THEN carried[p] ELSE desired[p]]

\* Intent has the entity a path is a field of.
Wanted(desired, p) ==
    \E q \in Paths : EntityOf[q] = EntityOf[p] /\ desired[q] # Unset

\* Every field of an entity intent has is compared, also one intent leaves unset.
Forward(desired, carried) ==
    {p \in Paths : Wanted(desired, p) /\ carried[p] # desired[p]}

Undesired(desired, carried) ==
    {p \in Paths : ~Wanted(desired, p) /\ carried[p] # Unset}

\* What detect_drift reports: an unsuccessful collection is an ERROR report, a
\* report whose every item is undesired is told apart from real drift.
Compare(desired, seen) ==
    IF seen = Missing THEN "ERROR"
    ELSE IF Forward(desired, seen) # {} THEN "FORWARD"
    ELSE IF Undesired(desired, seen) # {} THEN "UNDESIRED"
    ELSE "CLEAN"

Reports == {"CLEAN", "UNDESIRED", "FORWARD", "ERROR"}

\* WorkflowReason, as far as DeployIntent uses it.
Reasons == {"SUCCEEDED", "DEVICE_NOT_FOUND", "INTENT_UNAVAILABLE",
            "APPLY_FAILED", "COLLECT_FAILED", "VERIFICATION_FAILED",
            "CANCELLED"}

\* The terminal classification of a report.
Classify(report) ==
    IF report \in {"CLEAN", "UNDESIRED"} THEN "SUCCEEDED"
    ELSE IF report = "FORWARD" THEN "VERIFICATION_FAILED"
    ELSE "COLLECT_FAILED"

\* The awaits of one execution: a record being written, or an activity.
Recording == {"started", "fetched", "applied", "collected", "detected",
              "terminating", "cancelling"}
Activities == {"fetch", "apply", "collect", "detect"}
Terminal == {"terminating", "cancelling"}

Step == [started |-> "fetch", fetched |-> "apply", applied |-> "collect",
         collected |-> "detect"]

Attempts(pc) ==
    CASE pc = "fetch" -> FetchAttempts
      [] pc = "apply" -> ApplyAttempts
      [] pc = "collect" -> CollectAttempts
      [] pc = "detect" -> DetectAttempts
      [] OTHER -> AuditAttempts

\* The reason an activity's last failed attempt ends the deploy with.
FailureOf == [fetch |-> "INTENT_UNAVAILABLE", apply |-> "APPLY_FAILED",
              collect |-> "COLLECT_FAILED", detect |-> "COLLECT_FAILED"]

NoConfig == [p \in Paths |-> Unset]

Idle == [pc |-> "idle", attempt |-> 1, desired |-> NoConfig, seen |-> Missing,
         report |-> "ERROR", reason |-> "none"]

Execution == [pc : Recording \cup Activities \cup {"idle"},
              attempt : Nat \ {0},
              desired : Config,
              seen : Config \cup {Missing},
              report : Reports,
              reason : Reasons \cup {"none"}]

\* An audit event: its id is drawn once per await, so every attempt of one
\* await carries the same event.
Record == [run : Runs, event : Recording, reason : Reasons \cup {"none"}]

\* A SET in an executor thread.  It holds the per-host lock unless its activity
\* task was cancelled under it: a timeout does that, a workflow cancel does not.
Set == [run : Runs, attempt : Nat \ {0}, desired : Config, locked : BOOLEAN]

\* A returned result, or the closed status Temporal gives an execution that
\* returned none.
Endings == Reasons \cup {"FAILED_STATUS", "CANCELLED_STATUS", "TERMINATED_STATUS"}

-----------------------------------------------------------------------------
(***************************************************************************)
(* Starting, closing and the awaits in between                             *)
(***************************************************************************)

Open(d) == exec[d].pc # "idle"

Init ==
    /\ intent \in [Devices -> Intents]
    /\ config \in [Devices -> Config]
    /\ runs = [d \in Devices |-> 0]
    /\ exec = [d \in Devices |-> Idle]
    /\ cancel = [d \in Devices |-> "none"]
    /\ ended = [d \in Devices |-> [r \in Runs |-> "open"]]
    /\ stored = [d \in Devices |-> {}]
    /\ writing = [d \in Devices |-> {}]
    /\ setting = [d \in Devices |-> {}]
    /\ landed = [d \in Devices |-> {}]
    /\ writer = [d \in Devices |-> 0]
    /\ edited = [d \in Devices |-> FALSE]

\* The workflow id is deploy-intent-{device}: Temporal starts an execution only
\* while none is open.  A second caller joins the open one (CLI, USE_EXISTING)
\* or is refused (reconcile, WorkflowAlreadyStartedError); neither changes it.
StartDeploy(d) ==
    /\ ~Open(d)
    /\ runs[d] < MaxRuns
    /\ runs' = [runs EXCEPT ![d] = @ + 1]
    /\ exec' = [exec EXCEPT ![d] = [Idle EXCEPT !.pc = "started"]]
    /\ UNCHANGED <<intent, config, cancel, ended, stored, writing, setting,
                   landed, writer, edited>>

\* Seeded fault: attempts counted from zero.
AwaitFromZero(d, pc) ==
    exec' = [exec EXCEPT ![d] = [@ EXCEPT !.pc = pc, !.attempt = 0]]

\* The next await of the execution of d, its first attempt.
Await(d, pc) ==
    exec' = [exec EXCEPT ![d] = [@ EXCEPT !.pc = pc, !.attempt = 1]]

\* _terminate_success, _terminate_failure, _terminate_verification_failed: each
\* awaits the terminal record first and returns its WorkflowResult after it.
Terminate(d, reason) ==
    exec' = [exec EXCEPT ![d] =
                [@ EXCEPT !.pc = "terminating", !.attempt = 1, !.reason = reason]]

\* _terminate_cancelled.  The reason is the result's: its record carries none.
TerminateCancelled(d) ==
    exec' = [exec EXCEPT ![d] =
                [@ EXCEPT !.pc = "cancelling", !.attempt = 1, !.reason = "CANCELLED"]]

\* The run method is over: it returned a result or raised.
Close(d, ending) ==
    /\ ended' = [ended EXCEPT ![d][runs[d]] = ending]
    /\ exec' = [exec EXCEPT ![d] = [Idle EXCEPT !.desired = exec[d].desired]]
    /\ cancel' = [cancel EXCEPT ![d] = "none"]

\* The event of this await.  WORKFLOW_CANCELLED is recorded without a reason.
RecordOf(d) ==
    [run |-> runs[d], event |-> exec[d].pc,
     reason |-> IF exec[d].pc = "cancelling" THEN "none" ELSE exec[d].reason]

\* An attempt that was abandoned may or may not still be inside its INSERT.
AbandonWrite(d) ==
    \/ UNCHANGED writing
    \/ writing' = [writing EXCEPT ![d] = @ \cup {RecordOf(d)}]

\* An attempt that was abandoned may or may not still be inside its SET.
AbandonSet(d, locked) ==
    \/ UNCHANGED setting
    \/ setting' = [setting EXCEPT ![d] = @ \cup
                     {[run |-> runs[d], attempt |-> exec[d].attempt,
                       desired |-> exec[d].desired, locked |-> locked]}]

-----------------------------------------------------------------------------
(***************************************************************************)
(* _record_event                                                           *)
(***************************************************************************)

\* The event is in the log (appended now, or by an earlier attempt of the same
\* await) and the workflow moves to what follows the await.
RecordWritten(d) ==
    LET e == exec[d] IN
    /\ e.pc \in Recording
    /\ stored' = [stored EXCEPT ![d] = @ \cup {RecordOf(d)}]
    /\ \/ /\ e.pc \in DOMAIN Step
          /\ Await(d, Step[e.pc])
          /\ UNCHANGED <<ended, cancel>>
       \/ /\ e.pc = "detected"
          /\ Terminate(d, Classify(e.report))
          /\ UNCHANGED <<ended, cancel>>
       \/ /\ e.pc \in Terminal
          /\ Close(d, e.reason)
    /\ UNCHANGED <<intent, config, runs, writing, setting, landed, writer, edited>>

\* Seeded fault: auditing is best effort, a record that cannot be written is
\* given up and the workflow goes on.
RecordAttemptFailsQuietly(d) ==
    LET e == exec[d] IN
    /\ e.pc \in Recording
    /\ \/ e.pc \in DOMAIN Step /\ Await(d, Step[e.pc]) /\ UNCHANGED <<ended, cancel>>
       \/ e.pc = "detected" /\ Terminate(d, Classify(e.report)) /\ UNCHANGED <<ended, cancel>>
       \/ e.pc \in Terminal /\ Close(d, e.reason)
    /\ UNCHANGED <<intent, config, runs, stored, writing, setting, landed, writer, edited>>

\* An attempt is lost or raises AuditLogError.  No _record_event stands in a
\* try: when the last attempt fails the ActivityError ends the execution.
RecordAttemptFails(d) ==
    LET e == exec[d] IN
    /\ e.pc \in Recording
    /\ AbandonWrite(d)
    /\ \/ /\ e.attempt < AuditAttempts
          /\ exec' = [exec EXCEPT ![d].attempt = @ + 1]
          /\ UNCHANGED <<ended, cancel>>
       \/ /\ e.attempt = AuditAttempts
          /\ Close(d, "FAILED_STATUS")
    /\ UNCHANGED <<intent, config, runs, stored, setting, landed, writer, edited>>

\* The INSERT of an abandoned attempt commits: ON CONFLICT(event_id) DO NOTHING.
LateRecord(d) ==
    \E r \in writing[d] :
        /\ writing' = [writing EXCEPT ![d] = @ \ {r}]
        /\ stored' = [stored EXCEPT ![d] = @ \cup {r}]
        /\ UNCHANGED <<intent, config, runs, exec, cancel, ended, setting,
                       landed, writer, edited>>

-----------------------------------------------------------------------------
(***************************************************************************)
(* The activities                                                          *)
(***************************************************************************)

\* Seeded fault: a retry policy without maximum_attempts.
AttemptFailsForever(d, pc) ==
    /\ exec[d].pc = pc
    /\ UNCHANGED <<intent, runs, exec, cancel, ended, stored, writing, edited>>

\* An attempt of activity pc is lost or raises a retryable error.
AttemptFails(d, pc) ==
    /\ exec[d].pc = pc
    /\ \/ /\ exec[d].attempt < Attempts(pc)
          /\ exec' = [exec EXCEPT ![d].attempt = @ + 1]
       \/ /\ exec[d].attempt = Attempts(pc)
          /\ Terminate(d, FailureOf[pc])
    /\ UNCHANGED <<intent, runs, cancel, ended, stored, writing, edited>>

\* Seeded fault: the fetched intent goes to apply without its record.
FetchSucceedsUnrecorded(d) ==
    /\ exec[d].pc = "fetch"
    /\ intent[d] # Missing
    /\ exec' = [exec EXCEPT ![d] =
                   [@ EXCEPT !.pc = "apply", !.attempt = 1, !.desired = intent[d]]]
    /\ UNCHANGED <<intent, config, runs, cancel, ended, stored, writing,
                   setting, landed, writer, edited>>

FetchSucceeds(d) ==
    /\ exec[d].pc = "fetch"
    /\ intent[d] # Missing
    /\ exec' = [exec EXCEPT ![d] =
                   [@ EXCEPT !.pc = "fetched", !.attempt = 1, !.desired = intent[d]]]
    /\ UNCHANGED <<intent, config, runs, cancel, ended, stored, writing,
                   setting, landed, writer, edited>>

\* IntentNotFoundError and IntentValidationError are not retried.
FetchRejected(d) ==
    /\ exec[d].pc = "fetch"
    /\ \/ /\ intent[d] = Missing
          /\ Terminate(d, "DEVICE_NOT_FOUND")
       \/ /\ intent[d] # Missing
          /\ Terminate(d, "INTENT_UNAVAILABLE")
    /\ UNCHANGED <<intent, config, runs, cancel, ended, stored, writing,
                   setting, landed, writer, edited>>

FetchAttemptFails(d) ==
    /\ AttemptFails(d, "fetch")
    /\ UNCHANGED <<config, setting, landed, writer>>

\* The SET of run r reaches the device: gc.set(update=[("/", payload)]).
DeviceSet(d, r, desired) ==
    /\ config' = [config EXCEPT ![d] = Merge(@, desired)]
    /\ landed' = [landed EXCEPT ![d] = @ \cup {r}]
    /\ writer' = [writer EXCEPT ![d] = r]

NoDeviceSet == UNCHANGED <<config, landed, writer>>

\* Seeded fault: the lock is created per call instead of kept per host.
LockOfItsOwn(d) == TRUE

\* async with self._set_locks[host]: the SET of this attempt is on the wire only
\* once no abandoned SET holds the device's lock.
LockFree(d) == \A s \in setting[d] : ~s.locked

ApplySucceeds(d) ==
    /\ exec[d].pc = "apply"
    /\ LockFree(d)
    /\ DeviceSet(d, runs[d], exec[d].desired)
    /\ Await(d, "applied")
    /\ UNCHANGED <<intent, runs, cancel, ended, stored, writing, setting, edited>>

\* Seeded fault: apply_result.success is not looked at.
ApplyRefusedUnnoticed(d) ==
    /\ exec[d].pc = "apply"
    /\ NoDeviceSet
    /\ Await(d, "applied")
    /\ UNCHANGED <<intent, runs, cancel, ended, stored, writing, setting, edited>>

\* ApplyResult(success=False): the render or the dial failed, the device refused
\* the SET, or its answer was lost after the device took it.  Not retried.
ApplyRefused(d) ==
    /\ exec[d].pc = "apply"
    /\ \/ NoDeviceSet
       \/ LockFree(d) /\ DeviceSet(d, runs[d], exec[d].desired)
    /\ Terminate(d, "APPLY_FAILED")
    /\ UNCHANGED <<intent, runs, cancel, ended, stored, writing, setting, edited>>

\* The attempt gives no answer: it never dialled, or the worker died before or
\* after the device took the SET, or it timed out with the SET still running.
\* The timeout cancels the activity task, which releases the per-host lock.
ApplyAttemptFails(d) ==
    /\ AttemptFails(d, "apply")
    /\ \/ NoDeviceSet /\ UNCHANGED setting
       \/ LockFree(d) /\ DeviceSet(d, runs[d], exec[d].desired) /\ UNCHANGED setting
       \/ Timeouts /\ NoDeviceSet /\ LockFree(d) /\ AbandonSet(d, FALSE)

\* The executor thread of an abandoned SET reaches the device.  The lock is
\* first come, first served.
LateSet(d) ==
    \E s \in setting[d] :
        /\ s.locked => \A t \in setting[d] : t.locked => s.run <= t.run
        /\ setting' = [setting EXCEPT ![d] = @ \ {s}]
        /\ DeviceSet(d, s.run, s.desired)
        /\ UNCHANGED <<intent, runs, exec, cancel, ended, stored, writing, edited>>

\* The abandoned SET that holds the lock outlives its own start-to-close timeout:
\* its task is cancelled, the lock is free, the thread runs on.
LateSetTimesOut(d) ==
    \E s \in setting[d] :
        /\ Timeouts
        /\ s.locked /\ \A t \in setting[d] : t.locked => s.run <= t.run
        /\ setting' = [setting EXCEPT ![d] = (@ \ {s}) \cup {[s EXCEPT !.locked = FALSE]}]
        /\ UNCHANGED <<intent, config, runs, exec, cancel, ended, stored,
                       writing, landed, writer, edited>>

\* The abandoned SET fails instead: the device refused it or the dial timed out.
LateSetFails(d) ==
    \E s \in setting[d] :
        /\ setting' = [setting EXCEPT ![d] = @ \ {s}]
        /\ UNCHANGED <<intent, config, runs, exec, cancel, ended, stored,
                       writing, landed, writer, edited>>

\* collect_drift_state returns a CollectResult; a device that cannot be read is
\* CollectResult(success=False), not an exception.
CollectAnswers(d) ==
    /\ exec[d].pc = "collect"
    /\ \E seen \in {config[d], Missing} :
          exec' = [exec EXCEPT ![d] =
                      [@ EXCEPT !.pc = "collected", !.attempt = 1, !.seen = seen]]
    /\ edited' = [edited EXCEPT ![d] = FALSE]
    /\ UNCHANGED <<intent, config, runs, cancel, ended, stored, writing,
                   setting, landed, writer>>

CollectAttemptFails(d) ==
    /\ AttemptFails(d, "collect")
    /\ UNCHANGED <<config, setting, landed, writer>>

DetectAnswers(d) ==
    /\ exec[d].pc = "detect"
    /\ exec' = [exec EXCEPT ![d] =
                   [@ EXCEPT !.pc = "detected", !.attempt = 1,
                             !.report = Compare(exec[d].desired, exec[d].seen),
                             !.seen = Missing]]  \* collected is not read again
    /\ UNCHANGED <<intent, config, runs, cancel, ended, stored, writing,
                   setting, landed, writer, edited>>

DetectAttemptFails(d) ==
    /\ AttemptFails(d, "detect")
    /\ UNCHANGED <<config, setting, landed, writer>>

-----------------------------------------------------------------------------
(***************************************************************************)
(* Cancellation, crashes and the world around                              *)
(***************************************************************************)

RequestCancel(d) ==
    /\ Open(d)
    /\ cancel[d] = "none"
    /\ cancel' = [cancel EXCEPT ![d] = "requested"]
    /\ UNCHANGED <<intent, config, runs, exec, ended, stored, writing, setting,
                   landed, writer, edited>>

\* Seeded fault: a cancel is passed on to the running apply, whose task then
\* releases the per-host lock under its SET.
CancelActivityAndTask(d) ==
    /\ cancel[d] = "requested"
    /\ exec[d].pc \in Activities
    /\ cancel' = [cancel EXCEPT ![d] = "delivered"]
    /\ TerminateCancelled(d)
    /\ IF exec[d].pc = "apply" THEN AbandonSet(d, FALSE) ELSE UNCHANGED setting
    /\ UNCHANGED <<intent, config, runs, ended, stored, writing, landed, writer, edited>>

\* The cancellation reaches an execution that awaits an activity: the handler
\* records WORKFLOW_CANCELLED.  The attempt in flight is not told (no heartbeat):
\* its SET runs on, still inside the per-host lock.
CancelActivity(d) ==
    /\ cancel[d] = "requested"
    /\ exec[d].pc \in Activities
    /\ cancel' = [cancel EXCEPT ![d] = "delivered"]
    /\ TerminateCancelled(d)
    /\ IF exec[d].pc = "apply" THEN AbandonSet(d, TRUE) ELSE UNCHANGED setting
    /\ UNCHANGED <<intent, config, runs, ended, stored, writing, landed, writer, edited>>

\* Seeded fault: a cancel that interrupts a record answers CANCELLED at once.
CancelRecordReturns(d) ==
    /\ cancel[d] = "requested"
    /\ exec[d].pc \in Recording
    /\ AbandonWrite(d)
    /\ Close(d, "CANCELLED")
    /\ UNCHANGED <<intent, config, runs, stored, setting, landed, writer, edited>>

\* Seeded fault: a cancel that interrupts a record is handled like any other.
CancelRecordRecords(d) ==
    /\ cancel[d] = "requested"
    /\ exec[d].pc \in Recording
    /\ AbandonWrite(d)
    /\ cancel' = [cancel EXCEPT ![d] = "delivered"]
    /\ TerminateCancelled(d)
    /\ UNCHANGED <<intent, config, runs, ended, stored, setting, landed, writer, edited>>

\* The cancellation reaches an execution that awaits an audit write: nothing
\* catches it, the execution ends cancelled.
CancelRecord(d) ==
    /\ cancel[d] = "requested"
    /\ exec[d].pc \in Recording
    /\ AbandonWrite(d)
    /\ Close(d, "CANCELLED_STATUS")
    /\ UNCHANGED <<intent, config, runs, stored, setting, landed, writer, edited>>

\* The server closes the execution without running its code: an operator's
\* terminate, or a reconcile parent that closed (parent close policy TERMINATE).
ServerTerminate(d) ==
    /\ Open(d)
    /\ Close(d, "TERMINATED_STATUS")
    /\ \/ exec[d].pc \in Recording /\ AbandonWrite(d) /\ UNCHANGED setting
       \/ exec[d].pc = "apply" /\ AbandonSet(d, TRUE) /\ UNCHANGED writing
       \/ exec[d].pc \in Activities \ {"apply"} /\ UNCHANGED <<writing, setting>>
    /\ UNCHANGED <<intent, config, runs, stored, landed, writer, edited>>

\* The worker process dies with its threads.  The attempts in flight time out
\* on the server: that is AttemptFails and RecordAttemptFails.
WorkerCrash ==
    /\ \E d \in Devices : writing[d] \cup setting[d] # {}
    /\ writing' = [d \in Devices |-> {}]
    /\ setting' = [d \in Devices |-> {}]
    /\ UNCHANGED <<intent, config, runs, exec, cancel, ended, stored, landed,
                   writer, edited>>

\* An operator edits the source of truth.
EditIntent(d) ==
    /\ \E i \in Intents : intent' = [intent EXCEPT ![d] = i]
    /\ UNCHANGED <<config, runs, exec, cancel, ended, stored, writing, setting,
                   landed, writer, edited>>

\* Somebody configures the device by hand.
EditDevice(d) ==
    /\ \E c \in Config : config' = [config EXCEPT ![d] = c]
    /\ edited' = [edited EXCEPT ![d] = TRUE]
    /\ UNCHANGED <<intent, runs, exec, cancel, ended, stored, writing, setting,
                   landed, writer>>

-----------------------------------------------------------------------------
(***************************************************************************)
(* Specification                                                           *)
(***************************************************************************)

\* What the workers and the server do on their own for the execution of d.
Progress(d) ==
    \/ RecordWritten(d) \/ RecordAttemptFails(d)
    \/ FetchSucceeds(d) \/ FetchRejected(d) \/ FetchAttemptFails(d)
    \/ ApplySucceeds(d) \/ ApplyRefused(d) \/ ApplyAttemptFails(d)
    \/ CollectAnswers(d) \/ CollectAttemptFails(d)
    \/ DetectAnswers(d) \/ DetectAttemptFails(d)
    \/ CancelActivity(d) \/ CancelRecord(d)

Late(d) ==
    LateRecord(d) \/ LateSet(d) \/ LateSetTimesOut(d) \/ LateSetFails(d)

Outside(d) ==
    \/ StartDeploy(d) \/ RequestCancel(d) \/ ServerTerminate(d)
    \/ EditIntent(d) \/ EditDevice(d)

Next ==
    \/ \E d \in Devices : Progress(d) \/ Late(d) \/ Outside(d)
    \/ WorkerCrash

Spec == Init /\ [][Next]_vars

\* Temporal and its worker keep running: an open execution's await is answered,
\* retried or given up.  Nothing is assumed of callers, operators or crashes.
FairSpec == Spec /\ \A d \in Devices : WF_vars(Progress(d))
-----------------------------------------------------------------------------
(***************************************************************************)
(* What is promised                                                        *)
(***************************************************************************)

\* Type correctness of every variable.
TypeOK ==
    /\ intent \in [Devices -> Intents]
    /\ config \in [Devices -> Config]
    /\ runs \in [Devices -> 0..MaxRuns]
    /\ exec \in [Devices -> Execution]
    /\ cancel \in [Devices -> {"none", "requested", "delivered"}]
    /\ ended \in [Devices -> [Runs -> Endings \cup {"open"}]]
    /\ stored \in [Devices -> SUBSET Record]
    /\ writing \in [Devices -> SUBSET Record]
    /\ setting \in [Devices -> SUBSET Set]
    /\ landed \in [Devices -> SUBSET Runs]
    /\ writer \in [Devices -> 0..MaxRuns]
    /\ edited \in [Devices -> BOOLEAN]

\* The log holds the record of event e of run n.
Has(log, n, e) == \E r \in log : r.run = n /\ r.event = e

\* The log holds the record of every step before an await, or before a terminal
\* record with this reason.
Told(log, n, pc, reason) ==
    /\ pc # "started" => Has(log, n, "started")
    /\ \/ pc \in {"apply", "applied", "collect", "collected", "detect", "detected"}
       \/ reason \in {"APPLY_FAILED", "COLLECT_FAILED", "VERIFICATION_FAILED", "SUCCEEDED"}
       => Has(log, n, "fetched")
    /\ \/ pc \in {"collect", "collected", "detect", "detected"}
       \/ reason \in {"COLLECT_FAILED", "VERIFICATION_FAILED", "SUCCEEDED"}
       => Has(log, n, "applied")
    /\ pc \in {"detect", "detected"} \/ reason \in {"VERIFICATION_FAILED", "SUCCEEDED"}
       => Has(log, n, "collected")
    /\ reason \in {"VERIFICATION_FAILED", "SUCCEEDED"} => Has(log, n, "detected")

\* The log tells every run as a story without gaps: a record of a step is in it
\* only with the records of all the steps before, whatever was retried, timed
\* out, landed late or was cancelled (_record_event is awaited at every step).
RecordsInOrder ==
    \A d \in Devices : \A r \in stored[d] : Told(stored[d], r.run, r.event, r.reason)

\* The terminal record that tells a result: WORKFLOW_CANCELLED, which names no
\* reason, or a terminal event with the result's own reason.
Tells(r, n, result) ==
    /\ r.run = n
    /\ IF result = "CANCELLED" THEN r.event = "cancelling" /\ r.reason = "none"
                               ELSE r.event = "terminating" /\ r.reason = result

\* A WorkflowResult reaches the caller only with the terminal record that tells
\* it in the log (the _terminate_ helpers await before they return).
ReturnedResultIsRecorded ==
    \A d \in Devices, n \in Runs :
        ended[d][n] \in Reasons => \E r \in stored[d] : Tells(r, n, ended[d][n])

\* No run ever has two terminal records: a cancelled run is not also recorded
\* as finished, now or by an INSERT that commits late.
OneTerminalRecord ==
    \A d \in Devices : \A r, s \in stored[d] \cup writing[d] :
        r.run = s.run /\ r.event \in Terminal /\ s.event \in Terminal => r = s

Accounted(log, n) == Has(log, n, "started") /\ Has(log, n, "fetched")

\* A device is never written by a run whose start and fetch the log does not
\* hold, even when the SET lands after the run was cancelled or terminated.
WriteIsAccountable ==
    \A d \in Devices : \A n \in landed[d] : Accounted(stored[d], n)

\* A SUCCEEDED deploy stays true: until somebody configures the device by hand
\* or a later deploy runs, the device carries all the intent that was deployed.
\* No SET left behind by an earlier, cancelled run may undo it.
SuccessHolds ==
    \A d \in Devices :
        /\ runs[d] > 0
        /\ ended[d][runs[d]] = "SUCCEEDED"
        /\ ~edited[d]
        => Forward(exec[d].desired, config[d]) = {}

\* SETs reach a device in the order of the runs that sent them: executor.py:71, "gNMI
\* sets are serialized per dial host".  True while no attempt passes its timeout.
WritersInOrder == [][\A d \in Devices : writer[d] <= writer'[d]]_vars

\* The deploy keeps the contract its callers rely on: how a run closed tells
\* whether it wrote the device (DeployContract).
Contract == INSTANCE DeployContract WITH
    open <- [d \in Devices |-> Open(d)],
    written <- [d \in Devices |-> [n \in Runs |-> n \in landed[d]]]

ImplementsContract == Contract!ContractSpec

\* Every deploy that was started closes.
EveryRunEnds == \A d \in Devices : Open(d) ~> ~Open(d)
============================================================================
