----------------------------- MODULE Reconcile -----------------------------
(***************************************************************************)
(* The ReconcileDevices workflow                                           *)
(* (orchestrator/snapl_orchestrator/workflows/reconcile_devices.py): one   *)
(* DeployIntent child per device, all at once, gathered into one result.   *)
(*                                                                         *)
(* The deploys are what DeployContract promises of them: the children of a *)
(* reconcile, the deploys an operator starts, and those of another         *)
(* reconcile share one workflow id per device.  The retries of an audit    *)
(* write are one step here (DeployIntent has them one by one): the record  *)
(* is written, or the last attempt failed, and then it may or may not be   *)
(* in the log.                                                             *)
(***************************************************************************)
EXTENDS DeployContract, Dedupe, FiniteSets

CONSTANTS
    Reconciles,   \* reconcile executions; each has a workflow id of its own
    MaxIds,       \* bound: length of the list a caller passes
    Closings      \* the ways a deploy may close that the run explores

ASSUME ReconcileAssumption ==
    /\ MaxIds \in Nat /\ MaxRuns \in Nat
    /\ Closings \subseteq Touched \cup Untouched \cup Uncertain

VARIABLES
    job,       \* each reconcile: where it stands and what it knows
    recorded   \* the audit records of each reconcile

vars == <<open, runs, ended, written, job, recorded>>
deploys == <<open, runs, ended, written>>

\* What DeployIntent returns; the other endings return no WorkflowResult.
Returned == {"SUCCEEDED", "VERIFICATION_FAILED", "COLLECT_FAILED",
             "DEVICE_NOT_FOUND", "INTENT_UNAVAILABLE", "APPLY_FAILED", "CANCELLED"}

\* Where a reconcile stands: the three audit writes, the gather, and how it closed.
\* FAILED by a record that could not be written, or by a child that was cancelled.
Closed == {"RETURNED", "AUDIT_FAILED", "CHILD_CANCELLED", "CANCELLED", "TERMINATED"}
Places == {"none", "starting", "gathering", "cancelling", "finishing"} \cup Closed

\* ids of a call: non-empty, as every caller checks.
IdLists == SeqOf(Devices, MaxIds) \ {<<>>}

\* A reconcile nobody has started.  child and outcome have one place per target:
\* the number of the deploy it started (0: none yet), and what _deploy_one gave.
NoJob == [pc |-> "none", cancel |-> "none", targets |-> <<>>, child |-> <<>>,
          outcome |-> <<>>]

RecInit ==
    /\ ContractInit
    /\ job = [r \in Reconciles |-> NoJob]
    /\ recorded = [r \in Reconciles |-> {}]

Move(r, pc) == job' = [job EXCEPT ![r].pc = pc]

StartReconcile(r) ==
    /\ job[r].pc = "none"
    /\ \E ids \in IdLists : \E targets \in Deduped(ids) :
          job' = [job EXCEPT ![r] =
                     [pc |-> "starting", cancel |-> "none", targets |-> targets,
                      child |-> [i \in DOMAIN targets |-> 0],
                      outcome |-> [i \in DOMAIN targets |-> "pending"]]]
    /\ UNCHANGED <<deploys, recorded>>

-----------------------------------------------------------------------------
(***************************************************************************)
(* Audit records                                                           *)
(***************************************************************************)

\* _audit is awaited: the record is in the log and the reconcile moves on.
Audit(r, event, next) ==
    /\ recorded' = [recorded EXCEPT ![r] = @ \cup {event}]
    /\ Move(r, next)
    /\ UNCHANGED deploys

RecordStarted(r) == job[r].pc = "starting" /\ Audit(r, "started", "gathering")

\* A reconcile that was cancelled closes cancelled; one whose child was cancelled
\* raises the child's error and fails.
RecordCancelled(r) ==
    /\ job[r].pc = "cancelling"
    /\ Audit(r, "cancelled",
             IF job[r].cancel = "delivered" THEN "CANCELLED" ELSE "CHILD_CANCELLED")

RecordTerminated(r) == job[r].pc = "finishing" /\ Audit(r, "terminated", "RETURNED")

EventOf == [starting |-> "started", cancelling |-> "cancelled", finishing |-> "terminated"]

\* Seeded fault: a record that cannot be written is given up.
RecordBreaksQuietly(r) ==
    /\ job[r].pc \in DOMAIN EventOf
    /\ Move(r, IF job[r].pc = "starting" THEN "gathering"
               ELSE IF job[r].pc = "cancelling" THEN "CANCELLED" ELSE "RETURNED")
    /\ UNCHANGED <<deploys, recorded>>

\* The last attempt failed, or a cancel broke into the write: nothing catches it.
RecordBreaks(r) ==
    /\ job[r].pc \in DOMAIN EventOf
    /\ \/ Move(r, "AUDIT_FAILED")
       \/ job[r].cancel = "requested" /\ Move(r, "CANCELLED")
    /\ \/ UNCHANGED recorded
       \/ recorded' = [recorded EXCEPT ![r] = @ \cup {EventOf[job[r].pc]}]
    /\ UNCHANGED deploys

-----------------------------------------------------------------------------
(***************************************************************************)
(* _deploy_one                                                             *)
(***************************************************************************)

Target(r, i) == job[r].targets[i]

Answer(r, i, outcome) == job' = [job EXCEPT ![r].outcome[i] = outcome]

\* _deploy_one is still to answer for target i.
Waiting(r, i) ==
    i \in DOMAIN job[r].targets /\ job[r].outcome[i] = "pending"

Unstarted(r, i) == Waiting(r, i) /\ job[r].child[i] = 0

\* execute_child_workflow with the device's workflow id, which is free.  All the
\* starts are commanded when the gather begins; the server gets to each later,
\* perhaps after a cancelled child already made the gather raise.
StartChild(r, i) ==
    /\ job[r].pc \in {"gathering", "cancelling"} /\ job[r].cancel # "delivered"
    /\ Unstarted(r, i)
    /\ Start(Target(r, i))
    /\ job' = [job EXCEPT ![r].child[i] = runs'[Target(r, i)]]
    /\ UNCHANGED recorded

\* WorkflowAlreadyStartedError: the device is skipped, not joined.
SkipRunning(r, i) ==
    /\ job[r].pc = "gathering" /\ Unstarted(r, i)
    /\ open[Target(r, i)]
    /\ Answer(r, i, "skipped")
    /\ UNCHANGED <<deploys, recorded>>

ChildEnding(r, i) == ended[Target(r, i)][job[r].child[i]]

ChildClosed(r, i) ==
    /\ job[r].pc = "gathering" /\ Waiting(r, i)
    /\ job[r].child[i] # 0 /\ ChildEnding(r, i) # "open"

\* Seeded fault: a device that was written counts as deployed, verified or not.
WrittenAsSucceeded(r, i) ==
    /\ ChildClosed(r, i)
    /\ ChildEnding(r, i) \in Returned
    /\ Answer(r, i, IF ChildEnding(r, i) = "DEVICE_NOT_FOUND" THEN "skipped"
                    ELSE IF ChildEnding(r, i) \in Touched THEN "SUCCEEDED"
                    ELSE ChildEnding(r, i))
    /\ UNCHANGED <<deploys, recorded>>

\* The child returned a result.
ChildReturns(r, i) ==
    /\ ChildClosed(r, i)
    /\ ChildEnding(r, i) \in Returned
    /\ Answer(r, i, IF ChildEnding(r, i) = "DEVICE_NOT_FOUND" THEN "skipped"
                    ELSE ChildEnding(r, i))
    /\ UNCHANGED <<deploys, recorded>>

Failed == {"FAILED_STATUS", "TERMINATED_STATUS"}

\* Seeded fault: the first child that fails ends the gather.
ChildFailsTheRest(r, i) ==
    /\ ChildClosed(r, i)
    /\ ChildEnding(r, i) \in Failed
    /\ job' = [job EXCEPT ![r].pc = "finishing",
                          ![r].outcome = [j \in DOMAIN @ |->
                              IF @[j] = "pending" THEN "APPLY_FAILED" ELSE @[j]]]
    /\ UNCHANGED <<deploys, recorded>>

\* Seeded fault: the status of the child is put in the result as it is.
ChildFailsRaw(r, i) ==
    /\ ChildClosed(r, i)
    /\ ChildEnding(r, i) \in Failed
    /\ Answer(r, i, ChildEnding(r, i))
    /\ UNCHANGED <<deploys, recorded>>

\* Seeded fault: a child that failed is started again until it succeeds.
ChildFailsAgain(r, i) ==
    /\ ChildClosed(r, i)
    /\ ChildEnding(r, i) \in Failed
    /\ job' = [job EXCEPT ![r].child[i] = 0]
    /\ UNCHANGED <<deploys, recorded>>

\* ChildWorkflowError of a child that failed or was terminated: APPLY_FAILED.
ChildFails(r, i) ==
    /\ ChildClosed(r, i)
    /\ ChildEnding(r, i) \in Failed
    /\ Answer(r, i, "APPLY_FAILED")
    /\ UNCHANGED <<deploys, recorded>>

\* ChildWorkflowError of a child that closed cancelled: raised again, and gather
\* raises it at once whatever the other children are doing.
ChildCancelled(r, i) ==
    /\ ChildClosed(r, i)
    /\ ChildEnding(r, i) = "CANCELLED_STATUS"
    /\ Move(r, "cancelling")
    /\ UNCHANGED <<deploys, recorded>>

\* A cancelled gather gives up on a child it has not started.
GiveUpChild(r, i) ==
    /\ job[r].pc = "gathering" /\ Unstarted(r, i)
    /\ job[r].cancel = "delivered"
    /\ Move(r, "cancelling")
    /\ UNCHANGED <<deploys, recorded>>

\* asyncio.gather has every outcome; a cancelled one raises after its children.
Gathered(r) ==
    /\ job[r].pc = "gathering"
    /\ \A i \in DOMAIN job[r].targets : job[r].outcome[i] # "pending"
    /\ Move(r, IF job[r].cancel = "delivered" THEN "cancelling" ELSE "finishing")
    /\ UNCHANGED <<deploys, recorded>>

-----------------------------------------------------------------------------
(***************************************************************************)
(* Cancelling, closing and the world around                                *)
(***************************************************************************)

Running(r) == job[r].pc \notin Closed \cup {"none"}

RequestCancel(r) ==
    /\ Running(r)
    /\ job[r].cancel = "none"
    /\ job' = [job EXCEPT ![r].cancel = "requested"]
    /\ UNCHANGED <<deploys, recorded>>

\* The cancellation reaches the gather, which passes it on to every child.
DeliverCancel(r) ==
    /\ job[r].pc = "gathering"
    /\ job[r].cancel = "requested"
    /\ job' = [job EXCEPT ![r].cancel = "delivered"]
    /\ UNCHANGED <<deploys, recorded>>

\* The server closes the reconcile without running its code.
TerminateReconcile(r) ==
    /\ Running(r)
    /\ Move(r, "TERMINATED")
    /\ UNCHANGED <<deploys, recorded>>

\* Parent close policy TERMINATE, the default: the server terminates a child that
\* is still running when its reconcile has closed.
TerminateChild(r, i) ==
    /\ job[r].pc \in Closed
    /\ i \in DOMAIN job[r].targets
    /\ job[r].child[i] # 0 /\ ChildEnding(r, i) = "open"
    /\ End(Target(r, i), "TERMINATED_STATUS")
    /\ UNCHANGED <<job, recorded>>

\* An operator deploys a device on its own.  The bound leaves a number for the
\* child of every reconcile.
OperatorDeploys(d) ==
    /\ runs[d] + Cardinality(Reconciles) < MaxRuns
    /\ Start(d)
    /\ UNCHANGED <<job, recorded>>

DeployCloses(d) ==
    /\ \E ending \in Closings : End(d, ending)
    /\ UNCHANGED <<job, recorded>>

DeployWrites(d) ==
    /\ \E n \in 1..MaxRuns : ~written[d][n] /\ Write(d, n)
    /\ UNCHANGED <<job, recorded>>

-----------------------------------------------------------------------------
(***************************************************************************)
(* Specification                                                           *)
(***************************************************************************)

\* What the workers and the server do on their own for a reconcile.
Works(r) ==
    \/ RecordStarted(r) \/ RecordCancelled(r) \/ RecordTerminated(r) \/ RecordBreaks(r)
    \/ DeliverCancel(r) \/ Gathered(r)
    \/ \E i \in 1..MaxIds :
          \/ StartChild(r, i) \/ SkipRunning(r, i) \/ GiveUpChild(r, i)
          \/ ChildReturns(r, i) \/ ChildFails(r, i) \/ ChildCancelled(r, i)

Cleans(r) == \E i \in 1..MaxIds : TerminateChild(r, i)

Asked(r) == StartReconcile(r) \/ RequestCancel(r) \/ TerminateReconcile(r)

RecNext ==
    \/ \E r \in Reconciles : Works(r) \/ Cleans(r) \/ Asked(r)
    \/ \E d \in Devices : OperatorDeploys(d) \/ DeployCloses(d) \/ DeployWrites(d)

RecSpec == RecInit /\ [][RecNext]_vars

\* Workers and server keep running, and every deploy closes: that is EveryRunEnds
\* of DeployIntent.
FairRecSpec ==
    /\ RecSpec
    /\ \A r \in Reconciles : WF_vars(Works(r))
    /\ \A d \in Devices : WF_vars(DeployCloses(d) \/ DeployWrites(d))

-----------------------------------------------------------------------------
(***************************************************************************)
(* What is promised                                                        *)
(***************************************************************************)

\* Type correctness.
RecTypeOK ==
    /\ open \in [Devices -> BOOLEAN]
    /\ runs \in [Devices -> 0..MaxRuns]
    /\ \A d \in Devices, n \in 1..MaxRuns :
          ended[d][n] \in Touched \cup Untouched \cup Uncertain \cup {"open"}
    /\ written \in [Devices -> [1..MaxRuns -> BOOLEAN]]
    /\ \A r \in Reconciles :
          /\ job[r].pc \in Places /\ job[r].cancel \in {"none", "requested", "delivered"}
          /\ Len(job[r].targets) <= MaxIds
          /\ DOMAIN job[r].child = DOMAIN job[r].targets
          /\ DOMAIN job[r].outcome = DOMAIN job[r].targets
          /\ \A i \in DOMAIN job[r].targets :
                /\ job[r].targets[i] \in Devices
                /\ job[r].child[i] \in 0..MaxRuns
                /\ job[r].outcome[i] \in Returned \cup {"pending", "skipped"}
    /\ recorded \in [Reconciles -> SUBSET {"started", "cancelled", "terminated"}]

\* The places of the gather whose outcome passes the test.
Count(r, Test(_)) == Cardinality({i \in DOMAIN job[r].targets : Test(job[r].outcome[i])})

\* What a result may say of a target, by the deploy that was started for it.
Earned(r, i) ==
    LET d == job[r].targets[i]
        n == job[r].child[i]
        outcome == job[r].outcome[i]
    IN IF n = 0 THEN outcome = "skipped"
       ELSE /\ \/ outcome = "skipped" /\ ChildEnding(r, i) = "DEVICE_NOT_FOUND"
               \/ outcome # "skipped" /\ outcome = ChildEnding(r, i)
               \/ outcome = "APPLY_FAILED" /\ ChildEnding(r, i) \in Failed
            /\ outcome \in Touched => written[d][n]
            /\ outcome \in Untouched \cup {"skipped"} => ~written[d][n]

\* A result passes ReconcileResult's validator, whatever list the caller passed: the counts
\* add up, and so do the results by device.  And it never tells more than its own deploys
\* did, however they race with others of the same devices: a device has the outcome its
\* child closed with (APPLY_FAILED for one that failed or was terminated, a skip for an
\* unknown device), SUCCEEDED only when that child wrote the device and closed so; without
\* a child of its own it was skipped.
ResultIsEarned ==
    \A r \in Reconciles : job[r].pc \in {"finishing", "RETURNED"} =>
        LET Skipped(o) == o = "skipped"
            results == {job[r].targets[i] : i \in
                           {j \in DOMAIN job[r].targets : job[r].outcome[j] # "skipped"}}
        IN /\ Cardinality(results) + Count(r, Skipped) = Len(job[r].targets)
           /\ \A i \in DOMAIN job[r].targets : Earned(r, i)

\* A reconcile returns only when all its deploys have closed: nothing it started
\* is still at work on a device, or is about to be terminated half way.
ReturnedMeansSettled ==
    \A r \in Reconciles : job[r].pc = "RETURNED" =>
        \A i \in DOMAIN job[r].targets : job[r].child[i] # 0 => ChildEnding(r, i) # "open"

\* The log's terminal record of a reconcile fits how it closed, and no reconcile
\* has both a terminated and a cancelled record.
RecordsFit ==
    \A r \in Reconciles :
        /\ job[r].pc = "RETURNED" => recorded[r] = {"started", "terminated"}
        /\ job[r].pc = "CHILD_CANCELLED" => recorded[r] = {"started", "cancelled"}
        /\ ~({"cancelled", "terminated"} \subseteq recorded[r])

\* Every reconcile that was started closes, provided the deploys do.
EveryReconcileEnds == \A r \in Reconciles : Running(r) ~> ~Running(r)
============================================================================
