----------------------------- MODULE ScanDrift -----------------------------
(***************************************************************************)
(* The ScanDrift workflow                                                  *)
(* (orchestrator/snapl_orchestrator/workflows/scan_drift.py): it lists the *)
(* devices of a use case and evaluates them all at once, each by a fetch   *)
(* of its intent, a collection and a comparison, while intent and devices  *)
(* go on changing under it.                                                *)
(*                                                                         *)
(* What a device should carry is a version, and each half of what it       *)
(* carries is of one: they agree or they do not.  An activity answers      *)
(* once, for all its attempts, the collection by what its last attempt     *)
(* read; an audit record is written, or its last attempt failed and it may *)
(* or may not be in the log.                                               *)
(***************************************************************************)
EXTENDS Dedupe, FiniteSets

CONSTANTS
    Devices,     \* of the use case
    Versions,    \* what a device may be meant to carry, and what it may carry
    Absent,      \* the intent of a device the source of truth does not know
    Unseen,      \* nothing fetched or collected yet, or a GET that failed
    MaxListed,   \* bound: length of the list the source of truth gives
    MaxChanges   \* bound: changes of intent and devices while the scan runs

ASSUME ScanAssumption ==
    /\ MaxListed \in Nat /\ MaxChanges \in Nat /\ "none" \notin Devices
    /\ Absent \notin Versions /\ Unseen \notin Versions \cup {Absent}

VARIABLES
    intent,    \* the source of truth: the version each device is meant to carry
    config,    \* the version of each half of what each device carries
    scan,      \* where the scan stands, its cancellation, the devices it evaluates
    branch,    \* the evaluation of each of them
    result,    \* the DriftScanResult it returned, or NoResult
    log,       \* its audit records
    changes,   \* how often intent or a device has changed
    edited,    \* history: devices whose intent changed since the scan started
    been       \* history: <<device, half, how it stood>> since then

vars == <<intent, config, scan, branch, result, log, changes, edited, been>>
world == <<intent, config, changes, edited, been>>

Verdicts == {"clean", "drifted", "error"}

\* What a device carries is read in two GETs.
Halves == {"interfaces", "neighbors"}

NothingSeen == [half \in Halves |-> Unseen]

NoResult == [cancelled |-> FALSE, total |-> -1, reports |-> {}]

\* An evaluation: the activity it awaits, what it knows, what it reports.
Evaluation ==
    [pc |-> "fetching", desired |-> Unseen, seen |-> NothingSeen, verdict |-> "error"]

\* No evaluation is left to wait for: reported, or cut off.
Settled == {"reported", "cancelled"}

Closed == {"RETURNED", "FAILED", "CANCELLED", "TERMINATED"}

\* How what a device carries stands to what it should.
Stands(desired, carried) == IF carried = desired THEN "agrees" ELSE "differs"

\* How every half of every device stands, with the intent i and the configurations c.
Standing(i, c) == {<<d, half, Stands(i[d], c[d][half])>> : d \in Devices, half \in Halves}

Init ==
    /\ intent \in [Devices -> Versions \cup {Absent}]
    /\ config \in [Devices -> [Halves -> Versions]]
    /\ scan = [pc |-> "starting", cancel |-> "none", targets |-> <<>>]
    /\ branch = <<>>
    /\ result = NoResult
    /\ log = {}
    /\ changes = 0
    /\ edited = {}
    /\ been = Standing(intent, config)

-----------------------------------------------------------------------------
(***************************************************************************)
(* The world                                                               *)
(***************************************************************************)

Change ==
    /\ scan.pc \notin Closed /\ changes < MaxChanges
    /\ changes' = changes + 1
    /\ been' = been \cup Standing(intent', config')
    /\ UNCHANGED <<scan, branch, result, log>>

\* The source of truth is edited: a device is meant to carry something else, is new,
\* or is deleted.
EditIntent(d) ==
    /\ \E v \in (Versions \cup {Absent}) \ {intent[d]} : intent' = [intent EXCEPT ![d] = v]
    /\ edited' = edited \cup {d}
    /\ UNCHANGED config
    /\ Change

\* A deploy, or an operator on the device.
EditConfig(d) ==
    /\ \E c \in [Halves -> Versions] \ {config[d]} : config' = [config EXCEPT ![d] = c]
    /\ UNCHANGED <<intent, edited>>
    /\ Change

-----------------------------------------------------------------------------
(***************************************************************************)
(* The scan's own steps                                                    *)
(***************************************************************************)

Record(event, device, says) == [event |-> event, device |-> device, says |-> says]

Goto(pc) == scan' = [scan EXCEPT !.pc = pc]

RecordStarted ==
    /\ scan.pc = "starting"
    /\ log' = log \cup {Record("started", "none", "none")}
    /\ Goto("listing")
    /\ UNCHANGED <<world, branch, result>>

\* The devices the source of truth lists for the use case, in its order: one that is
\* in two services comes twice.
Listings ==
    {l \in SeqOf(Devices, MaxListed) : ToSet(l) = {d \in Devices : intent[d] # Absent}}

\* fetch_devices_for_use_case: each device once, in the order of the source of truth.
Listed == UNION {Deduped(listing) : listing \in Listings}

ListDevices ==
    /\ scan.pc = "listing"
    /\ \E targets \in Listed :
          /\ scan' = [scan EXCEPT !.pc = "evaluating", !.targets = targets]
          /\ branch' = [i \in DOMAIN targets |-> Evaluation]
    /\ UNCHANGED <<world, result, log>>

\* The list cannot be read: the scan fails with its started record alone.
ListFails ==
    /\ scan.pc = "listing"
    /\ Goto("FAILED")
    /\ UNCHANGED <<world, branch, result, log>>

\* Seeded fault: the gather is not waited for to its end.
GatherSome ==
    /\ scan.pc = "evaluating"
    /\ \E i \in DOMAIN branch : branch[i].pc = "reported"
    /\ Goto("finishing")
    /\ UNCHANGED <<world, branch, result, log>>

\* The gather has every report.
Gather ==
    /\ scan.pc = "evaluating"
    /\ \A i \in DOMAIN branch : branch[i].pc = "reported"
    /\ Goto("finishing")
    /\ UNCHANGED <<world, branch, result, log>>

Reports == {[device |-> scan.targets[i], verdict |-> branch[i].verdict] : i \in DOMAIN branch}

\* The result of a scan that was not cancelled.
RecordFinished ==
    /\ scan.pc = "finishing"
    /\ log' = log \cup {Record("terminated", "none", "success")}
    /\ result' = [cancelled |-> FALSE, total |-> Len(scan.targets), reports |-> Reports]
    /\ Goto("RETURNED")
    /\ UNCHANGED <<world, branch>>

\* _cancel: the result has no reports.
RecordCancelled ==
    /\ scan.pc = "cancelling"
    /\ log' = log \cup {Record("cancelled", "none", "cancelled")}
    /\ result' = [cancelled |-> TRUE, total |-> 0, reports |-> {}]
    /\ Goto("RETURNED")
    /\ UNCHANGED <<world, branch>>

\* Its records, by where it awaits them.
Writing ==
    CASE scan.pc = "starting" -> {Record("started", "none", "none")}
      [] scan.pc = "finishing" -> {Record("terminated", "none", "success")}
      [] scan.pc = "cancelling" -> {Record("cancelled", "none", "cancelled")}
      [] OTHER -> {}

\* A record's last attempt failed, or a cancellation broke into it: nothing catches it.
RecordBreaks ==
    /\ Writing # {}
    /\ \/ Goto("FAILED")
       \/ scan.cancel = "requested" /\ Goto("CANCELLED")
    /\ log' \in {log, log \cup Writing}
    /\ UNCHANGED <<world, branch, result>>

-----------------------------------------------------------------------------
(***************************************************************************)
(* One evaluation                                                          *)
(***************************************************************************)

Device(i) == scan.targets[i]

At(i, pc) == scan.pc = "evaluating" /\ i \in DOMAIN branch /\ branch[i].pc = pc

Evaluate(i, evaluation) ==
    /\ branch' = [branch EXCEPT ![i] = evaluation]
    /\ UNCHANGED <<world, scan, result, log>>

Report(i, verdict) ==
    Evaluate(i, [branch[i] EXCEPT !.pc = "recording", !.verdict = verdict])

\* fetch_desired_state, for a device the source of truth still has.
Fetch(i) ==
    /\ At(i, "fetching") /\ intent[Device(i)] # Absent
    /\ Evaluate(i, [branch[i] EXCEPT !.pc = "collecting", !.desired = intent[Device(i)]])

\* One GET; a device that does not answer ends the collection with an unsuccessful result.
Get(i, half, next) ==
    \E seen \in {config[Device(i)][half], Unseen} :
       Evaluate(i, [branch[i] EXCEPT !.pc = IF seen = Unseen THEN "detecting" ELSE next,
                                     !.seen[half] = seen])

\* collect_drift_state: a GET of the interfaces, and then one of the neighbors, of a device
\* that may have changed in between.
Collect(i) ==
    \/ At(i, "collecting") /\ Get(i, "interfaces", "reading")
    \/ At(i, "reading") /\ Get(i, "neighbors", "detecting")

\* The halves that were read and are not as desired.
Differing(i) == {half \in Halves : branch[i].seen[half] \notin {Unseen, branch[i].desired}}

\* Seeded fault: an unsuccessful collection has no difference.
DetectBlind(i) ==
    /\ At(i, "detecting")
    /\ Report(i, IF Differing(i) = {} THEN "clean" ELSE "drifted")

\* detect_drift.
Detect(i) ==
    /\ At(i, "detecting")
    /\ Report(i, IF \E half \in Halves : branch[i].seen[half] = Unseen THEN "error"
                 ELSE IF Differing(i) = {} THEN "clean" ELSE "drifted")

\* Where an evaluation awaits an activity.
Activities == {"fetching", "collecting", "reading", "detecting"}

\* Seeded fault: the reason in place of the verdict.
ActivityFailsRaw(i) ==
    /\ \E pc \in Activities : At(i, pc)
    /\ Report(i, branch[i].pc)

\* Seeded fault: a failed evaluation is begun again.
ActivityFailsAgain(i) ==
    /\ \E pc \in Activities : At(i, pc)
    /\ Evaluate(i, [Evaluation EXCEPT !.pc = IF At(i, "fetching") THEN "collecting" ELSE "fetching"])

\* Any of the three failed for good: the device is reported as errored.
ActivityFails(i) ==
    /\ \E pc \in Activities : At(i, pc)
    /\ Report(i, "error")

DeviceRecord(i) == Record("detected", Device(i), branch[i].verdict)

\* _audit_device.
RecordReport(i) ==
    /\ At(i, "recording")
    /\ branch' = [branch EXCEPT ![i].pc = "reported"]
    /\ log' = log \cup {DeviceRecord(i)}
    /\ UNCHANGED <<world, scan, result>>

\* The device records being written: each may be in the log although its evaluation is
\* cut off.
InFlight == {DeviceRecord(i) : i \in {j \in DOMAIN branch : At(j, "recording")}}

\* The record cannot be written: the gather raises, and the scan with it.
RecordReportFails(i) ==
    /\ At(i, "recording")
    /\ \E landed \in SUBSET InFlight : log' = log \cup landed
    /\ Goto("FAILED")
    /\ UNCHANGED <<world, branch, result>>

-----------------------------------------------------------------------------
(***************************************************************************)
(* Cancelling, and the specification                                       *)
(***************************************************************************)

RequestCancel ==
    /\ scan.pc \notin Closed /\ scan.cancel = "none"
    /\ scan' = [scan EXCEPT !.cancel = "requested"]
    /\ UNCHANGED <<world, branch, result, log>>

\* It is delivered at the list or at the gather, which cancels every evaluation.
DeliverCancel ==
    /\ scan.pc \in {"listing", "evaluating"} /\ scan.cancel = "requested"
    /\ \E landed \in SUBSET InFlight : log' = log \cup landed
    /\ scan' = [scan EXCEPT !.pc = "cancelling", !.cancel = "delivered"]
    /\ branch' = [i \in DOMAIN branch |->
           [branch[i] EXCEPT !.pc = IF @ = "reported" THEN @ ELSE "cancelled"]]
    /\ UNCHANGED <<world, result>>

\* The server closes it: its parent has closed, or an operator terminates it.
Terminate ==
    /\ scan.pc \notin Closed
    /\ \E landed \in SUBSET (InFlight \cup Writing) : log' = log \cup landed
    /\ Goto("TERMINATED")
    /\ UNCHANGED <<world, branch, result>>

\* What a worker does for the scan.
Works ==
    \/ RecordStarted \/ ListDevices \/ ListFails \/ Gather \/ RecordFinished
    \/ RecordCancelled \/ RecordBreaks \/ DeliverCancel
    \/ \E i \in DOMAIN branch :
          \/ Fetch(i) \/ Collect(i) \/ Detect(i) \/ ActivityFails(i)
          \/ RecordReport(i) \/ RecordReportFails(i)

Next ==
    \/ Works \/ RequestCancel \/ Terminate
    \/ \E d \in Devices : EditIntent(d) \/ EditConfig(d)

Spec == Init /\ [][Next]_vars

\* A worker is running and every activity has a timeout and a last attempt.
FairSpec == Spec /\ WF_vars(Works)

-----------------------------------------------------------------------------
(***************************************************************************)
(* What is promised                                                        *)
(***************************************************************************)

\* Type correctness.
TypeOK ==
    /\ intent \in [Devices -> Versions \cup {Absent}]
    /\ config \in [Devices -> [Halves -> Versions]]
    /\ scan.pc \in {"starting", "listing", "evaluating", "finishing", "cancelling"} \cup Closed
    /\ scan.cancel \in {"none", "requested", "delivered"}
    /\ scan.targets \in Seq(Devices) /\ Len(scan.targets) <= MaxListed
    /\ DOMAIN branch = DOMAIN scan.targets
    /\ \A i \in DOMAIN branch :
          branch[i] \in [pc : Activities \cup {"recording"} \cup Settled,
                         desired : Versions \cup {Unseen},
                         seen : [Halves -> Versions \cup {Unseen}], verdict : Verdicts]
    /\ result.reports \subseteq [device : Devices, verdict : Verdicts]
    /\ log \subseteq [event : {"started", "detected", "terminated", "cancelled"},
                      device : Devices \cup {"none"},
                      says : Verdicts \cup {"none", "success", "cancelled"}]

\* models.py:138: the counts of a result add up, which its validator checks in the
\* workflow, where an error would be retried for ever.  A scan that was not cut off
\* tells of every device it was to evaluate, of each once, and of no other; each report is
\* in the log under its device's own id, with no other verdict beside it.  And the log has
\* one last record, which tells whether the scan was cancelled: a cancelled scan is told
\* apart from a clean one of no devices.
ScanTellsEveryDevice ==
    scan.pc = "RETURNED" =>
        /\ ~result.cancelled =>
              /\ Cardinality(result.reports) = result.total
              /\ {report.device : report \in result.reports} = ToSet(scan.targets)
              /\ \A report \in result.reports :
                    {record.says : record \in {x \in log : x.device = report.device}} = {report.verdict}
        /\ {record.event : record \in {x \in log : x.device = "none"}} =
              {"started", IF result.cancelled THEN "cancelled" ELSE "terminated"}

\* A verdict in the log was borne out by the device while the scan ran, unless its intent was
\* edited under it: of a device called clean each half agreed at some moment, and of one
\* called drifted some half did not at some moment.  Nothing is called clean that was not
\* read, or drifted that always agreed, and this stands when the scan was cut off.  It does
\* not say that both halves ever agreed at once: the two GETs are of two moments, and a device
\* changed between them is called clean though at each moment one half had drifted.
VerdictWasTrue ==
    \A record \in log : record.device \notin edited =>
        /\ record.says = "clean" =>
              \A half \in Halves : <<record.device, half, "agrees">> \in been
        /\ record.says = "drifted" =>
              \E half \in Halves : <<record.device, half, "differs">> \in been

\* Every scan closes, whatever fails and however many devices it evaluates.
EveryScanEnds == <>(scan.pc \in Closed)
============================================================================
