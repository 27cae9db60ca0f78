------------------------ MODULE DriftResponseProofs ------------------------
(***************************************************************************)
(* What is proved of DriftResponse, for any set of devices and any number  *)
(* of runs of the schedule.                                                *)
(***************************************************************************)
EXTENDS DriftResponse, FiniteSetTheorems, TLAPS

-----------------------------------------------------------------------------
(***************************************************************************)
(* Type correctness                                                        *)
(***************************************************************************)

Places == {"none", "starting", "scanning", "repairing", "deciding", "ending"} \cup Closed

RunType ==
    [pc : Places, mode : {"report", "remediate"}, patched : BOOLEAN,
     cancel : {"none", "requested", "delivered"}, scan : Children,
     verdict : [Devices -> Verdicts], repair : Children, result : [Devices -> Progress],
     targets : SUBSET Devices, failure : Failures]

RecordType ==
    [event : {"started", "response", "terminated", "cancelled"},
     device : Devices \cup {"none"}, says : Saying]

\* A reconcile that returned has a result for every device it was given.
Reconciled(r) == r.repair = "returned" => \A d \in r.targets : r.result[d] \in Results

TypeInv ==
    /\ run \in [Runs -> RunType]
    /\ log \in [Runs -> SUBSET RecordType]
    /\ \A n \in Runs : Reconciled(run[n])

LEMMA NoRunType == NoRun \in RunType /\ Reconciled(NoRun)
  BY DEF NoRun, RunType, Reconciled, Places, Closed, Children, Verdicts, Progress, Failures

\* A record about a device says what a scan or a reconcile can say of it.
LEMMA SaysType ==
    ASSUME NEW n \in Runs, run[n] \in RunType, Reconciled(run[n]), NEW d \in Decided(n)
    PROVE  d \in Devices /\ Record("response", d, Says(n, d)) \in RecordType
  <1>1. d \in Devices
    BY DEF Decided, Excluded, RunType
  <1>2. Says(n, d) \in Saying
    BY <1>1 DEF Says, Saying, Reconciled, RunType
  <1> QED
    BY <1>1, <1>2 DEF Record, RecordType

\* What a run may be writing is a record.
LEMMA WritingType ==
    ASSUME NEW n \in Runs, run[n] \in RunType, Reconciled(run[n])
    PROVE  /\ LastRecord(n) \in RecordType
           /\ Record("started", "none", run[n].mode) \in RecordType
           /\ Record("response", "none", run[n].mode) \in RecordType
           /\ Writing(n) \subseteq RecordType
  <1>1. LastRecord(n) \in RecordType
    BY DEF LastRecord, Record, RecordType, Saying, RunType
  <1>2. \A e \in {"started", "response"} : Record(e, "none", run[n].mode) \in RecordType
    BY DEF Record, RecordType, Saying, RunType
  <1>3. \A d \in Unrecorded(n) : Record("response", d, Says(n, d)) \in RecordType
    BY SaysType DEF Unrecorded
  <1> QED
    BY <1>1, <1>2, <1>3 DEF Writing

\* A step that changes run n alone, and adds at most one record to its log.
LEMMA TypeAfter ==
    ASSUME TypeInv, NEW n \in Runs, NEW r \in RunType, Reconciled(r), Change(n, r),
           log' = log \/ \E record \in RecordType : Write(n, record)
    PROVE  TypeInv'
  <1>1. run' \in [Runs -> RunType] /\ \A m \in Runs : Reconciled(run'[m])
    BY DEF TypeInv, Change
  <1>2. log' \in [Runs -> SUBSET RecordType]
    BY DEF TypeInv, Write
  <1> QED
    BY <1>1, <1>2 DEF TypeInv

LEMMA GotoType ==
    ASSUME TypeInv, NEW n \in Runs, NEW pc \in Places, Goto(n, pc),
           log' = log \/ \E record \in RecordType : Write(n, record)
    PROVE  TypeInv'
  <1>1. [run[n] EXCEPT !.pc = pc] \in RunType /\ Reconciled([run[n] EXCEPT !.pc = pc])
    BY DEF TypeInv, RunType, Reconciled
  <1> QED
    BY <1>1, TypeAfter DEF Goto

\* What the deploys in flight come to when their reconcile closes.
LEMMA CutType ==
    ASSUME NEW n \in Runs, run[n] \in RunType
    PROVE  Cut(n) \in [Devices -> Progress]
  BY DEF Cut, RunType, Progress, Results

LEMMA TypeStep == TypeInv /\ [Next]_vars => TypeInv'
  <1> SUFFICES ASSUME TypeInv, [Next]_vars PROVE TypeInv'
    OBVIOUS
  <1>1. CASE UNCHANGED vars
    BY <1>1 DEF vars, TypeInv
  <1>2. ASSUME NEW n \in Runs,
               \/ Fire(n) \/ Works(n) \/ ScanCloses(n) \/ RepairCloses(n)
               \/ \E d \in Devices : DeployStarts(n, d) \/ DeploySkipped(n, d) \/ DeployCloses(n, d)
               \/ RequestCancel(n) \/ CloseByServer(n) \/ TerminateScan(n) \/ TerminateRepair(n)
        PROVE  TypeInv'
    <2>0. run[n] \in RunType /\ Reconciled(run[n])
      BY DEF TypeInv
    <2>1. CASE Fire(n)
      <3>1. PICK mode \in {"report", "remediate"}, patched \in BOOLEAN :
               Change(n, [NoRun EXCEPT !.pc = "starting", !.mode = mode, !.patched = patched])
        BY <2>1 DEF Fire
      <3> DEFINE r == [NoRun EXCEPT !.pc = "starting", !.mode = mode, !.patched = patched]
      <3>2. r \in RunType /\ Reconciled(r)
        BY NoRunType DEF RunType, Reconciled, Places, NoRun
      <3> QED
        BY <2>1, <3>1, <3>2, TypeAfter DEF Fire
    <2>2. CASE RecordStarted(n)
      <3> DEFINE r == [run[n] EXCEPT !.pc = "scanning", !.scan = "open"]
      <3>1. r \in RunType /\ Reconciled(r)
        BY <2>0 DEF RunType, Reconciled, Places, Children
      <3> QED
        BY <2>0, <2>2, <3>1, TypeAfter, WritingType DEF RecordStarted
    <2>3. CASE RecordDecision(n)
      <3>1. PICK d \in Unrecorded(n) : Write(n, Record("response", d, Says(n, d)))
        BY <2>3 DEF RecordDecision
      <3>2. Record("response", d, Says(n, d)) \in RecordType
        BY <2>0, SaysType DEF Unrecorded
      <3> QED
        BY <2>3, <3>1, <3>2 DEF RecordDecision, TypeInv, Write
    <2>4. CASE RecordSummary(n) \/ RecordEnd(n)
      <3>1. CloseAs(n) \in Places /\ "ending" \in Places
        BY DEF CloseAs, Places, Closed
      <3> QED
        BY <2>0, <2>4, <3>1, GotoType, WritingType DEF RecordSummary, RecordEnd
    <2>5. CASE RecordBreaks(n) \/ CloseByServer(n)
      <3>1. {"FAILED", "CANCELLED", "TIMED_OUT"} \subseteq Places
        BY DEF Places, Closed
      <3> QED
        BY <2>0, <2>5, <3>1, GotoType, WritingType DEF RecordBreaks, CloseByServer
    <2>6. CASE HearScan(n)
      <3> DEFINE r == [run[n] EXCEPT !.pc = "repairing", !.repair = "open", !.targets = Fixable(n)]
      <3>1. Fixable(n) \in SUBSET Devices
        BY DEF Fixable
      <3>2. r \in RunType /\ Reconciled(r)
        BY <2>0, <3>1 DEF RunType, Reconciled, Places, Children
      <3>3. "deciding" \in Places
        BY DEF Places
      <3> QED
        BY <2>6, <3>2, <3>3, TypeAfter, GotoType DEF HearScan
    <2>7. ASSUME NEW pc \in Places, NEW f \in Failures, NEW c \in {"none", "requested", "delivered"},
                 \/ Change(n, [run[n] EXCEPT !.pc = pc, !.failure = f])
                 \/ Change(n, [run[n] EXCEPT !.cancel = c, !.pc = pc, !.failure = f])
                 \/ Change(n, [run[n] EXCEPT !.cancel = c]),
                 UNCHANGED log
          PROVE  TypeInv'
      <3>1. /\ [run[n] EXCEPT !.pc = pc, !.failure = f] \in RunType
            /\ [run[n] EXCEPT !.cancel = c, !.pc = pc, !.failure = f] \in RunType
            /\ [run[n] EXCEPT !.cancel = c] \in RunType
        BY <2>0 DEF RunType
      <3>2. /\ Reconciled([run[n] EXCEPT !.pc = pc, !.failure = f])
            /\ Reconciled([run[n] EXCEPT !.cancel = c, !.pc = pc, !.failure = f])
            /\ Reconciled([run[n] EXCEPT !.cancel = c])
        BY <2>0 DEF RunType, Reconciled
      <3> QED
        BY <2>7, <3>1, <3>2, TypeAfter
    <2>8. CASE HearNoScan(n) \/ HearRepair(n) \/ CancelScan(n) \/ CancelRepair(n) \/ RequestCancel(n)
      <3>1. /\ "ending" \in Places /\ "deciding" \in Places
            /\ {"none", "scan_cancelled", "intent_unavailable", "remediation_failed",
                "cancelled"} \subseteq Failures
        BY DEF Places, Failures
      <3> QED
        BY <2>7, <2>8, <3>1 DEF HearNoScan, HearRepair, CancelScan, CancelRepair, RequestCancel
    <2>9. CASE ScanCloses(n) \/ TerminateScan(n)
      <3>1. ASSUME NEW s \in Children, Change(n, [run[n] EXCEPT !.scan = s]), UNCHANGED log
            PROVE  TypeInv'
        <4>1. [run[n] EXCEPT !.scan = s] \in RunType /\ Reconciled([run[n] EXCEPT !.scan = s])
          BY <2>0 DEF RunType, Reconciled
        <4> QED
          BY <3>1, <4>1, TypeAfter
      <3>2. ASSUME NEW v \in [Devices -> Verdicts], UNCHANGED log,
                   Change(n, [run[n] EXCEPT !.scan = "returned", !.verdict = v])
            PROVE  TypeInv'
        <4> DEFINE r == [run[n] EXCEPT !.scan = "returned", !.verdict = v]
        <4>1. r \in RunType /\ Reconciled(r)
          BY <2>0 DEF RunType, Reconciled, Children
        <4> QED
          BY <3>2, <4>1, TypeAfter
      <3> QED
        BY <2>9, <3>1, <3>2 DEF ScanCloses, TerminateScan, Children
    <2>10. ASSUME NEW d \in Devices, NEW p \in Progress, Advance(n, d, p)
           PROVE  TypeInv'
      <3> DEFINE r == [run[n] EXCEPT !.result[d] = p]
      <3>1. r \in RunType /\ Reconciled(r)
        BY <2>0, <2>10 DEF RunType, Reconciled, Advance
      <3> QED
        BY <2>10, <3>1, TypeAfter DEF Advance
    <2>11. CASE \E d \in Devices : DeployStarts(n, d) \/ DeploySkipped(n, d) \/ DeployCloses(n, d)
      BY <2>10, <2>11 DEF DeployStarts, DeploySkipped, DeployCloses, Progress, Results
    <2>12. CASE RepairCloses(n) \/ TerminateRepair(n)
      <3>1. CASE /\ \A d \in run[n].targets : run[n].result[d] \in Results
                 /\ Change(n, [run[n] EXCEPT !.repair = "returned"])
        <4>1. /\ [run[n] EXCEPT !.repair = "returned"] \in RunType
              /\ Reconciled([run[n] EXCEPT !.repair = "returned"])
          BY <2>0, <3>1 DEF RunType, Reconciled, Children
        <4> QED
          BY <2>12, <3>1, <4>1, TypeAfter DEF RepairCloses, TerminateRepair
      <3>2. ASSUME NEW how \in {"failed", "cancelled", "terminated"}, UNCHANGED log,
                   Change(n, [run[n] EXCEPT !.repair = how, !.result = Cut(n)])
            PROVE  TypeInv'
        <4> DEFINE r == [run[n] EXCEPT !.repair = how, !.result = Cut(n)]
        <4>1. r \in RunType /\ Reconciled(r)
          BY <2>0, CutType DEF RunType, Reconciled, Children
        <4> QED
          BY <3>2, <4>1, TypeAfter
      <3> QED
        BY <2>12, <3>1, <3>2 DEF RepairCloses, TerminateRepair
    <2> QED
      BY <1>2, <2>1, <2>2, <2>3, <2>4, <2>5, <2>6, <2>8, <2>9, <2>11, <2>12 DEF Works
  <1> QED
    BY <1>1, <1>2 DEF Next

LEMMA InitType == Init => TypeInv
  BY NoRunType DEF Init, TypeInv

\* Every variable keeps its type.
THEOREM ResponseTypeCorrect == Spec => []TypeOK
  <1>1. TypeInv => TypeOK
    BY DEF TypeInv, TypeOK, RunType, RecordType, Places
  <1> QED
    BY <1>1, InitType, TypeStep, PTL DEF Spec

-----------------------------------------------------------------------------
(***************************************************************************)
(* The inductive invariant, run by run                                     *)
(***************************************************************************)

Undecided == {"none", "starting", "scanning", "repairing"}

\* The run has decided what becomes of each device, and nothing it decided with
\* can change any more.
Told(n) ==
    /\ run[n].pc \notin Undecided
    /\ run[n].scan = "returned" /\ run[n].repair # "open" /\ Heard(n)

\* Where a run stands fits what it knows.
RunInv(n) ==
    /\ run[n].pc \in {"none", "starting"} => run[n].scan = "none"
    /\ run[n].pc \in {"none", "starting", "scanning"} => run[n].repair = "none"
    /\ run[n].repair = "none" <=> run[n].targets = {}
    /\ run[n].repair # "none" => run[n].scan = "returned" /\ run[n].mode = "remediate"
    /\ run[n].pc \in Undecided => run[n].failure = "none"
    /\ run[n].pc = "deciding" => Told(n)
    /\ run[n].pc = "ending" /\ Heard(n) => Told(n) /\ Unrecorded(n) = {}
    /\ run[n].pc \in {"deciding", "ending"} /\ run[n].failure = "none"
           => run[n].repair \in {"none", "returned"}
    /\ run[n].pc = "RETURNED" =>
           /\ run[n].failure = "none" /\ run[n].repair \in {"none", "returned"}
           /\ Told(n) /\ LastRecord(n) \in log[n]

Endings == {"terminated", "cancelled"}

\* A record about a device is the decision on it, and a last record follows all of
\* them and closes the log.
LogInv(n) ==
    /\ run[n].pc = "none" => log[n] = {}
    /\ \A x \in log[n] : x.device \in Devices =>
          /\ x = Record("response", x.device, Says(n, x.device))
          /\ x.device \in Decided(n)
          /\ Told(n)
    /\ \A x \in log[n] : x.event \in Endings =>
          /\ x = LastRecord(n)
          /\ run[n].pc \in Closed
          /\ Heard(n) => Told(n) /\ Unrecorded(n) = {}

IInv == TypeInv /\ \A n \in Runs : RunInv(n) /\ LogInv(n)

-----------------------------------------------------------------------------
(***************************************************************************)
(* Steps                                                                   *)
(***************************************************************************)

\* A step of another run is not seen.
LEMMA Frame ==
    ASSUME NEW n \in Runs, RunInv(n), LogInv(n), run'[n] = run[n], log'[n] = log[n]
    PROVE  RunInv(n)' /\ LogInv(n)'
  <1>1. /\ Told(n)' <=> Told(n)
        /\ Heard(n)' <=> Heard(n)
        /\ LastRecord(n)' = LastRecord(n)
        /\ Decided(n)' = Decided(n)
        /\ \A d \in Devices : Says(n, d)' = Says(n, d)
    BY DEF Told, Heard, LastRecord, Decided, Excluded, Says
  <1>2. Unrecorded(n)' = Unrecorded(n)
    BY DEF Unrecorded, Decided, Excluded, Says
  <1>3. RunInv(n)'
    BY <1>1, <1>2 DEF RunInv
  <1>4. LogInv(n)'
    BY <1>1, <1>2 DEF LogInv
  <1> QED
    BY <1>3, <1>4

\* Before a run has decided anything its log tells of no device and of no end.
Quiet(n) == \A x \in log[n] : x.device \notin Devices /\ x.event \notin Endings

LEMMA UndecidedIsQuiet ==
    ASSUME NEW n \in Runs, LogInv(n), run[n].pc \in Undecided
    PROVE  Quiet(n)
  BY DEF LogInv, Quiet, Told, Undecided, Closed

\* So is it while the repair goes on, were the run itself closed.
LEMMA RepairingIsQuiet ==
    ASSUME NEW n \in Runs, LogInv(n), run[n].repair = "open"
    PROVE  Quiet(n)
  BY DEF LogInv, Quiet, Told, Heard

LEMMA QuietKeeps ==
    ASSUME NEW n \in Runs, Quiet(n)', run'[n].pc # "none"
    PROVE  LogInv(n)'
  BY DEF Quiet, LogInv

\* A record about the run, and not its last, keeps a quiet log quiet.
LEMMA QuietWrite ==
    ASSUME TypeInv, NEW n \in Runs, Quiet(n), NEW e \in {"started", "response"}, NEW says,
           Write(n, Record(e, "none", says))
    PROVE  Quiet(n)'
  <1>1. log'[n] = log[n] \cup {Record(e, "none", says)}
    BY DEF Write, TypeInv
  <1>2. /\ Record(e, "none", says).device \notin Devices
        /\ Record(e, "none", says).event \notin Endings
    BY ResponseAssumption DEF Record, Endings
  <1> QED
    BY <1>1, <1>2 DEF Quiet

\* The run moves on, is asked to cancel, and learns nothing.
Knows(n) ==
    /\ run'[n].mode = run[n].mode /\ run'[n].targets = run[n].targets
    /\ run'[n].failure = run[n].failure /\ run'[n].scan = run[n].scan
    /\ run'[n].repair = run[n].repair /\ run'[n].verdict = run[n].verdict
    /\ run'[n].result = run[n].result /\ run'[n].patched = run[n].patched

LEMMA KnowsSame ==
    ASSUME NEW n \in Runs, Knows(n)
    PROVE  /\ Heard(n)' <=> Heard(n)
           /\ LastRecord(n)' = LastRecord(n)
           /\ Decided(n)' = Decided(n)
           /\ \A d : Says(n, d)' = Says(n, d)
           /\ run'[n].pc \notin Undecided /\ Told(n) => Told(n)'
           /\ run[n].pc \notin Undecided /\ Told(n)' => Told(n)
  BY DEF Knows, Heard, LastRecord, Decided, Excluded, Says, Told

\* As long as nothing new is known a record that was written stays written.
LEMMA RecordedStays ==
    ASSUME NEW n \in Runs, Knows(n), log[n] \subseteq log'[n], Unrecorded(n) = {}
    PROVE  Unrecorded(n)' = {}
  BY KnowsSame DEF Unrecorded

\* The records of a decided run, after a step that adds at most a decision or the
\* last record.
LEMMA LogAfterDecision ==
    ASSUME TypeInv, NEW n \in Runs, LogInv(n), Knows(n), Told(n),
           run'[n].pc \notin Undecided, log[n] \subseteq log'[n],
           \A x \in log'[n] :
              \/ x \in log[n]
              \/ \E d \in Unrecorded(n) : x = Record("response", d, Says(n, d))
              \/ x = Record("response", "none", run[n].mode)
              \/ x = LastRecord(n) /\ Unrecorded(n) = {} /\ run'[n].pc \in Closed,
           run[n].pc \in Closed => run'[n].pc \in Closed
    PROVE  LogInv(n)'
  <1>1. Told(n)'
    BY KnowsSame
  <1>2. ASSUME NEW d \in Unrecorded(n)
        PROVE  /\ d \in Decided(n) /\ Record("response", d, Says(n, d)).device = d
               /\ Record("response", d, Says(n, d)).event = "response"
    BY DEF Unrecorded, Record
  <1>3. /\ Record("response", "none", run[n].mode).device = "none"
        /\ Record("response", "none", run[n].mode).event = "response"
        /\ LastRecord(n).device = "none"
    BY DEF Record, LastRecord
  <1>4. ASSUME NEW x \in log'[n], x.device \in Devices
        PROVE  /\ x = Record("response", x.device, Says(n, x.device)')
               /\ x.device \in Decided(n)'
    <2>1. \/ x \in log[n]
          \/ \E d \in Unrecorded(n) : x = Record("response", d, Says(n, d))
      BY <1>3, <1>4, ResponseAssumption
    <2> QED
      BY <1>2, <1>4, <2>1, KnowsSame DEF LogInv
  <1>5. ASSUME NEW x \in log'[n], x.event \in Endings
        PROVE  x = LastRecord(n)' /\ run'[n].pc \in Closed /\ Unrecorded(n)' = {}
    <2>1. \/ x \in log[n]
          \/ x = LastRecord(n) /\ Unrecorded(n) = {} /\ run'[n].pc \in Closed
      BY <1>2, <1>3, <1>5 DEF Endings
    <2>2. x = LastRecord(n) /\ run'[n].pc \in Closed /\ Unrecorded(n) = {}
      BY <1>5, <2>1 DEF LogInv, Told
    <2> QED
      BY <2>2, KnowsSame, RecordedStays
  <1>6. run'[n].pc # "none"
    BY DEF Undecided
  <1> QED
    BY <1>1, <1>4, <1>5, <1>6 DEF LogInv

\* The fields a step writes, at the run it writes and at the others.
LEMMA Changed ==
    ASSUME TypeInv, NEW n \in Runs, NEW r, Change(n, r)
    PROVE  run'[n] = r /\ \A m \in Runs \ {n} : run'[m] = run[m]
  BY DEF TypeInv, Change

LEMMA WentTo ==
    ASSUME TypeInv, NEW n \in Runs, NEW pc, Goto(n, pc)
    PROVE  run'[n].pc = pc /\ Knows(n)
  <1>1. run'[n] = [run[n] EXCEPT !.pc = pc] /\ run[n] \in RunType
    BY Changed DEF Goto, TypeInv
  <1> QED
    BY <1>1 DEF Knows, RunType

\* A record is added to the log of its own run.
LEMMA Written ==
    ASSUME TypeInv, NEW n \in Runs, NEW x, Write(n, x)
    PROVE  log'[n] = log[n] \cup {x} /\ \A m \in Runs \ {n} : log'[m] = log[m]
  BY DEF TypeInv, Write

\* The steps a run takes before it has decided, which write at most its start.
LEMMA EarlyStep ==
    ASSUME TypeInv, NEW n \in Runs, RunInv(n), LogInv(n),
           \/ Fire(n) \/ RecordStarted(n) \/ HearScan(n) \/ HearNoScan(n)
           \/ HearRepair(n) \/ CancelScan(n)
    PROVE  RunInv(n)' /\ LogInv(n)'
  <1>0. run[n] \in RunType /\ run[n].pc \in Undecided /\ Quiet(n)
    BY UndecidedIsQuiet DEF TypeInv, Undecided, Fire, RecordStarted, HearScan, HearNoScan,
       HearRepair, CancelScan
  <1>1. ASSUME RunInv(n)', log' = log, run'[n].pc # "none" PROVE RunInv(n)' /\ LogInv(n)'
    <2>1. Quiet(n)'
      BY <1>0, <1>1 DEF Quiet
    <2> QED
      BY <1>1, <2>1, QuietKeeps
  <1>2. CASE Fire(n)
    <2>1. PICK mode \in {"report", "remediate"}, patched \in BOOLEAN :
             Change(n, [NoRun EXCEPT !.pc = "starting", !.mode = mode, !.patched = patched])
      BY <1>2 DEF Fire
    <2>2. run'[n] = [NoRun EXCEPT !.pc = "starting", !.mode = mode, !.patched = patched]
      BY <2>1, Changed
    <2>3. /\ run'[n].pc = "starting" /\ run'[n].scan = "none" /\ run'[n].repair = "none"
          /\ run'[n].targets = {} /\ run'[n].failure = "none"
      BY <2>2 DEF NoRun
    <2>4. RunInv(n)'
      BY <2>3 DEF RunInv
    <2> QED
      BY <1>1, <1>2, <2>3, <2>4 DEF Fire
  <1>3. CASE RecordStarted(n)
    <2>1. /\ run'[n] = [run[n] EXCEPT !.pc = "scanning", !.scan = "open"]
          /\ Write(n, Record("started", "none", run[n].mode))
      BY <1>3, Changed DEF RecordStarted
    <2>2. /\ run'[n].pc = "scanning" /\ run'[n].repair = "none"
          /\ run'[n].targets = {} /\ run'[n].failure = "none"
      BY <1>0, <1>3, <2>1 DEF RunInv, RunType, RecordStarted, Undecided
    <2>3. RunInv(n)'
      BY <2>2 DEF RunInv
    <2> QED
      BY <1>0, <2>1, <2>2, <2>3, QuietWrite, QuietKeeps
  <1>4. CASE HearScan(n)
    <2>1. CASE /\ run[n].mode = "remediate" /\ Fixable(n) # {}
               /\ Change(n, [run[n] EXCEPT !.pc = "repairing", !.repair = "open",
                                           !.targets = Fixable(n)])
      <3>1. run'[n] = [run[n] EXCEPT !.pc = "repairing", !.repair = "open", !.targets = Fixable(n)]
        BY <2>1, Changed
      <3>2. /\ run'[n].pc = "repairing" /\ run'[n].repair = "open" /\ run'[n].targets # {}
            /\ run'[n].scan = "returned" /\ run'[n].mode = "remediate"
            /\ run'[n].failure = "none"
        BY <1>0, <1>4, <2>1, <3>1 DEF RunInv, RunType, HearScan, Undecided
      <3>3. RunInv(n)'
        BY <3>2 DEF RunInv
      <3> QED
        BY <1>1, <1>4, <3>2, <3>3 DEF HearScan
    <2>2. CASE Goto(n, "deciding")
      <3>1. run'[n].pc = "deciding" /\ Knows(n)
        BY <2>2, WentTo
      <3>2. /\ run'[n].scan = "returned" /\ run'[n].repair = "none" /\ run'[n].targets = {}
            /\ run'[n].failure = "none"
        BY <1>4, <3>1 DEF Knows, RunInv, HearScan, Undecided
      <3>3. Told(n)'
        BY <3>1, <3>2 DEF Told, Heard, Undecided
      <3>4. RunInv(n)'
        BY <3>1, <3>2, <3>3 DEF RunInv, Undecided
      <3> QED
        BY <1>1, <1>4, <3>1, <3>4 DEF HearScan
    <2> QED
      BY <1>4, <2>1, <2>2 DEF HearScan
  <1>5. CASE HearNoScan(n) \/ CancelScan(n)
    <2>1. PICK f \in {"scan_cancelled", "intent_unavailable", "cancelled"} :
             \/ run'[n] = [run[n] EXCEPT !.pc = "ending", !.failure = f]
             \/ run'[n] = [run[n] EXCEPT !.cancel = "delivered", !.pc = "ending", !.failure = f]
      BY <1>5, Changed DEF HearNoScan, CancelScan
    <2>2. /\ run'[n].pc = "ending" /\ run'[n].failure = f /\ run'[n].repair = "none"
          /\ run'[n].targets = {}
      BY <1>0, <1>5, <2>1 DEF RunInv, RunType, HearNoScan, CancelScan
    <2>3. ~Heard(n)' /\ f # "none"
      BY <2>2 DEF Heard
    <2>4. RunInv(n)'
      BY <2>2, <2>3 DEF RunInv, Undecided
    <2> QED
      BY <1>1, <1>5, <2>2, <2>4 DEF HearNoScan, CancelScan
  <1>6. CASE HearRepair(n)
    <2>1. PICK f \in {"none", "remediation_failed", "cancelled"} :
             /\ run'[n] = [run[n] EXCEPT !.pc = "deciding", !.failure = f]
             /\ f = "none" => run[n].repair = "returned"
      BY <1>6, Changed DEF HearRepair
    <2>2. /\ run'[n].pc = "deciding" /\ run'[n].failure = f /\ run'[n].repair = run[n].repair
          /\ run'[n].targets = run[n].targets /\ run'[n].scan = run[n].scan
          /\ run'[n].mode = run[n].mode /\ run'[n].patched = run[n].patched
      BY <1>0, <2>1 DEF RunType
    <2>3. run[n].repair \in {"returned", "failed", "cancelled"}
      BY <1>6 DEF HearRepair
    <2>4. Told(n)'
      BY <2>2, <2>3 DEF RunInv, Told, Heard, Undecided
    <2>5. RunInv(n)'
      BY <2>1, <2>2, <2>3, <2>4 DEF RunInv, Undecided
    <2> QED
      BY <1>1, <1>6, <2>2, <2>5 DEF HearRepair
  <1> QED
    BY <1>2, <1>3, <1>4, <1>5, <1>6

\* The steps of a scan or a repair that is open: the run has decided nothing yet,
\* or never will.
LEMMA ChildStep ==
    ASSUME TypeInv, NEW n \in Runs, RunInv(n), LogInv(n),
           \/ ScanCloses(n) \/ TerminateScan(n) \/ RepairCloses(n) \/ TerminateRepair(n)
           \/ \E d \in Devices : DeployStarts(n, d) \/ DeploySkipped(n, d) \/ DeployCloses(n, d)
    PROVE  RunInv(n)' /\ LogInv(n)'
  <1>0. run[n] \in RunType /\ log' = log
    BY DEF TypeInv, ScanCloses, TerminateScan, RepairCloses, TerminateRepair, DeployStarts,
       DeploySkipped, DeployCloses, Advance
  <1>1. CASE ScanCloses(n) \/ TerminateScan(n)
    <2>1. \/ \E v \in [Devices -> Verdicts] :
                run'[n] = [run[n] EXCEPT !.scan = "returned", !.verdict = v]
          \/ \E how \in Children : run'[n] = [run[n] EXCEPT !.scan = how]
      BY <1>1, Changed DEF ScanCloses, TerminateScan, Children
    <2>2. /\ run'[n].pc = run[n].pc /\ run'[n].mode = run[n].mode
          /\ run'[n].repair = run[n].repair /\ run'[n].targets = run[n].targets
          /\ run'[n].failure = run[n].failure /\ run'[n].patched = run[n].patched
      BY <1>0, <2>1 DEF RunType
    <2>3. run[n].scan = "open" /\ ~Told(n) /\ run[n].repair = "none"
          /\ run[n].pc \notin {"none", "starting"}
      BY <1>1 DEF ScanCloses, TerminateScan, Told, RunInv
    <2>4. LastRecord(n)' = LastRecord(n) /\ (Heard(n)' <=> Heard(n))
      BY <2>2 DEF LastRecord, Heard
    <2>5. RunInv(n)'
      BY <2>2, <2>3, <2>4 DEF RunInv
    <2>6. LogInv(n)'
      BY <1>0, <2>2, <2>3, <2>4 DEF LogInv
    <2> QED
      BY <2>5, <2>6
  <1>2. CASE \/ RepairCloses(n) \/ TerminateRepair(n)
             \/ \E d \in Devices : DeployStarts(n, d) \/ DeploySkipped(n, d) \/ DeployCloses(n, d)
    <2>1. /\ run[n].repair = "open"
          /\ \/ \E d \in Devices, p \in Progress : run'[n] = [run[n] EXCEPT !.result[d] = p]
             \/ run'[n] = [run[n] EXCEPT !.repair = "returned"]
             \/ \E how \in {"failed", "cancelled", "terminated"} :
                   run'[n] = [run[n] EXCEPT !.repair = how, !.result = Cut(n)]
      <3>1. CASE RepairCloses(n)
        <4>1. \/ Change(n, [run[n] EXCEPT !.repair = "returned"])
              \/ \E how \in {"failed", "cancelled"} :
                    Change(n, [run[n] EXCEPT !.repair = how, !.result = Cut(n)])
          BY <3>1 DEF RepairCloses
        <4> QED
          BY <3>1, <4>1, Changed DEF RepairCloses
      <3>2. CASE TerminateRepair(n)
        BY <3>2, Changed DEF TerminateRepair
      <3>3. CASE \E d \in Devices : DeployStarts(n, d) \/ DeploySkipped(n, d) \/ DeployCloses(n, d)
        <4>1. \E d \in Devices, p \in Progress : Advance(n, d, p)
          BY <3>3 DEF DeployStarts, DeploySkipped, DeployCloses, Progress, Results
        <4> QED
          BY <4>1, Changed DEF Advance
      <3> QED
        BY <1>2, <3>1, <3>2, <3>3
    <2>2. /\ run'[n].pc = run[n].pc /\ run'[n].mode = run[n].mode
          /\ run'[n].scan = run[n].scan /\ run'[n].targets = run[n].targets
          /\ run'[n].failure = run[n].failure /\ run'[n].repair # "none"
      BY <1>0, <2>1 DEF RunType
    <2>3. ~Told(n) /\ Heard(n)
      BY <2>1 DEF Told, Heard
    <2>4. run[n].pc \notin {"none", "starting", "scanning", "deciding", "ending", "RETURNED"}
      BY <2>1, <2>3 DEF RunInv
    <2>5. RunInv(n)'
      BY <2>1, <2>2, <2>4 DEF RunInv
    <2>6. Quiet(n)'
      BY <1>0, <2>1, RepairingIsQuiet DEF Quiet
    <2> QED
      BY <2>2, <2>4, <2>5, <2>6, QuietKeeps
  <1> QED
    BY <1>1, <1>2

\* The steps that write the decisions and the last record, or close the run.
LEMMA LateStep ==
    ASSUME TypeInv, NEW n \in Runs, RunInv(n), LogInv(n),
           \/ RecordDecision(n) \/ RecordSummary(n) \/ RecordEnd(n) \/ RecordBreaks(n)
           \/ CancelRepair(n) \/ RequestCancel(n) \/ CloseByServer(n)
    PROVE  RunInv(n)' /\ LogInv(n)'
  <1>0. run[n] \in RunType
    BY DEF TypeInv
  <1>1. CASE RecordDecision(n)
    <2>1. PICK d \in Unrecorded(n) : Write(n, Record("response", d, Says(n, d)))
      BY <1>1 DEF RecordDecision
    <2>2. run' = run /\ run[n].pc = "deciding" /\ Knows(n) /\ Told(n)
      BY <1>1 DEF RecordDecision, Knows, RunInv
    <2>3. /\ log'[n] = log[n] \cup {Record("response", d, Says(n, d))}
          /\ run'[n].pc \notin Undecided
      BY <2>1, <2>2, Written DEF Undecided
    <2>4. LogInv(n)'
      BY <2>1, <2>2, <2>3, LogAfterDecision
    <2>5. RunInv(n)'
      BY <2>2, KnowsSame DEF RunInv, Undecided
    <2> QED
      BY <2>4, <2>5
  <1>2. CASE RecordSummary(n)
    <2>1. /\ run'[n].pc = "ending" /\ Knows(n) /\ run[n].pc = "deciding" /\ Told(n)
          /\ Unrecorded(n) = {} /\ log'[n] = log[n] \cup {Record("response", "none", run[n].mode)}
      BY <1>2, WentTo, Written DEF RecordSummary, RunInv
    <2>2. LogInv(n)'
      BY <2>1, LogAfterDecision DEF Undecided, Closed
    <2>3. Told(n)' /\ Unrecorded(n)' = {}
      BY <2>1, KnowsSame, RecordedStays DEF Undecided
    <2>4. RunInv(n)'
      BY <2>1, <2>3 DEF RunInv, Knows, Undecided
    <2> QED
      BY <2>2, <2>4
  <1>3. ASSUME NEW pc \in Closed, Goto(n, pc), run[n].pc = "ending",
               log'[n] = log[n] \/ log'[n] = log[n] \cup {LastRecord(n)},
               pc = "RETURNED" =>
                  run[n].failure = "none" /\ log'[n] = log[n] \cup {LastRecord(n)}
        PROVE  RunInv(n)' /\ LogInv(n)'
    <2>1. run'[n].pc = pc /\ Knows(n) /\ pc \notin Undecided
      BY <1>3, WentTo DEF Closed, Undecided
    <2>2. CASE Heard(n)
      <3>1. Told(n) /\ Unrecorded(n) = {}
        BY <1>3, <2>2 DEF RunInv
      <3>2. LogInv(n)'
        BY <1>3, <2>1, <3>1, LogAfterDecision DEF Closed
      <3>3. Told(n)' /\ LastRecord(n)' = LastRecord(n)
        BY <2>1, <3>1, KnowsSame
      <3>4. pc = "RETURNED" => run[n].repair \in {"none", "returned"}
        BY <1>3 DEF RunInv
      <3>5. pc \notin {"none", "starting", "scanning", "deciding", "ending"}
        BY DEF Closed
      <3>6. RunInv(n)'
        BY <1>3, <2>1, <3>3, <3>4, <3>5 DEF RunInv, Knows
      <3> QED
        BY <3>2, <3>6
    <2>3. CASE ~Heard(n)
      <3>1. ~Heard(n)' /\ run[n].failure # "none" /\ ~Told(n)
        BY <2>1, <2>3, KnowsSame DEF Heard, Told
      <3>2. pc \notin {"none", "starting", "scanning", "deciding", "ending", "RETURNED"}
        BY <1>3, <3>1 DEF Closed
      <3>3. RunInv(n)'
        BY <2>1, <3>2 DEF RunInv, Knows
      <3>4. LastRecord(n).device \notin Devices
        BY ResponseAssumption DEF LastRecord, Record
      <3>5. \A x \in log[n] : x.device \notin Devices /\ x.event \notin Endings
        BY <1>3, <3>1 DEF LogInv, Closed
      <3>6. LogInv(n)'
        BY <1>3, <2>1, <3>1, <3>2, <3>4, <3>5, KnowsSame DEF LogInv
      <3> QED
        BY <3>3, <3>6
    <2> QED
      BY <2>2, <2>3
  <1>4. CASE RecordEnd(n)
    <2>1. /\ CloseAs(n) \in Closed
          /\ CloseAs(n) = "RETURNED" => run[n].failure = "none"
      BY DEF CloseAs, Closed
    <2>2. log'[n] = log[n] \cup {LastRecord(n)} /\ run[n].pc = "ending" /\ Goto(n, CloseAs(n))
      BY <1>4, Written DEF RecordEnd
    <2> QED
      BY <1>3, <2>1, <2>2
  <1>5. ASSUME NEW pc \in {"FAILED", "CANCELLED", "TIMED_OUT"}, Goto(n, pc),
               run[n].pc \notin {"none", "ending"}, run[n].pc \notin Closed,
               log[n] \subseteq log'[n],
               \A x \in log'[n] : x \in log[n] \/ x \in Writing(n)
        PROVE  RunInv(n)' /\ LogInv(n)'
    <2>1. /\ run'[n].pc = pc /\ Knows(n) /\ pc \notin Undecided
          /\ pc \notin {"none", "starting", "scanning", "deciding", "ending", "RETURNED"}
      BY <1>5, WentTo DEF Undecided
    <2>2. RunInv(n)'
      BY <2>1 DEF RunInv, Knows
    <2>3. CASE run[n].pc \in Undecided
      <3>1. \A x \in log'[n] : x \in log[n] \/ x = Record("started", "none", run[n].mode)
        BY <1>5, <2>3 DEF Writing, Undecided
      <3>2. /\ Record("started", "none", run[n].mode).device \notin Devices
            /\ Record("started", "none", run[n].mode).event \notin Endings
        BY ResponseAssumption DEF Record, Endings
      <3>3. Quiet(n)'
        BY <2>3, <3>1, <3>2, UndecidedIsQuiet DEF Quiet
      <3> QED
        BY <2>1, <2>2, <3>3, QuietKeeps
    <2>4. CASE run[n].pc \notin Undecided
      <3>1. run[n].pc = "deciding" /\ Told(n)
        BY <1>0, <1>5, <2>4 DEF RunType, Places, Undecided, RunInv
      <3>2. \A x \in Writing(n) :
               \/ \E d \in Unrecorded(n) : x = Record("response", d, Says(n, d))
               \/ x = Record("response", "none", run[n].mode)
        BY <3>1 DEF Writing
      <3>3. run'[n].pc \in Closed
        BY <2>1 DEF Closed
      <3> QED
        BY <1>5, <2>1, <2>2, <3>1, <3>2, <3>3, LogAfterDecision
    <2> QED
      BY <2>3, <2>4
  <1>6. CASE RecordBreaks(n)
    <2>1. PICK pc \in {"FAILED", "CANCELLED"} : Goto(n, pc)
      BY <1>6 DEF RecordBreaks
    <2>2. /\ log'[n] = log[n] \/ \E x \in Writing(n) : log'[n] = log[n] \cup {x}
          /\ run[n].pc \in {"starting", "deciding", "ending"}
      BY <1>6, Written DEF RecordBreaks, Writing
    <2>3. CASE run[n].pc = "ending"
      <3>1. Writing(n) = {LastRecord(n)} /\ pc \in Closed
        BY <2>3 DEF Writing, Closed
      <3> QED
        BY <1>3, <2>1, <2>2, <2>3, <3>1
    <2>4. CASE run[n].pc # "ending"
      BY <1>5, <2>1, <2>2, <2>4 DEF Closed
    <2> QED
      BY <2>3, <2>4
  <1>7. CASE CloseByServer(n)
    <2>1. /\ Goto(n, "TIMED_OUT") /\ run[n].pc # "none" /\ run[n].pc \notin Closed
          /\ log'[n] = log[n] \/ \E x \in Writing(n) : log'[n] = log[n] \cup {x}
      BY <1>7, Written DEF CloseByServer, Open
    <2>2. CASE run[n].pc = "ending"
      <3>1. Writing(n) = {LastRecord(n)} /\ "TIMED_OUT" \in Closed
        BY <2>2 DEF Writing, Closed
      <3> QED
        BY <1>3, <2>1, <2>2, <3>1
    <2>3. CASE run[n].pc # "ending"
      BY <1>5, <2>1, <2>3
    <2> QED
      BY <2>2, <2>3
  <1>8. CASE CancelRepair(n) \/ RequestCancel(n)
    <2>1. /\ run'[n] \in {[run[n] EXCEPT !.cancel = "delivered"],
                          [run[n] EXCEPT !.cancel = "requested"]}
          /\ log' = log
      BY <1>8, Changed DEF CancelRepair, RequestCancel
    <2>2. run'[n].pc = run[n].pc /\ Knows(n)
      BY <1>0, <2>1 DEF RunType, Knows
    <2>3. Told(n)' <=> Told(n)
      BY <2>2, KnowsSame DEF Told, Knows
    <2>4. Unrecorded(n)' = Unrecorded(n)
      BY <2>1, <2>2, KnowsSame DEF Unrecorded
    <2>5. RunInv(n)'
      BY <2>1, <2>2, <2>3, <2>4, KnowsSame DEF RunInv, Knows
    <2>6. LogInv(n)'
      BY <2>1, <2>2, <2>3, <2>4, KnowsSame DEF LogInv
    <2> QED
      BY <2>5, <2>6
  <1> QED
    BY <1>1, <1>2, <1>4, <1>6, <1>7, <1>8

LEMMA InvInit == Init => IInv
  <1> SUFFICES ASSUME Init PROVE IInv
    OBVIOUS
  <1>1. ASSUME NEW n \in Runs PROVE RunInv(n) /\ LogInv(n)
    <2>1. run[n] = NoRun /\ log[n] = {}
      BY DEF Init
    <2> QED
      BY <2>1 DEF NoRun, RunInv, LogInv
  <1> QED
    BY <1>1, InitType DEF IInv

LEMMA InvStep == IInv /\ [Next]_vars => IInv'
  <1> SUFFICES ASSUME IInv, [Next]_vars PROVE IInv'
    OBVIOUS
  <1>1. TypeInv /\ TypeInv' /\ \A n \in Runs : RunInv(n) /\ LogInv(n)
    BY TypeStep DEF IInv
  <1>2. CASE UNCHANGED vars
    BY <1>1, <1>2, Frame DEF vars, IInv
  <1>3. ASSUME NEW n \in Runs,
               \/ Fire(n) \/ Works(n) \/ ScanCloses(n) \/ RepairCloses(n)
               \/ \E d \in Devices : DeployStarts(n, d) \/ DeploySkipped(n, d) \/ DeployCloses(n, d)
               \/ RequestCancel(n) \/ CloseByServer(n) \/ TerminateScan(n) \/ TerminateRepair(n)
        PROVE  IInv'
    <2>1. RunInv(n)' /\ LogInv(n)'
      BY <1>1, <1>3, EarlyStep, ChildStep, LateStep DEF Works
    <2>2. ASSUME NEW m \in Runs, m # n PROVE run'[m] = run[m] /\ log'[m] = log[m]
      <3>1. run' = run \/ \E r : run' = [run EXCEPT ![n] = r]
        BY <1>3 DEF Works, Fire, RecordStarted, RecordDecision, RecordSummary, RecordEnd,
           RecordBreaks, HearScan, HearNoScan, HearRepair, CancelScan, CancelRepair, ScanCloses,
           RepairCloses, DeployStarts, DeploySkipped, DeployCloses, Advance, RequestCancel,
           CloseByServer, TerminateScan, TerminateRepair, Goto, Change
      <3>2. log' = log \/ \E x : log' = [log EXCEPT ![n] = @ \cup {x}]
        BY <1>3 DEF Works, Fire, RecordStarted, RecordDecision, RecordSummary, RecordEnd,
           RecordBreaks, HearScan, HearNoScan, HearRepair, CancelScan, CancelRepair, ScanCloses,
           RepairCloses, DeployStarts, DeploySkipped, DeployCloses, Advance, RequestCancel,
           CloseByServer, TerminateScan, TerminateRepair, Write
      <3> QED
        BY <1>1, <2>2, <3>1, <3>2 DEF TypeInv
    <2> QED
      BY <1>1, <2>1, <2>2, Frame DEF IInv
  <1> QED
    BY <1>2, <1>3 DEF Next

-----------------------------------------------------------------------------
(***************************************************************************)
(* What follows for the audit log and the schedule's owner                 *)
(***************************************************************************)

THEOREM ResponseInvariance == Spec => []IInv
  BY InvInit, InvStep, PTL DEF Spec

\* A cancelled scan never reads as a clean one: a run that returned heard its scan
\* and, had it anything to fix, its reconcile.
THEOREM ReturnedRunsScanned == Spec => []ReturnedMeansScanned
  <1>1. IInv => ReturnedMeansScanned
    <2> SUFFICES ASSUME IInv, NEW n \in Runs, run[n].pc = "RETURNED"
                 PROVE  /\ run[n].scan = "returned"
                        /\ run[n].targets # {} => run[n].repair = "returned"
                        /\ \A record \in log[n] : record.event # "cancelled"
      BY DEF ReturnedMeansScanned
    <2>1. RunInv(n) /\ LogInv(n)
      BY DEF IInv
    <2>2. LastRecord(n).event # "cancelled"
      BY <2>1 DEF RunInv, LastRecord, Record
    <2> QED
      BY <2>1, <2>2 DEF RunInv, LogInv, Told, Endings
  <1> QED
    BY <1>1, ResponseInvariance, PTL

\* When the run's last record is in the log so are its decisions, each once and as
\* the reconcile told it; there is one last record and it fits how the run closed
\* (specs/009 FR-020).
THEOREM DecisionsStayRecorded == Spec => []DecisionsAreRecorded
  <1>1. ASSUME IInv PROVE DecisionsAreRecorded
    <2> DEFINE endings(n) == {x \in log[n] : x.event \in {"terminated", "cancelled"}}
               success == Record("terminated", "none", "success")
               said(n, d) == {record.says : record \in {x \in log[n] : x.device = d}}
    <2>0. ASSUME NEW n \in Runs PROVE RunInv(n) /\ LogInv(n)
      BY <1>1 DEF IInv
    <2>1. ASSUME NEW n \in Runs, endings(n) # {}, NEW d \in Devices
          PROVE  said(n, d) = IF d \in Decided(n) /\ Heard(n) THEN {Says(n, d)} ELSE {}
      <3>1. Heard(n) => Told(n) /\ Unrecorded(n) = {}
        BY <2>0, <2>1 DEF LogInv, Endings
      <3>2. \A x \in log[n] : x.device = d =>
               x.says = Says(n, d) /\ d \in Decided(n) /\ Heard(n)
        BY <2>0 DEF LogInv, Record, Told
      <3>3. d \in Decided(n) /\ Heard(n) => Record("response", d, Says(n, d)) \in log[n]
        BY <3>1 DEF Unrecorded
      <3>4. /\ Record("response", d, Says(n, d)).device = d
            /\ Record("response", d, Says(n, d)).says = Says(n, d)
        BY DEF Record
      <3> QED
        BY <3>2, <3>3, <3>4
    <2>2. ASSUME NEW n \in Runs PROVE Cardinality(endings(n)) <= 1
      <3>1. endings(n) = {} \/ endings(n) = {LastRecord(n)}
        BY <2>0 DEF LogInv, Endings
      <3>2. Cardinality({}) = 0 /\ Cardinality({LastRecord(n)}) = 1
        BY FS_EmptySet, FS_Singleton
      <3> HIDE DEF endings
      <3> QED
        BY <3>1, <3>2
    <2>3. ASSUME NEW n \in Runs, run[n].pc = "RETURNED" PROVE success \in log[n]
      BY <2>0, <2>3 DEF RunInv, LastRecord
    <2>4. ASSUME NEW n \in Runs, success \in log[n] PROVE run[n].failure = "none"
      <3>1. success = LastRecord(n) /\ run[n] \in RunType
        BY <1>1, <2>0, <2>4 DEF LogInv, Record, Endings, IInv, TypeInv
      <3>2. success.says = "success" /\ success.event = "terminated"
        BY DEF Record
      <3> QED
        BY <3>1, <3>2 DEF LastRecord, Record, RunType, Failures
    <2> QED
      BY <2>1, <2>2, <2>3, <2>4 DEF DecisionsAreRecorded
  <1> QED
    BY <1>1, ResponseInvariance, PTL
============================================================================
