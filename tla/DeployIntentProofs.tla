------------------------- MODULE DeployIntentProofs -------------------------
(***************************************************************************)
(* What is proved of DeployIntent for every value of its constants.        *)
(***************************************************************************)
EXTENDS DeployIntent, TLAPS

(***************************************************************************)
(* The inductive invariant, device by device                               *)
(***************************************************************************)

\* Where the open execution stands fits its reason and what the log holds.
ExecutionInv(d) ==
    /\ exec[d].pc = "terminating" => exec[d].reason \in Reasons \ {"CANCELLED"}
    /\ exec[d].pc = "cancelling" => exec[d].reason = "CANCELLED"
    /\ exec[d].pc \notin Terminal => exec[d].reason = "none"
    /\ Open(d) => /\ runs[d] \in Runs
                  /\ Told(stored[d], runs[d], exec[d].pc, exec[d].reason)

\* Every record, written or still on its way, belongs to a run that was started
\* and follows the records of the steps before it; a terminal record of the open
\* execution is the one that execution is writing.
RecordInv(d) ==
    \A r \in stored[d] \cup writing[d] :
        /\ r.run <= runs[d]
        /\ Told(stored[d], r.run, r.event, r.reason)
        /\ r.event \in Terminal /\ r.run = runs[d] /\ Open(d) => r = RecordOf(d)

\* No run has two terminal records.
UniqueInv(d) ==
    \A r, s \in stored[d] \cup writing[d] :
        r.run = s.run /\ r.event \in Terminal /\ s.event \in Terminal => r = s

\* A returned result is recorded.
ResultInv(d) ==
    \A n \in Runs :
        ended[d][n] \in Reasons => \E r \in stored[d] : Tells(r, n, ended[d][n])

\* A SET, landed or still on its way, was accounted for.
WriteInv(d) ==
    /\ \A n \in landed[d] : Accounted(stored[d], n)
    /\ \A s \in setting[d] : Accounted(stored[d], s.run)

DeviceInv(d) ==
    ExecutionInv(d) /\ RecordInv(d) /\ UniqueInv(d) /\ ResultInv(d) /\ WriteInv(d)

\* An open execution has a number, and a reason when it writes a terminal record.
Numbered ==
    \A d \in Devices : /\ Open(d) => runs[d] \in Runs
                       /\ exec[d].pc \in Terminal => exec[d].reason \in Reasons

TypeInv == TypeOK /\ Numbered

IInv == TypeInv /\ \A d \in Devices : DeviceInv(d)

-----------------------------------------------------------------------------
(***************************************************************************)
(* Type correctness                                                        *)
(***************************************************************************)

\* Merging two configurations gives a configuration.
LEMMA MergeType ==
    ASSUME NEW c \in Config, NEW g \in Config
    PROVE  Merge(c, g) \in Config
  BY DEF Merge, Config

\* A comparison gives a report.
LEMMA CompareType ==
    ASSUME NEW g, NEW c
    PROVE  Compare(g, c) \in Reports
  BY DEF Compare, Reports

\* A report is classified with a reason a terminal record may carry.
LEMMA ClassifyType ==
    ASSUME NEW r \in Reports
    PROVE  Classify(r) \in Reasons \ {"CANCELLED"}
  BY DEF Classify, Reports, Reasons

\* The state before anything was deployed is well typed.
LEMMA IdleType == Idle \in Execution
  <1>1. NoConfig \in Config
    BY DEF NoConfig, Config
  <1> QED
    BY <1>1 DEF Idle, Execution, Recording, Activities, Reports

\* The record an open execution writes is well typed.
LEMMA RecordType ==
    ASSUME TypeOK, NEW d \in Devices, exec[d].pc \in Recording, runs[d] \in Runs
    PROVE  RecordOf(d) \in Record
  BY DEF TypeOK, RecordOf, Record, Execution

\* One field of an execution at a time, then the combinations the steps write.
LEMMA AttemptType ==
    ASSUME NEW e \in Execution, NEW n \in Nat \ {0}
    PROVE  [e EXCEPT !.attempt = n] \in Execution
  BY DEF Execution

LEMMA MoveType ==
    ASSUME NEW e \in Execution, NEW pc \in Recording \cup Activities
    PROVE  [e EXCEPT !.pc = pc, !.attempt = 1] \in Execution
  <1> DEFINE f == [e EXCEPT !.pc = pc]
  <1>1. f \in Execution
    BY DEF Execution
  <1>2. [e EXCEPT !.pc = pc, !.attempt = 1] = [f EXCEPT !.attempt = 1]
    BY DEF Execution
  <1> HIDE DEF f
  <1>3. [f EXCEPT !.attempt = 1] \in Execution
    BY <1>1, AttemptType
  <1> QED
    BY <1>2, <1>3

LEMMA ReasonType ==
    ASSUME NEW e \in Execution, NEW pc \in Recording \cup Activities, NEW r \in Reasons
    PROVE  [e EXCEPT !.pc = pc, !.attempt = 1, !.reason = r] \in Execution
  <1> DEFINE m == [e EXCEPT !.pc = pc, !.attempt = 1]
  <1>1. m \in Execution
    BY MoveType
  <1>2. [m EXCEPT !.reason = r] \in Execution
    BY <1>1 DEF Execution
  <1>3. [e EXCEPT !.pc = pc, !.attempt = 1, !.reason = r] = [m EXCEPT !.reason = r]
    BY DEF Execution
  <1> QED
    BY <1>2, <1>3

LEMMA DesiredType ==
    ASSUME NEW e \in Execution, NEW pc \in Recording \cup Activities, NEW g \in Config
    PROVE  [e EXCEPT !.pc = pc, !.attempt = 1, !.desired = g] \in Execution
  <1> DEFINE m == [e EXCEPT !.pc = pc, !.attempt = 1]
  <1>1. m \in Execution
    BY MoveType
  <1>2. [m EXCEPT !.desired = g] \in Execution
    BY <1>1 DEF Execution
  <1>3. [e EXCEPT !.pc = pc, !.attempt = 1, !.desired = g] = [m EXCEPT !.desired = g]
    BY DEF Execution
  <1> QED
    BY <1>2, <1>3

LEMMA SeenType ==
    ASSUME NEW e \in Execution, NEW pc \in Recording \cup Activities,
           NEW s \in Config \cup {Missing}
    PROVE  [e EXCEPT !.pc = pc, !.attempt = 1, !.seen = s] \in Execution
  <1> DEFINE m == [e EXCEPT !.pc = pc, !.attempt = 1]
  <1>1. m \in Execution
    BY MoveType
  <1>2. [m EXCEPT !.seen = s] \in Execution
    BY <1>1 DEF Execution
  <1>3. [e EXCEPT !.pc = pc, !.attempt = 1, !.seen = s] = [m EXCEPT !.seen = s]
    BY DEF Execution
  <1> QED
    BY <1>2, <1>3

LEMMA ReportType ==
    ASSUME NEW e \in Execution, NEW pc \in Recording \cup Activities, NEW r \in Reports
    PROVE  [e EXCEPT !.pc = pc, !.attempt = 1, !.report = r, !.seen = Missing] \in Execution
  <1> DEFINE m == [e EXCEPT !.pc = pc, !.attempt = 1, !.seen = Missing]
  <1>1. m \in Execution
    BY SeenType
  <1>2. [m EXCEPT !.report = r] \in Execution
    BY <1>1 DEF Execution
  <1>3. [e EXCEPT !.pc = pc, !.attempt = 1, !.report = r, !.seen = Missing]
            = [m EXCEPT !.report = r]
    BY DEF Execution
  <1> QED
    BY <1>2, <1>3

\* An open execution that moves on keeps its number.
LEMMA NumberedStep ==
    ASSUME TypeInv, NEW d \in Devices, Open(d), runs' = runs, NEW e \in Execution,
           exec' = [exec EXCEPT ![d] = e],
           e.pc \in Terminal => e.reason \in Reasons
    PROVE  exec' \in [Devices -> Execution] /\ Numbered'
  BY DEF TypeInv, TypeOK, Numbered, Open

\* What the helpers that move an execution on do to its type.
LEMMA AwaitType ==
    ASSUME TypeInv, NEW d \in Devices, Open(d), runs' = runs,
           NEW pc \in (Recording \cup Activities) \ Terminal, Await(d, pc)
    PROVE  exec' \in [Devices -> Execution] /\ Numbered'
  <1> DEFINE e == [exec[d] EXCEPT !.pc = pc, !.attempt = 1]
  <1>1. e \in Execution
    BY MoveType DEF TypeInv, TypeOK
  <1>2. exec' = [exec EXCEPT ![d] = e]
    BY DEF Await
  <1>3. e.pc \notin Terminal
    BY DEF TypeInv, TypeOK, Execution
  <1> QED
    BY <1>1, <1>2, <1>3, NumberedStep

LEMMA TerminateType ==
    ASSUME TypeInv, NEW d \in Devices, Open(d), runs' = runs,
           NEW r \in Reasons, Terminate(d, r)
    PROVE  exec' \in [Devices -> Execution] /\ Numbered'
  <1> DEFINE e == [exec[d] EXCEPT !.pc = "terminating", !.attempt = 1, !.reason = r]
  <1>1. e \in Execution
    BY ReasonType DEF TypeInv, TypeOK, Recording
  <1>2. exec' = [exec EXCEPT ![d] = e]
    BY DEF Terminate
  <1>3. e.reason = r
    BY DEF TypeInv, TypeOK, Execution
  <1> QED
    BY <1>1, <1>2, <1>3, NumberedStep

LEMMA TerminateCancelledType ==
    ASSUME TypeInv, NEW d \in Devices, Open(d), runs' = runs, TerminateCancelled(d)
    PROVE  exec' \in [Devices -> Execution] /\ Numbered'
  <1> DEFINE e == [exec[d] EXCEPT !.pc = "cancelling", !.attempt = 1,
                                  !.reason = "CANCELLED"]
  <1>1. e \in Execution
    BY ReasonType DEF TypeInv, TypeOK, Recording, Reasons
  <1>2. exec' = [exec EXCEPT ![d] = e]
    BY DEF TerminateCancelled
  <1>3. e.reason \in Reasons
    BY DEF TypeInv, TypeOK, Execution, Reasons
  <1> QED
    BY <1>1, <1>2, <1>3, NumberedStep

LEMMA RetryType ==
    ASSUME TypeInv, NEW d \in Devices, Open(d), runs' = runs,
           exec' = [exec EXCEPT ![d].attempt = @ + 1]
    PROVE  exec' \in [Devices -> Execution] /\ Numbered'
  <1> DEFINE e == [exec[d] EXCEPT !.attempt = exec[d].attempt + 1]
  <1>1. exec[d] \in Execution /\ exec[d].attempt + 1 \in Nat \ {0}
    BY DEF TypeInv, TypeOK, Execution
  <1>2. e \in Execution
    BY <1>1, AttemptType
  <1>3. exec' = [exec EXCEPT ![d] = e]
    OBVIOUS
  <1>4. e.pc = exec[d].pc /\ e.reason = exec[d].reason
    BY <1>1 DEF Execution
  <1> QED
    BY <1>2, <1>3, <1>4, NumberedStep DEF TypeInv, Numbered

LEMMA CloseType ==
    ASSUME TypeInv, NEW d \in Devices, Open(d), runs' = runs,
           NEW ending \in Endings, Close(d, ending)
    PROVE  /\ exec' \in [Devices -> Execution]
           /\ Numbered'
           /\ ended' \in [Devices -> [Runs -> Endings \cup {"open"}]]
           /\ cancel' \in [Devices -> {"none", "requested", "delivered"}]
  <1> DEFINE e == [Idle EXCEPT !.desired = exec[d].desired]
  <1>1. e \in Execution
    BY IdleType DEF TypeInv, TypeOK, Execution
  <1>2. exec' = [exec EXCEPT ![d] = e]
    BY DEF Close
  <1>3. e.pc \notin Terminal
    BY DEF Idle, Terminal
  <1>4. runs[d] \in Runs
    BY DEF TypeInv, Numbered
  <1>5. ended' \in [Devices -> [Runs -> Endings \cup {"open"}]]
    BY <1>4 DEF TypeInv, TypeOK, Close
  <1>6. cancel' \in [Devices -> {"none", "requested", "delivered"}]
    BY DEF TypeInv, TypeOK, Close
  <1> HIDE DEF e
  <1> QED
    BY <1>1, <1>2, <1>3, <1>5, <1>6, NumberedStep

LEMMA DeviceSetType ==
    ASSUME TypeOK, NEW d \in Devices, NEW n \in Runs, NEW g \in Config, DeviceSet(d, n, g)
    PROVE  /\ config' \in [Devices -> Config]
           /\ landed' \in [Devices -> SUBSET Runs]
           /\ writer' \in [Devices -> 0..MaxRuns]
  <1>1. Merge(config[d], g) \in Config
    BY MergeType DEF TypeOK
  <1>2. landed[d] \cup {n} \in SUBSET Runs
    BY DEF TypeOK
  <1>3. config' \in [Devices -> Config]
    BY <1>1 DEF TypeOK, DeviceSet
  <1>4. landed' \in [Devices -> SUBSET Runs]
    BY <1>2 DEF TypeOK, DeviceSet
  <1>5. writer' \in [Devices -> 0..MaxRuns]
    BY BoundsAssumption DEF TypeOK, DeviceSet, Runs
  <1> QED
    BY <1>3, <1>4, <1>5

LEMMA AbandonWriteType ==
    ASSUME TypeOK, NEW d \in Devices, RecordOf(d) \in Record, AbandonWrite(d)
    PROVE  writing' \in [Devices -> SUBSET Record]
  <1>1. writing[d] \cup {RecordOf(d)} \in SUBSET Record
    BY DEF TypeOK
  <1> QED
    BY <1>1 DEF TypeOK, AbandonWrite

LEMMA AbandonSetType ==
    ASSUME TypeOK, NEW d \in Devices, runs[d] \in Runs, NEW l \in BOOLEAN, AbandonSet(d, l)
    PROVE  setting' \in [Devices -> SUBSET Set]
  <1> DEFINE s == [run |-> runs[d], attempt |-> exec[d].attempt,
                   desired |-> exec[d].desired, locked |-> l]
  <1>1. s \in Set
    BY DEF TypeOK, Set, Execution
  <1>2. setting[d] \cup {s} \in SUBSET Set
    BY <1>1 DEF TypeOK
  <1> QED
    BY <1>2 DEF TypeOK, AbandonSet

LEMMA InitType == Init => TypeInv
  <1>1. ASSUME Init PROVE TypeInv
    <2>1. Runs \subseteq Nat /\ 0 \in 0..MaxRuns
      BY BoundsAssumption DEF Runs
    <2> QED
      BY <1>1, <2>1, IdleType DEF Init, TypeInv, TypeOK, Numbered, Open, Idle, Terminal
  <1> QED
    BY <1>1
\* No step leaves the types.
LEMMA TypeStep == TypeInv /\ [Next]_vars => TypeInv'
  <1> SUFFICES ASSUME TypeInv, [Next]_vars PROVE TypeInv'
    OBVIOUS
  <1>0. TypeOK /\ Numbered
    BY DEF TypeInv
  <1>1. CASE UNCHANGED vars
    BY <1>1 DEF vars, TypeOK, Numbered, Open, TypeInv
  <1>2. CASE WorkerCrash
    BY <1>2 DEF WorkerCrash, TypeOK, Numbered, Open, TypeInv
  <1>3. ASSUME NEW d \in Devices, Progress(d) \/ Late(d) \/ Outside(d)
        PROVE  TypeInv'
    <2>1. CASE StartDeploy(d)
      <3>1. [Idle EXCEPT !.pc = "started"] \in Execution
        BY IdleType DEF Execution, Recording
      <3>2. runs[d] + 1 \in Runs /\ runs[d] + 1 \in 0..MaxRuns
        BY <1>0, <2>1, BoundsAssumption DEF TypeOK, StartDeploy, Runs
      <3>3. exec' \in [Devices -> Execution]
        BY <1>0, <2>1, <3>1 DEF TypeOK, StartDeploy
      <3>4. runs' \in [Devices -> 0..MaxRuns]
        BY <1>0, <2>1, <3>2 DEF TypeOK, StartDeploy
      <3>5. Numbered'
        BY <1>0, <2>1, <3>2 DEF TypeOK, Numbered, Open, StartDeploy, Terminal, Idle
      <3> QED
        BY <1>0, <2>1, <3>3, <3>4, <3>5 DEF TypeInv, TypeOK, StartDeploy
    <2>2. CASE RecordWritten(d)
      <3>1. Open(d) /\ runs[d] \in Runs /\ runs' = runs
        BY <1>0, <2>2 DEF RecordWritten, Numbered, Open, Recording
      <3>2. stored' \in [Devices -> SUBSET Record]
        <4>1. stored[d] \cup {RecordOf(d)} \in SUBSET Record
          BY <1>0, <2>2, <3>1, RecordType DEF RecordWritten, TypeOK
        <4> QED
          BY <1>0, <2>2, <4>1 DEF RecordWritten, TypeOK
      <3>3. CASE exec[d].pc \in DOMAIN Step /\ Await(d, Step[exec[d].pc])
                 /\ UNCHANGED <<ended, cancel>>
        <4>1. Step[exec[d].pc] \in (Recording \cup Activities) \ Terminal
          BY <3>3 DEF Step, Activities, Terminal
        <4> QED
          BY <1>0, <2>2, <3>1, <3>2, <3>3, <4>1, AwaitType DEF RecordWritten, TypeInv, TypeOK
      <3>4. CASE exec[d].pc = "detected" /\ Terminate(d, Classify(exec[d].report))
                 /\ UNCHANGED <<ended, cancel>>
        <4>1. Classify(exec[d].report) \in Reasons
          BY <1>0, ClassifyType DEF TypeOK, Execution
        <4> QED
          BY <1>0, <2>2, <3>1, <3>2, <3>4, <4>1, TerminateType DEF RecordWritten, TypeInv, TypeOK
      <3>5. CASE exec[d].pc \in Terminal /\ Close(d, exec[d].reason)
        <4>1. exec[d].reason \in Endings
          BY <1>0, <3>5 DEF Numbered, Endings
        <4> QED
          BY <1>0, <2>2, <3>1, <3>2, <3>5, <4>1, CloseType DEF RecordWritten, TypeInv, TypeOK
      <3> QED
        BY <2>2, <3>3, <3>4, <3>5 DEF RecordWritten
    <2>3. CASE RecordAttemptFails(d)
      <3>1. Open(d) /\ runs' = runs
        BY <2>3 DEF RecordAttemptFails, Open, Recording
      <3>2. writing' \in [Devices -> SUBSET Record]
        BY <1>0, <2>3, <3>1, RecordType, AbandonWriteType DEF RecordAttemptFails, Numbered
      <3>3. exec' = [exec EXCEPT ![d].attempt = @ + 1] /\ UNCHANGED <<ended, cancel>>
            => TypeInv'
        BY <1>0, <2>3, <3>1, <3>2, RetryType DEF RecordAttemptFails, TypeInv, TypeOK
      <3>4. Close(d, "FAILED_STATUS") => TypeInv'
        BY <1>0, <2>3, <3>1, <3>2, CloseType DEF RecordAttemptFails, TypeInv, TypeOK, Endings
      <3> QED
        BY <2>3, <3>3, <3>4 DEF RecordAttemptFails
    <2>4. CASE FetchSucceeds(d)
      <3> DEFINE e == [exec[d] EXCEPT !.pc = "fetched", !.attempt = 1, !.desired = intent[d]]
      <3>1. Open(d) /\ runs' = runs /\ exec' = [exec EXCEPT ![d] = e]
        BY <2>4 DEF FetchSucceeds, Open
      <3>2. e \in Execution
        BY <1>0, <2>4, DesiredType DEF FetchSucceeds, TypeOK, Intents, Recording
      <3>3. e.pc \notin Terminal
        BY <1>0 DEF TypeOK, Execution, Terminal
      <3> HIDE DEF e
      <3>4. exec' \in [Devices -> Execution] /\ Numbered'
        BY <3>1, <3>2, <3>3, NumberedStep
      <3> QED
        BY <1>0, <2>4, <3>4 DEF FetchSucceeds, TypeInv, TypeOK
    <2>5. CASE FetchRejected(d)
      <3>1. Open(d) /\ runs' = runs
        BY <2>5 DEF FetchRejected, Open
      <3>2. exec' \in [Devices -> Execution] /\ Numbered'
        BY <2>5, <3>1, TerminateType DEF FetchRejected, Reasons
      <3> QED
        BY <1>0, <2>5, <3>2 DEF FetchRejected, TypeInv, TypeOK
    <2>6. ASSUME NEW pc \in Activities, AttemptFails(d, pc)
          PROVE  exec' \in [Devices -> Execution] /\ Numbered'
      <3>1. Open(d) /\ runs' = runs
        BY <2>6 DEF AttemptFails, Open, Activities
      <3>2. FailureOf[pc] \in Reasons
        BY DEF FailureOf, Activities, Reasons
      <3> QED
        BY <2>6, <3>1, <3>2, RetryType, TerminateType DEF AttemptFails
    <2>7. CASE FetchAttemptFails(d)
      BY <1>0, <2>6, <2>7 DEF FetchAttemptFails, AttemptFails, Activities, TypeInv, TypeOK
    <2>8. ASSUME exec[d].pc = "apply", runs' = runs
          PROVE  Open(d) /\ runs[d] \in Runs /\ exec[d].desired \in Config
      BY <1>0, <2>8 DEF Open, Numbered, TypeOK, Execution
    <2>9. CASE ApplySucceeds(d)
      <3>1. exec' \in [Devices -> Execution] /\ Numbered'
        BY <2>8, <2>9, AwaitType DEF ApplySucceeds, Recording, Terminal
      <3>2. /\ config' \in [Devices -> Config]
            /\ landed' \in [Devices -> SUBSET Runs]
            /\ writer' \in [Devices -> 0..MaxRuns]
        BY <1>0, <2>8, <2>9, DeviceSetType DEF ApplySucceeds
      <3> QED
        BY <1>0, <2>9, <3>1, <3>2 DEF ApplySucceeds, TypeInv, TypeOK
    <2>10. CASE ApplyRefused(d)
      <3>1. exec' \in [Devices -> Execution] /\ Numbered'
        BY <2>8, <2>10, TerminateType DEF ApplyRefused, Reasons
      <3>2. /\ config' \in [Devices -> Config]
            /\ landed' \in [Devices -> SUBSET Runs]
            /\ writer' \in [Devices -> 0..MaxRuns]
        BY <1>0, <2>8, <2>10, DeviceSetType DEF ApplyRefused, NoDeviceSet, TypeOK
      <3> QED
        BY <1>0, <2>10, <3>1, <3>2 DEF ApplyRefused, TypeInv, TypeOK
    <2>11. CASE ApplyAttemptFails(d)
      <3>1. exec' \in [Devices -> Execution] /\ Numbered'
        BY <2>6, <2>11 DEF ApplyAttemptFails, Activities
      <3>2. exec[d].pc = "apply" /\ runs' = runs
        BY <2>11 DEF ApplyAttemptFails, AttemptFails
      <3>3. /\ config' \in [Devices -> Config]
            /\ landed' \in [Devices -> SUBSET Runs]
            /\ writer' \in [Devices -> 0..MaxRuns]
        BY <1>0, <2>8, <2>11, <3>2, DeviceSetType DEF ApplyAttemptFails, NoDeviceSet, TypeOK
      <3>4. setting' \in [Devices -> SUBSET Set]
        BY <1>0, <2>8, <2>11, <3>2, AbandonSetType DEF ApplyAttemptFails, TypeOK
      <3> QED
        BY <1>0, <2>11, <3>1, <3>3, <3>4 DEF ApplyAttemptFails, AttemptFails, TypeInv, TypeOK
    <2>12. CASE CollectAnswers(d)
      <3>1. PICK seen \in {config[d], Missing} :
               exec' = [exec EXCEPT ![d] =
                           [@ EXCEPT !.pc = "collected", !.attempt = 1, !.seen = seen]]
        BY <2>12 DEF CollectAnswers
      <3> DEFINE e == [exec[d] EXCEPT !.pc = "collected", !.attempt = 1, !.seen = seen]
      <3>2. Open(d) /\ runs' = runs /\ exec' = [exec EXCEPT ![d] = e]
        BY <2>12, <3>1 DEF CollectAnswers, Open
      <3>3. e \in Execution
        BY <1>0, SeenType DEF TypeOK, Recording
      <3>4. e.pc \notin Terminal
        BY <1>0 DEF TypeOK, Execution, Terminal
      <3> HIDE DEF e
      <3>5. exec' \in [Devices -> Execution] /\ Numbered'
        BY <3>2, <3>3, <3>4, NumberedStep
      <3> QED
        BY <1>0, <2>12, <3>5 DEF CollectAnswers, TypeInv, TypeOK
    <2>13. CASE CollectAttemptFails(d)
      BY <1>0, <2>6, <2>13 DEF CollectAttemptFails, AttemptFails, Activities, TypeInv, TypeOK
    <2>14. CASE DetectAnswers(d)
      <3> DEFINE e == [exec[d] EXCEPT !.pc = "detected", !.attempt = 1,
                           !.report = Compare(exec[d].desired, exec[d].seen),
                           !.seen = Missing]
      <3>1. Open(d) /\ runs' = runs /\ exec' = [exec EXCEPT ![d] = e]
        BY <2>14 DEF DetectAnswers, Open
      <3>2. e \in Execution
        BY <1>0, CompareType, ReportType DEF TypeOK, Recording
      <3>3. e.pc \notin Terminal
        BY <1>0 DEF TypeOK, Execution, Terminal
      <3> HIDE DEF e
      <3>4. exec' \in [Devices -> Execution] /\ Numbered'
        BY <3>1, <3>2, <3>3, NumberedStep
      <3> QED
        BY <1>0, <2>14, <3>4 DEF DetectAnswers, TypeInv, TypeOK
    <2>15. CASE DetectAttemptFails(d)
      BY <1>0, <2>6, <2>15 DEF DetectAttemptFails, AttemptFails, Activities, TypeInv, TypeOK
    <2>16. CASE CancelActivity(d)
      <3>1. Open(d) /\ runs' = runs
        BY <2>16 DEF CancelActivity, Open, Activities
      <3>2. exec' \in [Devices -> Execution] /\ Numbered'
        BY <2>16, <3>1, TerminateCancelledType DEF CancelActivity
      <3>3. setting' \in [Devices -> SUBSET Set]
        BY <1>0, <2>8, <2>16, AbandonSetType DEF CancelActivity, TypeOK
      <3>4. cancel' \in [Devices -> {"none", "requested", "delivered"}]
        BY <1>0, <2>16 DEF CancelActivity, TypeOK
      <3> QED
        BY <1>0, <2>16, <3>2, <3>3, <3>4 DEF CancelActivity, TypeInv, TypeOK
    <2>17. CASE CancelRecord(d)
      <3>1. Open(d) /\ runs' = runs
        BY <2>17 DEF CancelRecord, Open, Recording
      <3>2. writing' \in [Devices -> SUBSET Record]
        BY <1>0, <2>17, <3>1, RecordType, AbandonWriteType DEF CancelRecord, Numbered
      <3> QED
        BY <1>0, <2>17, <3>1, <3>2, CloseType DEF CancelRecord, TypeInv, TypeOK, Endings
    <2>18. CASE LateRecord(d)
      <3>1. PICK r \in writing[d] :
               /\ writing' = [writing EXCEPT ![d] = @ \ {r}]
               /\ stored' = [stored EXCEPT ![d] = @ \cup {r}]
        BY <2>18 DEF LateRecord
      <3>2. writing[d] \ {r} \in SUBSET Record /\ stored[d] \cup {r} \in SUBSET Record
        BY <1>0 DEF TypeOK
      <3>3. /\ writing' \in [Devices -> SUBSET Record]
            /\ stored' \in [Devices -> SUBSET Record]
        BY <1>0, <3>1, <3>2 DEF TypeOK
      <3> QED
        BY <1>0, <2>18, <3>3 DEF LateRecord, TypeInv, TypeOK, Numbered, Open
    <2>19. CASE LateSet(d)
      <3>1. PICK s \in setting[d] :
               /\ setting' = [setting EXCEPT ![d] = @ \ {s}]
               /\ DeviceSet(d, s.run, s.desired)
        BY <2>19 DEF LateSet
      <3>2. s.run \in Runs /\ s.desired \in Config /\ setting[d] \ {s} \in SUBSET Set
        BY <1>0 DEF TypeOK, Set
      <3>3. setting' \in [Devices -> SUBSET Set]
        BY <1>0, <3>1, <3>2 DEF TypeOK
      <3>4. /\ config' \in [Devices -> Config]
            /\ landed' \in [Devices -> SUBSET Runs]
            /\ writer' \in [Devices -> 0..MaxRuns]
        BY <1>0, <3>1, <3>2, DeviceSetType
      <3> QED
        BY <1>0, <2>19, <3>3, <3>4 DEF LateSet, TypeInv, TypeOK, Numbered, Open
    <2>20. CASE LateSetTimesOut(d)
      <3>1. PICK s \in setting[d] :
               setting' = [setting EXCEPT ![d] = (@ \ {s}) \cup {[s EXCEPT !.locked = FALSE]}]
        BY <2>20 DEF LateSetTimesOut
      <3>2. s \in Set
        BY <1>0 DEF TypeOK
      <3>2a. [s EXCEPT !.locked = FALSE] \in Set
        BY <3>2 DEF Set
      <3>3. (setting[d] \ {s}) \cup {[s EXCEPT !.locked = FALSE]} \in SUBSET Set
        BY <1>0, <3>2a DEF TypeOK
      <3>4. setting' \in [Devices -> SUBSET Set]
        BY <1>0, <3>1, <3>3 DEF TypeOK
      <3> QED
        BY <1>0, <2>20, <3>4 DEF LateSetTimesOut, TypeInv, TypeOK, Numbered, Open
    <2>21. CASE LateSetFails(d)
      <3>1. setting' \in [Devices -> SUBSET Set]
        BY <1>0, <2>21 DEF LateSetFails, TypeOK
      <3> QED
        BY <1>0, <2>21, <3>1 DEF LateSetFails, TypeInv, TypeOK, Numbered, Open
    <2>22. CASE RequestCancel(d)
      BY <1>0, <2>22 DEF RequestCancel, TypeInv, TypeOK, Numbered, Open
    <2>23. CASE ServerTerminate(d)
      <3>1. Open(d) /\ runs' = runs /\ runs[d] \in Runs
        BY <1>0, <2>23 DEF ServerTerminate, Numbered
      <3>2. writing' \in [Devices -> SUBSET Record]
        BY <1>0, <2>23, <3>1, RecordType, AbandonWriteType DEF ServerTerminate, TypeOK
      <3>3. setting' \in [Devices -> SUBSET Set]
        BY <1>0, <2>23, <3>1, AbandonSetType DEF ServerTerminate, TypeOK
      <3> QED
        BY <1>0, <2>23, <3>1, <3>2, <3>3, CloseType
           DEF ServerTerminate, TypeInv, TypeOK, Endings
    <2>24. CASE EditIntent(d)
      BY <1>0, <2>24 DEF EditIntent, TypeInv, TypeOK, Numbered, Open
    <2>25. CASE EditDevice(d)
      BY <1>0, <2>25 DEF EditDevice, TypeInv, TypeOK, Numbered, Open
    <2> QED
      BY <1>3, <2>1, <2>2, <2>3, <2>4, <2>5, <2>7, <2>9, <2>10, <2>11, <2>12, <2>13,
         <2>14, <2>15, <2>16, <2>17, <2>18, <2>19, <2>20, <2>21, <2>22, <2>23, <2>24,
         <2>25 DEF Progress, Late, Outside
  <1> QED
    BY <1>1, <1>2, <1>3 DEF Next

\* Every variable keeps its type, whatever the bounds.
THEOREM TypeCorrect == Spec => []TypeOK
  <1>1. Spec => []TypeInv
    BY InitType, TypeStep, PTL DEF Spec
  <1>2. TypeInv => TypeOK
    BY DEF TypeInv
  <1> QED
    BY <1>1, <1>2, PTL
-----------------------------------------------------------------------------
(***************************************************************************)
(* The inductive invariant                                                 *)
(***************************************************************************)

\* A log only grows: what it tells it keeps telling.
LEMMA ToldGrows ==
    ASSUME NEW S, NEW T, S \subseteq T, NEW n, NEW pc, NEW reason
    PROVE  /\ Told(S, n, pc, reason) => Told(T, n, pc, reason)
           /\ Accounted(S, n) => Accounted(T, n)
  BY DEF Told, Has, Accounted

\* A step on one device leaves the invariant of the others alone, and so does a
\* crash, which only loses what was still on its way.
LEMMA Frame ==
    ASSUME NEW d \in Devices, DeviceInv(d),
           exec'[d] = exec[d], runs'[d] = runs[d], stored'[d] = stored[d],
           ended'[d] = ended[d], landed'[d] = landed[d],
           writing'[d] \subseteq writing[d], setting'[d] \subseteq setting[d]
    PROVE  DeviceInv(d)'
  <1>1. ExecutionInv(d)'
    BY DEF DeviceInv, ExecutionInv, Open
  <1>2. RecordInv(d)'
    BY DEF DeviceInv, RecordInv, Open, RecordOf
  <1>3. UniqueInv(d)'
    BY DEF DeviceInv, UniqueInv
  <1>4. ResultInv(d)'
    BY DEF DeviceInv, ResultInv
  <1>5. WriteInv(d)'
    BY DEF DeviceInv, WriteInv
  <1> QED
    BY <1>1, <1>2, <1>3, <1>4, <1>5 DEF DeviceInv

\* What a step on one device does to the variables at another: nothing.
LEMMA Elsewhere ==
    ASSUME TypeInv, NEW d \in Devices, NEW x \in Devices, x # d,
           Progress(d) \/ Late(d) \/ Outside(d)
    PROVE  /\ exec'[x] = exec[x] /\ runs'[x] = runs[x] /\ stored'[x] = stored[x]
           /\ ended'[x] = ended[x] /\ landed'[x] = landed[x]
           /\ writing'[x] = writing[x] /\ setting'[x] = setting[x]
  <1>0. TypeOK
    BY DEF TypeInv
  <1>1. CASE Late(d)
    BY <1>0, <1>1 DEF Late, LateRecord, LateSet, LateSetTimesOut, LateSetFails, DeviceSet, TypeOK
  <1>2. CASE Outside(d)
    BY <1>0, <1>2 DEF Outside, StartDeploy, RequestCancel, ServerTerminate, EditIntent,
         EditDevice, Close, AbandonWrite, AbandonSet, TypeOK
  <1>3. CASE RecordWritten(d) \/ RecordAttemptFails(d) \/ CancelActivity(d) \/ CancelRecord(d)
    BY <1>0, <1>3 DEF RecordWritten, RecordAttemptFails, CancelActivity, CancelRecord, Await,
         Terminate, TerminateCancelled, Close, AbandonWrite, AbandonSet, TypeOK
  <1>4. CASE FetchSucceeds(d) \/ FetchRejected(d) \/ CollectAnswers(d) \/ DetectAnswers(d)
    BY <1>0, <1>4 DEF FetchSucceeds, FetchRejected, CollectAnswers, DetectAnswers, Terminate,
         TypeOK
  <1>5. CASE FetchAttemptFails(d) \/ CollectAttemptFails(d) \/ DetectAttemptFails(d)
    BY <1>0, <1>5 DEF FetchAttemptFails, CollectAttemptFails, DetectAttemptFails,
         AttemptFails, Terminate, TypeOK
  <1>6. CASE ApplySucceeds(d) \/ ApplyRefused(d) \/ ApplyAttemptFails(d)
    BY <1>0, <1>6 DEF ApplySucceeds, ApplyRefused, ApplyAttemptFails, AttemptFails, DeviceSet,
         NoDeviceSet, Await, Terminate, AbandonSet, TypeOK
  <1> QED
    BY <1>1, <1>2, <1>3, <1>4, <1>5, <1>6 DEF Progress

\* A step that adds at most the open execution's own record to the log, or leaves
\* it on its way there, keeps what is said of the records.
LEMMA RecordsAfterStep ==
    ASSUME NEW d \in Devices, TypeInv, DeviceInv(d), Open(d), runs'[d] = runs[d],
           stored[d] \subseteq stored'[d],
           stored'[d] \cup writing'[d] \subseteq stored[d] \cup writing[d] \cup {RecordOf(d)},
           \/ exec'[d].pc = exec[d].pc /\ exec'[d].reason = exec[d].reason
           \/ exec[d].pc \notin Terminal
           \/ exec'[d].pc = "idle"
    PROVE  RecordInv(d)' /\ UniqueInv(d)'
  <1>1. ASSUME NEW r \in stored'[d] \cup writing'[d]
        PROVE  /\ r \in stored[d] \cup writing[d] \/ r = RecordOf(d)
               /\ r.run <= runs[d]
               /\ Told(stored[d], r.run, r.event, r.reason)
               /\ r.event \in Terminal /\ r.run = runs[d] => r = RecordOf(d)
    <2>1. CASE r \in stored[d] \cup writing[d]
      BY <2>1 DEF DeviceInv, RecordInv
    <2>2. CASE r = RecordOf(d)
      <3>1. runs[d] \in Runs /\ Told(stored[d], runs[d], exec[d].pc, exec[d].reason)
        BY DEF DeviceInv, ExecutionInv
      <3>2. /\ r.run = runs[d] /\ r.event = exec[d].pc
            /\ r.reason = IF exec[d].pc = "cancelling" THEN "none" ELSE exec[d].reason
        BY <2>2 DEF RecordOf
      <3>3. Told(stored[d], r.run, r.event, r.reason)
        BY <3>1, <3>2 DEF Told
      <3> QED
        BY <2>2, <3>1, <3>2, <3>3, BoundsAssumption DEF Runs
    <2> QED
      BY <2>1, <2>2
  <1>2. RecordInv(d)'
    <2> SUFFICES ASSUME NEW r \in (stored[d] \cup writing[d])'
                 PROVE  (/\ r.run <= runs[d]
                         /\ Told(stored[d], r.run, r.event, r.reason)
                         /\ r.event \in Terminal /\ r.run = runs[d] /\ Open(d)
                               => r = RecordOf(d))'
      BY DEF RecordInv
    <2>1. r.run <= runs'[d] /\ Told(stored'[d], r.run, r.event, r.reason)
      BY <1>1, ToldGrows
    <2>2. r.event \in Terminal /\ r.run = runs'[d] /\ Open(d)' => r = RecordOf(d)'
      BY <1>1 DEF Open, RecordOf
    <2> QED
      BY <2>1, <2>2
  <1>3. UniqueInv(d)'
    <2> SUFFICES ASSUME NEW r \in (stored[d] \cup writing[d])',
                        NEW s \in (stored[d] \cup writing[d])',
                        r.run = s.run, r.event \in Terminal, s.event \in Terminal
                 PROVE  r = s
      BY DEF UniqueInv
    <2>1. CASE r \in stored[d] \cup writing[d] /\ s \in stored[d] \cup writing[d]
      BY <2>1 DEF DeviceInv, UniqueInv
    <2>2. CASE r = RecordOf(d) \/ s = RecordOf(d)
      BY <1>1, <2>2 DEF RecordOf
    <2> QED
      BY <1>1, <2>1, <2>2
  <1> QED
    BY <1>2, <1>3

\* A result that was returned stays recorded.
LEMMA ResultsAfterStep ==
    ASSUME NEW d \in Devices, DeviceInv(d), stored[d] \subseteq stored'[d],
           ended'[d] = ended[d]
    PROVE  ResultInv(d)'
  BY DEF DeviceInv, ResultInv

\* The open execution closes, with the result it just recorded or with none.
LEMMA ResultsAfterClose ==
    ASSUME NEW d \in Devices, TypeInv, DeviceInv(d), Open(d), stored[d] \subseteq stored'[d],
           NEW ending, ended' = [ended EXCEPT ![d][runs[d]] = ending],
           ending \in Reasons =>
               /\ RecordOf(d) \in stored'[d]
               /\ exec[d].pc \in Terminal
               /\ exec[d].pc = "cancelling" <=> ending = "CANCELLED"
               /\ ending = exec[d].reason
    PROVE  ResultInv(d)'
  <1>1. runs[d] \in Runs
    BY DEF DeviceInv, ExecutionInv
  <1> SUFFICES ASSUME NEW n \in Runs, ended'[d][n] \in Reasons
               PROVE  \E r \in stored'[d] : Tells(r, n, ended'[d][n])
    BY DEF ResultInv
  <1>2. ended'[d][n] = IF n = runs[d] THEN ending ELSE ended[d][n]
    BY <1>1 DEF TypeInv, TypeOK
  <1>3. CASE n = runs[d]
    <2>1. RecordOf(d) \in stored'[d] /\ Tells(RecordOf(d), n, ending)
      BY <1>2, <1>3 DEF RecordOf, Tells, Terminal
    <2> QED
      BY <1>2, <1>3, <2>1
  <1>4. CASE n # runs[d]
    BY <1>2, <1>4 DEF DeviceInv, ResultInv
  <1> QED
    BY <1>3, <1>4

\* Only runs the log accounts for have reached the device or have a SET on its way.
LEMMA WritesAfterStep ==
    ASSUME NEW d \in Devices, DeviceInv(d), stored[d] \subseteq stored'[d],
           \A n \in landed'[d] : n \in landed[d] \/ Accounted(stored[d], n),
           \A s \in setting'[d] : s \in setting[d] \/ Accounted(stored[d], s.run)
    PROVE  WriteInv(d)'
  <1>1. \A n \in landed'[d] : Accounted(stored'[d], n)
    BY ToldGrows DEF DeviceInv, WriteInv
  <1>2. \A s \in setting'[d] : Accounted(stored'[d], s.run)
    BY ToldGrows DEF DeviceInv, WriteInv
  <1> QED
    BY <1>1, <1>2 DEF WriteInv

\* Where the helpers leave the open execution.
LEMMA Moved ==
    ASSUME TypeInv, NEW d \in Devices, NEW pc, NEW r
    PROVE  /\ Await(d, pc) => exec'[d].pc = pc /\ exec'[d].reason = exec[d].reason
           /\ Terminate(d, r) => exec'[d].pc = "terminating" /\ exec'[d].reason = r
           /\ TerminateCancelled(d) =>
                  exec'[d].pc = "cancelling" /\ exec'[d].reason = "CANCELLED"
           /\ Close(d, r) => exec'[d].pc = "idle" /\ exec'[d].reason = "none"
           /\ exec' = [exec EXCEPT ![d].attempt = @ + 1] =>
                  exec'[d].pc = exec[d].pc /\ exec'[d].reason = exec[d].reason
  <1>1. exec \in [Devices -> Execution]
    BY DEF TypeInv, TypeOK
  <1>2. Await(d, pc) => exec'[d].pc = pc /\ exec'[d].reason = exec[d].reason
    BY <1>1 DEF Await, Execution
  <1>3. Terminate(d, r) => exec'[d].pc = "terminating" /\ exec'[d].reason = r
    BY <1>1 DEF Terminate, Execution
  <1>4. TerminateCancelled(d) =>
            exec'[d].pc = "cancelling" /\ exec'[d].reason = "CANCELLED"
    BY <1>1 DEF TerminateCancelled, Execution
  <1>5. Close(d, r) => exec'[d].pc = "idle" /\ exec'[d].reason = "none"
    BY <1>1 DEF Close, Idle
  <1>6. exec' = [exec EXCEPT ![d].attempt = @ + 1] =>
            exec'[d].pc = exec[d].pc /\ exec'[d].reason = exec[d].reason
    BY <1>1 DEF Execution
  <1> QED
    BY <1>2, <1>3, <1>4, <1>5, <1>6

\* An activity that answers, fails or is cancelled writes no record.
LEMMA AfterActivity ==
    ASSUME NEW d \in Devices, TypeInv, DeviceInv(d), exec[d].pc \in Activities,
           UNCHANGED <<runs, stored, writing, ended>>,
           ExecutionInv(d)', WriteInv(d)'
    PROVE  DeviceInv(d)'
  <1>1. Open(d) /\ exec[d].pc \notin Terminal
    BY DEF Open, Activities, Terminal
  <1> QED
    BY <1>1, RecordsAfterStep, ResultsAfterStep DEF DeviceInv

\* An activity attempt that is lost is tried again or ends the deploy.
LEMMA ExecutionAfterFailure ==
    ASSUME NEW d \in Devices, TypeInv, DeviceInv(d), NEW pc \in Activities, AttemptFails(d, pc)
    PROVE  exec[d].pc \in Activities /\ ExecutionInv(d)'
  <1>1. ExecutionInv(d) /\ exec[d].pc = pc /\ Open(d)
    BY DEF DeviceInv, AttemptFails, Open, Activities
  <1>2. runs' = runs /\ stored' = stored
    BY DEF AttemptFails
  <1>3. CASE exec' = [exec EXCEPT ![d].attempt = @ + 1]
    BY <1>1, <1>2, <1>3, Moved DEF ExecutionInv, Open
  <1>4. CASE Terminate(d, FailureOf[pc])
    <2>1. exec'[d].pc = "terminating" /\ exec'[d].reason = FailureOf[pc]
      BY <1>4, Moved
    <2>2. Told(stored[d], runs[d], "terminating", FailureOf[pc])
      BY <1>1 DEF ExecutionInv, Told, FailureOf, Activities
    <2>3. FailureOf[pc] \in Reasons \ {"CANCELLED"}
      BY DEF FailureOf, Activities, Reasons
    <2> QED
      BY <1>1, <1>2, <2>1, <2>2, <2>3 DEF ExecutionInv, Open, Terminal
  <1> QED
    BY <1>1, <1>3, <1>4 DEF AttemptFails

\* The steps of one device keep its invariant.
LEMMA DeviceStep ==
    ASSUME NEW d \in Devices, TypeInv, DeviceInv(d),
           Progress(d) \/ Late(d) \/ Outside(d)
    PROVE  DeviceInv(d)'
  <1>0. TypeOK /\ Numbered /\ ExecutionInv(d) /\ WriteInv(d)
    BY DEF TypeInv, DeviceInv
  <1>1. CASE StartDeploy(d)
    <2>1. /\ runs[d] \in 0..MaxRuns /\ runs'[d] = runs[d] + 1
          /\ exec'[d].pc = "started" /\ exec'[d].reason = "none" /\ ~Open(d)
      BY <1>0, <1>1 DEF StartDeploy, TypeOK, Idle
    <2>2. UNCHANGED <<stored, writing, ended, landed, setting>>
      BY <1>1 DEF StartDeploy
    <2>3. runs'[d] \in Runs
      BY <1>1, <2>1, BoundsAssumption DEF StartDeploy, Runs
    <2>4. ExecutionInv(d)'
      <3>1. Told(stored'[d], runs'[d], "started", "none")
        BY DEF Told
      <3>2. "started" \notin Terminal /\ "started" # "terminating" /\ "started" # "cancelling"
        BY DEF Terminal
      <3> QED
        BY <2>1, <2>3, <3>1, <3>2 DEF ExecutionInv
    <2>5. \A r \in stored[d] \cup writing[d] :
             r.run \in Nat /\ r.run <= runs[d] /\ Told(stored[d], r.run, r.event, r.reason)
      BY <1>0, BoundsAssumption DEF DeviceInv, RecordInv, TypeOK, Record, Runs
    <2>6. RecordInv(d)'
      BY <2>1, <2>2, <2>5 DEF RecordInv
    <2> QED
      BY <2>2, <2>4, <2>6 DEF DeviceInv, UniqueInv, ResultInv, WriteInv
  <1>2. CASE RecordWritten(d)
    <2>1. /\ Open(d) /\ runs[d] \in Runs
          /\ UNCHANGED <<runs, writing, setting, landed>>
          /\ stored'[d] = stored[d] \cup {RecordOf(d)}
      BY <1>0, <1>2 DEF RecordWritten, Open, Recording, Numbered, TypeOK
    <2>2. WriteInv(d)'
      BY <2>1, WritesAfterStep
    <2>3. Has(stored'[d], runs[d], exec[d].pc)
      <3>1. /\ RecordOf(d) \in stored'[d]
            /\ RecordOf(d).run = runs[d] /\ RecordOf(d).event = exec[d].pc
        BY <2>1 DEF RecordOf
      <3> QED
        BY <3>1 DEF Has
    <2>4. Told(stored'[d], runs[d], exec[d].pc, exec[d].reason)
      BY <1>0, <2>1, ToldGrows DEF ExecutionInv
    <2>5. CASE exec[d].pc \in DOMAIN Step /\ Await(d, Step[exec[d].pc])
               /\ UNCHANGED <<ended, cancel>>
      <3>1. exec[d].pc \notin Terminal /\ Step[exec[d].pc] \notin Terminal
        BY <2>5 DEF Step, Terminal
      <3>2. exec'[d].pc = Step[exec[d].pc] /\ exec'[d].reason = "none"
        BY <1>0, <2>5, <3>1, Moved DEF ExecutionInv
      <3>3. Told(stored'[d], runs[d], Step[exec[d].pc], "none")
        BY <1>0, <2>3, <2>4, <2>5, <3>1 DEF ExecutionInv, Told, Step
      <3>4. ExecutionInv(d)'
        BY <2>1, <3>1, <3>2, <3>3 DEF ExecutionInv, Terminal
      <3> QED
        BY <2>1, <2>2, <2>5, <3>1, <3>4, RecordsAfterStep, ResultsAfterStep DEF DeviceInv
    <2>6. CASE exec[d].pc = "detected" /\ Terminate(d, Classify(exec[d].report))
               /\ UNCHANGED <<ended, cancel>>
      <3> DEFINE reason == Classify(exec[d].report)
      <3>1. reason \in Reasons \ {"CANCELLED"}
        BY <1>0, ClassifyType DEF TypeOK, Execution
      <3>2. exec'[d].pc = "terminating" /\ exec'[d].reason = reason
        BY <2>6, Moved
      <3>3. Told(stored'[d], runs[d], "terminating", reason)
        BY <2>3, <2>4, <2>6 DEF Told
      <3> HIDE DEF reason
      <3>4. ExecutionInv(d)'
        BY <2>1, <3>1, <3>2, <3>3 DEF ExecutionInv, Terminal
      <3>5. exec[d].pc \notin Terminal
        BY <2>6 DEF Terminal
      <3> QED
        BY <2>1, <2>2, <2>6, <3>4, <3>5, RecordsAfterStep, ResultsAfterStep DEF DeviceInv
    <2>7. CASE exec[d].pc \in Terminal /\ Close(d, exec[d].reason)
      <3>1. exec'[d].pc = "idle" /\ exec'[d].reason = "none"
        BY <2>7, Moved
      <3>2. ExecutionInv(d)'
        BY <3>1 DEF ExecutionInv, Open, Terminal
      <3>3. exec[d].pc = "cancelling" <=> exec[d].reason = "CANCELLED"
        BY <1>0, <2>7 DEF ExecutionInv, Terminal
      <3>4. ResultInv(d)'
        BY <2>1, <2>7, <3>3, ResultsAfterClose DEF Close
      <3> QED
        BY <2>1, <2>2, <3>1, <3>2, <3>4, RecordsAfterStep DEF DeviceInv
    <2> QED
      BY <1>2, <2>5, <2>6, <2>7 DEF RecordWritten
  <1>3. ASSUME exec[d].pc \in Recording, AbandonWrite(d),
               UNCHANGED <<runs, stored, setting, landed>>
        PROVE  /\ Open(d) /\ runs[d] \in Runs /\ WriteInv(d)'
               /\ writing'[d] \subseteq writing[d] \cup {RecordOf(d)}
    <2>1. Open(d) /\ runs[d] \in Runs
      BY <1>0, <1>3 DEF Open, Recording, Numbered
    <2>2. writing'[d] \subseteq writing[d] \cup {RecordOf(d)}
      BY <1>0, <1>3 DEF AbandonWrite, TypeOK
    <2>3. WriteInv(d)'
      BY <1>3, WritesAfterStep
    <2> QED
      BY <2>1, <2>2, <2>3
  <1>4. ASSUME NEW ending \in Endings \ Reasons, Open(d), Close(d, ending),
               UNCHANGED <<runs, stored>>, WriteInv(d)',
               writing'[d] \subseteq writing[d] \cup {RecordOf(d)}
        PROVE  DeviceInv(d)'
    <2>1. exec'[d].pc = "idle" /\ exec'[d].reason = "none"
      BY <1>4, Moved
    <2>2. ExecutionInv(d)'
      BY <2>1 DEF ExecutionInv, Open, Terminal
    <2>3. ResultInv(d)'
      BY <1>4, ResultsAfterClose DEF Close
    <2> QED
      BY <1>4, <2>1, <2>2, <2>3, RecordsAfterStep DEF DeviceInv
  <1>5. {"FAILED_STATUS", "CANCELLED_STATUS", "TERMINATED_STATUS"} \subseteq Endings \ Reasons
    BY DEF Endings, Reasons
  <1>6. CASE RecordAttemptFails(d)
    <2>1. /\ Open(d) /\ runs[d] \in Runs /\ WriteInv(d)'
          /\ writing'[d] \subseteq writing[d] \cup {RecordOf(d)}
          /\ UNCHANGED <<runs, stored>>
      BY <1>3, <1>6 DEF RecordAttemptFails
    <2>2. CASE exec' = [exec EXCEPT ![d].attempt = @ + 1] /\ UNCHANGED <<ended, cancel>>
      <3>1. exec'[d].pc = exec[d].pc /\ exec'[d].reason = exec[d].reason
        BY <2>2, Moved
      <3>2. ExecutionInv(d)'
        BY <1>0, <2>1, <3>1 DEF ExecutionInv, Open
      <3> QED
        BY <2>1, <2>2, <3>1, <3>2, RecordsAfterStep, ResultsAfterStep DEF DeviceInv
    <2>3. CASE Close(d, "FAILED_STATUS")
      BY <1>4, <1>5, <2>1, <2>3
    <2> QED
      BY <1>6, <2>2, <2>3 DEF RecordAttemptFails
  <1>7. CASE CancelRecord(d)
    BY <1>3, <1>4, <1>5, <1>7 DEF CancelRecord
  <1>8. ASSUME exec[d].pc \in Activities, UNCHANGED stored,
               \A n \in landed'[d] : n \in landed[d] \/ n = runs[d],
               \A s \in setting'[d] : s \in setting[d] \/ s.run = runs[d],
               exec[d].pc = "apply" \/ UNCHANGED <<landed, setting>>
        PROVE  WriteInv(d)'
    <2>1. CASE UNCHANGED <<landed, setting>>
      BY <1>8, <2>1, WritesAfterStep
    <2>2. CASE exec[d].pc = "apply"
      <3>1. Accounted(stored[d], runs[d])
        BY <1>0, <2>2 DEF ExecutionInv, Open, Told, Accounted
      <3> QED
        BY <1>8, <3>1, WritesAfterStep
    <2> QED
      BY <1>8, <2>1, <2>2
  <1>9. ASSUME exec[d].pc = "apply", runs' = runs
        PROVE  /\ DeviceSet(d, runs[d], exec[d].desired) =>
                      \A n \in landed'[d] : n \in landed[d] \/ n = runs[d]
               /\ NoDeviceSet => landed' = landed
               /\ \A l \in BOOLEAN : AbandonSet(d, l) =>
                      \A s \in setting'[d] : s \in setting[d] \/ s.run = runs[d]
    BY <1>0 DEF DeviceSet, NoDeviceSet, AbandonSet, TypeOK
  <1>10. CASE FetchSucceeds(d)
    <2>1. exec[d].pc = "fetch" /\ exec[d].pc \in Activities /\ runs' = runs /\ stored' = stored
      BY <1>10 DEF FetchSucceeds, Activities
    <2>2. exec'[d].pc = "fetched" /\ exec'[d].reason = exec[d].reason
      BY <1>0, <1>10 DEF FetchSucceeds, TypeOK, Execution
    <2>3. ExecutionInv(d)'
      BY <1>0, <2>1, <2>2 DEF ExecutionInv, Told, Open, Terminal
    <2>4. WriteInv(d)'
      BY <1>8, <1>10, <2>1 DEF FetchSucceeds
    <2> QED
      BY <1>10, <2>1, <2>3, <2>4, AfterActivity DEF FetchSucceeds
  <1>11. CASE FetchRejected(d)
    <2>1. exec[d].pc = "fetch" /\ exec[d].pc \in Activities /\ runs' = runs /\ stored' = stored
      BY <1>11 DEF FetchRejected, Activities
    <2>2. exec'[d].pc = "terminating" /\ exec'[d].reason \in {"DEVICE_NOT_FOUND", "INTENT_UNAVAILABLE"}
      BY <1>11, Moved DEF FetchRejected
    <2>3. ExecutionInv(d)'
      BY <1>0, <2>1, <2>2 DEF ExecutionInv, Told, Open, Terminal, Reasons
    <2>4. WriteInv(d)'
      BY <1>8, <1>11, <2>1 DEF FetchRejected
    <2> QED
      BY <1>11, <2>1, <2>3, <2>4, AfterActivity DEF FetchRejected
  <1>12. CASE FetchAttemptFails(d) \/ CollectAttemptFails(d) \/ DetectAttemptFails(d)
    <2>1. /\ \E pc \in Activities : AttemptFails(d, pc)
          /\ UNCHANGED <<runs, stored, writing, ended, setting, landed>>
      BY <1>12 DEF FetchAttemptFails, CollectAttemptFails, DetectAttemptFails,
                   AttemptFails, Activities
    <2>2. exec[d].pc \in Activities /\ ExecutionInv(d)'
      BY <2>1, ExecutionAfterFailure
    <2>3. WriteInv(d)'
      BY <1>8, <2>1, <2>2
    <2> QED
      BY <2>1, <2>2, <2>3, AfterActivity
  <1>13. CASE ApplySucceeds(d)
    <2>1. /\ exec[d].pc = "apply" /\ exec[d].pc \in Activities
          /\ UNCHANGED <<runs, stored, writing, ended, setting>>
      BY <1>13 DEF ApplySucceeds, Activities
    <2>2. exec'[d].pc = "applied" /\ exec'[d].reason = exec[d].reason
      BY <1>13, Moved DEF ApplySucceeds
    <2>3. ExecutionInv(d)'
      BY <1>0, <2>1, <2>2 DEF ExecutionInv, Told, Open, Terminal
    <2>4. WriteInv(d)'
      BY <1>8, <1>9, <1>13, <2>1 DEF ApplySucceeds
    <2> QED
      BY <2>1, <2>3, <2>4, AfterActivity
  <1>14. CASE ApplyRefused(d)
    <2>1. /\ exec[d].pc = "apply" /\ exec[d].pc \in Activities
          /\ UNCHANGED <<runs, stored, writing, ended, setting>>
      BY <1>14 DEF ApplyRefused, Activities
    <2>2. exec'[d].pc = "terminating" /\ exec'[d].reason = "APPLY_FAILED"
      BY <1>14, Moved DEF ApplyRefused
    <2>3. ExecutionInv(d)'
      BY <1>0, <2>1, <2>2 DEF ExecutionInv, Told, Open, Terminal, Reasons
    <2>4. WriteInv(d)'
      BY <1>8, <1>9, <1>14, <2>1 DEF ApplyRefused
    <2> QED
      BY <2>1, <2>3, <2>4, AfterActivity
  <1>15. CASE ApplyAttemptFails(d)
    <2>1. /\ exec[d].pc = "apply" /\ exec[d].pc \in Activities
          /\ UNCHANGED <<runs, stored, writing, ended>>
      BY <1>15 DEF ApplyAttemptFails, AttemptFails, Activities
    <2>2. ExecutionInv(d)'
      BY <1>15, ExecutionAfterFailure DEF ApplyAttemptFails, Activities
    <2>3. WriteInv(d)'
      BY <1>8, <1>9, <1>15, <2>1 DEF ApplyAttemptFails
    <2> QED
      BY <2>1, <2>2, <2>3, AfterActivity
  <1>16. CASE CollectAnswers(d)
    <2>1. /\ exec[d].pc = "collect" /\ exec[d].pc \in Activities
          /\ UNCHANGED <<runs, stored, writing, ended, setting, landed>>
      BY <1>16 DEF CollectAnswers, Activities
    <2>2. exec'[d].pc = "collected" /\ exec'[d].reason = exec[d].reason
      BY <1>0, <1>16 DEF CollectAnswers, TypeOK, Execution
    <2>3. ExecutionInv(d)'
      BY <1>0, <2>1, <2>2 DEF ExecutionInv, Told, Open, Terminal
    <2> QED
      BY <1>8, <2>1, <2>3, AfterActivity
  <1>17. CASE DetectAnswers(d)
    <2>1. /\ exec[d].pc = "detect" /\ exec[d].pc \in Activities
          /\ UNCHANGED <<runs, stored, writing, ended, setting, landed>>
      BY <1>17 DEF DetectAnswers, Activities
    <2>2. exec'[d].pc = "detected" /\ exec'[d].reason = exec[d].reason
      BY <1>0, <1>17 DEF DetectAnswers, TypeOK, Execution
    <2>3. ExecutionInv(d)'
      BY <1>0, <2>1, <2>2 DEF ExecutionInv, Told, Open, Terminal
    <2> QED
      BY <1>8, <2>1, <2>3, AfterActivity
  <1>18. CASE CancelActivity(d)
    <2>1. /\ exec[d].pc \in Activities
          /\ UNCHANGED <<runs, stored, writing, ended, landed>>
          /\ exec[d].pc = "apply" \/ UNCHANGED setting
      BY <1>18 DEF CancelActivity
    <2>2. exec'[d].pc = "cancelling" /\ exec'[d].reason = "CANCELLED"
      BY <1>18, Moved DEF CancelActivity
    <2>3. ExecutionInv(d)'
      BY <1>0, <2>1, <2>2 DEF ExecutionInv, Told, Open, Terminal, Activities
    <2>4. WriteInv(d)'
      BY <1>8, <1>9, <1>18, <2>1 DEF CancelActivity
    <2> QED
      BY <2>1, <2>3, <2>4, AfterActivity
  <1>19. CASE ServerTerminate(d)
    <2>1. /\ Open(d) /\ Close(d, "TERMINATED_STATUS")
          /\ UNCHANGED <<runs, stored, landed>>
      BY <1>19 DEF ServerTerminate
    <2>2. CASE exec[d].pc \in Recording /\ AbandonWrite(d) /\ UNCHANGED setting
      BY <1>3, <1>4, <1>5, <2>1, <2>2
    <2>3. CASE exec[d].pc = "apply" /\ AbandonSet(d, TRUE) /\ UNCHANGED writing
      <3>1. WriteInv(d)'
        BY <1>8, <1>9, <2>1, <2>3 DEF Activities
      <3> QED
        BY <1>4, <1>5, <2>1, <2>3, <3>1
    <2>4. CASE exec[d].pc \in Activities \ {"apply"} /\ UNCHANGED <<writing, setting>>
      <3>1. WriteInv(d)'
        BY <1>8, <2>1, <2>4
      <3> QED
        BY <1>4, <1>5, <2>1, <2>4, <3>1
    <2> QED
      BY <1>19, <2>2, <2>3, <2>4 DEF ServerTerminate
  <1>20. CASE LateRecord(d)
    <2>1. PICK r \in writing[d] :
             /\ writing' = [writing EXCEPT ![d] = @ \ {r}]
             /\ stored' = [stored EXCEPT ![d] = @ \cup {r}]
      BY <1>20 DEF LateRecord
    <2>2. UNCHANGED <<runs, exec, ended, setting, landed>>
      BY <1>20 DEF LateRecord
    <2>3. stored[d] \subseteq stored'[d]
          /\ stored'[d] \cup writing'[d] \subseteq stored[d] \cup writing[d]
      BY <1>0, <2>1 DEF TypeOK
    <2>4. ExecutionInv(d)'
      BY <1>0, <2>2, <2>3, ToldGrows DEF ExecutionInv, Open
    <2>5. RecordInv(d)'
      BY <2>2, <2>3, ToldGrows DEF DeviceInv, RecordInv, Open, RecordOf
    <2>6. UniqueInv(d)'
      BY <2>3 DEF DeviceInv, UniqueInv
    <2> QED
      BY <2>2, <2>3, <2>4, <2>5, <2>6, ResultsAfterStep, WritesAfterStep DEF DeviceInv
  <1>21. CASE LateSet(d)
    <2>1. PICK s \in setting[d] :
             /\ setting' = [setting EXCEPT ![d] = @ \ {s}]
             /\ DeviceSet(d, s.run, s.desired)
      BY <1>21 DEF LateSet
    <2>2. UNCHANGED <<runs, exec, ended, stored, writing>>
      BY <1>21 DEF LateSet
    <2>3. Accounted(stored[d], s.run)
      BY <1>0 DEF WriteInv
    <2>4. \A n \in landed'[d] : n \in landed[d] \/ n = s.run
      BY <1>0, <2>1 DEF DeviceSet, TypeOK
    <2>5. WriteInv(d)'
      BY <1>0, <2>1, <2>2, <2>3, <2>4, WritesAfterStep DEF TypeOK
    <2> QED
      BY <2>2, <2>5 DEF DeviceInv, ExecutionInv, RecordInv, UniqueInv, ResultInv, Open,
                        RecordOf
  <1>22. CASE LateSetTimesOut(d)
    <2>1. PICK s \in setting[d] :
             setting' = [setting EXCEPT ![d] = (@ \ {s}) \cup {[s EXCEPT !.locked = FALSE]}]
      BY <1>22 DEF LateSetTimesOut
    <2>2. UNCHANGED <<runs, exec, ended, stored, writing, landed>>
      BY <1>22 DEF LateSetTimesOut
    <2>3. s \in Set
      BY <1>0 DEF TypeOK
    <2>4. [s EXCEPT !.locked = FALSE].run = s.run
      BY <2>3 DEF Set
    <2>5. \A t \in setting'[d] : t \in setting[d] \/ Accounted(stored[d], t.run)
      BY <1>0, <2>1, <2>4 DEF TypeOK, WriteInv
    <2>6. WriteInv(d)'
      BY <2>2, <2>5, WritesAfterStep
    <2> QED
      BY <2>2, <2>6 DEF DeviceInv, ExecutionInv, RecordInv, UniqueInv, ResultInv, Open,
                        RecordOf
  <1>23. CASE LateSetFails(d)
    BY <1>0, <1>23, Frame DEF LateSetFails, TypeOK
  <1>24. CASE RequestCancel(d) \/ EditIntent(d) \/ EditDevice(d)
    BY <1>24, Frame DEF RequestCancel, EditIntent, EditDevice
  <1> QED
    BY <1>1, <1>2, <1>6, <1>7, <1>10, <1>11, <1>12, <1>13, <1>14, <1>15, <1>16, <1>17,
       <1>18, <1>19, <1>20, <1>21, <1>22, <1>23, <1>24 DEF Progress, Late, Outside

\* The inductive invariant holds before anything was deployed.
LEMMA InitInv == Init => IInv
  <1> SUFFICES ASSUME Init PROVE TypeInv /\ \A d \in Devices : DeviceInv(d)
    BY DEF IInv
  <1>1. ASSUME NEW d \in Devices PROVE DeviceInv(d)
    <2>1. exec[d] = Idle /\ runs[d] = 0 /\ stored[d] = {} /\ writing[d] = {} /\ setting[d] = {}
      BY DEF Init
    <2>2. ExecutionInv(d)
      BY <2>1 DEF ExecutionInv, Open, Idle, Terminal
    <2>3. RecordInv(d) /\ UniqueInv(d)
      BY <2>1 DEF RecordInv, UniqueInv
    <2>4. ResultInv(d)
      BY DEF Init, ResultInv, Reasons
    <2>5. WriteInv(d)
      BY <2>1 DEF Init, WriteInv
    <2> QED
      BY <2>2, <2>3, <2>4, <2>5 DEF DeviceInv
  <1> QED
    BY <1>1, InitType

\* Every step keeps it.
LEMMA InvStep == IInv /\ [Next]_vars => IInv'
  <1> SUFFICES ASSUME TypeInv, \A d \in Devices : DeviceInv(d), [Next]_vars
               PROVE  TypeInv' /\ (\A d \in Devices : DeviceInv(d))'
    BY DEF IInv
  <1>1. TypeInv'
    BY TypeStep
  <1>2. ASSUME NEW x \in Devices PROVE DeviceInv(x)'
    <2>1. CASE UNCHANGED vars
      BY <2>1, Frame DEF vars
    <2>2. CASE WorkerCrash
      BY <2>2, Frame DEF WorkerCrash
    <2>3. ASSUME NEW d \in Devices, Progress(d) \/ Late(d) \/ Outside(d)
          PROVE  DeviceInv(x)'
      <3>1. CASE x = d
        BY <2>3, <3>1, DeviceStep
      <3>2. CASE x # d
        BY <2>3, <3>2, Frame, Elsewhere
      <3> QED
        BY <3>1, <3>2
    <2> QED
      BY <2>1, <2>2, <2>3 DEF Next
  <1> QED
    BY <1>1, <1>2

-----------------------------------------------------------------------------
(***************************************************************************)
(* What follows for the log and the device                                 *)
(***************************************************************************)

\* The inductive invariant holds throughout.
THEOREM Invariance == Spec => []IInv
  BY InitInv, InvStep, PTL DEF Spec

\* The log tells every run as a story without gaps, for any number of devices,
\* runs and attempts: _record_event is awaited at every step of run().
THEOREM RecordsStayInOrder == Spec => []RecordsInOrder
  <1>1. IInv => RecordsInOrder
    BY DEF IInv, DeviceInv, RecordInv, RecordsInOrder
  <1> QED
    BY <1>1, Invariance, PTL

\* A WorkflowResult is returned only with the terminal record that tells it in the
\* log: WORKFLOW_CANCELLED for a cancelled one, else one with the same reason.
THEOREM ReturnedResultsAreRecorded == Spec => []ReturnedResultIsRecorded
  <1>1. IInv => ReturnedResultIsRecorded
    BY DEF IInv, DeviceInv, ResultInv, ReturnedResultIsRecorded
  <1> QED
    BY <1>1, Invariance, PTL

\* No run ever gets a second terminal record, not even from a late INSERT.
THEOREM TerminalRecordsAreUnique == Spec => []OneTerminalRecord
  <1>1. IInv => OneTerminalRecord
    BY DEF IInv, DeviceInv, UniqueInv, OneTerminalRecord
  <1> QED
    BY <1>1, Invariance, PTL

\* No device is written by a run whose start and fetch the log does not hold.
THEOREM WritesAreAccountable == Spec => []WriteIsAccountable
  <1>1. IInv => WriteIsAccountable
    BY DEF IInv, DeviceInv, WriteInv, WriteIsAccountable
  <1> QED
    BY <1>1, Invariance, PTL

-----------------------------------------------------------------------------
(***************************************************************************)
(* What a deploy tells and what it leaves, proved of DeployIntent.         *)
(*                                                                         *)
(* For every value of the constants, DeployIntent implements               *)
(* DeployContract: how a deploy closed tells its callers whether it wrote  *)
(* the device.  Every step of DeployIntent is first sorted by its effect on*)
(* the contract's variables: it starts a run, lets a SET through, closes a *)
(* run, or only moves the open run on.  Then the invariant and the         *)
(* simulation are proved of those four effects, not of the twenty-three    *)
(* actions.                                                                *)
(*                                                                         *)
(* For every value under which no attempt outlives its start-to-close      *)
(* timeout, writers stay in the order of their runs and a deploy that      *)
(* succeeded is on the device.  With timeouts neither holds: the run       *)
(* deploy_orphan_set shows the SET of a timed-out attempt landing behind   *)
(* its run's back.                                                         *)
(***************************************************************************)

(***************************************************************************)
(* The invariant of the contract                                           *)
(***************************************************************************)

\* The open execution has not come to its SET, and ends without one if it ends
\* with what it has found so far.
Unsent(d) ==
    \/ exec[d].pc \in {"started", "fetch", "fetched"}
    \/ exec[d].reason \in Contract!Untouched

\* The open execution has had the device's answer to its SET.
Sent(d) ==
    \/ exec[d].pc \in {"applied", "collect", "collected", "detect", "detected"}
    \/ exec[d].reason \in Contract!Touched

\* Run n of d may still reach the device, or has.
MayWrite(d, n) ==
    /\ n <= runs[d]
    /\ ended[d][n] \notin Contract!Untouched
    /\ Open(d) /\ n = runs[d] => ~Unsent(d)

\* How the runs ended fits what they wrote.
ContractInv(d) ==
    /\ \A n \in Runs : n > runs[d] \/ (n = runs[d] /\ Open(d)) => ended[d][n] = "open"
    /\ \A n \in landed[d] : MayWrite(d, n)
    /\ \A s \in setting[d] : MayWrite(d, s.run)
    /\ Sent(d) => runs[d] \in landed[d]

-----------------------------------------------------------------------------
(***************************************************************************)
(* What a step does                                                        *)
(***************************************************************************)

\* A SET that is on its way after the step was on its way before it, or is the
\* open execution's own, abandoned at its apply.
SetsComeFromApply(d) ==
    \A s \in setting'[d] :
        \/ \E t \in setting[d] : t.run = s.run
        \/ s.run = runs[d] /\ exec[d].pc = "apply"

\* The open execution moves on, or nothing the contract sees happens at all.
Moves(d) ==
    /\ UNCHANGED <<runs[d], ended[d], landed[d]>>
    /\ exec'[d].pc = "idle" <=> exec[d].pc = "idle"
    /\ Unsent(d)' => Unsent(d)
    /\ Sent(d)' => Sent(d)
    /\ SetsComeFromApply(d)

\* A SET of run n reaches the device.
Lands(d, n) ==
    /\ UNCHANGED <<runs[d], ended[d]>>
    /\ landed'[d] = landed[d] \cup {n}
    /\ \/ n = runs[d] /\ exec[d].pc = "apply"
       \/ \E s \in setting[d] : s.run = n
    /\ exec'[d].pc = "idle" <=> exec[d].pc = "idle"
    /\ Unsent(d)' => Unsent(d)
    /\ Sent(d)' => Sent(d) \/ (n = runs[d] /\ exec[d].pc = "apply")
    /\ SetsComeFromApply(d)

\* The open execution closes.
Closes(d, ending) ==
    /\ Open(d)
    /\ UNCHANGED <<runs[d], landed[d]>>
    /\ ended'[d] = [ended[d] EXCEPT ![runs[d]] = ending]
    /\ exec'[d].pc = "idle" /\ exec'[d].reason = "none"
    /\ ending \in Contract!Touched => Sent(d)
    /\ ending \in Contract!Untouched => Unsent(d)
    /\ SetsComeFromApply(d)

\* The endings of the contract are those of the deploy.
LEMMA EndingsAreTheContracts ==
    Endings = Contract!Touched \cup Contract!Untouched \cup Contract!Uncertain
  BY DEF Endings, Reasons, Contract!Touched, Contract!Untouched, Contract!Uncertain

\* A step of an activity or a record that keeps the execution on its side of the SET.
LEMMA PhaseKept ==
    ASSUME NEW d \in Devices, ExecutionInv(d), exec[d].pc \notin Terminal,
           exec'[d].reason = exec[d].reason,
           \/ exec'[d].pc = exec[d].pc
           \/ /\ exec[d].pc \in {"started", "fetch", "fetched"}
              /\ exec'[d].pc \in {"fetch", "fetched", "apply"}
           \/ /\ exec[d].pc \in {"applied", "collect", "collected", "detect"}
              /\ exec'[d].pc \in {"collect", "collected", "detect", "detected"}
    PROVE  /\ exec'[d].pc = "idle" <=> exec[d].pc = "idle"
           /\ Unsent(d)' => Unsent(d)
           /\ Sent(d)' => Sent(d)
  <1>1. exec[d].reason = "none"
    BY DEF ExecutionInv
  <1> QED
    BY <1>1 DEF Unsent, Sent, Contract!Touched, Contract!Untouched

\* A step that leads to the terminal record with this reason.
LEMMA PhaseEnds ==
    ASSUME NEW d \in Devices, exec[d].pc \notin Terminal, Open(d),
           exec'[d].pc \in Terminal,
           exec'[d].reason \in Contract!Touched => Sent(d),
           exec'[d].reason \in Contract!Untouched => Unsent(d)
    PROVE  /\ exec'[d].pc = "idle" <=> exec[d].pc = "idle"
           /\ Unsent(d)' => Unsent(d)
           /\ Sent(d)' => Sent(d)
  BY DEF Unsent, Sent, Terminal, Open

\* An activity attempt that is lost leads nowhere new.
LEMMA PhaseAfterFailure ==
    ASSUME TypeInv, NEW d \in Devices, ExecutionInv(d), NEW pc \in Activities,
           AttemptFails(d, pc)
    PROVE  /\ exec'[d].pc = "idle" <=> exec[d].pc = "idle"
           /\ Unsent(d)' => Unsent(d)
           /\ Sent(d)' => Sent(d)
           /\ UNCHANGED <<runs[d], ended[d]>>
  <1>1. exec[d].pc = pc /\ exec[d].pc \notin Terminal /\ Open(d) /\ UNCHANGED <<runs, ended>>
        /\ exec[d].reason = "none"
    BY DEF AttemptFails, Activities, Terminal, Open, ExecutionInv
  <1>2. CASE exec' = [exec EXCEPT ![d].attempt = @ + 1]
    BY <1>1, <1>2, Moved, PhaseKept
  <1>3. CASE Terminate(d, FailureOf[pc])
    <2>1. exec'[d].pc = "terminating" /\ exec'[d].reason = FailureOf[pc]
      BY <1>3, Moved
    <2>2. /\ FailureOf[pc] \in Contract!Touched => Sent(d)
          /\ FailureOf[pc] \in Contract!Untouched => Unsent(d)
      BY <1>1 DEF FailureOf, Activities, Contract!Touched, Contract!Untouched, Sent, Unsent
    <2> QED
      BY <1>1, <2>1, <2>2, PhaseEnds DEF Terminal
  <1> QED
    BY <1>2, <1>3 DEF AttemptFails

\* What closing an execution does.
LEMMA WhatCloses ==
    ASSUME TypeInv, NEW d \in Devices, Open(d), NEW ending \in Endings, Close(d, ending),
           UNCHANGED <<runs[d], landed[d]>>, SetsComeFromApply(d),
           ending \in Contract!Touched => Sent(d),
           ending \in Contract!Untouched => Unsent(d)
    PROVE  Closes(d, ending)
  <1>1. ended'[d] = [ended[d] EXCEPT ![runs[d]] = ending]
    BY DEF Close, TypeInv, TypeOK
  <1> QED
    BY <1>1, Moved DEF Closes

\* Temporal's own endings say nothing of the device.
LEMMA StatusIsUncertain ==
    ASSUME NEW s \in {"FAILED_STATUS", "CANCELLED_STATUS", "TERMINATED_STATUS"}
    PROVE  s \in Endings /\ s \notin Contract!Touched \cup Contract!Untouched
  BY DEF Endings, Contract!Touched, Contract!Untouched

\* The SET of an execution that stands at its apply.
LEMMA WhatLands ==
    ASSUME TypeInv, NEW d \in Devices, NEW n \in Runs, NEW g, DeviceSet(d, n, g)
    PROVE  landed'[d] = landed[d] \cup {n}
  BY DEF TypeInv, TypeOK, DeviceSet

\* Steps that leave the SETs on their way alone, or add the open execution's own.
LEMMA WhereSetsComeFrom ==
    ASSUME TypeInv, NEW d \in Devices
    PROVE  /\ setting'[d] \subseteq setting[d] => SetsComeFromApply(d)
           /\ \A l \in BOOLEAN : exec[d].pc = "apply" /\ AbandonSet(d, l)
                                     => SetsComeFromApply(d)
  BY DEF SetsComeFromApply, AbandonSet, TypeInv, TypeOK

\* The steps of the records.
LEMMA RecordSorted ==
    ASSUME TypeInv, NEW d \in Devices, ExecutionInv(d),
           RecordWritten(d) \/ RecordAttemptFails(d) \/ CancelRecord(d)
    PROVE  Moves(d) \/ \E ending \in Endings : Closes(d, ending)
  <1>1. /\ Open(d) /\ UNCHANGED <<runs, landed, setting>> /\ exec[d].pc \in Recording
        /\ SetsComeFromApply(d)
    BY WhereSetsComeFrom DEF RecordWritten, RecordAttemptFails, CancelRecord, Open, Recording
  <1>2. ASSUME NEW s \in {"FAILED_STATUS", "CANCELLED_STATUS"}, Close(d, s)
        PROVE  Closes(d, s) /\ s \in Endings
    BY <1>1, <1>2, StatusIsUncertain, WhatCloses
  <1>3. CASE RecordWritten(d)
    <2>1. CASE exec[d].pc \in DOMAIN Step /\ Await(d, Step[exec[d].pc])
               /\ UNCHANGED <<ended, cancel>>
      <3>1. exec'[d].pc = Step[exec[d].pc] /\ exec'[d].reason = exec[d].reason
        BY <2>1, Moved
      <3>2. CASE exec[d].pc = "fetched" \/ exec[d].pc = "started"
                 \/ exec[d].pc = "applied" \/ exec[d].pc = "collected"
        BY <1>1, <2>1, <3>1, <3>2, PhaseKept DEF Moves, Step, Terminal
      <3> QED
        BY <2>1, <3>2 DEF Step
    <2>2. CASE exec[d].pc = "detected" /\ Terminate(d, Classify(exec[d].report))
               /\ UNCHANGED <<ended, cancel>>
      <3>1. exec'[d].pc = "terminating" /\ exec'[d].reason = Classify(exec[d].report)
        BY <2>2, Moved
      <3>2. Classify(exec[d].report) \notin Contract!Untouched
        BY DEF Classify, Contract!Untouched
      <3>3. Sent(d)
        BY <2>2 DEF Sent
      <3> QED
        BY <1>1, <2>2, <3>1, <3>2, <3>3, PhaseEnds DEF Moves, Terminal
    <2>3. CASE exec[d].pc \in Terminal /\ Close(d, exec[d].reason)
      <3>1. exec[d].reason \in Endings
        BY <2>3 DEF TypeInv, Numbered, Endings
      <3>2. /\ exec[d].reason \in Contract!Touched => Sent(d)
            /\ exec[d].reason \in Contract!Untouched => Unsent(d)
        BY DEF Sent, Unsent
      <3> QED
        BY <1>1, <2>3, <3>1, <3>2, WhatCloses
    <2> QED
      BY <1>3, <2>1, <2>2, <2>3 DEF RecordWritten
  <1>4. CASE RecordAttemptFails(d)
    <2>1. CASE exec' = [exec EXCEPT ![d].attempt = @ + 1] /\ UNCHANGED <<ended, cancel>>
      <3>1. exec'[d].pc = exec[d].pc /\ exec'[d].reason = exec[d].reason
        BY <2>1, Moved
      <3> QED
        BY <1>1, <2>1, <3>1 DEF Moves, Unsent, Sent
    <2>2. CASE Close(d, "FAILED_STATUS")
      BY <1>2, <2>2
    <2> QED
      BY <1>4, <2>1, <2>2 DEF RecordAttemptFails
  <1>5. CASE CancelRecord(d)
    BY <1>2, <1>5 DEF CancelRecord
  <1> QED
    BY <1>3, <1>4, <1>5

\* The steps of the apply.
LEMMA ApplySorted ==
    ASSUME TypeInv, NEW d \in Devices, ExecutionInv(d),
           ApplySucceeds(d) \/ ApplyRefused(d) \/ ApplyAttemptFails(d)
    PROVE  Moves(d) \/ \E n \in Runs : Lands(d, n)
  <1>1. /\ Open(d) /\ UNCHANGED <<runs, ended>> /\ exec[d].pc = "apply" /\ runs[d] \in Runs
        /\ exec[d].pc \notin Terminal /\ exec[d].reason = "none"
    BY DEF ApplySucceeds, ApplyRefused, ApplyAttemptFails, AttemptFails, Open, Terminal,
           TypeInv, Numbered, ExecutionInv
  <1>2. ASSUME DeviceSet(d, runs[d], exec[d].desired), SetsComeFromApply(d),
               exec'[d].pc # "idle", Unsent(d)' => Unsent(d)
        PROVE  Lands(d, runs[d])
    BY <1>1, <1>2, WhatLands DEF Lands, Open
  <1>3. CASE ApplySucceeds(d)
    <2>1. exec'[d].pc = "applied" /\ exec'[d].reason = "none"
      BY <1>1, <1>3, Moved DEF ApplySucceeds
    <2>2. Unsent(d)' => Unsent(d)
      BY <2>1 DEF Unsent, Contract!Untouched
    <2> QED
      BY <1>1, <1>2, <1>3, <2>1, <2>2, WhereSetsComeFrom DEF ApplySucceeds
  <1>4. CASE ApplyRefused(d)
    <2>1. exec'[d].pc = "terminating" /\ exec'[d].reason = "APPLY_FAILED"
      BY <1>4, Moved DEF ApplyRefused
    <2>2. ~Unsent(d)' /\ ~Sent(d)' /\ exec'[d].pc # "idle"
      BY <2>1 DEF Unsent, Sent, Contract!Touched, Contract!Untouched
    <2> QED
      BY <1>1, <1>2, <1>4, <2>2, WhereSetsComeFrom DEF ApplyRefused, NoDeviceSet, Moves, Open
  <1>5. CASE ApplyAttemptFails(d)
    <2>1. /\ exec'[d].pc # "idle"
          /\ Unsent(d)' => Unsent(d)
          /\ Sent(d)' => Sent(d)
      BY <1>1, <1>5, PhaseAfterFailure DEF ApplyAttemptFails, Activities, Open
    <2>2. SetsComeFromApply(d)
      BY <1>1, <1>5, WhereSetsComeFrom DEF ApplyAttemptFails
    <2> QED
      BY <1>1, <1>2, <1>5, <2>1, <2>2 DEF ApplyAttemptFails, NoDeviceSet, Moves, Open
  <1> QED
    BY <1>3, <1>4, <1>5

\* Every step of a device starts a run, moves one on, lands a SET or closes one.
LEMMA StepSorted ==
    ASSUME TypeInv, NEW d \in Devices, ExecutionInv(d),
           Progress(d) \/ Late(d) \/ Outside(d)
    PROVE  \/ StartDeploy(d)
           \/ Moves(d)
           \/ \E n \in Runs : Lands(d, n)
           \/ \E ending \in Endings : Closes(d, ending)
  <1>0. exec[d].pc \in Activities => exec[d].pc \notin Terminal /\ Open(d)
    BY DEF Activities, Terminal, Open
  <1>1. CASE FetchSucceeds(d) \/ CollectAnswers(d) \/ DetectAnswers(d)
    <2>1. exec'[d].reason = exec[d].reason
      <3>1. CASE FetchSucceeds(d)
        BY <3>1 DEF FetchSucceeds, TypeInv, TypeOK, Execution
      <3>2. CASE CollectAnswers(d)
        BY <3>2 DEF CollectAnswers, TypeInv, TypeOK, Execution
      <3>3. CASE DetectAnswers(d)
        BY <3>3 DEF DetectAnswers, TypeInv, TypeOK, Execution
      <3> QED
        BY <1>1, <3>1, <3>2, <3>3
    <2>2. \/ exec[d].pc = "fetch" /\ exec'[d].pc = "fetched"
          \/ exec[d].pc = "collect" /\ exec'[d].pc = "collected"
          \/ exec[d].pc = "detect" /\ exec'[d].pc = "detected"
      <3>1. CASE FetchSucceeds(d)
        BY <3>1 DEF FetchSucceeds, TypeInv, TypeOK, Execution
      <3>2. CASE CollectAnswers(d)
        BY <3>2 DEF CollectAnswers, TypeInv, TypeOK, Execution
      <3>3. CASE DetectAnswers(d)
        BY <3>3 DEF DetectAnswers, TypeInv, TypeOK, Execution
      <3> QED
        BY <1>1, <3>1, <3>2, <3>3
    <2>3. exec[d].pc \notin Terminal
      BY <2>2 DEF Terminal
    <2>4. SetsComeFromApply(d) /\ UNCHANGED <<runs, ended, landed>>
      BY <1>1, WhereSetsComeFrom DEF FetchSucceeds, CollectAnswers, DetectAnswers
    <2> QED
      BY <2>1, <2>2, <2>3, <2>4, PhaseKept DEF Moves
  <1>2. CASE FetchRejected(d)
    <2>1. /\ exec'[d].pc = "terminating" /\ exec[d].pc = "fetch"
          /\ exec'[d].reason \in {"DEVICE_NOT_FOUND", "INTENT_UNAVAILABLE"}
      BY <1>2, Moved DEF FetchRejected
    <2>2. Unsent(d) /\ exec'[d].reason \notin Contract!Touched
      BY <2>1 DEF Unsent, Contract!Touched
    <2>3. exec[d].pc \notin Terminal /\ exec'[d].pc \in Terminal /\ Open(d)
      BY <2>1 DEF Terminal, Open
    <2> QED
      BY <1>2, <2>2, <2>3, PhaseEnds, WhereSetsComeFrom DEF FetchRejected, Moves
  <1>3. CASE FetchAttemptFails(d) \/ CollectAttemptFails(d) \/ DetectAttemptFails(d)
    <2>1. \E pc \in Activities : AttemptFails(d, pc)
      BY <1>3 DEF FetchAttemptFails, CollectAttemptFails, DetectAttemptFails, Activities
    <2>2. SetsComeFromApply(d) /\ UNCHANGED landed
      BY <1>3, WhereSetsComeFrom DEF FetchAttemptFails, CollectAttemptFails, DetectAttemptFails
    <2> QED
      BY <2>1, <2>2, PhaseAfterFailure DEF Moves
  <1>4. CASE CancelActivity(d)
    <2>1. exec'[d].pc = "cancelling" /\ exec'[d].reason = "CANCELLED"
      BY <1>4, Moved DEF CancelActivity
    <2>2. "CANCELLED" \notin Contract!Touched \cup Contract!Untouched
      BY DEF Contract!Touched, Contract!Untouched
    <2>3. exec[d].pc \notin Terminal /\ exec'[d].pc \in Terminal /\ Open(d)
      BY <1>0, <1>4, <2>1 DEF CancelActivity, Terminal
    <2>4. SetsComeFromApply(d)
      BY <1>4, WhereSetsComeFrom DEF CancelActivity
    <2>5. UNCHANGED <<runs, ended, landed>>
      BY <1>4 DEF CancelActivity
    <2> QED
      BY <2>1, <2>2, <2>3, <2>4, <2>5, PhaseEnds DEF Moves
  <1>5. CASE ServerTerminate(d)
    <2>1. SetsComeFromApply(d)
      BY <1>5, WhereSetsComeFrom DEF ServerTerminate
    <2> QED
      BY <1>5, <2>1, StatusIsUncertain, WhatCloses DEF ServerTerminate
  <1>6. CASE LateRecord(d) \/ LateSetFails(d) \/ RequestCancel(d) \/ EditIntent(d) \/ EditDevice(d)
    <2>1. UNCHANGED <<exec, runs, ended, landed>> /\ setting'[d] \subseteq setting[d]
      BY <1>6 DEF LateRecord, LateSetFails, RequestCancel, EditIntent, EditDevice, TypeInv, TypeOK
    <2> QED
      BY <2>1, WhereSetsComeFrom DEF Moves, Unsent, Sent
  <1>7. CASE LateSetTimesOut(d)
    <2>1. PICK s \in setting[d] :
             /\ setting' = [setting EXCEPT ![d] = (@ \ {s}) \cup {[s EXCEPT !.locked = FALSE]}]
             /\ UNCHANGED <<exec, runs, ended, landed>>
      BY <1>7 DEF LateSetTimesOut
    <2>2. [s EXCEPT !.locked = FALSE].run = s.run
      BY DEF TypeInv, TypeOK, Set
    <2>3. SetsComeFromApply(d)
      BY <2>1, <2>2 DEF SetsComeFromApply, TypeInv, TypeOK
    <2> QED
      BY <2>1, <2>3 DEF Moves, Unsent, Sent
  <1>8. CASE LateSet(d)
    <2>1. PICK s \in setting[d] :
             /\ setting' = [setting EXCEPT ![d] = @ \ {s}]
             /\ DeviceSet(d, s.run, s.desired)
             /\ UNCHANGED <<exec, runs, ended>>
      BY <1>8 DEF LateSet
    <2>2. s.run \in Runs /\ setting'[d] \subseteq setting[d]
      BY <2>1 DEF TypeInv, TypeOK, Set
    <2>3. Lands(d, s.run)
      BY <2>1, <2>2, WhatLands, WhereSetsComeFrom DEF Lands, Unsent, Sent
    <2> QED
      BY <2>2, <2>3
  <1> QED
    BY <1>1, <1>2, <1>3, <1>4, <1>5, <1>6, <1>7, <1>8, RecordSorted, ApplySorted
       DEF Progress, Late, Outside

-----------------------------------------------------------------------------
(***************************************************************************)
(* How the runs ended fits what they wrote                                 *)
(***************************************************************************)

\* Before anything was deployed.
LEMMA ContractInvInit ==
    ASSUME Init, NEW d \in Devices
    PROVE  ContractInv(d)
  <1>1. /\ runs[d] = 0 /\ setting[d] = {} /\ exec[d] = Idle
        /\ landed[d] = {} /\ \A n \in Runs : ended[d][n] = "open"
    BY DEF Init
  <1>2. ~Sent(d)
    BY <1>1 DEF Sent, Idle, Contract!Touched
  <1> QED
    BY <1>1, <1>2 DEF ContractInv

\* A run that stands at its apply may write.
LEMMA ApplyMayWrite ==
    ASSUME TypeInv, NEW d \in Devices, ExecutionInv(d), ContractInv(d), exec[d].pc = "apply"
    PROVE  MayWrite(d, runs[d]) /\ ~Unsent(d) /\ ~Sent(d) /\ Open(d) /\ runs[d] \in Runs
  <1>1. Open(d) /\ runs[d] \in Runs /\ exec[d].reason = "none"
    BY DEF Open, ExecutionInv, Terminal
  <1>2. ended[d][runs[d]] = "open"
    BY <1>1 DEF ContractInv
  <1>3. ~Unsent(d) /\ ~Sent(d)
    BY <1>1 DEF Unsent, Sent, Contract!Untouched, Contract!Touched
  <1>4. runs[d] <= runs[d]
    BY <1>1 DEF Runs
  <1> QED
    BY <1>1, <1>2, <1>3, <1>4 DEF MayWrite, Contract!Untouched

\* The four effects keep the invariant.
LEMMA ContractInvStep ==
    ASSUME TypeInv, NEW d \in Devices, ExecutionInv(d), ContractInv(d),
           \/ StartDeploy(d)
           \/ Moves(d)
           \/ \E n \in Runs : Lands(d, n)
           \/ \E ending \in Endings : Closes(d, ending)
    PROVE  ContractInv(d)'
  <1>0. /\ runs[d] \in 0..MaxRuns /\ landed[d] \in SUBSET Runs /\ setting[d] \subseteq Set
        /\ ended[d] \in [Runs -> Endings \cup {"open"}] /\ MaxRuns \in Nat
        /\ Runs \subseteq Nat /\ \A s \in setting[d] : s.run \in Runs
    BY BoundsAssumption DEF TypeInv, TypeOK, Runs, Set
  <1>1. "open" \notin Contract!Untouched
    BY DEF Contract!Untouched
  <1>2. CASE StartDeploy(d)
    <2>1. /\ runs'[d] = runs[d] + 1 /\ exec'[d].pc = "started" /\ exec'[d].reason = "none"
          /\ UNCHANGED <<ended, landed, setting>>
      BY <1>2 DEF StartDeploy, Idle, TypeInv, TypeOK
    <2>2. ~Sent(d)'
      BY <2>1 DEF Sent, Contract!Touched
    <2>3. \A n \in Runs : MayWrite(d, n) => MayWrite(d, n)'
      <3>1. \A n \in Nat : n <= runs[d] => n <= runs[d] + 1 /\ n # runs[d] + 1
        BY <1>0
      <3> QED
        BY <1>0, <2>1, <3>1 DEF MayWrite
    <2>4. \A n \in Runs : n > runs'[d] \/ n = runs'[d] => ended'[d][n] = "open"
      BY <1>0, <2>1 DEF ContractInv
    <2> QED
      BY <1>0, <2>1, <2>2, <2>3, <2>4 DEF ContractInv
  <1>3. ASSUME UNCHANGED <<runs[d], ended[d]>>, exec'[d].pc = "idle" <=> exec[d].pc = "idle",
               Unsent(d)' => Unsent(d), SetsComeFromApply(d)
        PROVE  /\ \A n \in Runs : n > runs'[d] \/ (n = runs'[d] /\ Open(d)') => ended'[d][n] = "open"
               /\ \A n \in Runs : MayWrite(d, n) => MayWrite(d, n)'
               /\ \A s \in setting'[d] : MayWrite(d, s.run)'
    <2>1. \A n \in Runs : MayWrite(d, n) => MayWrite(d, n)'
      BY <1>3 DEF MayWrite, Open
    <2>2. \A s \in setting'[d] : MayWrite(d, s.run)
      BY <1>3, ApplyMayWrite DEF SetsComeFromApply, ContractInv
    <2>3. \A s \in setting'[d] : s.run \in Runs
      BY <1>0, <1>3, ApplyMayWrite DEF SetsComeFromApply
    <2> QED
      BY <1>3, <2>1, <2>2, <2>3 DEF ContractInv, Open
  <1>4. CASE Moves(d)
    BY <1>0, <1>3, <1>4 DEF Moves, ContractInv
  <1>5. ASSUME NEW n \in Runs, Lands(d, n) PROVE ContractInv(d)'
    <2>1. landed'[d] = landed[d] \cup {n}
      BY <1>5 DEF Lands
    <2>2. MayWrite(d, n)
      BY <1>5, ApplyMayWrite DEF Lands, ContractInv
    <2>3. \A m \in landed'[d] : MayWrite(d, m)
      BY <1>0, <2>1, <2>2 DEF ContractInv
    <2>4. Sent(d)' => runs'[d] \in landed'[d]
      <3>1. CASE Sent(d)' /\ n # runs[d]
        BY <1>5, <2>1, <3>1 DEF Lands, ContractInv
      <3> QED
        BY <1>5, <2>1, <3>1 DEF Lands
    <2> QED
      BY <1>0, <1>3, <1>5, <2>1, <2>3, <2>4 DEF Lands, ContractInv
  <1>6. ASSUME NEW ending \in Endings, Closes(d, ending) PROVE ContractInv(d)'
    <2>1. /\ UNCHANGED <<runs[d], landed[d]>> /\ ~Open(d)' /\ runs[d] \in Runs
          /\ ended'[d] = [ended[d] EXCEPT ![runs[d]] = ending]
      BY <1>6 DEF Closes, Open, ExecutionInv
    <2>2. ~Sent(d)'
      BY <1>6 DEF Closes, Sent, Contract!Touched
    <2>3. \A n \in Runs : MayWrite(d, n) => MayWrite(d, n)'
      BY <1>0, <1>6, <2>1 DEF MayWrite, Closes
    <2>4. \A s \in setting'[d] : s.run \in Runs /\ MayWrite(d, s.run)
      BY <1>0, <1>6, ApplyMayWrite DEF Closes, SetsComeFromApply, ContractInv
    <2>5. \A n \in Runs : n > runs'[d] => ended'[d][n] = "open"
      <3>1. \A n \in Runs : n > runs[d] => ended[d][n] = "open"
        BY DEF ContractInv
      <3>2. \A n \in Runs : n > runs[d] => n # runs[d]
        BY <1>0
      <3> QED
        BY <1>0, <2>1, <3>1, <3>2
    <2> QED
      BY <1>0, <2>1, <2>2, <2>3, <2>4, <2>5 DEF ContractInv
  <1> QED
    BY <1>2, <1>4, <1>5, <1>6

-----------------------------------------------------------------------------
(***************************************************************************)
(* The simulation                                                          *)
(***************************************************************************)

\* A step of one device is seen on that device alone; a crash is seen on none.
LEMMA DevicesSorted ==
    ASSUME TypeInv, \A d \in Devices : ExecutionInv(d), [Next]_vars
    PROVE  \/ \A x \in Devices : Moves(x)
           \/ \E d \in Devices :
                 /\ \A x \in Devices \ {d} : Moves(x)
                 /\ \/ StartDeploy(d)
                    \/ \E n \in Runs : Lands(d, n)
                    \/ \E ending \in Endings : Closes(d, ending)
  <1>1. ASSUME NEW x \in Devices,
               UNCHANGED <<exec[x], runs[x], ended[x], landed[x]>>, setting'[x] \subseteq setting[x]
        PROVE  Moves(x)
    BY <1>1, WhereSetsComeFrom DEF Moves, Unsent, Sent
  <1>2. CASE UNCHANGED vars \/ WorkerCrash
    BY <1>1, <1>2 DEF vars, WorkerCrash
  <1>3. ASSUME NEW d \in Devices, Progress(d) \/ Late(d) \/ Outside(d)
        PROVE  /\ \A x \in Devices \ {d} : Moves(x)
               /\ \/ StartDeploy(d)
                  \/ Moves(d)
                  \/ \E n \in Runs : Lands(d, n)
                  \/ \E ending \in Endings : Closes(d, ending)
    BY <1>1, <1>3, Elsewhere, StepSorted
  <1> QED
    BY <1>2, <1>3 DEF Next

\* The invariant, with the one it rests on.
CInv == IInv /\ \A d \in Devices : ContractInv(d)

LEMMA CInvHolds == Spec => []CInv
  <1>1. Init => CInv
    BY InitInv, ContractInvInit DEF CInv
  <1>2. CInv /\ [Next]_vars => CInv'
    <2> SUFFICES ASSUME CInv, [Next]_vars PROVE CInv'
      OBVIOUS
    <2>1. TypeInv /\ \A d \in Devices : ExecutionInv(d) /\ ContractInv(d)
      BY DEF CInv, IInv, DeviceInv
    <2>2. ASSUME NEW d \in Devices PROVE ContractInv(d)'
      BY <2>1, DevicesSorted, ContractInvStep
    <2>3. IInv'
      BY InvStep DEF CInv
    <2> QED
      BY <2>2, <2>3 DEF CInv
  <1> QED
    BY <1>1, <1>2, PTL DEF Spec

\* Before anything was deployed, nothing is open and nothing written.
LEMMA ContractStarts == Init => Contract!ContractInit
  <1> SUFFICES ASSUME Init PROVE Contract!ContractInit
    OBVIOUS
  <1>1. \A d \in Devices : Open(d) = FALSE
    BY DEF Init, Open, Idle
  <1>2. [d \in Devices |-> Open(d)] = [d \in Devices |-> FALSE]
    BY <1>1, Zenon
  <1>3. \A d \in Devices, n \in Runs : (n \in landed[d]) = FALSE
    BY DEF Init
  <1>4. [d \in Devices |-> [n \in Runs |-> n \in landed[d]]]
            = [d \in Devices |-> [n \in Runs |-> FALSE]]
    BY <1>3, Zenon
  <1> QED
    BY <1>2, <1>4, Zenon DEF Init, Contract!ContractInit, Runs

\* The mapped variables after a step that is seen on d alone.
LEMMA OpenAfter ==
    ASSUME NEW d \in Devices, NEW o \in BOOLEAN,
           \A x \in Devices \ {d} : Moves(x), Open(d)' = o
    PROVE  [x \in Devices |-> Open(x)]' = [[x \in Devices |-> Open(x)] EXCEPT ![d] = o]
  <1>1. \A x \in Devices \ {d} : Open(x)' = Open(x)
    BY DEF Moves, Open
  <1> QED
    BY <1>1, Zenon

LEMMA OpenSame ==
    ASSUME \A x \in Devices : exec'[x].pc = "idle" <=> exec[x].pc = "idle"
    PROVE  [x \in Devices |-> Open(x)]' = [x \in Devices |-> Open(x)]
  <1>1. \A x \in Devices : Open(x)' = Open(x)
    BY DEF Open
  <1> QED
    BY <1>1, Zenon

LEMMA WrittenSame ==
    ASSUME \A x \in Devices : landed'[x] = landed[x]
    PROVE  [x \in Devices |-> [n \in Runs |-> n \in landed[x]]]'
               = [x \in Devices |-> [n \in Runs |-> n \in landed[x]]]
  BY Zenon

LEMMA WrittenOnce ==
    ASSUME NEW d \in Devices, NEW n \in Runs,
           \A x \in Devices \ {d} : landed'[x] = landed[x],
           \A m \in Runs \ {n} : (m \in landed'[d]) = (m \in landed[d]),
           (n \in landed'[d]) = TRUE
    PROVE  [x \in Devices |-> [m \in Runs |-> m \in landed[x]]]'
               = [[x \in Devices |-> [m \in Runs |-> m \in landed[x]]] EXCEPT ![d][n] = TRUE]
  BY Zenon

LEMMA WrittenAfter ==
    ASSUME TypeInv, NEW d \in Devices, NEW n \in Runs,
           \A x \in Devices \ {d} : landed'[x] = landed[x],
           landed'[d] = landed[d] \cup {n}
    PROVE  [x \in Devices |-> [m \in Runs |-> m \in landed[x]]]'
               = [[x \in Devices |-> [m \in Runs |-> m \in landed[x]]] EXCEPT ![d][n] = TRUE]
  <1>0. landed[d] \in SUBSET Runs
    BY DEF TypeInv, TypeOK
  <1>1. \A m \in Runs \ {n} : (m \in landed'[d]) = (m \in landed[d])
    BY <1>0
  <1>2. (n \in landed'[d]) = TRUE
    BY <1>0
  <1> QED
    BY <1>1, <1>2, WrittenOnce

\* Every step is a step of the contract or leaves its variables alone.
LEMMA ContractSteps ==
    CInv /\ CInv' /\ [Next]_vars => [Contract!ContractNext]_(Contract!contractVars)
  <1> SUFFICES ASSUME CInv, CInv', [Next]_vars
               PROVE  Contract!ContractNext \/ UNCHANGED Contract!contractVars
    OBVIOUS
  <1>0. /\ TypeInv /\ TypeInv' /\ \A d \in Devices : ExecutionInv(d) /\ ContractInv(d)
    BY DEF CInv, IInv, DeviceInv
  <1>1. /\ runs \in [Devices -> 0..MaxRuns] /\ runs' \in [Devices -> 0..MaxRuns]
        /\ ended \in [Devices -> [Runs -> Endings \cup {"open"}]]
        /\ ended' \in [Devices -> [Runs -> Endings \cup {"open"}]]
    BY <1>0 DEF TypeInv, TypeOK
  <1>2. CASE \A x \in Devices : Moves(x)
    <2>1. runs' = runs /\ ended' = ended
      BY <1>1, <1>2 DEF Moves
    <2>2. [x \in Devices |-> Open(x)]' = [x \in Devices |-> Open(x)]
      BY <1>2, OpenSame DEF Moves
    <2>3. [x \in Devices |-> [n \in Runs |-> n \in landed[x]]]'
               = [x \in Devices |-> [n \in Runs |-> n \in landed[x]]]
      BY <1>2, WrittenSame DEF Moves
    <2> QED
      BY <2>1, <2>2, <2>3, Zenon DEF Contract!contractVars
  <1>3. ASSUME NEW d \in Devices, \A x \in Devices \ {d} : Moves(x), StartDeploy(d)
        PROVE  Contract!Start(d)
    <2>1. UNCHANGED <<ended, landed>> /\ runs[d] < MaxRuns /\ runs' = [runs EXCEPT ![d] = @ + 1]
      BY <1>3 DEF StartDeploy
    <2>2. Open(d)' = TRUE
      BY <1>0, <1>3 DEF StartDeploy, Open, Idle, TypeInv, TypeOK
    <2>3. [x \in Devices |-> Open(x)]' = [[x \in Devices |-> Open(x)] EXCEPT ![d] = TRUE]
      BY <1>3, <2>2, OpenAfter
    <2>4. ~[x \in Devices |-> Open(x)][d]
      BY <1>3, Zenon DEF StartDeploy
    <2>5. [x \in Devices |-> [n \in Runs |-> n \in landed[x]]]'
               = [x \in Devices |-> [n \in Runs |-> n \in landed[x]]]
      BY <2>1, WrittenSame
    <2> QED
      BY <2>1, <2>3, <2>4, <2>5, Zenon DEF Contract!Start
  <1>4. ASSUME NEW d \in Devices, \A x \in Devices \ {d} : Moves(x),
               NEW n \in Runs, Lands(d, n)
        PROVE  Contract!Write(d, n)
    <2>1. runs' = runs /\ ended' = ended
      BY <1>1, <1>4 DEF Moves, Lands
    <2>2. [x \in Devices |-> Open(x)]' = [x \in Devices |-> Open(x)]
      BY <1>4, OpenSame DEF Moves, Lands
    <2>3. MayWrite(d, n)
      BY <1>0, <1>4, ApplyMayWrite DEF Lands, ContractInv
    <2>4. [x \in Devices |-> [m \in Runs |-> m \in landed[x]]]'
               = [[x \in Devices |-> [m \in Runs |-> m \in landed[x]]] EXCEPT ![d][n] = TRUE]
      BY <1>0, <1>4, WrittenAfter DEF Moves, Lands
    <2> QED
      BY <2>1, <2>2, <2>3, <2>4, Zenon DEF Contract!Write, MayWrite
  <1>5. ASSUME NEW d \in Devices, \A x \in Devices \ {d} : Moves(x),
               NEW ending \in Endings, Closes(d, ending)
        PROVE  Contract!End(d, ending)
    <2>1. runs' = runs /\ ended' = [ended EXCEPT ![d][runs[d]] = ending]
      BY <1>1, <1>5 DEF Moves, Closes
    <2>2. [x \in Devices |-> Open(x)]' = [[x \in Devices |-> Open(x)] EXCEPT ![d] = FALSE]
      <3>1. Open(d)' = FALSE
        BY <1>5 DEF Closes, Open
      <3> QED
        BY <1>5, <3>1, OpenAfter
    <2>3. [x \in Devices |-> [n \in Runs |-> n \in landed[x]]]'
               = [x \in Devices |-> [n \in Runs |-> n \in landed[x]]]
      BY <1>5, WrittenSame DEF Moves, Closes
    <2>4. runs[d] \in Runs /\ runs[d] <= runs[d]
      BY <1>0, <1>5 DEF Closes, ExecutionInv, Runs
    <2>5. ending \in Contract!Touched
              => [x \in Devices |-> [n \in Runs |-> n \in landed[x]]][d][runs[d]]
      <3>1. ending \in Contract!Touched => (runs[d] \in landed[d]) = TRUE
        BY <1>0, <1>5 DEF Closes, ContractInv
      <3> QED
        BY <2>4, <3>1, Zenon
    <2>6. ending \in Contract!Untouched
              => ~[x \in Devices |-> [n \in Runs |-> n \in landed[x]]][d][runs[d]]
      <3>1. ending \in Contract!Untouched => (runs[d] \in landed[d]) = FALSE
        BY <1>0, <1>5, <2>4 DEF Closes, ContractInv, MayWrite
      <3> QED
        BY <2>4, <3>1, Zenon
    <2>7. [x \in Devices |-> Open(x)][d]
      BY <1>5, Zenon DEF Closes
    <2> QED
      BY <2>1, <2>2, <2>3, <2>5, <2>6, <2>7, Zenon DEF Contract!End
  <1>6. CASE \E d \in Devices :
                 /\ \A x \in Devices \ {d} : Moves(x)
                 /\ \/ StartDeploy(d)
                    \/ \E n \in Runs : Lands(d, n)
                    \/ \E ending \in Endings : Closes(d, ending)
    BY <1>3, <1>4, <1>5, <1>6, EndingsAreTheContracts DEF Contract!ContractNext, Runs
  <1> QED
    BY <1>0, <1>2, <1>6, DevicesSorted

\* How a deploy closed tells its callers whether it wrote the device, for any
\* number of devices, runs and attempts: at most one execution per device is
\* open, a run that found no intent never writes, a verified one certainly has,
\* and no SET left behind by a cancelled run belies it (run, _terminate_*).
THEOREM DeployKeepsItsContract == Spec => ImplementsContract
  BY CInvHolds, ContractStarts, ContractSteps, PTL
     DEF Spec, ImplementsContract, Contract!ContractSpec

-----------------------------------------------------------------------------
(***************************************************************************)
(* The invariant of the device, without timeouts                           *)
(***************************************************************************)

\* The abandoned SETs queue for the lock behind the last one that landed.
OrderInv(d) ==
    /\ \A s \in setting[d] : s.locked /\ writer[d] <= s.run /\ s.run <= runs[d]
    /\ writer[d] <= runs[d]

\* The device carries what the deploy set out to set.
Fits(d) == Forward(exec[d].desired, config[d]) = {}

\* The last deploy of d closed SUCCEEDED.
Succeeded(d) == ~Open(d) /\ runs[d] > 0 /\ ended[d][runs[d]] = "SUCCEEDED"

\* Once a deploy's own SET is answered none is left that could undo it, so what
\* it collected, then what it reported, then its result stay true of the device.
SuccessInv(d) ==
    /\ Sent(d) \/ Succeeded(d) => setting[d] = {}
    /\ ~edited[d] =>
        /\ exec[d].pc \in {"collected", "detect"} => exec[d].seen \in {config[d], Missing}
        /\ exec[d].pc = "detected" /\ exec[d].report \in {"CLEAN", "UNDESIRED"} => Fits(d)
        /\ exec[d].reason = "SUCCEEDED" \/ Succeeded(d) => Fits(d)

-----------------------------------------------------------------------------
(***************************************************************************)
(* The steps, without timeouts                                             *)
(***************************************************************************)

\* The helpers that move an execution on leave its data alone.
LEMMA DataKept ==
    ASSUME TypeInv, NEW d \in Devices, NEW pc, NEW r,
           \/ Await(d, pc)
           \/ Terminate(d, r)
           \/ TerminateCancelled(d)
           \/ exec' = [exec EXCEPT ![d].attempt = @ + 1]
    PROVE  /\ exec'[d].desired = exec[d].desired
           /\ exec'[d].seen = exec[d].seen
           /\ exec'[d].report = exec[d].report
  <1>1. exec \in [Devices -> Execution]
    BY DEF TypeInv, TypeOK
  <1>2. CASE Await(d, pc)
    BY <1>1, <1>2 DEF Await, Execution
  <1>3. CASE Terminate(d, r)
    BY <1>1, <1>3 DEF Terminate, Execution
  <1>4. CASE TerminateCancelled(d)
    BY <1>1, <1>4 DEF TerminateCancelled, Execution
  <1>5. CASE exec' = [exec EXCEPT ![d].attempt = @ + 1]
    BY <1>1, <1>5 DEF Execution
  <1> QED
    BY <1>2, <1>3, <1>4, <1>5

\* Under the lock a SET is on the wire alone.
LEMMA LockedOut ==
    ASSUME NEW d \in Devices, OrderInv(d), LockFree(d)
    PROVE  setting[d] = {}
  BY DEF OrderInv, LockFree

\* The steps of one device keep the SETs in the order of their runs.
LEMMA OrderStep ==
    ASSUME NEW d \in Devices, TypeInv, ~Timeouts, OrderInv(d),
           Progress(d) \/ Late(d) \/ Outside(d)
    PROVE  OrderInv(d)' /\ writer[d] <= writer'[d]
  <1>0. /\ runs[d] \in Nat /\ writer[d] \in Nat
        /\ \A s \in setting[d] : s.run \in Nat /\ s.run \in Runs
        /\ writer \in [Devices -> 0..MaxRuns]
    BY BoundsAssumption DEF TypeInv, TypeOK, Set, Runs
  <1>1. ASSUME setting'[d] \subseteq setting[d], writer' = writer,
               runs' = runs \/ StartDeploy(d)
        PROVE  OrderInv(d)' /\ writer[d] <= writer'[d]
    <2>1. runs'[d] = runs[d] \/ runs'[d] = runs[d] + 1
      BY <1>1 DEF StartDeploy, TypeInv, TypeOK
    <2> QED
      BY <1>0, <1>1, <2>1 DEF OrderInv
  <1>2. ASSUME setting[d] = {}, setting' = setting, runs' = runs, exec[d].pc = "apply",
               DeviceSet(d, runs[d], exec[d].desired)
        PROVE  OrderInv(d)' /\ writer[d] <= writer'[d]
    BY <1>0, <1>2 DEF DeviceSet, OrderInv
  <1>3. ASSUME AbandonSet(d, TRUE), runs' = runs, writer' = writer
        PROVE  OrderInv(d)' /\ writer[d] <= writer'[d]
    <2>1. \A s \in setting'[d] : s \in setting[d] \/ (s.run = runs[d] /\ s.locked = TRUE)
      BY <1>3 DEF AbandonSet, TypeInv, TypeOK
    <2> QED
      BY <1>0, <1>3, <2>1 DEF OrderInv
  <1>4. CASE ApplySucceeds(d) \/ ApplyRefused(d) \/ ApplyAttemptFails(d)
    <2>1. exec[d].pc = "apply" /\ runs' = runs /\ setting' = setting
      BY <1>4 DEF ApplySucceeds, ApplyRefused, ApplyAttemptFails, AttemptFails
    <2>2. writer' = writer \/ (LockFree(d) /\ DeviceSet(d, runs[d], exec[d].desired))
      BY <1>4 DEF ApplySucceeds, ApplyRefused, ApplyAttemptFails, NoDeviceSet
    <2> QED
      BY <1>1, <1>2, <2>1, <2>2, LockedOut
  <1>5. CASE CancelActivity(d) \/ ServerTerminate(d)
    <2>1. runs' = runs /\ writer' = writer /\ (setting' = setting \/ AbandonSet(d, TRUE))
      BY <1>5 DEF CancelActivity, ServerTerminate
    <2> QED
      BY <1>1, <1>3, <2>1
  <1>6. CASE LateSet(d)
    <2>1. PICK s \in setting[d] :
             /\ s.locked => \A t \in setting[d] : t.locked => s.run <= t.run
             /\ setting' = [setting EXCEPT ![d] = @ \ {s}]
             /\ DeviceSet(d, s.run, s.desired)
             /\ UNCHANGED <<exec, runs, ended, edited>>
      BY <1>6 DEF LateSet
    <2>2. writer'[d] = s.run /\ setting'[d] = setting[d] \ {s} /\ runs'[d] = runs[d]
      BY <1>0, <2>1 DEF DeviceSet, TypeInv, TypeOK
    <2> QED
      BY <1>0, <2>1, <2>2 DEF OrderInv
  <1>7. CASE LateSetFails(d) \/ LateRecord(d)
    <2>1. setting'[d] \subseteq setting[d] /\ writer' = writer /\ runs' = runs
      BY <1>7 DEF LateSetFails, LateRecord, TypeInv, TypeOK
    <2> QED
      BY <1>1, <2>1
  <1>8. CASE \/ RecordWritten(d) \/ RecordAttemptFails(d) \/ FetchSucceeds(d)
             \/ FetchRejected(d) \/ FetchAttemptFails(d) \/ CollectAnswers(d)
             \/ CollectAttemptFails(d) \/ DetectAnswers(d) \/ DetectAttemptFails(d)
             \/ CancelRecord(d)
    <2>1. UNCHANGED <<setting, writer, runs>>
      BY <1>8 DEF RecordWritten, RecordAttemptFails, FetchSucceeds, FetchRejected,
           FetchAttemptFails, CollectAnswers, CollectAttemptFails, DetectAnswers,
           DetectAttemptFails, CancelRecord, AttemptFails
    <2> QED
      BY <1>1, <2>1
  <1>9. CASE StartDeploy(d) \/ RequestCancel(d) \/ EditIntent(d) \/ EditDevice(d)
    <2>1. UNCHANGED <<setting, writer>> /\ (runs' = runs \/ StartDeploy(d))
      BY <1>9 DEF StartDeploy, RequestCancel, EditIntent, EditDevice
    <2> QED
      BY <1>1, <2>1
  <1>10. ~LateSetTimesOut(d)
    BY DEF LateSetTimesOut
  <1> QED
    BY <1>4, <1>5, <1>6, <1>7, <1>8, <1>9, <1>10 DEF Progress, Late, Outside

\* A configuration that was read and compared without a path to set fits.
LEMMA ComparedFits ==
    ASSUME TypeInv, NEW d \in Devices, exec[d].seen \in {config[d], Missing},
           Compare(exec[d].desired, exec[d].seen) \in {"CLEAN", "UNDESIRED"}
    PROVE  Fits(d)
  BY DEF Compare, Fits

\* An execution that has no answer to its SET, or none of which is told, owes
\* nothing.
LEMMA OwesNothing ==
    ASSUME NEW d \in Devices, ~Sent(d)', ~Succeeded(d)'
    PROVE  SuccessInv(d)'
  BY DEF SuccessInv, Sent, Contract!Touched

\* The open execution's run has not closed.
LEMMA OpenNotClosed ==
    ASSUME NEW d \in Devices, exec'[d].pc # "idle"
    PROVE  ~Succeeded(d)'
  BY DEF Succeeded, Open

\* What it owes stays paid while the device and what is known of it stay put.
LEMMA StaysPaid ==
    ASSUME NEW d \in Devices, SuccessInv(d),
           UNCHANGED <<config[d], edited[d], runs[d], ended[d]>>, setting'[d] \subseteq setting[d],
           exec'[d].desired = exec[d].desired,
           exec'[d].pc = "idle" <=> exec[d].pc = "idle",
           Sent(d)' => Sent(d),
           exec'[d].pc \in {"collected", "detect"} =>
               exec[d].pc \in {"collected", "detect"} /\ exec'[d].seen = exec[d].seen,
           exec'[d].pc = "detected" =>
               exec[d].pc = "detected" /\ exec'[d].report = exec[d].report,
           exec'[d].reason = "SUCCEEDED" => exec[d].reason = "SUCCEEDED"
    PROVE  SuccessInv(d)'
  <1>1. Succeeded(d)' => Succeeded(d)
    BY DEF Succeeded, Open
  <1>2. Fits(d) => Fits(d)'
    BY DEF Fits, Forward
  <1> QED
    BY <1>1, <1>2 DEF SuccessInv

\* Where an activity attempt that is lost leads.
LEMMA FailureStaysPaid ==
    ASSUME TypeInv, NEW d \in Devices, ExecutionInv(d), SuccessInv(d),
           NEW pc \in Activities, AttemptFails(d, pc),
           UNCHANGED <<config, setting>>
    PROVE  SuccessInv(d)'
  <1>1. /\ exec'[d].pc = "idle" <=> exec[d].pc = "idle"
        /\ Sent(d)' => Sent(d)
        /\ UNCHANGED <<runs[d], ended[d]>>
    BY PhaseAfterFailure
  <1>2. UNCHANGED edited /\ exec[d].pc = pc
    BY DEF AttemptFails
  <1>3. /\ exec'[d].desired = exec[d].desired /\ exec'[d].seen = exec[d].seen
        /\ exec'[d].report = exec[d].report
    BY DataKept DEF AttemptFails
  <1>4. CASE exec' = [exec EXCEPT ![d].attempt = @ + 1]
    BY <1>1, <1>2, <1>3, <1>4, Moved, StaysPaid
  <1>5. CASE Terminate(d, FailureOf[pc])
    <2>1. exec'[d].pc = "terminating" /\ exec'[d].reason # "SUCCEEDED"
      BY <1>5, Moved DEF FailureOf, Activities
    <2> QED
      BY <1>1, <1>2, <1>3, <2>1, StaysPaid
  <1> QED
    BY <1>4, <1>5 DEF AttemptFails

\* Closing with one of Temporal's statuses promises nothing.
LEMMA StatusOwesNothing ==
    ASSUME TypeInv, NEW d \in Devices, Open(d), runs' = runs,
           NEW s \in {"FAILED_STATUS", "CANCELLED_STATUS", "TERMINATED_STATUS"}, Close(d, s)
    PROVE  SuccessInv(d)'
  <1>1. exec'[d].pc = "idle" /\ exec'[d].reason = "none"
    BY Moved
  <1>2. ended'[d][runs'[d]] = s
    BY DEF Close, TypeInv, TypeOK, Numbered
  <1>3. ~Sent(d)' /\ ~Succeeded(d)'
    BY <1>1, <1>2 DEF Sent, Succeeded, Contract!Touched
  <1> QED
    BY <1>3, OwesNothing

\* The steps of the records.
LEMMA RecordPaid ==
    ASSUME TypeInv, NEW d \in Devices, ExecutionInv(d), SuccessInv(d),
           RecordWritten(d) \/ RecordAttemptFails(d) \/ CancelRecord(d)
    PROVE  SuccessInv(d)'
  <1>1. /\ Open(d) /\ UNCHANGED <<runs, config, setting, edited>> /\ exec[d].pc # "idle"
    BY DEF RecordWritten, RecordAttemptFails, CancelRecord, Open, Recording
  <1>2. CASE CancelRecord(d)
    BY <1>1, <1>2, StatusOwesNothing DEF CancelRecord
  <1>3. CASE RecordAttemptFails(d)
    <2>1. CASE exec' = [exec EXCEPT ![d].attempt = @ + 1] /\ UNCHANGED <<ended, cancel>>
      <3>1. /\ exec'[d].pc = exec[d].pc /\ exec'[d].reason = exec[d].reason
            /\ exec'[d].desired = exec[d].desired /\ exec'[d].seen = exec[d].seen
            /\ exec'[d].report = exec[d].report
        BY <2>1, Moved, DataKept
      <3>2. Sent(d)' => Sent(d)
        BY <3>1 DEF Sent
      <3> QED
        BY <1>1, <2>1, <3>1, <3>2, StaysPaid
    <2>2. CASE Close(d, "FAILED_STATUS")
      BY <1>1, <2>2, StatusOwesNothing
    <2> QED
      BY <1>3, <2>1, <2>2 DEF RecordAttemptFails
  <1>4. CASE RecordWritten(d)
    <2>1. CASE exec[d].pc \in DOMAIN Step /\ Await(d, Step[exec[d].pc])
               /\ UNCHANGED <<ended, cancel>>
      <3>1. /\ exec'[d].pc = Step[exec[d].pc] /\ exec'[d].reason = exec[d].reason
            /\ exec'[d].desired = exec[d].desired /\ exec'[d].seen = exec[d].seen
            /\ exec'[d].report = exec[d].report
        BY <2>1, Moved, DataKept
      <3>2. exec[d].reason = "none"
        BY <2>1 DEF ExecutionInv, Step, Terminal
      <3>3. Sent(d)' => Sent(d)
        BY <2>1, <3>1, <3>2 DEF Sent, Step, Contract!Touched
      <3>4. /\ exec'[d].pc # "idle" /\ exec'[d].pc # "detected"
            /\ exec'[d].pc \in {"collected", "detect"} => exec[d].pc = "collected"
        BY <2>1, <3>1 DEF Step
      <3> QED
        BY <1>1, <2>1, <3>1, <3>2, <3>3, <3>4, StaysPaid
    <2>2. CASE exec[d].pc = "detected" /\ Terminate(d, Classify(exec[d].report))
               /\ UNCHANGED <<ended, cancel>>
      <3>1. /\ exec'[d].pc = "terminating" /\ exec'[d].reason = Classify(exec[d].report)
            /\ exec'[d].desired = exec[d].desired
        BY <2>2, Moved, DataKept
      <3>2. exec'[d].reason = "SUCCEEDED" => exec[d].report \in {"CLEAN", "UNDESIRED"}
        BY <3>1 DEF Classify
      <3>3. Sent(d) /\ ~Succeeded(d)'
        BY <2>2, <3>1, OpenNotClosed DEF Sent
      <3>4. Fits(d) => Fits(d)'
        BY <1>1, <3>1 DEF Fits, Forward
      <3> QED
        BY <1>1, <2>2, <3>1, <3>2, <3>3, <3>4 DEF SuccessInv
    <2>3. CASE exec[d].pc \in Terminal /\ Close(d, exec[d].reason)
      <3>1. /\ exec'[d].pc = "idle" /\ exec'[d].reason = "none"
            /\ exec'[d].desired = exec[d].desired
        BY <2>3, Moved DEF Close, TypeInv, TypeOK, Idle
      <3>2. ended'[d][runs'[d]] = exec[d].reason
        BY <1>1, <2>3 DEF Close, TypeInv, TypeOK, Numbered
      <3>3. Fits(d) => Fits(d)'
        BY <1>1, <3>1 DEF Fits, Forward
      <3>4. Succeeded(d)' => Sent(d) /\ exec[d].reason = "SUCCEEDED"
        BY <3>2 DEF Succeeded, Sent, Contract!Touched
      <3>5. ~Sent(d)'
        BY <3>1 DEF Sent, Contract!Touched
      <3> QED
        BY <1>1, <3>1, <3>3, <3>4, <3>5 DEF SuccessInv
    <2> QED
      BY <1>4, <2>1, <2>2, <2>3 DEF RecordWritten
  <1> QED
    BY <1>2, <1>3, <1>4

\* The steps of the apply.
LEMMA ApplyPaid ==
    ASSUME TypeInv, NEW d \in Devices, ExecutionInv(d), OrderInv(d), SuccessInv(d), ~Timeouts,
           ApplySucceeds(d) \/ ApplyRefused(d) \/ ApplyAttemptFails(d)
    PROVE  SuccessInv(d)'
  <1>1. exec[d].pc = "apply" /\ exec[d].reason = "none" /\ UNCHANGED <<setting, edited>>
        /\ ~Sent(d)
    BY DEF ApplySucceeds, ApplyRefused, ApplyAttemptFails, AttemptFails, ExecutionInv, Terminal,
           Sent, Contract!Touched
  <1>2. CASE ApplySucceeds(d)
    <2>1. exec'[d].pc = "applied" /\ exec'[d].reason = "none"
      BY <1>1, <1>2, Moved DEF ApplySucceeds
    <2>2. setting'[d] = {} /\ ~Succeeded(d)'
      BY <1>1, <1>2, <2>1, LockedOut, OpenNotClosed DEF ApplySucceeds
    <2> QED
      BY <2>1, <2>2 DEF SuccessInv
  <1>3. CASE ApplyRefused(d)
    <2>1. exec'[d].pc = "terminating" /\ exec'[d].reason = "APPLY_FAILED"
      BY <1>3, Moved DEF ApplyRefused
    <2>2. ~Sent(d)' /\ ~Succeeded(d)'
      BY <2>1, OpenNotClosed DEF Sent, Contract!Touched
    <2> QED
      BY <2>2, OwesNothing
  <1>4. CASE ApplyAttemptFails(d)
    <2>1. exec'[d].pc # "idle" /\ ~Sent(d)'
      BY <1>1, <1>4, PhaseAfterFailure DEF ApplyAttemptFails, Activities
    <2> QED
      BY <2>1, OpenNotClosed, OwesNothing
  <1> QED
    BY <1>2, <1>3, <1>4

\* The steps of one device keep what its deploys owe.
LEMMA SuccessStep ==
    ASSUME TypeInv, NEW d \in Devices, ExecutionInv(d), OrderInv(d), SuccessInv(d), ~Timeouts,
           Progress(d) \/ Late(d) \/ Outside(d)
    PROVE  SuccessInv(d)'
  <1>1. CASE StartDeploy(d)
    <2>1. exec'[d].pc = "started" /\ exec'[d].reason = "none"
      BY <1>1 DEF StartDeploy, Idle, TypeInv, TypeOK
    <2>2. ~Sent(d)' /\ ~Succeeded(d)'
      BY <2>1, OpenNotClosed DEF Sent, Contract!Touched
    <2> QED
      BY <2>2, OwesNothing
  <1>2. CASE FetchSucceeds(d) \/ FetchRejected(d)
    <2>1. exec[d].pc = "fetch" /\ exec[d].reason = "none"
      BY <1>2 DEF FetchSucceeds, FetchRejected, ExecutionInv, Terminal
    <2>2. \/ exec'[d].pc = "fetched" /\ exec'[d].reason = "none"
          \/ /\ exec'[d].pc = "terminating"
             /\ exec'[d].reason \in {"DEVICE_NOT_FOUND", "INTENT_UNAVAILABLE"}
      <3>1. CASE FetchSucceeds(d)
        BY <2>1, <3>1 DEF FetchSucceeds, TypeInv, TypeOK, Execution
      <3>2. CASE FetchRejected(d)
        BY <3>2, Moved DEF FetchRejected
      <3> QED
        BY <1>2, <3>1, <3>2
    <2>3. ~Sent(d)' /\ ~Succeeded(d)'
      BY <2>2, OpenNotClosed DEF Sent, Contract!Touched
    <2> QED
      BY <2>3, OwesNothing
  <1>3. CASE FetchAttemptFails(d) \/ CollectAttemptFails(d) \/ DetectAttemptFails(d)
    <2>1. /\ \E pc \in Activities : AttemptFails(d, pc)
          /\ UNCHANGED <<config, setting>>
      BY <1>3 DEF FetchAttemptFails, CollectAttemptFails, DetectAttemptFails, Activities
    <2> QED
      BY <2>1, FailureStaysPaid
  <1>4. CASE CollectAnswers(d)
    <2>1. /\ exec[d].pc = "collect" /\ exec[d].reason = "none" /\ Sent(d)
          /\ UNCHANGED <<config, setting>>
      BY <1>4 DEF CollectAnswers, ExecutionInv, Terminal, Sent
    <2>2. /\ exec'[d].pc = "collected" /\ exec'[d].reason = "none"
      BY <1>4, <2>1 DEF CollectAnswers, TypeInv, TypeOK, Execution
    <2>3. exec'[d].seen \in {config[d], Missing}
      BY <1>4 DEF CollectAnswers, TypeInv, TypeOK, Execution
    <2> QED
      BY <2>1, <2>2, <2>3, OpenNotClosed DEF SuccessInv
  <1>5. CASE DetectAnswers(d)
    <2> DEFINE report == Compare(exec[d].desired, exec[d].seen)
    <2>1. /\ exec[d].pc = "detect" /\ exec[d].reason = "none" /\ Sent(d)
          /\ UNCHANGED <<config, setting, edited>>
      BY <1>5 DEF DetectAnswers, ExecutionInv, Terminal, Sent
    <2>2. exec'[d] = [exec[d] EXCEPT !.pc = "detected", !.attempt = 1,
                                     !.report = report, !.seen = Missing]
      BY <1>5 DEF DetectAnswers, TypeInv, TypeOK
    <2> HIDE DEF report
    <2>3. /\ exec'[d].pc = "detected" /\ exec'[d].reason = "none"
          /\ exec'[d].report = report /\ exec'[d].desired = exec[d].desired
      BY <2>1, <2>2 DEF TypeInv, TypeOK, Execution
    <2>4. ~edited[d] /\ report \in {"CLEAN", "UNDESIRED"} => Fits(d)
      BY <2>1, ComparedFits DEF SuccessInv, report
    <2>5. Fits(d) => Fits(d)'
      BY <2>1, <2>3 DEF Fits, Forward
    <2> QED
      BY <2>1, <2>3, <2>4, <2>5, OpenNotClosed DEF SuccessInv
  <1>6. CASE CancelActivity(d)
    <2>1. exec'[d].pc = "cancelling" /\ exec'[d].reason = "CANCELLED"
      BY <1>6, Moved DEF CancelActivity
    <2>2. ~Sent(d)' /\ ~Succeeded(d)'
      BY <2>1, OpenNotClosed DEF Sent, Contract!Touched
    <2> QED
      BY <2>2, OwesNothing
  <1>7. CASE ServerTerminate(d)
    BY <1>7, StatusOwesNothing DEF ServerTerminate
  <1>8. CASE LateSet(d)
    <2>1. /\ setting[d] # {} /\ UNCHANGED <<exec, runs, ended>>
      BY <1>8 DEF LateSet
    <2>2. ~Sent(d) /\ ~Succeeded(d)
      BY <2>1 DEF SuccessInv
    <2>3. ~Sent(d)' /\ ~Succeeded(d)'
      BY <2>1, <2>2 DEF Sent, Succeeded, Open
    <2> QED
      BY <2>3, OwesNothing
  <1>9. CASE LateRecord(d) \/ LateSetFails(d) \/ RequestCancel(d) \/ EditIntent(d)
    <2>1. /\ UNCHANGED <<exec, runs, ended, config, edited>>
          /\ setting'[d] \subseteq setting[d]
      BY <1>9 DEF LateRecord, LateSetFails, RequestCancel, EditIntent, TypeInv, TypeOK
    <2>2. Sent(d)' <=> Sent(d)
      BY <2>1 DEF Sent
    <2> QED
      BY <2>1, <2>2, StaysPaid
  <1>10. CASE EditDevice(d)
    <2>1. UNCHANGED <<exec, runs, ended, setting>> /\ edited'[d] = TRUE
      BY <1>10 DEF EditDevice, TypeInv, TypeOK
    <2>2. (Sent(d)' <=> Sent(d)) /\ (Succeeded(d)' <=> Succeeded(d))
      BY <2>1 DEF Sent, Succeeded, Open
    <2> QED
      BY <2>1, <2>2 DEF SuccessInv
  <1>11. ~LateSetTimesOut(d)
    BY DEF LateSetTimesOut
  <1> QED
    BY <1>1, <1>2, <1>3, <1>4, <1>5, <1>6, <1>7, <1>8, <1>9, <1>10, <1>11, RecordPaid,
       ApplyPaid DEF Progress, Late, Outside

-----------------------------------------------------------------------------
(***************************************************************************)
(* What follows for the device                                             *)
(***************************************************************************)

\* What a step on one device does to the configuration of another: nothing.
LEMMA ElsewhereKept ==
    ASSUME TypeInv, NEW d \in Devices, NEW x \in Devices, x # d,
           Progress(d) \/ Late(d) \/ Outside(d)
    PROVE  UNCHANGED <<config[x], writer[x], edited[x]>>
  <1>0. /\ config \in [Devices -> Config] /\ writer \in [Devices -> 0..MaxRuns]
        /\ edited \in [Devices -> BOOLEAN]
    BY DEF TypeInv, TypeOK
  <1>1. CASE Late(d) \/ Outside(d)
    BY <1>0, <1>1 DEF Late, LateRecord, LateSet, LateSetTimesOut, LateSetFails, DeviceSet,
         Outside, StartDeploy, RequestCancel, ServerTerminate, EditIntent, EditDevice
  <1>2. CASE Progress(d)
    BY <1>0, <1>2 DEF Progress, RecordWritten, RecordAttemptFails, CancelActivity, CancelRecord,
         FetchSucceeds, FetchRejected, CollectAnswers, DetectAnswers, FetchAttemptFails,
         CollectAttemptFails, DetectAttemptFails, AttemptFails, ApplySucceeds, ApplyRefused,
         ApplyAttemptFails, DeviceSet, NoDeviceSet
  <1> QED
    BY <1>1, <1>2

\* A step that is not seen on a device keeps both parts.
LEMMA DeviceFrame ==
    ASSUME NEW x \in Devices, OrderInv(x), SuccessInv(x),
           UNCHANGED <<exec[x], runs[x], ended[x], config[x], writer[x], edited[x]>>,
           setting'[x] \subseteq setting[x]
    PROVE  OrderInv(x)' /\ SuccessInv(x)' /\ writer[x] = writer'[x]
  <1>1. OrderInv(x)'
    BY DEF OrderInv
  <1>2. Sent(x)' <=> Sent(x)
    BY DEF Sent
  <1>3. SuccessInv(x)'
    BY <1>2, StaysPaid
  <1> QED
    BY <1>1, <1>3

\* The inductive invariant of the device.
DInv == IInv /\ \A d \in Devices : OrderInv(d) /\ SuccessInv(d)

LEMMA DInvInit == Init => DInv
  <1> SUFFICES ASSUME Init PROVE DInv
    OBVIOUS
  <1>1. ASSUME NEW d \in Devices PROVE OrderInv(d) /\ SuccessInv(d)
    <2>1. /\ runs[d] = 0 /\ writer[d] = 0 /\ setting[d] = {} /\ exec[d] = Idle
      BY DEF Init
    <2>2. ~Sent(d) /\ ~Succeeded(d) /\ exec[d].reason = "none"
      BY <2>1 DEF Sent, Succeeded, Idle, Contract!Touched
    <2>3. SuccessInv(d)
      BY <2>1, <2>2 DEF SuccessInv, Idle
    <2> QED
      BY <2>1, <2>3 DEF OrderInv
  <1> QED
    BY <1>1, InitInv DEF DInv

LEMMA DInvStep ==
    ~Timeouts /\ DInv /\ [Next]_vars
        => DInv' /\ \A d \in Devices : writer[d] <= writer'[d]
  <1> SUFFICES ASSUME ~Timeouts, DInv, [Next]_vars
               PROVE  DInv' /\ \A d \in Devices : writer[d] <= writer'[d]
    OBVIOUS
  <1>1. TypeInv /\ \A d \in Devices : ExecutionInv(d) /\ OrderInv(d) /\ SuccessInv(d)
    BY DEF DInv, IInv, DeviceInv
  <1>2. ASSUME NEW x \in Devices
        PROVE  OrderInv(x)' /\ SuccessInv(x)' /\ writer[x] <= writer'[x]
    <2>0. writer[x] <= writer[x]
      BY <1>1, BoundsAssumption DEF TypeInv, TypeOK
    <2>1. CASE UNCHANGED vars \/ WorkerCrash
      <3>1. /\ UNCHANGED <<exec[x], runs[x], ended[x], config[x], writer[x], edited[x]>>
            /\ setting'[x] \subseteq setting[x]
        BY <2>1 DEF vars, WorkerCrash
      <3> QED
        BY <1>1, <2>0, <3>1, DeviceFrame
    <2>2. ASSUME NEW d \in Devices, Progress(d) \/ Late(d) \/ Outside(d)
          PROVE  OrderInv(x)' /\ SuccessInv(x)' /\ writer[x] <= writer'[x]
      <3>1. CASE x = d
        BY <1>1, <2>2, <3>1, OrderStep, SuccessStep
      <3>2. CASE x # d
        <4>1. /\ UNCHANGED <<exec[x], runs[x], ended[x], config[x], writer[x], edited[x]>>
              /\ setting'[x] \subseteq setting[x]
          BY <1>1, <2>2, <3>2, Elsewhere, ElsewhereKept
        <4> QED
          BY <1>1, <2>0, <4>1, DeviceFrame
      <3> QED
        BY <3>1, <3>2
    <2> QED
      BY <2>1, <2>2 DEF Next
  <1>3. IInv'
    BY InvStep DEF DInv
  <1> QED
    BY <1>2, <1>3 DEF DInv

\* While no attempt outlives its timeout, a SUCCEEDED deploy stays true of the
\* device until it is configured by hand or deployed again, for any number of
\* devices, runs and retries: no SET of a cancelled or terminated run is left that
\* could undo it (executor.apply_intent holds the per-host lock).
THEOREM SuccessLasts ==
    ASSUME ~Timeouts
    PROVE  Spec => []SuccessHolds
  <1>1. ASSUME DInv, CInv PROVE SuccessHolds
    <2> SUFFICES ASSUME NEW d \in Devices, runs[d] > 0, ended[d][runs[d]] = "SUCCEEDED",
                        ~edited[d]
                 PROVE  Fits(d)
      BY DEF SuccessHolds, Fits
    <2>1. ~Open(d)
      BY <1>1 DEF CInv, IInv, DeviceInv, ExecutionInv, ContractInv
    <2> QED
      BY <1>1, <2>1 DEF DInv, SuccessInv, Succeeded
  <1>2. DInv /\ [Next]_vars => DInv'
    BY DInvStep
  <1> QED
    BY <1>1, <1>2, CInvHolds, DInvInit, PTL DEF Spec

\* Under the same condition SETs reach a device in the order of the runs that
\* sent them.
THEOREM WritersStayInOrder ==
    ASSUME ~Timeouts
    PROVE  Spec => WritersInOrder
  <1>1. DInv /\ [Next]_vars => DInv'
    BY DInvStep
  <1>2. DInv /\ [Next]_vars => [\A d \in Devices : writer[d] <= writer'[d]]_vars
    BY DInvStep
  <1> QED
    BY <1>1, <1>2, DInvInit, PTL DEF Spec, WritersInOrder
=============================================================================
