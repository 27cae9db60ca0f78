-------------------------- MODULE ScanDriftProofs --------------------------
(***************************************************************************)
(* What is proved of ScanDrift, for any devices, any versions and any list *)
(* the source of truth gives, however intent and devices change under the  *)
(* scan.                                                                   *)
(***************************************************************************)
EXTENDS ScanDrift, FiniteSetTheorems, TLAPS

-----------------------------------------------------------------------------
(***************************************************************************)
(* The inductive invariant                                                 *)
(***************************************************************************)

Places == {"starting", "listing", "evaluating", "finishing", "cancelling"} \cup Closed

ScanType ==
    [pc : Places, cancel : {"none", "requested", "delivered"}, targets : Seq(Devices)]

EvaluationType ==
    [pc : Activities \cup {"recording"} \cup Settled,
     desired : Versions \cup {Unseen}, seen : [Halves -> Versions \cup {Unseen}],
     verdict : Verdicts]

\* An evaluation that has fetched its intent holds one.
Fetched(e) == e.pc \in {"collecting", "reading", "detecting"} => e.desired \in Versions

ReportType == [device : Devices, verdict : Verdicts]

ResultType == [cancelled : BOOLEAN, total : Int, reports : SUBSET ReportType]

TypeInv ==
    /\ intent \in [Devices -> Versions \cup {Absent}]
    /\ config \in [Devices -> [Halves -> Versions]]
    /\ scan \in ScanType /\ Len(scan.targets) <= MaxListed
    /\ branch \in Seq(EvaluationType) /\ DOMAIN branch = DOMAIN scan.targets
    /\ \A i \in DOMAIN branch : Fetched(branch[i])
    /\ result \in ResultType

\* The devices of the list come once, and none has an evaluation before it is read.
Listing ==
    /\ \A i, k \in DOMAIN scan.targets : scan.targets[i] = scan.targets[k] => i = k
    /\ scan.pc \in {"starting", "listing"} => DOMAIN branch = {}

\* What an evaluation e of d knows of a half: what it read stood beside what it desires.
Stood(d, e, half) ==
    e.seen[half] # Unseen => <<d, half, Stands(e.desired, e.seen[half])>> \in been

\* What an evaluation e of d knows, if the intent of d has not been edited: the intent it
\* fetched still stands, each half it read stood beside it at some moment, and its verdict
\* tells of such moments.
Knows(d, e) ==
    /\ e.pc = "fetching" => \A half \in Halves : e.seen[half] = Unseen
    /\ e.pc \in {"collecting", "reading", "detecting"} =>
          e.desired = intent[d] /\ \A half \in Halves : Stood(d, e, half)
    /\ e.verdict = "clean" => \A half \in Halves : <<d, half, "agrees">> \in been
    /\ e.verdict = "drifted" => \E half \in Halves : <<d, half, "differs">> \in been

\* How each half stands has been so.
Current == Standing(intent, config) \subseteq been

Truth ==
    /\ Current
    /\ \A i \in DOMAIN branch : Device(i) \notin edited => Knows(Device(i), branch[i])

\* The verdicts in the log are those of the evaluations, and until the scan has closed they
\* are of evaluations that say no more; a reported one is there.
Accounts ==
    /\ \A record \in log : record.device # "none" =>
          \E i \in DOMAIN branch :
             /\ record = DeviceRecord(i)
             /\ scan.pc \notin Closed => branch[i].pc \in Settled
    /\ \A i \in DOMAIN branch : branch[i].pc = "reported" => DeviceRecord(i) \in log

Started == Record("started", "none", "none")
Finished == Record("terminated", "none", "success")
Cancelled == Record("cancelled", "none", "cancelled")

\* The scan's own records, by where it stands.
OwnRecords == {record \in log : record.device = "none"}

Trail ==
    /\ scan.pc = "starting" => OwnRecords = {}
    /\ scan.pc \in {"listing", "evaluating", "finishing", "cancelling"} => OwnRecords = {Started}
    /\ scan.pc = "RETURNED" =>
          OwnRecords = {Started, IF result.cancelled THEN Cancelled ELSE Finished}
    /\ OwnRecords \subseteq {Started, Finished, Cancelled}

\* A scan that finishes has every report, and gives them all.
Answer ==
    /\ scan.pc = "finishing" \/ (scan.pc = "RETURNED" /\ ~result.cancelled) =>
          \A i \in DOMAIN branch : branch[i].pc = "reported"
    /\ scan.pc = "RETURNED" /\ ~result.cancelled =>
          result.total = Len(scan.targets) /\ result.reports = Reports

IInv == TypeInv /\ Listing /\ Truth /\ Accounts /\ Trail /\ Answer

-----------------------------------------------------------------------------
(***************************************************************************)
(* What the types give                                                     *)
(***************************************************************************)

LEMMA SeqHas ==
    ASSUME NEW S, NEW s \in Seq(S), NEW i \in DOMAIN s
    PROVE  s[i] \in S
  OBVIOUS

LEMMA ScanHas ==
    ASSUME TypeInv
    PROVE  /\ scan.pc \in Places /\ scan.cancel \in {"none", "requested", "delivered"}
           /\ scan.targets \in Seq(Devices)
           /\ \A pc \in Places : [scan EXCEPT !.pc = pc] \in ScanType
  BY DEF TypeInv, ScanType

LEMMA EvaluationHas ==
    ASSUME TypeInv, NEW i \in DOMAIN branch
    PROVE  /\ Device(i) \in Devices /\ Device(i) # "none"
           /\ branch[i] \in EvaluationType /\ branch[i].verdict \in Verdicts
  <1>1. branch[i] \in EvaluationType
    BY SeqHas DEF TypeInv
  <1>2. scan.targets \in Seq(Devices) /\ i \in DOMAIN scan.targets
    BY ScanHas DEF TypeInv
  <1>3. scan.targets[i] \in Devices
    BY <1>2, SeqHas
  <1> QED
    BY <1>1, <1>3, ScanAssumption DEF Device, EvaluationType

\* A verdict's record is not one of the scan's own.
LEMMA RecordHas ==
    ASSUME TypeInv, NEW i \in DOMAIN branch
    PROVE  DeviceRecord(i).device = Device(i) /\ DeviceRecord(i).device # "none"
  BY EvaluationHas DEF DeviceRecord, Record

LEMMA InvImpliesTypeOK == IInv => TypeOK
  <1> SUFFICES ASSUME IInv PROVE TypeOK
    OBVIOUS
  <1>1. TypeInv
    BY DEF IInv
  <1>2. ASSUME NEW record \in log
        PROVE  record \in [event : {"started", "detected", "terminated", "cancelled"},
                           device : Devices \cup {"none"},
                           says : Verdicts \cup {"none", "success", "cancelled"}]
    <2>1. CASE record.device = "none"
      BY <2>1, <1>2 DEF IInv, Trail, OwnRecords, Started, Finished, Cancelled, Record
    <2>2. CASE record.device # "none"
      BY <1>1, <1>2, <2>2, EvaluationHas DEF IInv, Accounts, DeviceRecord, Record
    <2> QED
      BY <2>1, <2>2
  <1>3. \A i \in DOMAIN branch : branch[i] \in EvaluationType
    BY <1>1, EvaluationHas
  <1> QED
    BY <1>1, <1>2, <1>3, ScanHas DEF TypeOK, TypeInv, EvaluationType, Places, ResultType, ReportType

-----------------------------------------------------------------------------
(***************************************************************************)
(* The world changes                                                       *)
(***************************************************************************)

LEMMA WorldChanges ==
    ASSUME IInv, NEW d \in Devices, EditIntent(d) \/ EditConfig(d)
    PROVE  IInv'
  <1>1. TypeInv /\ Truth
    BY DEF IInv
  <1>2. /\ intent' \in [Devices -> Versions \cup {Absent}]
        /\ config' \in [Devices -> [Halves -> Versions]]
    BY <1>1 DEF EditIntent, EditConfig, TypeInv
  <1>3. edited \subseteq edited' /\ \A e \in Devices : e \notin edited' => intent'[e] = intent[e]
    BY <1>1 DEF EditIntent, EditConfig, TypeInv
  <1>4. been' = been \cup Standing(intent', config')
    BY DEF EditIntent, EditConfig, Change
  <1>5. UNCHANGED <<scan, branch, result, log>>
    BY DEF EditIntent, EditConfig, Change
  <1>6. Current'
    BY <1>4 DEF Current
  <1>7. ASSUME NEW i \in DOMAIN branch, Device(i) \notin edited'
        PROVE  Knows(Device(i), branch[i])'
    <2>1. Knows(Device(i), branch[i]) /\ Device(i) \in Devices
      BY <1>1, <1>3, <1>7, EvaluationHas DEF Truth
    <2>2. Device(i)' = Device(i) /\ branch'[i] = branch[i] /\ intent'[Device(i)] = intent[Device(i)]
      BY <1>3, <1>5, <1>7, <2>1 DEF Device
    <2> QED
      BY <1>4, <2>1, <2>2 DEF Knows, Stood
  <1>8. \A i \in DOMAIN branch : Device(i)' = Device(i)
    BY <1>5 DEF Device
  <1>9. Truth'
    BY <1>5, <1>6, <1>7, <1>8 DEF Truth
  <1>10. TypeInv' /\ Listing'
    BY <1>2, <1>5 DEF IInv, TypeInv, Listing
  <1>11. Accounts' /\ Trail' /\ Answer'
    BY <1>5 DEF IInv, Accounts, Trail, Answer, OwnRecords, DeviceRecord, Device, Reports
  <1> QED
    BY <1>9, <1>10, <1>11 DEF IInv

-----------------------------------------------------------------------------
(***************************************************************************)
(* One evaluation                                                          *)
(***************************************************************************)

\* Evaluation i goes on, and knows only what was so.
Thinks(i) ==
    /\ scan.pc = "evaluating" /\ i \in DOMAIN branch /\ branch[i].pc \notin Settled
    /\ \E e \in EvaluationType :
          /\ branch' = [branch EXCEPT ![i] = e] /\ e.pc \notin Settled /\ Fetched(e)
          /\ Device(i) \notin edited => Knows(Device(i), e)
    /\ UNCHANGED <<world, scan, result, log>>

LEMMA FetchThinks ==
    ASSUME IInv, NEW i \in DOMAIN branch, Fetch(i)
    PROVE  Thinks(i)
  <1> DEFINE e == [branch[i] EXCEPT !.pc = "collecting", !.desired = intent[Device(i)]]
  <1>1. TypeInv /\ branch[i] \in EvaluationType /\ Device(i) \in Devices
    BY EvaluationHas DEF IInv
  <1>2. intent[Device(i)] \in Versions
    BY <1>1 DEF Fetch, TypeInv
  <1>3. /\ e \in EvaluationType /\ e.pc = "collecting" /\ e.desired = intent[Device(i)]
        /\ e.seen = branch[i].seen /\ e.verdict = branch[i].verdict
    BY <1>1, <1>2 DEF EvaluationType, Activities
  <1>4. branch' = [branch EXCEPT ![i] = e] /\ UNCHANGED <<world, scan, result, log>>
        /\ scan.pc = "evaluating" /\ branch[i].pc = "fetching"
    BY DEF Fetch, Evaluate, At
  <1> HIDE DEF e
  <1>5. Device(i) \notin edited => Knows(Device(i), branch[i])
    BY DEF IInv, Truth
  <1> QED
    BY <1>2, <1>3, <1>4, <1>5 DEF Thinks, Knows, Stood, Fetched, Settled

LEMMA GetThinks ==
    ASSUME IInv, NEW i \in DOMAIN branch, scan.pc = "evaluating",
           branch[i].pc \in {"collecting", "reading"},
           NEW half \in Halves, NEW next \in {"reading", "detecting"}, Get(i, half, next)
    PROVE  Thinks(i)
  <1>1. TypeInv /\ branch[i] \in EvaluationType /\ Device(i) \in Devices
    BY EvaluationHas DEF IInv
  <1>2. PICK seen \in {config[Device(i)][half], Unseen} :
           Evaluate(i, [branch[i] EXCEPT !.pc = IF seen = Unseen THEN "detecting" ELSE next,
                                         !.seen[half] = seen])
    BY DEF Get
  <1> DEFINE e == [branch[i] EXCEPT !.pc = IF seen = Unseen THEN "detecting" ELSE next,
                                    !.seen[half] = seen]
  <1>3. seen \in Versions \cup {Unseen}
    BY <1>1 DEF TypeInv
  <1>4. /\ e \in EvaluationType /\ e.pc \in {"reading", "detecting"}
        /\ e.seen = [branch[i].seen EXCEPT ![half] = seen]
        /\ e.desired = branch[i].desired /\ e.verdict = branch[i].verdict
    BY <1>1, <1>3 DEF EvaluationType, Activities
  <1>5. branch' = [branch EXCEPT ![i] = e] /\ UNCHANGED <<world, scan, result, log>>
    BY <1>2 DEF Evaluate
  <1> HIDE DEF e
  <1>6. Device(i) \notin edited => Knows(Device(i), branch[i])
    BY DEF IInv, Truth
  <1>7. <<Device(i), half, Stands(intent[Device(i)], config[Device(i)][half])>> \in been
    BY <1>1 DEF IInv, Truth, Current, Standing
  <1>8. branch[i].seen \in [Halves -> Versions \cup {Unseen}]
    BY <1>1 DEF EvaluationType
  <1>9. ASSUME Device(i) \notin edited PROVE Knows(Device(i), e)
    <2>1. /\ branch[i].desired = intent[Device(i)]
          /\ \A h \in Halves : Stood(Device(i), branch[i], h)
      BY <1>6, <1>9 DEF Knows
    <2>2. ASSUME NEW h \in Halves, h # half PROVE Stood(Device(i), e, h)
      <3>1. e.seen[h] = branch[i].seen[h]
        BY <1>4, <1>8, <2>2
      <3> QED
        BY <1>4, <2>1, <3>1 DEF Stood
    <2>3. Stood(Device(i), e, half)
      <3>1. e.seen[half] = seen
        BY <1>4, <1>8
      <3> QED
        BY <1>2, <1>4, <1>7, <2>1, <3>1 DEF Stood
    <2>4. \A h \in Halves : Stood(Device(i), e, h)
      BY <2>2, <2>3
    <2> QED
      BY <1>4, <1>6, <1>9, <2>1, <2>4 DEF Knows
  <1>10. Fetched(e)
    BY <1>1, <1>4 DEF TypeInv, Fetched
  <1> QED
    BY <1>4, <1>5, <1>9, <1>10 DEF Thinks, Settled

LEMMA CollectThinks ==
    ASSUME IInv, NEW i \in DOMAIN branch, Collect(i)
    PROVE  Thinks(i)
  <1>1. CASE At(i, "collecting") /\ Get(i, "interfaces", "reading")
    BY <1>1, GetThinks DEF At, Halves
  <1>2. CASE At(i, "reading") /\ Get(i, "neighbors", "detecting")
    BY <1>2, GetThinks DEF At, Halves
  <1> QED
    BY <1>1, <1>2 DEF Collect

\* A verdict that is none or one that what was compared bears out.
LEMMA ReportThinks ==
    ASSUME IInv, NEW i \in DOMAIN branch, NEW verdict \in Verdicts, Report(i, verdict),
           scan.pc = "evaluating", branch[i].pc \notin Settled,
           \/ verdict = "error"
           \/ /\ branch[i].pc = "detecting"
              /\ \A half \in Halves : branch[i].seen[half] # Unseen
              /\ verdict = (IF Differing(i) = {} THEN "clean" ELSE "drifted")
    PROVE  Thinks(i)
  <1> DEFINE e == [branch[i] EXCEPT !.pc = "recording", !.verdict = verdict]
  <1>1. branch[i] \in EvaluationType
    BY EvaluationHas DEF IInv
  <1>2. e \in EvaluationType /\ e.pc = "recording" /\ e.verdict = verdict
    BY <1>1 DEF EvaluationType, Activities
  <1>3. branch' = [branch EXCEPT ![i] = e] /\ UNCHANGED <<world, scan, result, log>>
    BY DEF Report, Evaluate
  <1> HIDE DEF e
  <1>4. ASSUME Device(i) \notin edited PROVE Knows(Device(i), e)
    <2>1. Knows(Device(i), branch[i])
      BY <1>4 DEF IInv, Truth
    <2>2. ASSUME verdict = "clean" PROVE \A half \in Halves : <<Device(i), half, "agrees">> \in been
      BY <2>1, <2>2 DEF Knows, Stood, Stands, Differing
    <2>3. ASSUME verdict = "drifted" PROVE \E half \in Halves : <<Device(i), half, "differs">> \in been
      BY <2>1, <2>3 DEF Knows, Stood, Stands, Differing
    <2> QED
      BY <1>2, <2>2, <2>3 DEF Knows
  <1> QED
    BY <1>2, <1>3, <1>4 DEF Thinks, Fetched, Settled

LEMMA EvaluationThinks ==
    ASSUME IInv, NEW i \in DOMAIN branch,
           Fetch(i) \/ Collect(i) \/ Detect(i) \/ ActivityFails(i)
    PROVE  Thinks(i)
  <1>1. CASE Fetch(i)
    BY <1>1, FetchThinks
  <1>2. CASE Collect(i)
    BY <1>2, CollectThinks
  <1>3. CASE ActivityFails(i)
    BY <1>3, ReportThinks DEF ActivityFails, Activities, At, Verdicts, Settled
  <1>4. CASE Detect(i)
    <2>1. scan.pc = "evaluating" /\ branch[i].pc = "detecting"
      BY <1>4 DEF Detect, At
    <2>2. CASE \E half \in Halves : branch[i].seen[half] = Unseen
      BY <1>4, <2>1, <2>2, ReportThinks DEF Detect, Verdicts, Settled
    <2>3. CASE ~(\E half \in Halves : branch[i].seen[half] = Unseen) /\ Differing(i) = {}
      BY <1>4, <2>1, <2>3, ReportThinks DEF Detect, Verdicts, Settled
    <2>4. CASE ~(\E half \in Halves : branch[i].seen[half] = Unseen) /\ Differing(i) # {}
      BY <1>4, <2>1, <2>4, ReportThinks DEF Detect, Verdicts, Settled
    <2> QED
      BY <2>2, <2>3, <2>4
  <1> QED
    BY <1>1, <1>2, <1>3, <1>4

LEMMA ThoughtKept ==
    ASSUME IInv, NEW i \in DOMAIN branch, Thinks(i)
    PROVE  IInv'
  <1>1. PICK e \in EvaluationType :
           /\ branch' = [branch EXCEPT ![i] = e] /\ e.pc \notin Settled /\ Fetched(e)
           /\ Device(i) \notin edited => Knows(Device(i), e)
    BY DEF Thinks
  <1>2. /\ UNCHANGED <<intent, config, edited, been, scan, result, log>>
        /\ scan.pc = "evaluating" /\ branch[i].pc \notin Settled
    BY DEF Thinks, world
  <1>3. TypeInv
    BY DEF IInv
  <1>4. /\ branch' \in Seq(EvaluationType) /\ DOMAIN branch' = DOMAIN branch
        /\ branch'[i] = e /\ \A k \in DOMAIN branch : k # i => branch'[k] = branch[k]
    BY <1>1, <1>3 DEF TypeInv
  <1>5. \A k \in DOMAIN branch : Device(k)' = Device(k)
    BY <1>2 DEF Device
  <1>6. \A k \in DOMAIN branch : k # i => DeviceRecord(k)' = DeviceRecord(k)
    BY <1>4, <1>5 DEF DeviceRecord
  <1>7. TypeInv' /\ Listing'
    BY <1>1, <1>2, <1>3, <1>4 DEF TypeInv, Listing, IInv
  <1>8. Truth'
    <2>1. ASSUME NEW k \in DOMAIN branch, Device(k) \notin edited
          PROVE  Knows(Device(k), branch'[k])
      BY <1>1, <1>4, <2>1 DEF IInv, Truth
    <2>2. \A k \in DOMAIN branch : Device(k) \notin edited => Knows(Device(k), branch[k])'
      BY <1>2, <1>5, <2>1 DEF Knows, Stood
    <2>3. Current'
      BY <1>2 DEF IInv, Truth, Current
    <2> QED
      BY <1>2, <1>4, <1>5, <2>2, <2>3 DEF Truth
  <1>9. Accounts'
    <2>1. ASSUME NEW record \in log, record.device # "none"
          PROVE  \E k \in DOMAIN branch :
                    k # i /\ record = DeviceRecord(k) /\ branch[k].pc \in Settled
      BY <1>2, <2>1 DEF IInv, Accounts, Closed
    <2>2. \A k \in DOMAIN branch : branch'[k].pc = "reported" => DeviceRecord(k)' \in log
      BY <1>1, <1>4, <1>6 DEF IInv, Accounts, Settled
    <2> QED
      BY <1>2, <1>4, <1>6, <2>1, <2>2 DEF Accounts
  <1>10. Trail' /\ Answer'
    BY <1>2 DEF IInv, Trail, Answer, OwnRecords
  <1> QED
    BY <1>7, <1>8, <1>9, <1>10 DEF IInv


LEMMA ReportRecorded ==
    ASSUME IInv, NEW i \in DOMAIN branch, RecordReport(i)
    PROVE  IInv'
  <1> DEFINE e == [branch[i] EXCEPT !.pc = "reported"]
  <1>1. /\ branch' = [branch EXCEPT ![i].pc = "reported"] /\ log' = log \cup {DeviceRecord(i)}
        /\ UNCHANGED <<intent, config, edited, been, scan, result>>
        /\ scan.pc = "evaluating" /\ branch[i].pc = "recording"
    BY DEF RecordReport, At, world
  <1>2. TypeInv /\ branch[i] \in EvaluationType
    BY EvaluationHas DEF IInv
  <1>3. /\ e \in EvaluationType /\ e.pc = "reported" /\ e.verdict = branch[i].verdict
    BY <1>2 DEF EvaluationType, Settled
  <1>4. branch' = [branch EXCEPT ![i] = e]
    BY <1>1
  <1> HIDE DEF e
  <1>5. /\ branch' \in Seq(EvaluationType) /\ DOMAIN branch' = DOMAIN branch
        /\ branch'[i] = e /\ \A k \in DOMAIN branch : k # i => branch'[k] = branch[k]
    BY <1>2, <1>3, <1>4 DEF TypeInv
  <1>6. \A k \in DOMAIN branch : Device(k)' = Device(k) /\ DeviceRecord(k)' = DeviceRecord(k)
    BY <1>1, <1>3, <1>5 DEF Device, DeviceRecord
  <1>7. TypeInv' /\ Listing'
    BY <1>1, <1>2, <1>3, <1>5 DEF TypeInv, Fetched, Listing, IInv
  <1>8. Truth'
    <2>1. ASSUME NEW k \in DOMAIN branch, Device(k) \notin edited
          PROVE  Knows(Device(k), branch'[k])
      BY <1>3, <1>5, <2>1 DEF IInv, Truth, Knows
    <2>2. \A k \in DOMAIN branch : Device(k) \notin edited => Knows(Device(k), branch[k])'
      BY <1>1, <1>6, <2>1 DEF Knows, Stood
    <2>3. Current'
      BY <1>1 DEF IInv, Truth, Current
    <2> QED
      BY <1>1, <1>5, <1>6, <2>2, <2>3 DEF Truth
  <1>9. Accounts'
    <2>1. ASSUME NEW record \in log', record.device # "none"
          PROVE  \E k \in DOMAIN branch :
                    record = DeviceRecord(k) /\ branch'[k].pc \in Settled
      BY <1>1, <1>3, <1>5, <2>1 DEF IInv, Accounts, Closed, Settled
    <2>2. \A k \in DOMAIN branch : branch'[k].pc = "reported" => DeviceRecord(k) \in log'
      BY <1>1, <1>5 DEF IInv, Accounts
    <2> QED
      BY <1>5, <1>6, <2>1, <2>2 DEF Accounts
  <1>10. OwnRecords' = OwnRecords
    BY <1>1, <1>2, RecordHas DEF OwnRecords
  <1>11. Trail' /\ Answer'
    BY <1>1, <1>10 DEF IInv, Trail, Answer
  <1> QED
    BY <1>7, <1>8, <1>9, <1>11 DEF IInv

-----------------------------------------------------------------------------
(***************************************************************************)
(* The scan's own steps                                                    *)
(***************************************************************************)

\* A move of the scan alone leaves what its evaluations know and have said.
LEMMA MoveKeeps ==
    ASSUME IInv, scan' \in ScanType, scan'.targets = scan.targets,
           scan'.pc \in {"starting", "listing"} => scan.pc \in {"starting", "listing"},
           scan.pc \in Closed => scan'.pc \in Closed,
           UNCHANGED <<world, branch>>, result' \in ResultType, log \subseteq log',
           \A record \in log' \ log : \/ record.device = "none"
                                      \/ scan'.pc \in Closed /\ record \in InFlight
    PROVE  TypeInv' /\ Listing' /\ Truth' /\ Accounts' /\ Reports' = Reports
  <1>1. UNCHANGED <<intent, config, edited, been, branch>>
    BY DEF world
  <1>2. \A i \in DOMAIN branch : Device(i)' = Device(i) /\ DeviceRecord(i)' = DeviceRecord(i)
    BY <1>1 DEF Device, DeviceRecord
  <1>3. TypeInv' /\ Listing'
    BY <1>1 DEF IInv, TypeInv, Listing
  <1>4. Truth'
    <2>1. \A i \in DOMAIN branch : Device(i) \notin edited => Knows(Device(i), branch[i])'
      BY <1>1, <1>2 DEF IInv, Truth, Knows, Stood
    <2>2. Current'
      BY <1>1 DEF IInv, Truth, Current
    <2> QED
      BY <1>1, <1>2, <2>1, <2>2 DEF Truth
  <1>5. Accounts'
    <2>1. ASSUME NEW record \in log', record.device # "none"
          PROVE  \E i \in DOMAIN branch :
                    /\ record = DeviceRecord(i)
                    /\ scan'.pc \notin Closed => branch[i].pc \in Settled
      <3>1. CASE record \in log
        BY <2>1, <3>1 DEF IInv, Accounts
      <3>2. CASE scan'.pc \in Closed /\ record \in InFlight
        BY <3>2 DEF InFlight
      <3> QED
        BY <2>1, <3>1, <3>2
    <2> QED
      BY <1>1, <1>2, <2>1 DEF IInv, Accounts
  <1>6. Reports' = Reports
    BY <1>1 DEF Reports
  <1> QED
    BY <1>2, <1>3, <1>4, <1>5, <1>6

\* The scan is closed without a result; what it was writing may be in the log.
LEMMA StopKept ==
    ASSUME IInv, NEW pc \in Closed \ {"RETURNED"}, Goto(pc), UNCHANGED <<world, branch, result>>,
           NEW landed \in SUBSET (InFlight \cup Writing), log' = log \cup landed
    PROVE  IInv'
  <1> DEFINE s == [scan EXCEPT !.pc = pc]
  <1>1. TypeInv /\ pc \in Places
    BY DEF IInv, Places
  <1>2. s \in ScanType /\ s.pc = pc /\ s.targets = scan.targets
    BY <1>1, ScanHas DEF ScanType
  <1>3. scan' \in ScanType /\ scan'.pc = pc /\ scan'.targets = scan.targets
    BY <1>2 DEF Goto
  <1>4. Writing \subseteq {Started, Finished, Cancelled}
    BY DEF Writing, Started, Finished, Cancelled
  <1>5. \A record \in Writing : record.device = "none"
    BY <1>4 DEF Started, Finished, Cancelled, Record
  <1>6. result' \in ResultType /\ log \subseteq log'
    BY DEF IInv, TypeInv
  <1>7. TypeInv' /\ Listing' /\ Truth' /\ Accounts'
    <2>1. \A record \in log' \ log : \/ record.device = "none"
                                     \/ scan'.pc \in Closed /\ record \in InFlight
      BY <1>3, <1>5
    <2>2. scan'.pc \notin {"starting", "listing"} /\ scan'.pc \in Closed
      BY <1>3 DEF Closed
    <2> QED
      BY <1>3, <1>6, <2>1, <2>2, MoveKeeps
  <1>8. OwnRecords' \subseteq OwnRecords \cup Writing
    <2>1. \A record \in InFlight : record.device # "none"
      BY <1>1, RecordHas DEF InFlight
    <2> QED
      BY <2>1 DEF OwnRecords
  <1>9. Trail' /\ Answer'
    BY <1>3, <1>4, <1>8 DEF IInv, Trail, Answer, Closed
  <1> QED
    BY <1>7, <1>9 DEF IInv

LEMMA StopsKept ==
    ASSUME IInv,
           ListFails \/ RecordBreaks \/ Terminate \/ \E i \in DOMAIN branch : RecordReportFails(i)
    PROVE  IInv'
  <1>1. CASE ListFails
    <2>1. log' = log \cup {} /\ {} \in SUBSET (InFlight \cup Writing)
      BY <1>1 DEF ListFails
    <2> QED
      BY <1>1, <2>1, StopKept DEF ListFails, Closed
  <1>2. CASE RecordBreaks
    <2>1. PICK landed \in {{}, Writing} : log' = log \cup landed
      BY <1>2 DEF RecordBreaks
    <2>2. PICK pc \in {"FAILED", "CANCELLED"} : Goto(pc)
      BY <1>2 DEF RecordBreaks
    <2>3. landed \in SUBSET (InFlight \cup Writing) /\ pc \in Closed \ {"RETURNED"}
      BY <2>1, <2>2 DEF Closed
    <2> QED
      BY <1>2, <2>1, <2>2, <2>3, StopKept DEF RecordBreaks
  <1>3. CASE Terminate
    <2>1. PICK landed \in SUBSET (InFlight \cup Writing) : log' = log \cup landed
      BY <1>3 DEF Terminate
    <2> QED
      BY <1>3, <2>1, StopKept DEF Terminate, Closed
  <1>4. ASSUME NEW i \in DOMAIN branch, RecordReportFails(i) PROVE IInv'
    <2>1. PICK landed \in SUBSET InFlight : log' = log \cup landed
      BY <1>4 DEF RecordReportFails
    <2>2. landed \in SUBSET (InFlight \cup Writing)
      BY <2>1
    <2> QED
      BY <1>4, <2>1, <2>2, StopKept DEF RecordReportFails, Closed
  <1> QED
    BY <1>1, <1>2, <1>3, <1>4


LEMMA DeliveryKept ==
    ASSUME IInv, DeliverCancel
    PROVE  IInv'
  <1>1. TypeInv
    BY DEF IInv
  <1>2. PICK landed \in SUBSET InFlight : log' = log \cup landed
    BY DEF DeliverCancel
  <1>3. /\ scan.pc \in {"listing", "evaluating"} /\ UNCHANGED <<intent, config, edited, been, result>>
        /\ scan' = [scan EXCEPT !.pc = "cancelling", !.cancel = "delivered"]
    BY DEF DeliverCancel, world
  <1>4. scan' \in ScanType /\ scan'.pc = "cancelling" /\ scan'.targets = scan.targets
    BY <1>1, <1>3, ScanHas DEF ScanType, Places
  <1> DEFINE cut(i) == [branch[i] EXCEPT !.pc = IF @ = "reported" THEN @ ELSE "cancelled"]
  <1>5. ASSUME NEW i \in DOMAIN branch
        PROVE  /\ cut(i) \in EvaluationType /\ cut(i).verdict = branch[i].verdict
               /\ cut(i).pc \in Settled /\ (cut(i).pc = "reported" => branch[i].pc = "reported")
    <2>1. branch[i] \in EvaluationType
      BY <1>1, EvaluationHas
    <2> QED
      BY <2>1 DEF EvaluationType, Settled
  <1>6. branch' = [i \in DOMAIN branch |-> cut(i)]
    BY DEF DeliverCancel
  <1> HIDE DEF cut
  <1>7. /\ branch' \in Seq(EvaluationType) /\ DOMAIN branch' = DOMAIN branch
        /\ \A i \in DOMAIN branch : branch'[i] = cut(i)
    BY <1>1, <1>5, <1>6 DEF TypeInv
  <1>8. \A i \in DOMAIN branch : Device(i)' = Device(i) /\ DeviceRecord(i)' = DeviceRecord(i)
    BY <1>4, <1>5, <1>7 DEF Device, DeviceRecord
  <1>9. TypeInv' /\ Listing'
    BY <1>1, <1>3, <1>4, <1>5, <1>7 DEF TypeInv, Fetched, Listing, Settled, IInv
  <1>10. Truth'
    <2>1. ASSUME NEW i \in DOMAIN branch, Device(i) \notin edited
          PROVE  Knows(Device(i), cut(i))
      BY <1>5, <2>1 DEF IInv, Truth, Knows, Stood, Settled
    <2>2. \A i \in DOMAIN branch : Device(i) \notin edited => Knows(Device(i), branch[i])'
      BY <1>3, <1>7, <1>8, <2>1 DEF Knows, Stood
    <2>3. Current'
      BY <1>3 DEF IInv, Truth, Current
    <2> QED
      BY <1>3, <1>7, <1>8, <2>2, <2>3 DEF Truth
  <1>11. Accounts'
    <2>1. ASSUME NEW record \in log', record.device # "none"
          PROVE  \E i \in DOMAIN branch : record = DeviceRecord(i)
      BY <1>2, <2>1 DEF IInv, Accounts, InFlight
    <2>2. \A i \in DOMAIN branch : cut(i).pc = "reported" => DeviceRecord(i) \in log'
      BY <1>2, <1>5 DEF IInv, Accounts
    <2> QED
      BY <1>5, <1>7, <1>8, <2>1, <2>2 DEF Accounts
  <1>12. OwnRecords' = OwnRecords
    <2>1. \A record \in landed : record.device # "none"
      BY <1>1, RecordHas DEF InFlight
    <2> QED
      BY <1>2, <2>1 DEF OwnRecords
  <1>13. Trail' /\ Answer'
    BY <1>3, <1>4, <1>12 DEF IInv, Trail, Answer
  <1> QED
    BY <1>9, <1>10, <1>11, <1>13 DEF IInv

\* Each device once: a list without its repetitions has none.
LEMMA ListedOnce ==
    ASSUME NEW targets \in Listed
    PROVE  /\ targets \in Seq(Devices) /\ Len(targets) <= MaxListed
           /\ \A i, k \in DOMAIN targets : targets[i] = targets[k] => i = k
  <1>1. PICK listing \in SeqOf(Devices, MaxListed) : targets \in Deduped(listing)
    BY DEF Listed, Listings
  <1>2. PICK n \in 0..MaxListed : listing \in [1..n -> Devices]
    BY DEF SeqOf
  <1>3. n \in Nat
    BY ScanAssumption
  <1>4. listing \in Seq(Devices) /\ Len(listing) = n /\ ToSet(listing) \subseteq Devices
    BY <1>2, <1>3 DEF ToSet
  <1>5. PICK m \in 0..n : targets \in [1..m -> ToSet(listing)]
    BY <1>1, <1>4 DEF Deduped, SeqOf
  <1>6. m \in Nat /\ m <= MaxListed
    BY <1>3, <1>5, ScanAssumption
  <1>7. targets \in [1..m -> Devices]
    BY <1>4, <1>5
  <1>8. targets \in Seq(Devices) /\ Len(targets) = m /\ DOMAIN targets = 1..m
    BY <1>6, <1>7
  <1>9. ASSUME NEW i \in DOMAIN targets, NEW k \in DOMAIN targets, i < k
        PROVE  targets[i] # targets[k]
    <2>1. i \in 1..(k - 1)
      BY <1>6, <1>8, <1>9
    <2>2. PICK first \in DOMAIN listing :
             listing[first] = targets[i] /\ \A p \in 1..first : listing[p] # targets[k]
      BY <1>1, <2>1 DEF Deduped
    <2>3. first \in 1..first
      BY <1>2, <1>3
    <2> QED
      BY <2>2, <2>3
  <1>10. \A i, k \in DOMAIN targets : i < k \/ k < i \/ i = k
    BY <1>6, <1>8
  <1> QED
    BY <1>6, <1>8, <1>9, <1>10

LEMMA ListKept ==
    ASSUME IInv, ListDevices
    PROVE  IInv'
  <1>1. TypeInv
    BY DEF IInv
  <1>2. PICK targets \in Listed :
           /\ scan' = [scan EXCEPT !.pc = "evaluating", !.targets = targets]
           /\ branch' = [i \in DOMAIN targets |-> Evaluation]
    BY DEF ListDevices
  <1>3. /\ targets \in Seq(Devices) /\ Len(targets) <= MaxListed
        /\ \A i, k \in DOMAIN targets : targets[i] = targets[k] => i = k
    BY ListedOnce
  <1>4. scan.pc = "listing" /\ UNCHANGED <<intent, config, edited, been, result, log>>
    BY DEF ListDevices, world
  <1>5. scan' \in ScanType /\ scan'.pc = "evaluating" /\ scan'.targets = targets
    BY <1>1, <1>2, <1>3, ScanHas DEF ScanType, Places
  <1>6. Evaluation \in EvaluationType
    BY DEF Evaluation, EvaluationType, Activities, NothingSeen, Verdicts
  <1>7. /\ branch' \in Seq(EvaluationType) /\ DOMAIN branch' = DOMAIN targets
        /\ \A i \in DOMAIN branch' : branch'[i] = Evaluation
    BY <1>2, <1>3, <1>6
  <1>8. TypeInv' /\ Listing'
    BY <1>1, <1>3, <1>4, <1>5, <1>7 DEF TypeInv, Listing, Fetched, Evaluation
  <1>9. Truth'
    <2>1. ASSUME NEW i \in DOMAIN branch' PROVE Knows(Device(i), branch[i])'
      <3>1. /\ branch'[i].pc = "fetching" /\ branch'[i].verdict = "error"
            /\ \A half \in Halves : branch'[i].seen[half] = Unseen
        BY <1>7 DEF Evaluation, NothingSeen
      <3> QED
        BY <3>1 DEF Knows
    <2>2. Current'
      BY <1>4 DEF IInv, Truth, Current
    <2> QED
      BY <2>1, <2>2 DEF Truth
  <1>10. Accounts'
    <2>1. \A record \in log' : record.device = "none"
      BY <1>4 DEF IInv, Accounts, Listing
    <2>2. \A i \in DOMAIN branch' : branch'[i].pc # "reported"
      BY <1>7 DEF Evaluation
    <2> QED
      BY <2>1, <2>2 DEF Accounts
  <1>11. Trail' /\ Answer'
    BY <1>4, <1>5 DEF IInv, Trail, Answer, OwnRecords
  <1> QED
    BY <1>8, <1>9, <1>10, <1>11 DEF IInv

LEMMA MovesKept ==
    ASSUME IInv, RecordStarted \/ Gather \/ RequestCancel
    PROVE  IInv'
  <1>1. TypeInv
    BY DEF IInv
  <1>2. UNCHANGED <<world, branch, result>>
    BY DEF RecordStarted, Gather, RequestCancel
  <1>3. /\ scan' \in ScanType /\ scan'.targets = scan.targets
        /\ \/ scan.pc = "starting" /\ scan'.pc = "listing"
           \/ /\ scan.pc = "evaluating" /\ scan'.pc = "finishing"
              /\ \A i \in DOMAIN branch : branch[i].pc = "reported"
           \/ scan'.pc = scan.pc
    <2>1. CASE RecordStarted \/ Gather
      BY <1>1, <2>1, ScanHas DEF RecordStarted, Gather, Goto, Places, ScanType
    <2>2. CASE RequestCancel
      BY <1>1, <2>2 DEF RequestCancel, TypeInv, ScanType
    <2> QED
      BY <2>1, <2>2
  <1>4. \/ log' = log /\ scan.pc # "starting"
        \/ log' = log /\ scan'.pc = scan.pc
        \/ log' = log \cup {Started} /\ scan.pc = "starting" /\ scan'.pc = "listing"
    BY <1>1, ScanHas DEF RecordStarted, Gather, RequestCancel, Goto, Started, TypeInv, ScanType
  <1>5. Started.device = "none"
    BY DEF Started, Record
  <1>6. TypeInv' /\ Listing' /\ Truth' /\ Accounts' /\ Reports' = Reports
    BY <1>1, <1>2, <1>3, <1>4, <1>5, MoveKeeps DEF TypeInv, Closed
  <1>7. \/ OwnRecords' = OwnRecords /\ (scan.pc # "starting" \/ scan'.pc = scan.pc)
        \/ OwnRecords' = OwnRecords \cup {Started} /\ scan.pc = "starting" /\ scan'.pc = "listing"
    BY <1>4, <1>5 DEF OwnRecords
  <1>8. Trail' /\ Answer'
    BY <1>2, <1>3, <1>6, <1>7 DEF IInv, Trail, Answer
  <1> QED
    BY <1>6, <1>8 DEF IInv

LEMMA AnswerKept ==
    ASSUME IInv, RecordFinished \/ RecordCancelled
    PROVE  IInv'
  <1>1. TypeInv
    BY DEF IInv
  <1>2. UNCHANGED <<world, branch>> /\ Goto("RETURNED")
    BY DEF RecordFinished, RecordCancelled
  <1>3. scan' \in ScanType /\ scan'.pc = "RETURNED" /\ scan'.targets = scan.targets
    BY <1>1, <1>2, ScanHas DEF Goto, Places, Closed, ScanType
  <1>4. Reports \subseteq ReportType
    BY <1>1, EvaluationHas DEF Reports, ReportType, Device
  <1>5. Len(scan.targets) \in Int
    BY <1>1, ScanHas
  <1>6. /\ result' \in ResultType /\ scan.pc \in {"finishing", "cancelling"}
        /\ log' = log \cup {IF result'.cancelled THEN Cancelled ELSE Finished}
        /\ ~result'.cancelled => /\ scan.pc = "finishing" /\ result'.reports = Reports
                                 /\ result'.total = Len(scan.targets)
    <2>1. CASE RecordFinished
      <3> DEFINE answer == [cancelled |-> FALSE, total |-> Len(scan.targets), reports |-> Reports]
      <3>1. answer \in ResultType /\ result' = answer
        BY <1>4, <1>5, <2>1 DEF RecordFinished, ResultType
      <3> QED
        BY <2>1, <3>1 DEF RecordFinished, Finished
    <2>2. CASE RecordCancelled
      <3> DEFINE answer == [cancelled |-> TRUE, total |-> 0, reports |-> {}]
      <3>1. answer \in ResultType /\ result' = answer
        BY <2>2 DEF RecordCancelled, ResultType
      <3> QED
        BY <2>2, <3>1 DEF RecordCancelled, Cancelled
    <2> QED
      BY <2>1, <2>2
  <1>7. Cancelled.device = "none" /\ Finished.device = "none"
    BY DEF Cancelled, Finished, Record
  <1>8. TypeInv' /\ Listing' /\ Truth' /\ Accounts' /\ Reports' = Reports
    BY <1>2, <1>3, <1>6, <1>7, MoveKeeps DEF Closed
  <1>9. OwnRecords' = OwnRecords \cup {IF result'.cancelled THEN Cancelled ELSE Finished}
    BY <1>6, <1>7 DEF OwnRecords
  <1>10. Trail' /\ Answer'
    BY <1>2, <1>3, <1>6, <1>8, <1>9 DEF IInv, Trail, Answer
  <1> QED
    BY <1>8, <1>10 DEF IInv


-----------------------------------------------------------------------------
(***************************************************************************)
(* The invariant, and what follows from it                                 *)
(***************************************************************************)

LEMMA InvStarts == Init => IInv
  <1> SUFFICES ASSUME Init PROVE IInv
    OBVIOUS
  <1>1. scan.pc = "starting" /\ scan.targets = <<>> /\ branch = <<>> /\ log = {}
    BY DEF Init
  <1>2. TypeInv
    <2>1. scan \in ScanType /\ Len(scan.targets) <= MaxListed
      BY ScanAssumption DEF Init, ScanType, Places
    <2>2. branch \in Seq(EvaluationType) /\ DOMAIN branch = {} /\ DOMAIN scan.targets = {}
      BY <1>1
    <2>3. result \in ResultType
      BY DEF Init, NoResult, ResultType
    <2> QED
      BY <2>1, <2>2, <2>3 DEF Init, TypeInv
  <1>3. DOMAIN branch = {} /\ DOMAIN scan.targets = {}
    BY <1>1
  <1>4. Truth
    <2>1. Current
      BY DEF Init, Current
    <2> QED
      BY <1>3, <2>1 DEF Truth
  <1> QED
    BY <1>1, <1>2, <1>3, <1>4 DEF IInv, Listing, Accounts, Trail, Answer, OwnRecords

LEMMA InvNext == IInv /\ [Next]_vars => IInv'
  <1> SUFFICES ASSUME IInv, [Next]_vars PROVE IInv'
    OBVIOUS
  <1>1. CASE UNCHANGED vars
    <2>1. UNCHANGED <<world, scan, branch, result, log>>
      BY <1>1 DEF vars, world
    <2>2. TypeInv' /\ Listing' /\ Truth' /\ Accounts' /\ Reports' = Reports
      BY <2>1, MoveKeeps DEF IInv, TypeInv
    <2>3. Trail' /\ Answer'
      BY <2>1, <2>2 DEF IInv, Trail, Answer, OwnRecords
    <2> QED
      BY <2>2, <2>3 DEF IInv
  <1>2. CASE RequestCancel
    BY <1>2, MovesKept
  <1>3. CASE Terminate
    BY <1>3, StopsKept
  <1>4. CASE \E d \in Devices : EditIntent(d) \/ EditConfig(d)
    BY <1>4, WorldChanges
  <1>5. CASE Works
    <2>1. CASE RecordStarted \/ Gather
      BY <2>1, MovesKept
    <2>2. CASE ListDevices
      BY <2>2, ListKept
    <2>3. CASE ListFails \/ RecordBreaks \/ \E i \in DOMAIN branch : RecordReportFails(i)
      BY <2>3, StopsKept
    <2>4. CASE RecordFinished \/ RecordCancelled
      BY <2>4, AnswerKept
    <2>5. CASE DeliverCancel
      BY <2>5, DeliveryKept
    <2>6. ASSUME NEW i \in DOMAIN branch, Fetch(i) \/ Collect(i) \/ Detect(i) \/ ActivityFails(i)
          PROVE  IInv'
      BY <2>6, EvaluationThinks, ThoughtKept
    <2>7. ASSUME NEW i \in DOMAIN branch, RecordReport(i) PROVE IInv'
      BY <2>7, ReportRecorded
    <2> QED
      BY <1>5, <2>1, <2>2, <2>3, <2>4, <2>5, <2>6, <2>7 DEF Works
  <1> QED
    BY <1>1, <1>2, <1>3, <1>4, <1>5 DEF Next

\* The inductive invariant, of every scan of any list.
THEOREM ScanInvariance == Spec => []IInv
  BY InvStarts, InvNext, PTL DEF Spec

\* Type correctness.
THEOREM ScanTypeCorrect == Spec => []TypeOK
  BY ScanInvariance, InvImpliesTypeOK, PTL

\* VerdictWasTrue: no verdict in the log, of any scan and however it ended, tells of a
\* device what none of its halves bore out while the scan ran, unless its intent was edited
\* under the scan: each half of a clean one agreed at some moment, and some half of a
\* drifted one did not at some moment.
THEOREM VerdictsWereTrue == Spec => []VerdictWasTrue
  <1>1. IInv => VerdictWasTrue
    <2> SUFFICES ASSUME IInv, NEW record \in log, record.device \notin edited
                 PROVE  /\ record.says = "clean" =>
                              \A half \in Halves : <<record.device, half, "agrees">> \in been
                        /\ record.says = "drifted" =>
                              \E half \in Halves : <<record.device, half, "differs">> \in been
      BY DEF VerdictWasTrue
    <2>1. CASE record.device = "none"
      BY <2>1 DEF IInv, Trail, OwnRecords, Started, Finished, Cancelled, Record
    <2>2. CASE record.device # "none"
      <3>1. PICK i \in DOMAIN branch : record = DeviceRecord(i)
        BY <2>2 DEF IInv, Accounts
      <3>2. record.device = Device(i) /\ record.says = branch[i].verdict
        BY <3>1 DEF DeviceRecord, Record
      <3>3. Knows(Device(i), branch[i])
        BY <3>2 DEF IInv, Truth
      <3> QED
        BY <3>2, <3>3 DEF Knows
    <2> QED
      BY <2>1, <2>2
  <1> QED
    BY <1>1, ScanInvariance, PTL

\* Each target of a scan has one report, so the reports are as many as the targets.
LEMMA ReportsCounted ==
    ASSUME IInv
    PROVE  Cardinality(Reports) = Len(scan.targets)
  <1> DEFINE n == Len(scan.targets)
             report == [i \in 1..n |-> [device |-> scan.targets[i], verdict |-> branch[i].verdict]]
  <1>1. n \in Nat /\ DOMAIN branch = 1..n /\ DOMAIN scan.targets = 1..n
    BY ScanHas DEF IInv, TypeInv
  <1>2. report \in [1..n -> Reports] /\ \A r \in Reports : \E i \in 1..n : report[i] = r
    BY <1>1 DEF Reports
  <1>3. \A i, k \in 1..n : report[i] = report[k] => i = k
    BY <1>1 DEF IInv, Listing
  <1>4. report \in Bijection(1..n, Reports)
    BY <1>2, <1>3 DEF Bijection, Injection, Surjection, IsInjective
  <1> HIDE DEF report, n
  <1>5. ExistsBijection(1..n, Reports)
    BY <1>4 DEF ExistsBijection
  <1>6. Cardinality(Reports) = n
    BY <1>1, <1>5, FS_CountingElements
  <1> QED
    BY <1>6 DEF n

\* ScanTellsEveryDevice: whatever the list and however the evaluations interleave, a scan
\* that was not cut off reports each of its devices once, its count adds up, and the log
\* has the same verdict and one last record.
THEOREM EveryDeviceIsTold == Spec => []ScanTellsEveryDevice
  <1>1. IInv => ScanTellsEveryDevice
    <2> SUFFICES ASSUME IInv, scan.pc = "RETURNED" PROVE ScanTellsEveryDevice
      BY DEF ScanTellsEveryDevice
    <2>1. TypeInv
      BY DEF IInv
    <2>2. {record.event : record \in {x \in log : x.device = "none"}} =
             {"started", IF result.cancelled THEN "cancelled" ELSE "terminated"}
      <3>1. OwnRecords = {Started, IF result.cancelled THEN Cancelled ELSE Finished}
        BY DEF IInv, Trail
      <3>2. /\ Started.event = "started" /\ Cancelled.event = "cancelled"
            /\ Finished.event = "terminated"
        BY DEF Started, Cancelled, Finished, Record
      <3> QED
        BY <3>1, <3>2 DEF OwnRecords
    <2>3. ASSUME ~result.cancelled
          PROVE  /\ Cardinality(result.reports) = result.total
                 /\ {report.device : report \in result.reports} = ToSet(scan.targets)
      <3>1. result.reports = Reports /\ result.total = Len(scan.targets)
        BY <2>3 DEF IInv, Answer
      <3>2. {report.device : report \in Reports} = {scan.targets[i] : i \in DOMAIN scan.targets}
        <4> DEFINE report(i) == [device |-> scan.targets[i], verdict |-> branch[i].verdict]
        <4>1. \A i : report(i).device = scan.targets[i]
          OBVIOUS
        <4>2. Reports = {report(i) : i \in DOMAIN scan.targets}
          BY <2>1 DEF Reports, TypeInv
        <4> HIDE DEF report
        <4> QED
          BY <4>1, <4>2
      <3> QED
        BY <3>1, <3>2, ReportsCounted DEF ToSet
    <2>4. ASSUME ~result.cancelled, NEW report \in result.reports
          PROVE  {record.says : record \in {x \in log : x.device = report.device}} =
                    {report.verdict}
      <3>1. PICK i \in DOMAIN branch :
               report = [device |-> scan.targets[i], verdict |-> branch[i].verdict]
        BY <2>4 DEF IInv, Answer, Reports
      <3>2. report.device = Device(i) /\ report.verdict = branch[i].verdict
        BY <3>1 DEF Device
      <3>3. /\ DeviceRecord(i) \in log /\ DeviceRecord(i).device = Device(i)
            /\ DeviceRecord(i).says = branch[i].verdict
        BY <2>4 DEF IInv, Answer, Accounts, DeviceRecord, Record
      <3>4. ASSUME NEW record \in log, record.device = Device(i)
            PROVE  record.says = branch[i].verdict
        <4>1. PICK k \in DOMAIN branch : record = DeviceRecord(k)
          BY <2>1, <3>4, EvaluationHas DEF IInv, Accounts
        <4>2. Device(k) = Device(i) /\ record.says = branch[k].verdict
          BY <3>4, <4>1 DEF DeviceRecord, Record
        <4>3. k = i
          BY <4>2, <2>1 DEF IInv, Listing, TypeInv, Device
        <4> QED
          BY <4>2, <4>3
      <3> QED
        BY <3>2, <3>3, <3>4
    <2> QED
      BY <2>2, <2>3, <2>4 DEF ScanTellsEveryDevice
  <1> QED
    BY <1>1, ScanInvariance, PTL

=============================================================================
