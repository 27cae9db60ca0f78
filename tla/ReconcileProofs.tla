-------------------------- MODULE ReconcileProofs --------------------------
(***************************************************************************)
(* What is proved of Reconcile, for any devices and reconciles, any list   *)
(* of devices a caller passes and any ways its deploys close.              *)
(***************************************************************************)
EXTENDS Reconcile, FiniteSetTheorems, TLAPS

-----------------------------------------------------------------------------
(***************************************************************************)
(* The inductive invariant                                                 *)
(***************************************************************************)

Endings == Touched \cup Untouched \cup Uncertain

Outcomes == Returned \cup {"pending", "skipped"}

Events == {"started", "cancelled", "terminated"}

JobType ==
    [pc : Places, cancel : {"none", "requested", "delivered"}, targets : Seq(Devices),
     child : Seq(0..MaxRuns), outcome : Seq(Outcomes)]

\* A reconcile has one place per target.
Shaped(j) ==
    /\ Len(j.targets) <= MaxIds
    /\ DOMAIN j.child = DOMAIN j.targets
    /\ DOMAIN j.outcome = DOMAIN j.targets

TypeInv ==
    /\ open \in [Devices -> BOOLEAN]
    /\ runs \in [Devices -> 0..MaxRuns]
    /\ ended \in [Devices -> [1..MaxRuns -> Endings \cup {"open"}]]
    /\ written \in [Devices -> [1..MaxRuns -> BOOLEAN]]
    /\ job \in [Reconciles -> JobType]
    /\ \A r \in Reconciles : Shaped(job[r])
    /\ recorded \in [Reconciles -> SUBSET Events]

\* The deploys: the one that is open is the last that was started, and how a deploy
\* closed says whether it wrote the device.
DeploysInv ==
    \A d \in Devices : \A n \in 1..MaxRuns :
        /\ ended[d][n] # "open" => n <= runs[d] /\ (n = runs[d] => ~open[d])
        /\ written[d][n] => n <= runs[d]
        /\ ended[d][n] \in Touched => written[d][n]
        /\ ended[d][n] \in Untouched => ~written[d][n]

\* What the outcome of a device says of the deploy that was started for it.
Told(ending, outcome) ==
    \/ outcome = ending /\ ending \in Returned \ {"DEVICE_NOT_FOUND"}
    \/ outcome = "skipped" /\ ending = "DEVICE_NOT_FOUND"
    \/ outcome = "APPLY_FAILED" /\ ending \in Failed

Answered(d, n, outcome) ==
    /\ n # 0 => n <= runs[d]
    /\ \/ outcome = "pending"
       \/ outcome = "skipped" /\ n = 0
       \/ n # 0 /\ Told(ended[d][n], outcome)

\* A reconcile has each device once, and what it knows of each is so; when it finishes it
\* knows of all.
JobInv(j) ==
    /\ \A i, k \in DOMAIN j.targets : j.targets[i] = j.targets[k] => i = k
    /\ \A i \in DOMAIN j.targets : Answered(j.targets[i], j.child[i], j.outcome[i])
    /\ j.pc \in {"finishing", "RETURNED"} =>
          \A i \in DOMAIN j.targets : j.outcome[i] # "pending"

\* The records of a reconcile, by where it stands.
RecordedAt(pc, events) ==
    /\ pc \in {"none", "starting"} => events = {}
    /\ pc \in {"gathering", "cancelling", "finishing"} => events = {"started"}
    /\ pc = "RETURNED" => events = {"started", "terminated"}
    /\ pc = "CHILD_CANCELLED" => events = {"started", "cancelled"}
    /\ ~({"cancelled", "terminated"} \subseteq events)

IInv ==
    /\ TypeInv
    /\ DeploysInv
    /\ \A r \in Reconciles : JobInv(job[r]) /\ RecordedAt(job[r].pc, recorded[r])

LEMMA SeqHas ==
    ASSUME NEW S, NEW s \in Seq(S), NEW i \in DOMAIN s
    PROVE  s[i] \in S
  OBVIOUS

LEMMA JobHas ==
    ASSUME TypeInv, NEW r \in Reconciles
    PROVE  /\ job[r] \in JobType /\ Shaped(job[r]) /\ recorded[r] \subseteq Events
           /\ job[r].child \in Seq(0..MaxRuns) /\ job[r].outcome \in Seq(Outcomes)
           /\ job[r].targets \in Seq(Devices)
           /\ job[r].pc \in Places /\ job[r].cancel \in {"none", "requested", "delivered"}
  BY DEF TypeInv, JobType

LEMMA TargetHas ==
    ASSUME TypeInv, NEW r \in Reconciles, NEW i \in DOMAIN job[r].targets
    PROVE  /\ job[r].targets[i] \in Devices
           /\ job[r].child[i] \in 0..MaxRuns
           /\ job[r].outcome[i] \in Outcomes
  BY JobHas, SeqHas DEF Shaped

LEMMA InvImpliesTypeOK == IInv => RecTypeOK
  <1> SUFFICES ASSUME IInv PROVE RecTypeOK
    OBVIOUS
  <1>1. ASSUME NEW r \in Reconciles
        PROVE  /\ job[r].pc \in Places /\ job[r].cancel \in {"none", "requested", "delivered"}
               /\ Len(job[r].targets) <= MaxIds
               /\ DOMAIN job[r].child = DOMAIN job[r].targets
               /\ DOMAIN job[r].outcome = DOMAIN job[r].targets
               /\ \A i \in DOMAIN job[r].targets :
                     /\ job[r].targets[i] \in Devices
                     /\ job[r].child[i] \in 0..MaxRuns
                     /\ job[r].outcome[i] \in Outcomes
    BY JobHas, TargetHas DEF IInv, Shaped
  <1>2. \A d \in Devices, n \in 1..MaxRuns : ended[d][n] \in Endings \cup {"open"}
    BY DEF IInv, TypeInv
  <1>3. /\ open \in [Devices -> BOOLEAN] /\ runs \in [Devices -> 0..MaxRuns]
        /\ written \in [Devices -> [1..MaxRuns -> BOOLEAN]]
        /\ recorded \in [Reconciles -> SUBSET Events]
    BY DEF IInv, TypeInv
  <1> QED
    BY <1>1, <1>2, <1>3 DEF RecTypeOK, Outcomes, Endings, Events

-----------------------------------------------------------------------------
(***************************************************************************)
(* The deploys                                                             *)
(***************************************************************************)

DeployStep == ContractNext \/ UNCHANGED deploys

LEMMA DeploysType ==
    ASSUME TypeInv, DeployStep
    PROVE  /\ open' \in [Devices -> BOOLEAN]
           /\ runs' \in [Devices -> 0..MaxRuns]
           /\ ended' \in [Devices -> [1..MaxRuns -> Endings \cup {"open"}]]
           /\ written' \in [Devices -> [1..MaxRuns -> BOOLEAN]]
  <1>1. ASSUME NEW d \in Devices, Start(d)
        PROVE  open' \in [Devices -> BOOLEAN] /\ runs' \in [Devices -> 0..MaxRuns]
    BY <1>1, ReconcileAssumption DEF Start, TypeInv
  <1>2. ASSUME NEW d \in Devices, NEW n \in 1..MaxRuns, Write(d, n)
        PROVE  written' \in [Devices -> [1..MaxRuns -> BOOLEAN]]
    BY <1>2 DEF Write, TypeInv
  <1>3. ASSUME NEW d \in Devices, NEW ending \in Endings, End(d, ending)
        PROVE  /\ open' \in [Devices -> BOOLEAN]
               /\ ended' \in [Devices -> [1..MaxRuns -> Endings \cup {"open"}]]
    BY <1>3 DEF End, TypeInv
  <1> QED
    BY <1>1, <1>2, <1>3 DEF DeployStep, ContractNext, Start, Write, End, Endings, deploys, TypeInv

\* A deploy that closed stays as it closed, and no start is taken back.
LEMMA DeploysStay ==
    ASSUME TypeInv, DeploysInv, DeployStep, NEW d \in Devices, NEW n \in 1..MaxRuns
    PROVE  /\ runs[d] <= runs'[d]
           /\ ended[d][n] # "open" => ended'[d][n] = ended[d][n]
  <1>1. runs[d] \in 0..MaxRuns
    BY DEF TypeInv
  <1>2. ASSUME NEW e \in Devices, Start(e)
        PROVE  runs[d] <= runs'[d] /\ ended' = ended
    BY <1>1, <1>2, ReconcileAssumption DEF Start, TypeInv
  <1>3. ASSUME NEW e \in Devices, NEW ending \in Endings, End(e, ending)
        PROVE  runs'[d] = runs[d] /\ (ended[d][n] # "open" => ended'[d][n] = ended[d][n])
    <2>1. open[e] /\ runs' = runs /\ ended' = [ended EXCEPT ![e][runs[e]] = ending]
      BY <1>3 DEF End
    <2>2. ended[d][n] # "open" => d # e \/ n # runs[e]
      BY <2>1 DEF DeploysInv
    <2> QED
      BY <2>1, <2>2 DEF TypeInv
  <1> QED
    BY <1>1, <1>2, <1>3, ReconcileAssumption
       DEF DeployStep, ContractNext, Write, Endings, deploys

LEMMA DeploysNext == TypeInv /\ DeploysInv /\ DeployStep => DeploysInv'
  <1> SUFFICES ASSUME TypeInv, DeploysInv, DeployStep, NEW d \in Devices, NEW n \in 1..MaxRuns
               PROVE  /\ ended'[d][n] # "open" => n <= runs'[d] /\ (n = runs'[d] => ~open'[d])
                      /\ written'[d][n] => n <= runs'[d]
                      /\ ended'[d][n] \in Touched => written'[d][n]
                      /\ ended'[d][n] \in Untouched => ~written'[d][n]
    BY DEF DeploysInv
  <1>1. /\ ended[d][n] # "open" => n <= runs[d] /\ (n = runs[d] => ~open[d])
        /\ written[d][n] => n <= runs[d]
        /\ ended[d][n] \in Touched => written[d][n]
        /\ ended[d][n] \in Untouched => ~written[d][n]
    BY DEF DeploysInv
  <1>2. runs[d] \in Nat /\ n \in Nat
    BY ReconcileAssumption DEF TypeInv
  <1>3. ASSUME NEW e \in Devices, Start(e)
        PROVE  /\ runs'[d] = (IF d = e THEN runs[d] + 1 ELSE runs[d])
               /\ d # e => open'[d] = open[d]
               /\ ended' = ended /\ written' = written
    BY <1>3 DEF Start, TypeInv
  <1>4. ASSUME NEW e \in Devices, NEW m \in 1..MaxRuns, Write(e, m)
        PROVE  /\ runs' = runs /\ ended' = ended /\ open' = open
               /\ written'[d][n] = (IF d = e /\ n = m THEN TRUE ELSE written[d][n])
               /\ m <= runs[e] /\ ended[e][m] \notin Untouched
    BY <1>4 DEF Write, TypeInv
  <1>5. ASSUME NEW e \in Devices, NEW ending \in Endings, End(e, ending)
        PROVE  /\ runs' = runs /\ written' = written
               /\ open'[d] = (IF d = e THEN FALSE ELSE open[d])
               /\ ended'[d][n] = (IF d = e /\ n = runs[e] THEN ending ELSE ended[d][n])
               /\ ending \in Touched => written[e][runs[e]]
               /\ ending \in Untouched => ~written[e][runs[e]]
    BY <1>5 DEF End, TypeInv
  <1>6. CASE \E e \in Devices : Start(e)
    BY <1>1, <1>2, <1>3, <1>6
  <1>7. CASE \E e \in Devices, m \in 1..MaxRuns : Write(e, m)
    BY <1>1, <1>4, <1>7
  <1>8. CASE \E e \in Devices, ending \in Endings : End(e, ending)
    <2>1. PICK e \in Devices, ending \in Endings : End(e, ending)
      BY <1>8
    <2>2. CASE d = e /\ n = runs[e]
      <3>1. /\ runs' = runs /\ written' = written /\ ~open'[d] /\ ended'[d][n] = ending
            /\ ending \in Touched => written[d][n]
            /\ ending \in Untouched => ~written[d][n]
        BY <1>5, <2>1, <2>2
      <3> QED
        BY <1>2, <2>2, <3>1
    <2>3. CASE ~(d = e /\ n = runs[e])
      BY <1>1, <1>5, <2>1, <2>3
    <2> QED
      BY <2>2, <2>3
  <1>9. CASE UNCHANGED deploys
    BY <1>1, <1>9 DEF deploys
  <1> QED
    BY <1>6, <1>7, <1>8, <1>9 DEF DeployStep, ContractNext, Endings

-----------------------------------------------------------------------------
(***************************************************************************)
(* The steps by what they do to a reconcile                                *)
(***************************************************************************)

\* Only this reconcile's job and records change.
Own(r) ==
    /\ job' = [job EXCEPT ![r] = job'[r]]
    /\ recorded' = [recorded EXCEPT ![r] = recorded'[r]]

\* It moves on, or is asked to stop.  It finishes when it has every outcome.
Moves(r) ==
    /\ job'[r] \in JobType
    /\ job'[r].targets = job[r].targets /\ job'[r].child = job[r].child
    /\ job'[r].outcome = job[r].outcome
    /\ recorded'[r] \subseteq Events
    /\ RecordedAt(job'[r].pc, recorded'[r])
    /\ job'[r].pc \in {"finishing", "RETURNED"} =>
          \/ job[r].pc \in {"finishing", "RETURNED"}
          \/ \A i \in DOMAIN job[r].targets : job[r].outcome[i] # "pending"
    /\ UNCHANGED deploys

\* It has the outcome of one of its devices.
Hears(r) ==
    /\ job[r].pc \notin {"finishing", "RETURNED"}
    /\ \E i \in DOMAIN job[r].targets, outcome \in Outcomes :
          /\ job' = [job EXCEPT ![r].outcome[i] = outcome]
          /\ Answered(job[r].targets[i], job[r].child[i], outcome)
    /\ UNCHANGED <<deploys, recorded>>

\* It starts the deploy of one of its devices.
Starts(r) ==
    /\ \E i \in DOMAIN job[r].targets :
          /\ Start(job[r].targets[i])
          /\ job[r].outcome[i] = "pending"
          /\ job' = [job EXCEPT ![r].child[i] = runs'[job[r].targets[i]]]
    /\ UNCHANGED recorded

\* It is started.
Begins(r) ==
    /\ job'[r] \in JobType /\ Shaped(job'[r]) /\ JobInv(job'[r])
    /\ job'[r].pc = "starting" /\ job[r].pc = "none"
    /\ UNCHANGED <<deploys, recorded>>

\* A move to another place.
LEMMA MoveMoves ==
    ASSUME TypeInv, NEW r \in Reconciles, NEW pc \in Places, Move(r, pc),
           recorded' = [recorded EXCEPT ![r] = recorded'[r]], recorded'[r] \subseteq Events,
           RecordedAt(pc, recorded'[r]), UNCHANGED deploys,
           pc \in {"finishing", "RETURNED"} =>
              \/ job[r].pc \in {"finishing", "RETURNED"}
              \/ \A i \in DOMAIN job[r].targets : job[r].outcome[i] # "pending"
    PROVE  Own(r) /\ Moves(r)
  <1> DEFINE j == [job[r] EXCEPT !.pc = pc]
  <1>1. j \in JobType /\ j.pc = pc /\ j.targets = job[r].targets /\ j.child = job[r].child
        /\ j.outcome = job[r].outcome
    BY JobHas DEF JobType
  <1>2. job' = [job EXCEPT ![r] = j] /\ job'[r] = j
    BY DEF Move, TypeInv
  <1> HIDE DEF j
  <1> QED
    BY <1>1, <1>2 DEF Own, Moves

\* The records a write may leave, by where the reconcile stands.
LEMMA RecordsMove ==
    ASSUME TypeInv, NEW r \in Reconciles, RecordedAt(job[r].pc, recorded[r]),
           RecordStarted(r) \/ RecordCancelled(r) \/ RecordTerminated(r) \/ RecordBreaks(r)
    PROVE  Own(r) /\ Moves(r)
  <1>1. recorded[r] \subseteq Events /\ recorded \in [Reconciles -> SUBSET Events]
    BY DEF TypeInv
  <1>2. ASSUME NEW event \in Events, recorded' = [recorded EXCEPT ![r] = @ \cup {event}]
        PROVE  /\ recorded' = [recorded EXCEPT ![r] = recorded'[r]]
               /\ recorded'[r] = recorded[r] \cup {event} /\ recorded'[r] \subseteq Events
    BY <1>1, <1>2
  <1>3. recorded' = recorded => /\ recorded' = [recorded EXCEPT ![r] = recorded'[r]]
                                /\ recorded'[r] = recorded[r]
    BY <1>1
  <1>4. CASE RecordStarted(r)
    <2>1. /\ Move(r, "gathering") /\ job[r].pc = "starting" /\ UNCHANGED deploys
          /\ recorded' = [recorded EXCEPT ![r] = @ \cup {"started"}]
      BY <1>4 DEF RecordStarted, Audit
    <2>2. RecordedAt("gathering", recorded'[r])
      BY <1>2, <2>1 DEF RecordedAt, Events
    <2> QED
      BY <1>2, <2>1, <2>2, MoveMoves DEF Places, Events
  <1>5. CASE RecordTerminated(r)
    <2>1. /\ Move(r, "RETURNED") /\ job[r].pc = "finishing" /\ UNCHANGED deploys
          /\ recorded' = [recorded EXCEPT ![r] = @ \cup {"terminated"}]
      BY <1>5 DEF RecordTerminated, Audit
    <2>2. RecordedAt("RETURNED", recorded'[r])
      BY <1>2, <2>1 DEF RecordedAt, Events
    <2> QED
      BY <1>2, <2>1, <2>2, MoveMoves DEF Places, Closed, Events
  <1>6. CASE RecordCancelled(r)
    <2>1. PICK pc \in {"CANCELLED", "CHILD_CANCELLED"} : Move(r, pc)
      BY <1>6 DEF RecordCancelled, Audit
    <2>2. /\ job[r].pc = "cancelling" /\ UNCHANGED deploys
          /\ recorded' = [recorded EXCEPT ![r] = @ \cup {"cancelled"}]
      BY <1>6 DEF RecordCancelled, Audit
    <2>3. RecordedAt(pc, recorded'[r])
      BY <1>2, <2>2 DEF RecordedAt, Events
    <2> QED
      BY <1>2, <2>1, <2>2, <2>3, MoveMoves DEF Places, Closed, Events
  <1>7. CASE RecordBreaks(r)
    <2>1. PICK pc \in {"AUDIT_FAILED", "CANCELLED"} : Move(r, pc)
      BY <1>7 DEF RecordBreaks
    <2>2. PICK event \in Events :
             /\ UNCHANGED recorded \/ recorded' = [recorded EXCEPT ![r] = @ \cup {event}]
             /\ EventOf[job[r].pc] = event
             /\ \/ job[r].pc = "starting" /\ event = "started"
                \/ job[r].pc = "cancelling" /\ event = "cancelled"
                \/ job[r].pc = "finishing" /\ event = "terminated"
      BY <1>7 DEF RecordBreaks, EventOf, Events
    <2>3. RecordedAt(pc, recorded'[r])
      BY <1>2, <1>3, <2>2 DEF RecordedAt, Events
    <2>4. /\ recorded' = [recorded EXCEPT ![r] = recorded'[r]] /\ recorded'[r] \subseteq Events
          /\ UNCHANGED deploys
      BY <1>1, <1>2, <1>3, <1>7, <2>2 DEF RecordBreaks
    <2> QED
      BY <2>1, <2>3, <2>4, MoveMoves DEF Places, Closed
  <1> QED
    BY <1>4, <1>5, <1>6, <1>7

\* A step that moves on and records nothing.
LEMMA OthersMove ==
    ASSUME TypeInv, NEW r \in Reconciles, RecordedAt(job[r].pc, recorded[r]),
           \/ Gathered(r) \/ TerminateReconcile(r)
           \/ \E i \in 1..MaxIds : ChildCancelled(r, i) \/ GiveUpChild(r, i)
    PROVE  Own(r) /\ Moves(r)
  <1>1. /\ recorded' = recorded /\ recorded[r] \subseteq Events /\ UNCHANGED deploys
        /\ recorded' = [recorded EXCEPT ![r] = recorded'[r]]
    BY DEF Gathered, TerminateReconcile, ChildCancelled, GiveUpChild, TypeInv
  <1>2. CASE TerminateReconcile(r)
    <2>1. RecordedAt("TERMINATED", recorded[r])
      BY DEF RecordedAt
    <2> QED
      BY <1>1, <1>2, <2>1, MoveMoves DEF TerminateReconcile, Places, Closed
  <1>3. CASE \E i \in 1..MaxIds : ChildCancelled(r, i) \/ GiveUpChild(r, i)
    <2>1. job[r].pc = "gathering" /\ Move(r, "cancelling")
      BY <1>3 DEF ChildCancelled, ChildClosed, GiveUpChild
    <2>2. RecordedAt("cancelling", recorded[r])
      BY <2>1 DEF RecordedAt
    <2> QED
      BY <1>1, <2>1, <2>2, MoveMoves DEF Places
  <1>4. CASE Gathered(r)
    <2>1. PICK pc \in {"cancelling", "finishing"} : Move(r, pc)
      BY <1>4 DEF Gathered
    <2>2. /\ job[r].pc = "gathering"
          /\ \A i \in DOMAIN job[r].targets : job[r].outcome[i] # "pending"
      BY <1>4 DEF Gathered
    <2>3. RecordedAt(pc, recorded[r])
      BY <2>2 DEF RecordedAt
    <2> QED
      BY <1>1, <2>1, <2>2, <2>3, MoveMoves DEF Places
  <1> QED
    BY <1>2, <1>3, <1>4

\* A cancel that is requested or delivered leaves the reconcile where it is.
LEMMA CancelMoves ==
    ASSUME TypeInv, NEW r \in Reconciles, RecordedAt(job[r].pc, recorded[r]),
           RequestCancel(r) \/ DeliverCancel(r)
    PROVE  Own(r) /\ Moves(r)
  <1>1. PICK cancel \in {"requested", "delivered"} : job' = [job EXCEPT ![r].cancel = cancel]
    BY DEF RequestCancel, DeliverCancel
  <1> DEFINE j == [job[r] EXCEPT !.cancel = cancel]
  <1>2. j \in JobType /\ j.pc = job[r].pc /\ j.targets = job[r].targets
        /\ j.child = job[r].child /\ j.outcome = job[r].outcome
    BY JobHas DEF JobType
  <1>3. job' = [job EXCEPT ![r] = j] /\ job'[r] = j
    BY <1>1 DEF TypeInv
  <1>4. /\ recorded' = recorded /\ recorded[r] \subseteq Events /\ UNCHANGED deploys
        /\ recorded' = [recorded EXCEPT ![r] = recorded'[r]]
    BY DEF RequestCancel, DeliverCancel, TypeInv
  <1> HIDE DEF j
  <1> QED
    BY <1>2, <1>3, <1>4 DEF Own, Moves

\* What is heard of a device is so.
LEMMA AnswersHear ==
    ASSUME IInv, NEW r \in Reconciles, NEW i \in 1..MaxIds,
           SkipRunning(r, i) \/ ChildReturns(r, i) \/ ChildFails(r, i)
    PROVE  Hears(r)
  <1>1. /\ i \in DOMAIN job[r].targets /\ job[r].pc = "gathering" /\ UNCHANGED <<deploys, recorded>>
        /\ job[r].outcome[i] = "pending"
    BY DEF SkipRunning, ChildReturns, ChildFails, ChildClosed, Unstarted, Waiting
  <1>2. Answered(job[r].targets[i], job[r].child[i], job[r].outcome[i])
    BY <1>1 DEF IInv, JobInv
  <1>3. \E outcome \in Outcomes : /\ Answer(r, i, outcome)
                                  /\ Answered(job[r].targets[i], job[r].child[i], outcome)
    <2>1. CASE SkipRunning(r, i)
      BY <1>2, <2>1 DEF SkipRunning, Unstarted, Answered, Outcomes
    <2>2. CASE ChildReturns(r, i)
      BY <1>2, <2>2 DEF ChildReturns, ChildClosed, ChildEnding, Target, Answered, Told,
                        Outcomes, Returned
    <2>3. CASE ChildFails(r, i)
      BY <1>2, <2>3 DEF ChildFails, ChildClosed, ChildEnding, Target, Answered, Told,
                        Outcomes, Returned, Failed
    <2> QED
      BY <2>1, <2>2, <2>3
  <1> QED
    BY <1>1, <1>3 DEF Hears, Answer

LEMMA StartsChild ==
    ASSUME TypeInv, NEW r \in Reconciles, NEW i \in 1..MaxIds, StartChild(r, i)
    PROVE  Starts(r)
  BY DEF StartChild, Starts, Unstarted, Waiting, Target

\* The list of a new reconcile has each device once.
LEMMA DedupedOnce ==
    ASSUME NEW ids \in IdLists, NEW targets \in Deduped(ids)
    PROVE  /\ targets \in Seq(Devices) /\ Len(targets) <= MaxIds
           /\ \A i, k \in DOMAIN targets : targets[i] = targets[k] => i = k
  <1>1. PICK n \in 0..MaxIds : ids \in [1..n -> Devices]
    BY DEF IdLists, SeqOf
  <1>2. n \in Nat
    BY ReconcileAssumption
  <1>3. ids \in Seq(Devices) /\ Len(ids) = n /\ ToSet(ids) \subseteq Devices
    BY <1>1, <1>2 DEF ToSet
  <1>4. PICK m \in 0..n : targets \in [1..m -> ToSet(ids)]
    BY <1>3 DEF Deduped, SeqOf
  <1>5. m \in Nat /\ m <= MaxIds
    BY <1>2, <1>4, ReconcileAssumption
  <1>6. targets \in [1..m -> Devices]
    BY <1>3, <1>4
  <1>7. targets \in Seq(Devices) /\ Len(targets) = m /\ DOMAIN targets = 1..m
    BY <1>5, <1>6
  <1>8. ASSUME NEW i \in DOMAIN targets, NEW k \in DOMAIN targets, i < k
        PROVE  targets[i] # targets[k]
    <2>1. i \in 1..(k - 1)
      BY <1>5, <1>7, <1>8
    <2>2. PICK first \in DOMAIN ids :
             ids[first] = targets[i] /\ \A p \in 1..first : ids[p] # targets[k]
      BY <2>1 DEF Deduped
    <2>3. first \in 1..first
      BY <1>1, <1>2
    <2> QED
      BY <2>2, <2>3
  <1>9. \A i, k \in DOMAIN targets : i < k \/ k < i \/ i = k
    BY <1>5, <1>7
  <1> QED
    BY <1>5, <1>7, <1>8, <1>9

LEMMA StartBegins ==
    ASSUME TypeInv, NEW r \in Reconciles, StartReconcile(r)
    PROVE  Own(r) /\ Begins(r)
  <1> PICK ids \in IdLists : \E targets \in Deduped(ids) :
           job' = [job EXCEPT ![r] =
                     [pc |-> "starting", cancel |-> "none", targets |-> targets,
                      child |-> [i \in DOMAIN targets |-> 0],
                      outcome |-> [i \in DOMAIN targets |-> "pending"]]]
    BY DEF StartReconcile
  <1>1. PICK targets \in Deduped(ids) :
           job' = [job EXCEPT ![r] =
                     [pc |-> "starting", cancel |-> "none", targets |-> targets,
                      child |-> [i \in DOMAIN targets |-> 0],
                      outcome |-> [i \in DOMAIN targets |-> "pending"]]]
    OBVIOUS
  <1> DEFINE child == [i \in DOMAIN targets |-> 0]
             outcome == [i \in DOMAIN targets |-> "pending"]
             j == [pc |-> "starting", cancel |-> "none", targets |-> targets,
                   child |-> child, outcome |-> outcome]
  <1>2. /\ targets \in Seq(Devices) /\ Len(targets) <= MaxIds
        /\ \A i, k \in DOMAIN targets : targets[i] = targets[k] => i = k
    BY DedupedOnce
  <1>3. /\ child \in Seq(0..MaxRuns) /\ DOMAIN child = DOMAIN targets
        /\ \A i \in DOMAIN targets : child[i] = 0
    BY <1>2, ReconcileAssumption
  <1>4. /\ outcome \in Seq(Outcomes) /\ DOMAIN outcome = DOMAIN targets
        /\ \A i \in DOMAIN targets : outcome[i] = "pending"
    BY <1>2 DEF Outcomes
  <1> HIDE DEF child, outcome
  <1>5. j \in JobType /\ Shaped(j) /\ JobInv(j) /\ j.pc = "starting"
    BY <1>2, <1>3, <1>4 DEF JobType, Shaped, JobInv, Answered, Places
  <1>6. job' = [job EXCEPT ![r] = j] /\ job'[r] = j
    BY <1>1 DEF TypeInv, child, outcome
  <1>7. UNCHANGED <<deploys, recorded>> /\ job[r].pc = "none"
        /\ recorded' = [recorded EXCEPT ![r] = recorded'[r]]
    BY DEF StartReconcile, TypeInv
  <1> HIDE DEF j
  <1> QED
    BY <1>5, <1>6, <1>7 DEF Own, Begins

\* Every step is one of these, or a step of the deploys alone.
LEMMA StepSorted ==
    ASSUME IInv, RecNext
    PROVE  \/ \E r \in Reconciles : Own(r) /\ (Moves(r) \/ Begins(r))
           \/ \E r \in Reconciles : Hears(r) \/ Starts(r)
           \/ ContractNext /\ UNCHANGED <<job, recorded>>
  <1>1. TypeInv /\ \A r \in Reconciles : RecordedAt(job[r].pc, recorded[r])
    BY DEF IInv
  <1>2. ASSUME NEW r \in Reconciles, Works(r)
        PROVE  (Own(r) /\ Moves(r)) \/ Hears(r) \/ Starts(r)
    <2>1. CASE RecordStarted(r) \/ RecordCancelled(r) \/ RecordTerminated(r) \/ RecordBreaks(r)
      BY <1>1, <2>1, RecordsMove
    <2>2. CASE Gathered(r) \/ \E i \in 1..MaxIds : ChildCancelled(r, i) \/ GiveUpChild(r, i)
      BY <1>1, <2>2, OthersMove
    <2>3. CASE DeliverCancel(r)
      BY <1>1, <2>3, CancelMoves
    <2>4. ASSUME NEW i \in 1..MaxIds, SkipRunning(r, i) \/ ChildReturns(r, i) \/ ChildFails(r, i)
          PROVE  Hears(r)
      BY <2>4, AnswersHear
    <2>5. ASSUME NEW i \in 1..MaxIds, StartChild(r, i) PROVE Starts(r)
      BY <1>1, <2>5, StartsChild
    <2> QED
      BY <1>2, <2>1, <2>2, <2>3, <2>4, <2>5 DEF Works
  <1>3. ASSUME NEW r \in Reconciles, Asked(r) PROVE Own(r) /\ (Moves(r) \/ Begins(r))
    <2>1. CASE StartReconcile(r)
      BY <1>1, <2>1, StartBegins
    <2>2. CASE RequestCancel(r)
      BY <1>1, <2>2, CancelMoves
    <2>3. CASE TerminateReconcile(r)
      BY <1>1, <2>3, OthersMove
    <2> QED
      BY <1>3, <2>1, <2>2, <2>3 DEF Asked
  <1>4. ASSUME NEW r \in Reconciles, Cleans(r) PROVE ContractNext /\ UNCHANGED <<job, recorded>>
    <2>1. PICK i \in 1..MaxIds : TerminateChild(r, i)
      BY <1>4 DEF Cleans
    <2>2. Target(r, i) \in Devices
      BY <1>1, <2>1, TargetHas DEF TerminateChild, Target
    <2> QED
      BY <2>1, <2>2 DEF TerminateChild, ContractNext, Uncertain
  <1>5. ASSUME NEW d \in Devices, OperatorDeploys(d) \/ DeployCloses(d) \/ DeployWrites(d)
        PROVE  ContractNext /\ UNCHANGED <<job, recorded>>
    BY <1>5, ReconcileAssumption DEF OperatorDeploys, DeployCloses, DeployWrites, ContractNext
  <1> QED
    BY <1>2, <1>3, <1>4, <1>5 DEF RecNext

-----------------------------------------------------------------------------
(***************************************************************************)
(* The invariant is preserved                                              *)
(***************************************************************************)

\* What is known of a device stays so, whatever its deploys do.
LEMMA AnsweredStays ==
    ASSUME TypeInv, DeploysInv, DeployStep, NEW d \in Devices, NEW n \in 0..MaxRuns,
           NEW outcome, Answered(d, n, outcome)
    PROVE  Answered(d, n, outcome)'
  <1>1. CASE n = 0
    BY <1>1 DEF Answered
  <1>2. CASE n # 0
    <2>1. n \in 1..MaxRuns
      BY <1>2, ReconcileAssumption
    <2>2. runs[d] <= runs'[d] /\ (ended[d][n] # "open" => ended'[d][n] = ended[d][n])
      BY <2>1, DeploysStay
    <2>3. runs[d] \in 0..MaxRuns /\ runs'[d] \in 0..MaxRuns
      BY DeploysType DEF TypeInv
    <2>4. n <= runs'[d]
      BY <1>2, <2>1, <2>2, <2>3, ReconcileAssumption DEF Answered
    <2>5. Told(ended[d][n], outcome) => ended[d][n] # "open"
      BY DEF Told, Returned, Failed
    <2> QED
      BY <1>2, <2>2, <2>4, <2>5 DEF Answered
  <1> QED
    BY <1>1, <1>2

\* A reconcile that does nothing itself.
LEMMA JobStays ==
    ASSUME IInv, DeployStep, NEW r \in Reconciles, job'[r] = job[r]
    PROVE  JobInv(job[r])'
  <1>1. TypeInv /\ DeploysInv /\ JobInv(job[r])
    BY DEF IInv
  <1>2. ASSUME NEW i \in DOMAIN job[r].targets
        PROVE  Answered(job[r].targets[i], job[r].child[i], job[r].outcome[i])'
    <2>1. Answered(job[r].targets[i], job[r].child[i], job[r].outcome[i])
      BY <1>1 DEF JobInv
    <2>2. PICK d \in Devices, n \in 0..MaxRuns, outcome \in Outcomes :
             d = job[r].targets[i] /\ n = job[r].child[i] /\ outcome = job[r].outcome[i]
      BY <1>1, TargetHas
    <2>3. Answered(d, n, outcome)'
      BY <1>1, <2>1, <2>2, AnsweredStays
    <2> QED
      BY <2>2, <2>3
  <1> QED
    BY <1>1, <1>2 DEF JobInv

\* What is known of each of the devices of a reconcile stays so.
LEMMA TargetsStay ==
    ASSUME IInv, DeployStep, NEW r \in Reconciles
    PROVE  \A i \in DOMAIN job[r].targets : \A d, n, outcome :
              d = job[r].targets[i] /\ n = job[r].child[i] /\ outcome = job[r].outcome[i] =>
                  Answered(d, n, outcome)'
  <1> SUFFICES ASSUME NEW i \in DOMAIN job[r].targets, NEW d, NEW n, NEW outcome,
                      d = job[r].targets[i], n = job[r].child[i], outcome = job[r].outcome[i]
               PROVE  Answered(d, n, outcome)'
    OBVIOUS
  <1>1. TypeInv /\ DeploysInv /\ Answered(d, n, outcome)
    BY DEF IInv, JobInv
  <1>2. d \in Devices /\ n \in 0..MaxRuns
    BY <1>1, TargetHas
  <1> QED
    BY <1>1, <1>2, AnsweredStays

\* The reconcile that has heard of one of its devices.
LEMMA HearsKeeps ==
    ASSUME IInv, NEW r \in Reconciles, Hears(r)
    PROVE  /\ job' = [job EXCEPT ![r] = job'[r]]
           /\ job'[r] \in JobType /\ Shaped(job'[r]) /\ JobInv(job[r])'
           /\ job'[r].pc = job[r].pc
  <1>1. TypeInv /\ JobInv(job[r])
    BY DEF IInv
  <1>2. PICK i \in DOMAIN job[r].targets, outcome \in Outcomes :
           /\ job' = [job EXCEPT ![r].outcome[i] = outcome]
           /\ Answered(job[r].targets[i], job[r].child[i], outcome)
    BY DEF Hears
  <1> DEFINE outcomes == [job[r].outcome EXCEPT ![i] = outcome]
             j == [job[r] EXCEPT !.outcome = outcomes]
  <1>3. /\ outcomes \in Seq(Outcomes) /\ DOMAIN outcomes = DOMAIN job[r].targets
        /\ \A k \in DOMAIN job[r].targets :
              outcomes[k] = IF k = i THEN outcome ELSE job[r].outcome[k]
    BY <1>1, JobHas DEF Shaped
  <1>4. job' = [job EXCEPT ![r] = j] /\ job'[r] = j
    BY <1>1, <1>2 DEF TypeInv
  <1> HIDE DEF outcomes
  <1>5. /\ j \in JobType /\ j.pc = job[r].pc /\ j.targets = job[r].targets
        /\ j.child = job[r].child /\ j.outcome = outcomes
    BY <1>1, <1>3, JobHas DEF JobType
  <1> HIDE DEF j
  <1>6. Shaped(j)
    BY <1>1, <1>3, <1>5, JobHas DEF Shaped
  <1>7. UNCHANGED deploys /\ job[r].pc \notin {"finishing", "RETURNED"}
    BY DEF Hears
  <1>8. \A d, n, o : Answered(d, n, o) <=> Answered(d, n, o)'
    BY <1>7 DEF Answered, deploys
  <1>9. JobInv(job[r])'
    <2>1. \A k \in DOMAIN j.targets : Answered(j.targets[k], j.child[k], j.outcome[k])
      BY <1>1, <1>2, <1>3, <1>5 DEF JobInv
    <2>2. JobInv(j)
      BY <1>1, <1>5, <1>7, <2>1 DEF JobInv
    <2> QED
      BY <1>4, <1>7, <2>2 DEF JobInv, Answered, deploys
  <1> QED
    BY <1>4, <1>5, <1>6, <1>9

\* The reconcile that has started the deploy of one of its devices.
LEMMA StartsKeeps ==
    ASSUME IInv, NEW r \in Reconciles, Starts(r)
    PROVE  /\ job' = [job EXCEPT ![r] = job'[r]]
           /\ job'[r] \in JobType /\ Shaped(job'[r]) /\ JobInv(job[r])'
           /\ job'[r].pc = job[r].pc
           /\ DeployStep
  <1>1. TypeInv /\ DeploysInv /\ JobInv(job[r])
    BY DEF IInv
  <1>2. PICK i \in DOMAIN job[r].targets :
           /\ Start(job[r].targets[i])
           /\ job[r].outcome[i] = "pending"
           /\ job' = [job EXCEPT ![r].child[i] = runs'[job[r].targets[i]]]
    BY DEF Starts
  <1>3. PICK d \in Devices : d = job[r].targets[i]
    BY <1>1, TargetHas
  <1>4. DeployStep
    BY <1>2, <1>3 DEF DeployStep, ContractNext
  <1>5. PICK n \in 0..MaxRuns : n = runs'[d]
    BY <1>1, <1>4, DeploysType
  <1> DEFINE child == [job[r].child EXCEPT ![i] = n]
             j == [job[r] EXCEPT !.child = child]
  <1>6. /\ child \in Seq(0..MaxRuns) /\ DOMAIN child = DOMAIN job[r].targets
        /\ \A k \in DOMAIN job[r].targets : child[k] = IF k = i THEN n ELSE job[r].child[k]
    BY <1>1, JobHas DEF Shaped
  <1>7. job' = [job EXCEPT ![r] = j] /\ job'[r] = j
    BY <1>1, <1>2, <1>3, <1>5 DEF TypeInv
  <1> HIDE DEF child
  <1>8. /\ j \in JobType /\ j.pc = job[r].pc /\ j.targets = job[r].targets
        /\ j.outcome = job[r].outcome /\ j.child = child
    BY <1>1, <1>6, JobHas DEF JobType
  <1> HIDE DEF j
  <1>9. Shaped(j)
    BY <1>1, <1>6, <1>8, JobHas DEF Shaped
  <1>10. ASSUME NEW k \in DOMAIN job[r].targets
         PROVE  Answered(job[r].targets[k], job[r].child[k], job[r].outcome[k])'
    <2>1. PICK e, m, o : e = job[r].targets[k] /\ m = j.child[k] /\ o = job[r].outcome[k]
      OBVIOUS
    <2>2. Answered(e, m, o)'
      <3>1. CASE k = i
        <4>1. m = n /\ e = d /\ o = "pending"
          BY <1>2, <1>3, <1>6, <1>8, <2>1, <3>1
        <4> QED
          BY <1>5, <4>1, ReconcileAssumption DEF Answered
      <3>2. CASE k # i
        BY <1>4, <1>6, <1>8, <2>1, <3>2, TargetsStay
      <3> QED
        BY <3>1, <3>2
    <2> QED
      BY <1>7, <1>8, <2>1, <2>2
  <1>11. JobInv(job[r])'
    BY <1>1, <1>2, <1>7, <1>8, <1>10 DEF JobInv
  <1> QED
    BY <1>4, <1>7, <1>8, <1>9, <1>11

\* The reconcile that moves on or begins.
LEMMA OwnKeeps ==
    ASSUME IInv, NEW r \in Reconciles, Own(r), Moves(r) \/ Begins(r)
    PROVE  /\ job'[r] \in JobType /\ Shaped(job'[r]) /\ JobInv(job[r])'
           /\ recorded'[r] \subseteq Events /\ RecordedAt(job'[r].pc, recorded'[r])
           /\ UNCHANGED deploys
  <1>1. TypeInv /\ JobInv(job[r]) /\ Shaped(job[r]) /\ RecordedAt(job[r].pc, recorded[r])
    BY DEF IInv, TypeInv
  <1>2. CASE Moves(r)
    <2>1. Shaped(job'[r])
      BY <1>1, <1>2 DEF Moves, Shaped
    <2>2. JobInv(job[r])'
      BY <1>1, <1>2 DEF Moves, JobInv, Answered, deploys
    <2> QED
      BY <1>2, <2>1, <2>2 DEF Moves
  <1>3. CASE Begins(r)
    <2>1. JobInv(job[r])'
      BY <1>3 DEF Begins, JobInv, Answered, deploys
    <2>2. RecordedAt("starting", recorded[r]) /\ recorded'[r] = recorded[r]
      BY <1>1, <1>3 DEF Begins, RecordedAt
    <2> QED
      BY <1>1, <1>3, <2>1, <2>2 DEF Begins, TypeInv
  <1> QED
    BY <1>2, <1>3

LEMMA InvNext == IInv /\ [RecNext]_vars => IInv'
  <1> SUFFICES ASSUME IInv, [RecNext]_vars PROVE IInv'
    OBVIOUS
  <1>1. TypeInv /\ DeploysInv
    BY DEF IInv
  <1>2. ASSUME NEW r \in Reconciles, DeployStep, job' = [job EXCEPT ![r] = job'[r]],
               recorded' = [recorded EXCEPT ![r] = recorded'[r]],
               job'[r] \in JobType, Shaped(job'[r]), JobInv(job[r])',
               recorded'[r] \subseteq Events, RecordedAt(job'[r].pc, recorded'[r])
        PROVE  IInv'
    <2>1. PICK j \in JobType : j = job'[r]
      BY <1>2
    <2>2. PICK events \in SUBSET Events : events = recorded'[r]
      BY <1>2
    <2>3. job' = [job EXCEPT ![r] = j] /\ recorded' = [recorded EXCEPT ![r] = events]
      BY <1>2, <2>1, <2>2
    <2>4. \A s \in Reconciles \ {r} : job'[s] = job[s] /\ recorded'[s] = recorded[s]
      BY <1>1, <2>3 DEF TypeInv
    <2>5. job' \in [Reconciles -> JobType] /\ recorded' \in [Reconciles -> SUBSET Events]
      BY <1>1, <2>3 DEF TypeInv
    <2>6. \A s \in Reconciles : Shaped(job'[s])
      BY <1>1, <1>2, <2>4 DEF TypeInv
    <2>7. TypeInv'
      BY <1>1, <1>2, <2>5, <2>6, DeploysType DEF TypeInv
    <2>8. DeploysInv'
      BY <1>1, <1>2, DeploysNext
    <2>9. ASSUME NEW s \in Reconciles
          PROVE  JobInv(job[s])' /\ RecordedAt(job'[s].pc, recorded'[s])
      <3>1. CASE s = r
        BY <1>2, <3>1
      <3>2. CASE s # r
        BY <1>2, <2>4, <3>2, JobStays DEF IInv
      <3> QED
        BY <3>1, <3>2
    <2> QED
      BY <2>7, <2>8, <2>9 DEF IInv
  <1>3. ASSUME NEW r \in Reconciles, Own(r), Moves(r) \/ Begins(r) PROVE IInv'
    BY <1>2, <1>3, OwnKeeps DEF Own, DeployStep
  <1>4. ASSUME NEW r \in Reconciles, Hears(r) \/ Starts(r) PROVE IInv'
    <2>1. /\ recorded' = [recorded EXCEPT ![r] = recorded'[r]] /\ recorded'[r] = recorded[r]
          /\ recorded[r] \subseteq Events /\ RecordedAt(job[r].pc, recorded[r])
      BY <1>1, <1>4 DEF Hears, Starts, TypeInv, IInv
    <2>2. CASE Hears(r)
      <3>1. DeployStep
        BY <2>2 DEF Hears, DeployStep
      <3> QED
        BY <1>2, <2>1, <2>2, <3>1, HearsKeeps
    <2>3. CASE Starts(r)
      BY <1>2, <2>1, <2>3, StartsKeeps
    <2> QED
      BY <1>4, <2>2, <2>3
  <1>5. CASE DeployStep /\ UNCHANGED <<job, recorded>>
    <2>1. TypeInv'
      BY <1>1, <1>5, DeploysType DEF TypeInv
    <2>2. DeploysInv'
      BY <1>1, <1>5, DeploysNext
    <2>3. ASSUME NEW s \in Reconciles
          PROVE  JobInv(job[s])' /\ RecordedAt(job'[s].pc, recorded'[s])
      BY <1>5, JobStays DEF IInv
    <2> QED
      BY <2>1, <2>2, <2>3 DEF IInv
  <1>6. CASE UNCHANGED vars
    BY <1>5, <1>6 DEF vars, DeployStep, deploys
  <1> QED
    BY <1>3, <1>4, <1>5, <1>6, StepSorted DEF DeployStep

LEMMA InvInit == RecInit => IInv
  <1> SUFFICES ASSUME RecInit PROVE IInv
    OBVIOUS
  <1>1. NoJob \in JobType /\ Shaped(NoJob) /\ JobInv(NoJob) /\ NoJob.pc = "none"
    <2>1. NoJob \in JobType
      BY DEF NoJob, JobType, Places
    <2>2. DOMAIN NoJob.targets = {} /\ DOMAIN NoJob.child = {} /\ DOMAIN NoJob.outcome = {}
          /\ Len(NoJob.targets) = 0 /\ NoJob.pc = "none"
      BY DEF NoJob
    <2> QED
      BY <2>1, <2>2, ReconcileAssumption DEF Shaped, JobInv
  <1>2. job = [r \in Reconciles |-> NoJob] /\ recorded = [r \in Reconciles |-> {}]
    BY DEF RecInit
  <1>3. TypeInv
    BY <1>1, <1>2, ReconcileAssumption DEF RecInit, ContractInit, TypeInv
  <1>4. DeploysInv
    BY ReconcileAssumption DEF RecInit, ContractInit, DeploysInv, Touched, Untouched
  <1>5. RecordedAt("none", {})
    BY DEF RecordedAt
  <1> QED
    BY <1>1, <1>2, <1>3, <1>4, <1>5 DEF IInv

-----------------------------------------------------------------------------
(***************************************************************************)
(* The theorems                                                            *)
(***************************************************************************)

\* The inductive invariant.
THEOREM ReconcileInvariance == RecSpec => []IInv
  <1> QED
    BY InvInit, InvNext, PTL DEF RecSpec

\* RecTypeOK, the type invariant.
THEOREM ReconcileTypeCorrect == RecSpec => []RecTypeOK
  <1> QED
    BY InvImpliesTypeOK, ReconcileInvariance, PTL

LEMMA UpToIsFinite ==
    ASSUME NEW n \in Nat
    PROVE  IsFiniteSet(1..n) /\ Cardinality(1..n) = n
  <1>1. 1 \in Int /\ n \in Int
    OBVIOUS
  <1>2. IsFiniteSet(1..n) /\ Cardinality(1..n) = IF 1 > n THEN 0 ELSE n - 1 + 1
    BY <1>1, FS_Interval
  <1> QED
    BY <1>2

\* The places of a list without repetitions, split by a set of them, and the items at
\* the rest: together they are as many as the list is long.
LEMMA PlacesAddUp ==
    ASSUME NEW S, NEW list \in Seq(S), NEW some \in SUBSET DOMAIN list,
           \A i, k \in DOMAIN list : list[i] = list[k] => i = k
    PROVE  Cardinality({list[i] : i \in DOMAIN list \ some}) + Cardinality(some) = Len(list)
  <1> DEFINE rest == DOMAIN list \ some
             items == {list[i] : i \in rest}
             place == [i \in rest |-> list[i]]
  <1>1. Len(list) \in Nat /\ DOMAIN list = 1..Len(list)
    OBVIOUS
  <1>2. IsFiniteSet(DOMAIN list) /\ Cardinality(DOMAIN list) = Len(list)
    <2>1. IsFiniteSet(1..Len(list)) /\ Cardinality(1..Len(list)) = Len(list)
      BY <1>1, UpToIsFinite
    <2> QED
      BY <1>1, <2>1
  <1>3. DOMAIN list \cap some = some
    OBVIOUS
  <1>4. IsFiniteSet(rest) /\ Cardinality(rest) = Len(list) - Cardinality(some)
    BY <1>2, <1>3, FS_Difference
  <1>5. Cardinality(some) \in Nat
    BY <1>2, FS_Subset, FS_CardinalityType
  <1>6. place \in Bijection(rest, items)
    BY DEF Bijection, Injection, Surjection, IsInjective
  <1>7. Cardinality(items) = Cardinality(rest)
    BY <1>4, <1>6, FS_Bijection DEF ExistsBijection
  <1> HIDE DEF rest, items, place
  <1>8. Cardinality(items) + Cardinality(some) = Len(list)
    BY <1>1, <1>4, <1>5, <1>7
  <1> QED
    BY <1>8 DEF items, rest

\* ResultIsEarned: whatever the caller's list and however the deploys race with those of an
\* operator, the counts of a result add up and each device's outcome is the one its own
\* deploy closed with, and fits what that deploy did to the device.
THEOREM ResultsAreEarned == RecSpec => []ResultIsEarned
  <1>1. IInv => ResultIsEarned
    <2> SUFFICES ASSUME IInv, NEW r \in Reconciles, job[r].pc \in {"finishing", "RETURNED"}
                 PROVE  /\ Cardinality({job[r].targets[i] : i \in
                               {j \in DOMAIN job[r].targets : job[r].outcome[j] # "skipped"}})
                           + Cardinality({i \in DOMAIN job[r].targets : job[r].outcome[i] = "skipped"})
                           = Len(job[r].targets)
                        /\ \A i \in DOMAIN job[r].targets : Earned(r, i)
      BY DEF ResultIsEarned, Count
    <2>1. TypeInv /\ DeploysInv /\ JobInv(job[r]) /\ job[r].targets \in Seq(Devices)
      BY JobHas DEF IInv
    <2>2. Cardinality({job[r].targets[i] : i \in
              {j \in DOMAIN job[r].targets : job[r].outcome[j] # "skipped"}})
          + Cardinality({i \in DOMAIN job[r].targets : job[r].outcome[i] = "skipped"})
          = Len(job[r].targets)
      <3> DEFINE some == {i \in DOMAIN job[r].targets : job[r].outcome[i] = "skipped"}
      <3>1. {j \in DOMAIN job[r].targets : job[r].outcome[j] # "skipped"}
              = DOMAIN job[r].targets \ some
        OBVIOUS
      <3>2. some \in SUBSET DOMAIN job[r].targets
        OBVIOUS
      <3> HIDE DEF some
      <3>3. Cardinality({job[r].targets[i] : i \in DOMAIN job[r].targets \ some})
              + Cardinality(some) = Len(job[r].targets)
        BY <2>1, <3>2, PlacesAddUp DEF JobInv
      <3> QED
        BY <3>1, <3>3 DEF some
    <2>3. ASSUME NEW i \in DOMAIN job[r].targets
          PROVE  Earned(r, i)
      <3>1. PICK d \in Devices, n \in 0..MaxRuns, outcome \in Outcomes :
               /\ d = job[r].targets[i] /\ n = job[r].child[i] /\ outcome = job[r].outcome[i]
               /\ Answered(d, n, outcome) /\ outcome # "pending"
        BY <2>1, TargetHas DEF JobInv
      <3>2. CASE n = 0
        <4>1. outcome = "skipped"
          BY <3>1, <3>2 DEF Answered
        <4> QED
          BY <3>1, <3>2, <4>1 DEF Earned
      <3>3. CASE n # 0
        <4>1. n \in 1..MaxRuns
          BY <3>3, ReconcileAssumption
        <4>2. Told(ended[d][n], outcome)
          BY <3>1, <3>3 DEF Answered
        <4>3. /\ ended[d][n] \in Touched => written[d][n]
              /\ ended[d][n] \in Untouched => ~written[d][n]
          BY <2>1, <4>1 DEF DeploysInv
        <4>4. /\ outcome \in Touched => ended[d][n] \in Touched
              /\ outcome \in Untouched \cup {"skipped"} => ended[d][n] \in Untouched
          BY <4>2 DEF Told, Touched, Untouched, Returned, Failed
        <4>5. \/ outcome = "skipped" /\ ended[d][n] = "DEVICE_NOT_FOUND"
              \/ outcome # "skipped" /\ outcome = ended[d][n]
              \/ outcome = "APPLY_FAILED" /\ ended[d][n] \in Failed
          BY <4>2 DEF Told, Returned
        <4> QED
          BY <3>1, <3>3, <4>3, <4>4, <4>5 DEF Earned, ChildEnding, Target
      <3> QED
        BY <3>2, <3>3
    <2> QED
      BY <2>2, <2>3
  <1> QED
    BY <1>1, ReconcileInvariance, PTL

\* ReturnedMeansSettled: a reconcile that returned left no deploy of its own at work.
THEOREM ReturnedIsSettled == RecSpec => []ReturnedMeansSettled
  <1>1. IInv => ReturnedMeansSettled
    <2> SUFFICES ASSUME IInv, NEW r \in Reconciles, job[r].pc = "RETURNED",
                        NEW i \in DOMAIN job[r].targets, job[r].child[i] # 0
                 PROVE  ChildEnding(r, i) # "open"
      BY DEF ReturnedMeansSettled
    <2>1. Told(ended[job[r].targets[i]][job[r].child[i]], job[r].outcome[i])
      BY DEF IInv, JobInv, Answered
    <2> QED
      BY <2>1 DEF Told, Returned, Failed, ChildEnding, Target
  <1> QED
    BY <1>1, ReconcileInvariance, PTL

\* RecordsFit: the records of a reconcile fit how it closed, wherever a write breaks or a
\* cancellation arrives, and it never has two last records.
THEOREM ReconcileRecordsFit == RecSpec => []RecordsFit
  <1>1. IInv => RecordsFit
    BY DEF IInv, RecordedAt, RecordsFit
  <1> QED
    BY <1>1, ReconcileInvariance, PTL
============================================================================
