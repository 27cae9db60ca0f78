------------------------- MODULE SqliteAuditProofs -------------------------
(***************************************************************************)
(* What is proved of SqliteAudit, for any processes, events and clocks and *)
(* any number of attempts.                                                 *)
(***************************************************************************)
EXTENDS SqliteAudit, TLAPS

-----------------------------------------------------------------------------
(***************************************************************************)
(* Type correctness, with what a row holds                                 *)
(***************************************************************************)

Points == {"new", "queued", "connected", "inserted", "committed", "done", "failed"}

AttemptType == [pc : Points, by : Processes \cup {"none"}]

\* The rows that can be stored: each is one of the events, with the text of the
\* instant at which it was made.
RowsOf == {Row(e) : e \in Events}

TypeInv ==
    /\ stamp \in [Events -> Stamps]
    /\ attempt \in [Attempts -> AttemptType]
    /\ lock \in [Processes -> Attempts \cup {Nobody}]
    /\ writer \in Attempts \cup {Nobody}
    /\ rows \in Seq(RowsOf)
    /\ acked \subseteq Events

LEMMA RowHolds ==
    ASSUME TypeInv, NEW i \in DOMAIN rows
    PROVE  rows[i].event \in Events /\ rows[i].text = UtcText(stamp[rows[i].event])
  <1>1. rows[i] \in RowsOf
    BY DEF TypeInv
  <1>2. PICK e \in Events : rows[i] = Row(e)
    BY <1>1 DEF RowsOf
  <1> QED
    BY <1>2 DEF Row

LEMMA TypeInvImpliesTypeOK == TypeInv => TypeOK
  BY RowHolds DEF TypeInv, TypeOK, AttemptType, Points

LEMMA EventOf == \A a \in Attempts : a[1] \in Events
  BY DEF Attempts

\* An append of an event gives rows again, and none is taken away.
LEMMA StoringType ==
    ASSUME TypeInv, NEW e \in Events
    PROVE  Storing(e) \in Seq(RowsOf)
  BY DEF Storing, TypeInv, RowsOf

LEMMA GotoType ==
    ASSUME TypeInv, NEW a \in Attempts, NEW pc \in Points, Goto(a, pc)
    PROVE  attempt' \in [Attempts -> AttemptType]
  BY DEF TypeInv, Goto, AttemptType

LEMMA ReleaseType ==
    ASSUME TypeInv, NEW a \in Attempts, Release(a)
    PROVE  lock' \in [Processes -> Attempts \cup {Nobody}] /\ writer' \in Attempts \cup {Nobody}
  BY DEF TypeInv, Release

LEMMA TypeInit == Init => TypeInv
  BY DEF Init, TypeInv, AttemptType, Points

LEMMA TypeNext == TypeInv /\ [Next]_vars => TypeInv'
  <1> SUFFICES ASSUME TypeInv, [Next]_vars PROVE TypeInv'
    OBVIOUS
  <1>b. stamp' = stamp
    BY DEF Next, vars, Start, Connect, Insert, Commit, Report, Busy, CutOff, Crash
  <1>c. RowsOf' = RowsOf
    BY <1>b DEF RowsOf, Row
  <1>1. ASSUME NEW a \in Attempts, NEW p \in Processes, Start(a, p) PROVE TypeInv'
    BY <1>1, <1>c DEF TypeInv, Start, AttemptType, Points
  <1>2. ASSUME NEW a \in Attempts, Connect(a) PROVE TypeInv'
    <2>1. attempt' \in [Attempts -> AttemptType]
      BY <1>2, GotoType DEF Connect, Points
    <2>2. lock' \in [Processes -> Attempts \cup {Nobody}]
      BY <1>2 DEF Connect, TypeInv
    <2> QED
      BY <2>1, <2>2, <1>2, <1>c DEF TypeInv, Connect
  <1>3. ASSUME NEW a \in Attempts, Insert(a) PROVE TypeInv'
    <2>1. attempt' \in [Attempts -> AttemptType]
      BY <1>3, GotoType DEF Insert, Points
    <2> QED
      BY <2>1, <1>3, <1>c DEF TypeInv, Insert
  <1>4. ASSUME NEW a \in Attempts, Commit(a) PROVE TypeInv'
    <2>1. attempt' \in [Attempts -> AttemptType]
      BY <1>4, GotoType DEF Commit, Points
    <2>2. rows' \in Seq(RowsOf)
      BY <1>4, StoringType, EventOf DEF Commit
    <2> QED
      BY <2>1, <2>2, <1>4, <1>c, ReleaseType DEF TypeInv, Commit
  <1>5. ASSUME NEW a \in Attempts, Report(a) PROVE TypeInv'
    <2>1. attempt' \in [Attempts -> AttemptType]
      BY <1>5, GotoType DEF Report, Points
    <2> QED
      BY <2>1, <1>5, <1>c, EventOf DEF TypeInv, Report
  <1>6. ASSUME NEW a \in Attempts, Busy(a) PROVE TypeInv'
    <2>1. attempt' \in [Attempts -> AttemptType]
      BY <1>6, GotoType DEF Busy, Points
    <2> QED
      BY <2>1, <1>6, <1>c, ReleaseType DEF TypeInv, Busy
  <1>7. ASSUME NEW a \in Attempts, CutOff(a) PROVE TypeInv'
    <2>1. attempt' \in [Attempts -> AttemptType]
      BY <1>7, GotoType DEF CutOff, Points
    <2>2. rows' \in Seq(RowsOf)
      BY <1>7, StoringType, EventOf DEF CutOff, TypeInv
    <2>3. lock' \in [Processes -> Attempts \cup {Nobody}] /\ writer' \in Attempts \cup {Nobody}
      BY <1>7, ReleaseType DEF CutOff, TypeInv
    <2> QED
      BY <2>1, <2>2, <2>3, <1>7, <1>c DEF TypeInv, CutOff
  <1>8. ASSUME NEW p \in Processes, Crash(p) PROVE TypeInv'
    <2>1. attempt' \in [Attempts -> AttemptType]
      BY <1>8 DEF Crash, TypeInv, AttemptType, Points
    <2>2. lock' \in [Processes -> Attempts \cup {Nobody}] /\ writer' \in Attempts \cup {Nobody}
      BY <1>8 DEF Crash, TypeInv
    <2> QED
      BY <2>1, <2>2, <1>8, <1>c DEF TypeInv, Crash
  <1>9. CASE UNCHANGED vars
    BY <1>9, <1>c DEF vars, TypeInv
  <1> QED
    BY <1>1, <1>2, <1>3, <1>4, <1>5, <1>6, <1>7, <1>8, <1>9 DEF Next

\* TypeOK, the type invariant: whatever fails or crashes, each attempt, lock and row is
\* one the code can have.
THEOREM AuditTypeCorrect == Spec => []TypeOK
  <1> QED
    BY TypeInit, TypeNext, TypeInvImpliesTypeOK, PTL DEF Spec

-----------------------------------------------------------------------------
(***************************************************************************)
(* The time range                                                          *)
(***************************************************************************)

\* The text of instants orders like the instants: where the seconds are the same, a
\* whole second's sign comes before a fraction's point.
LEMMA TextOrders ==
    ASSUME NEW x \in Nat, NEW y \in Nat
    PROVE  Before(IsoText(x), IsoText(y)) <=> x < y
  <1> DEFINE second(z) == z \div 2
             sign(z) == IF z % 2 = 0 THEN 43 ELSE 46
             fraction(z) == 5 * (z % 2)
  <1>1. \A z \in Nat : /\ second(z) \in Nat /\ z % 2 \in {0, 1}
                       /\ z = 2 * second(z) + (z % 2)
    OBVIOUS
  <1>2. Before(IsoText(x), IsoText(y)) <=>
            \/ second(x) < second(y)
            \/ second(x) = second(y) /\ sign(x) < sign(y)
            \/ second(x) = second(y) /\ sign(x) = sign(y) /\ fraction(x) < fraction(y)
    <2> DEFINE t == IsoText(x)
               u == IsoText(y)
    <2>1. /\ t[1] = second(x) /\ t[2] = sign(x) /\ t[3] = fraction(x)
          /\ u[1] = second(y) /\ u[2] = sign(y) /\ u[3] = fraction(y)
      BY DEF IsoText
    <2>2. Before(t, u) <=>
            \/ t[1] < u[1]
            \/ t[1] = u[1] /\ t[2] < u[2]
            \/ t[1] = u[1] /\ t[2] = u[2] /\ t[3] < u[3]
      <3> HIDE DEF t, u
      <3> QED
        BY DEF Before
    <2> HIDE DEF second, sign, fraction
    <2> QED
      BY <2>1, <2>2
  <1>3. x % 2 \in {0, 1} /\ y % 2 \in {0, 1}
    BY <1>1
  <1> QED
    BY <1>1, <1>2, <1>3

\* RangeIsExact: whatever the clocks' offsets, and whether or not an instant has a
\* fraction, the comparison of text selects the rows of the range and no other.
THEOREM TimeRangeIsExact == Spec => []RangeIsExact
  <1>1. TypeInv => RangeIsExact
    <2> SUFFICES ASSUME TypeInv, NEW start \in Stamps, NEW end \in Stamps
                 PROVE  InRange(start, end) =
                          {id \in DOMAIN rows : start.at <= stamp[rows[id].event].at
                                                /\ stamp[rows[id].event].at < end.at}
      BY DEF RangeIsExact
    <2>1. ASSUME NEW id \in DOMAIN rows
          PROVE  /\ Before(rows[id].text, UtcText(start)) <=> stamp[rows[id].event].at < start.at
                 /\ Before(rows[id].text, UtcText(end)) <=> stamp[rows[id].event].at < end.at
      <3>1. rows[id].event \in Events /\ rows[id].text = IsoText(stamp[rows[id].event].at)
        BY RowHolds DEF UtcText
      <3>2. stamp[rows[id].event].at \in Nat /\ start.at \in Nat /\ end.at \in Nat
        BY <3>1, SqliteAssumption DEF TypeInv, Stamps
      <3> QED
        BY <3>1, <3>2, TextOrders DEF UtcText
    <2>2. ASSUME NEW id \in DOMAIN rows
          PROVE  stamp[rows[id].event].at \in Nat /\ start.at \in Nat
      BY RowHolds, SqliteAssumption DEF TypeInv, Stamps
    <2> QED
      BY <2>1, <2>2 DEF InRange
  <1> QED
    BY TypeInit, TypeNext, <1>1, PTL DEF Spec

-----------------------------------------------------------------------------
(***************************************************************************)
(* The promise of the log                                                  *)
(***************************************************************************)

\* The events of the rows, in the order of their ids: what the log is said to hold.
EventsOf(table) == [i \in DOMAIN table |-> table[i].event]

Held(e) == \E i \in DOMAIN rows : rows[i].event = e

\* An attempt has committed only what is stored.
CommittedIsHeld == \A a \in Attempts : attempt[a].pc = "committed" => Held(a[1])

\* What a step does to the rows: it leaves them, or it stores an event.
LEMMA RowsStep ==
    ASSUME [Next]_vars
    PROVE  UNCHANGED rows \/ \E a \in Attempts : rows' = Storing(a[1])
  BY DEF Next, vars, Start, Connect, Insert, Commit, Report, Busy, CutOff, Crash

\* A row that is stored stays, and the event of an append is stored.
LEMMA StoringHolds ==
    ASSUME TypeInv, NEW e \in Events, rows' = Storing(e)
    PROVE  Held(e)' /\ \A f : Held(f) => Held(f)'
  <1>1. CASE Held(e)
    BY <1>1 DEF Held, Storing
  <1>2. CASE ~Held(e)
    <2>1. rows' = Append(rows, Row(e))
      BY <1>2 DEF Held, Storing
    <2>2. /\ DOMAIN rows = 1..Len(rows) /\ Len(rows) \in Nat
          /\ DOMAIN rows' = 1..(Len(rows) + 1)
          /\ \A i \in DOMAIN rows : rows'[i] = rows[i]
          /\ rows'[Len(rows) + 1] = Row(e)
      BY <2>1 DEF TypeInv
    <2>3. Row(e).event = e
      BY DEF Row
    <2> QED
      BY <2>2, <2>3 DEF Held
  <1> QED
    BY <1>1, <1>2

LEMMA HeldStays == TypeInv /\ [Next]_vars => \A e : Held(e) => Held(e)'
  <1> SUFFICES ASSUME TypeInv, [Next]_vars PROVE \A e : Held(e) => Held(e)'
    OBVIOUS
  <1>1. CASE UNCHANGED rows
    BY <1>1 DEF Held
  <1>2. ASSUME NEW a \in Attempts, rows' = Storing(a[1]) PROVE \A e : Held(e) => Held(e)'
    BY <1>2, StoringHolds, EventOf
  <1> QED
    BY <1>1, <1>2, RowsStep

LEMMA CommittedNext ==
    TypeInv /\ CommittedIsHeld /\ [Next]_vars => CommittedIsHeld'
  <1> SUFFICES ASSUME TypeInv, CommittedIsHeld, [Next]_vars,
                      NEW b \in Attempts, attempt'[b].pc = "committed"
               PROVE  Held(b[1])'
    BY DEF CommittedIsHeld
  <1>1. attempt[b].pc = "committed" \/ Commit(b)
    <2>1. ASSUME NEW a \in Attempts, NEW pc, Goto(a, pc), pc # "committed"
          PROVE  attempt[b].pc = "committed"
      BY <2>1 DEF Goto, TypeInv, AttemptType
    <2>2. ASSUME NEW a \in Attempts, Commit(a) PROVE attempt[b].pc = "committed" \/ a = b
      BY <2>2 DEF Commit, Goto, TypeInv, AttemptType
    <2>3. ASSUME NEW a \in Attempts, NEW p \in Processes, Start(a, p)
          PROVE  attempt[b].pc = "committed"
      BY <2>3 DEF Start, TypeInv, AttemptType
    <2>4. ASSUME NEW p \in Processes, Crash(p) PROVE attempt[b].pc = "committed"
      BY <2>4 DEF Crash, TypeInv, AttemptType
    <2>5. CASE UNCHANGED vars
      BY <2>5 DEF vars
    <2> QED
      BY <2>1, <2>2, <2>3, <2>4, <2>5 DEF Next, Connect, Insert, Report, Busy, CutOff
  <1>2. CASE attempt[b].pc = "committed"
    BY <1>2, HeldStays DEF CommittedIsHeld
  <1>3. CASE Commit(b)
    BY <1>3, StoringHolds, EventOf DEF Commit
  <1> QED
    BY <1>1, <1>2, <1>3

\* Storing is what AuditLog calls Store, or nothing.
LEMMA StoringIsStore ==
    ASSUME TypeInv, NEW e \in Events, rows' = Storing(e), UNCHANGED acked
    PROVE  Log!Store(e) \/ UNCHANGED Log!auditVars
  <1>1. CASE Held(e)
    BY <1>1 DEF Held, Storing, Log!auditVars
  <1>2. CASE ~Held(e)
    <2>1. rows' = Append(rows, Row(e))
      BY <1>2 DEF Held, Storing
    <2>2. EventsOf(rows) \in Seq(Events)
      BY RowHolds DEF EventsOf, TypeInv
    <2>3. EventsOf(rows') = Append(EventsOf(rows), e)
      BY <2>1, <2>2 DEF EventsOf, Row, TypeInv
    <2>4. e \notin ToSet(EventsOf(rows))
      BY <1>2 DEF ToSet, EventsOf, Held
    <2> QED
      BY <2>3, <2>4 DEF Log!Store, Log!ToSet, ToSet, EventsOf
  <1> QED
    BY <1>1, <1>2

LEMMA StepMaps ==
    TypeInv /\ CommittedIsHeld /\ [Next]_vars => [Log!AuditNext]_(Log!auditVars)
  <1> SUFFICES ASSUME TypeInv, CommittedIsHeld, [Next]_vars
               PROVE  [Log!AuditNext]_(Log!auditVars)
    OBVIOUS
  <1>1. ASSUME NEW a \in Attempts, Report(a) PROVE Log!AuditNext
    <2>1. Held(a[1]) /\ a[1] \in Events
      BY <1>1, EventOf DEF Report, CommittedIsHeld
    <2>2. a[1] \in ToSet(EventsOf(rows))
      BY <2>1 DEF ToSet, EventsOf, Held
    <2>3. Log!Ack(a[1])
      BY <1>1, <2>2 DEF Log!Ack, Log!ToSet, ToSet, Report, EventsOf
    <2> QED
      BY <2>1, <2>3 DEF Log!AuditNext
  <1>2. ASSUME UNCHANGED acked PROVE [Log!AuditNext]_(Log!auditVars)
    <2>1. CASE UNCHANGED rows
      BY <1>2, <2>1 DEF Log!auditVars
    <2>2. ASSUME NEW a \in Attempts, rows' = Storing(a[1])
          PROVE  [Log!AuditNext]_(Log!auditVars)
      BY <1>2, <2>2, StoringIsStore, EventOf DEF Log!AuditNext
    <2> QED
      BY <2>1, <2>2, RowsStep
  <1>3. UNCHANGED acked \/ \E a \in Attempts : Report(a)
    BY DEF Next, vars, Start, Connect, Insert, Commit, Report, Busy, CutOff, Crash
  <1> QED
    BY <1>1, <1>2, <1>3

\* ImplementsAuditLog: the file behaves as the audit log promises.  Rows are only
\* appended, each event once however often and by however many attempts it is sent, and
\* an append that reported success has stored its event, whichever process crashes.
THEOREM AuditIsDurable == Spec => ImplementsAuditLog
  <1>1. Init => Log!AuditInit /\ CommittedIsHeld
    BY DEF Init, Log!AuditInit, CommittedIsHeld, Held
  <1> QED
    BY <1>1, TypeInit, TypeNext, CommittedNext, StepMaps, PTL
       DEF Spec, ImplementsAuditLog, Log!AuditSpec
============================================================================
