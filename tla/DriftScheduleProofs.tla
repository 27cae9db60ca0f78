------------------------ MODULE DriftScheduleProofs ------------------------
(***************************************************************************)
(* What is proved of DriftSchedule, for any operators and intervals, any   *)
(* number of commands and runs, and any schedule found.                    *)
(***************************************************************************)
EXTENDS DriftSchedule, SequenceTheorems, TLAPS

-----------------------------------------------------------------------------
(***************************************************************************)
(* The inductive invariant                                                 *)
(***************************************************************************)

TaskType ==
    [pc : Places, nth : 0..MaxCommands, command : Commands \cup {"none"}, want : Values,
     answer : {"yes", "none"}, seen : Schedules, from : Values, change : Changes \cup {"none"}]

RecordType ==
    [by : Operators, nth : 1..MaxCommands, change : Changes, from : Values, to : Values]

RunType == [mode : Modes, open : BOOLEAN]

AppliedType == [by : Operators, nth : 1..MaxCommands, change : Changes]

TypeInv ==
    /\ schedule \in Schedules
    /\ runs \in Seq(RunType) /\ Len(runs) <= MaxRuns
    /\ task \in [Operators -> TaskType]
    /\ log \in Seq(RecordType)
    /\ applied \subseteq AppliedType
    /\ consent \in Consents /\ alone \in BOOLEAN

\* Before the server is changed.
Early == {"asking", "creating", "describing", "updating", "calling", "checking", "triggering"}

\* Each command is at a place of its own, and asks for a value of its kind; the one that
\* switches to the mode that writes goes on once the operator agreed, and is not written when
\* it changes nothing.
Placed(t) ==
    /\ t.pc = "asking" => t.command \in {"set", "trigger"}
    /\ t.pc = "creating" => t.command = "ensure"
    /\ t.pc \in {"describing", "updating"} => t.command \in {"ensure", "set"}
    /\ t.command = "ensure" => t.want \in Intervals
    /\ t.command = "set" => t.want \in Modes
    /\ t.pc \in Early \cup {"recording", "viewing"} => t.nth # 0
    /\ t.pc = "recording" => t.change # "none"
    /\ t.command = "set" /\ t.want = "remediate" /\ t.pc \in {"describing", "updating"}
          => t.answer = "yes"
    /\ t.command = "set" /\ t.pc = "updating" => t.from # t.want

\* What the commands of an operator have changed and recorded, by where it stands.
Logged(o, nth) == \E i \in DOMAIN log : log[i].by = o /\ log[i].nth = nth

Trail(o) ==
    /\ \A a \in applied : a.by = o => a.nth <= task[o].nth
    /\ task[o].pc \in Early => \A a \in applied : a.by = o => a.nth # task[o].nth
    /\ task[o].pc = "recording" =>
          /\ [by |-> o, nth |-> task[o].nth, change |-> task[o].change] \in applied
          /\ ~Logged(o, task[o].nth)
    /\ task[o].pc \in {"viewing", "done"} =>
          \A a \in applied : a.by = o /\ a.nth = task[o].nth => Logged(o, a.nth)

\* Every record is of a change that was made, and no two are of one command.
LogFits ==
    /\ \A i \in DOMAIN log :
          \E a \in applied : a.by = log[i].by /\ a.nth = log[i].nth /\ a.change = log[i].change
    /\ \A i, j \in DOMAIN log : log[i].by = log[j].by /\ log[i].nth = log[j].nth => i = j

\* The mode that writes was agreed to, or brought back.
Agreed == schedule.mode = "remediate" => consent # "none"

IInv ==
    /\ TypeInv
    /\ \A o \in Operators : Placed(task[o]) /\ Trail(o)
    /\ LogFits
    /\ Agreed

\* One command at a time: no two are open, what an update was built on still stands, and no
\* mode was brought back.
OneAtATime ==
    alone =>
        /\ consent # "revived"
        /\ \A o, p \in Operators : Over(o) \/ Over(p) \/ o = p
        /\ \A o \in Operators : task[o].pc = "updating" =>
              Rest(task[o].seen) = Rest(schedule) /\ task[o].from = Current(o, schedule)

\* The record a command has yet to write.
Pending(o) == task[o].pc = "recording"

Entry(o) ==
    [by |-> o, nth |-> task[o].nth, change |-> task[o].change, from |-> task[o].from,
     to |-> To(o)]

\* Every change is recorded, or its command is about to record it.
Unbroken ==
    \A a \in applied : Logged(a.by, a.nth) \/ (Pending(a.by) /\ task[a.by].nth = a.nth)

\* A record that tells all of a schedule.
Founding(record) == record.change \in {"created", "deleted"}

Started(records) == records # <<>> /\ Founding(records[1])

\* A record tells rightly what it changed.
Right(s, record) ==
    /\ record.change = "response_changed" => s.mode = record.from
    /\ record.change = "interval_changed" => s.interval = record.from

\* Replayed after s, a record gives t; one that tells all gives t after anything.
Leads(s, record, t) ==
    /\ Replay(s, record) = t /\ Right(s, record)
    /\ Founding(record) => Replay(NoSchedule, record) = t

\* The schedules the records give one after the other.
Unfold(h, records) ==
    [n \in 0..Len(records) |-> IF n = 0 THEN NoSchedule ELSE Replay(h[n - 1], records[n])]

IsReplay(h, records) == h = Unfold(h, records)

Replayable == \E h : IsReplay(h, log)

\* The history so far: what is recorded gives the schedule as it is or, while a command
\* has a record to write, as it was before that command.
Told(h) ==
    /\ \A i \in DOMAIN log : Started(log) => Right(h[i - 1], log[i])
    /\ (\A o \in Operators : ~Pending(o)) /\ Started(log) => h[Len(log)] = Rest(schedule)
    /\ \A o \in Operators : Pending(o) =>
          /\ Started(log) => Leads(h[Len(log)], Entry(o), Rest(schedule))
          /\ log = <<>> /\ Founding(Entry(o)) => Replay(NoSchedule, Entry(o)) = Rest(schedule)

History ==
    /\ OneAtATime
    /\ Replayable
    /\ alone /\ Unbroken => \A h : IsReplay(h, log) => Told(h)

LEMMA TypeInvImpliesTypeOK == TypeInv => TypeOK
  BY DEF TypeInv, TypeOK, TaskType, RecordType, AppliedType, RunType

LEMMA InvImpliesTrail == IInv => TrailFitsTheChanges
  BY DEF IInv, LogFits, Trail, Logged, TrailFitsTheChanges

LEMMA NoScheduleType == NoSchedule \in Schedules
  BY ScheduleAssumption DEF NoSchedule, Schedules, Modes

LEMMA IdleType == Idle \in TaskType
  BY NoScheduleType, ScheduleAssumption
     DEF Idle, TaskType, Places, Values, Modes

-----------------------------------------------------------------------------
(***************************************************************************)
(* The initial states                                                      *)
(***************************************************************************)

LEMMA InvInit == Init => IInv
  <1> SUFFICES ASSUME Init PROVE IInv
    OBVIOUS
  <1>1. schedule \in Schedules
    BY ScheduleAssumption DEF Init
  <1>2. TypeInv
    BY <1>1, IdleType, ScheduleAssumption DEF Init, TypeInv, Consents
  <1>3. \A o \in Operators : task[o] = Idle
    BY DEF Init
  <1>4. ASSUME NEW o \in Operators PROVE Placed(task[o]) /\ Trail(o)
    <2>1. Placed(Idle)
      BY DEF Placed, Idle, Early
    <2>2. Trail(o)
      BY <1>3 DEF Init, Trail, Idle, Early
    <2> QED
      BY <1>3, <2>1, <2>2
  <1>5. LogFits
    BY DEF Init, LogFits
  <1>6. Agreed
    BY DEF Init, Agreed
  <1> QED
    BY <1>2, <1>4, <1>5, <1>6 DEF IInv

-----------------------------------------------------------------------------
(***************************************************************************)
(* The steps by what they do                                               *)
(***************************************************************************)

\* A step of one operator: no other's task changes.
Own(o) == task' = [task EXCEPT ![o] = task'[o]]

\* A command is given.
Begins(o) ==
    /\ task[o].pc \in {"done", "failed"}
    /\ task'[o] \in TaskType /\ Placed(task'[o])
    /\ task'[o].nth = task[o].nth + 1 /\ task'[o].pc \in Early \ {"describing", "updating"}
    /\ alone' = (alone /\ \A other \in Operators : Over(other))
    /\ UNCHANGED <<schedule, runs, log, applied, consent>>

\* What an update was built on still stands.
Fresh(o) ==
    task[o].pc = "updating" =>
        Rest(task[o].seen) = Rest(schedule) /\ task[o].from = Current(o, schedule)

\* The mode that writes comes about with an agreement, or is brought back by an update
\* whose description no longer stands.
Consenting(o) ==
    /\ consent' \in Consents
    /\ schedule'.mode = "remediate" /\ consent' = "none"
          => schedule.mode = "remediate" /\ consent = "none"
    /\ consent' = "revived" => consent = "revived" \/ ~Fresh(o)

\* A command goes on, or ends, without a change.
Moves(o) ==
    /\ task'[o] \in TaskType /\ Placed(task'[o])
    /\ task'[o].nth = task[o].nth
    /\ task'[o].command = task[o].command /\ task'[o].want = task[o].want
    /\ task'[o].pc = "updating" => task'[o].seen = schedule /\ task'[o].from = Current(o, schedule)
    /\ \/ task[o].pc \in Early /\ task'[o].pc \in Early \cup {"viewing", "failed"}
       \/ task[o].pc = "viewing" /\ task'[o].pc = "done"
       \/ task'[o].pc = "failed"
    /\ UNCHANGED <<schedule, runs, log, applied, alone>>
    /\ consent' \in Consents /\ consent' \in {consent, "given"}

\* The runs after a step, which may have started one in the schedule's mode.
NextRuns ==
    {runs} \cup (IF Len(runs) < MaxRuns
                   THEN {Append(runs, [mode |-> schedule.mode, open |-> TRUE])} ELSE {})

\* A command changes the schedule, and the record it is to write tells how.
Alters(o) ==
    /\ task[o].pc \in Early
    /\ task'[o] \in TaskType /\ Placed(task'[o])
    /\ task'[o].nth = task[o].nth /\ task'[o].pc = "recording"
    /\ applied' = applied \cup {[by |-> o, nth |-> task[o].nth, change |-> task'[o].change]}
    /\ schedule' \in Schedules /\ Consenting(o)
    /\ runs' \in NextRuns
    /\ Fresh(o) => Leads(Rest(schedule), Entry(o)', Rest(schedule'))
    /\ UNCHANGED <<log, alone>>

\* An update is written that has nothing to record: what records tell of stays as it was.
Rewrites(o) ==
    /\ task[o].pc = "updating"
    /\ task'[o] \in TaskType /\ Placed(task'[o])
    /\ task'[o].nth = task[o].nth /\ task'[o].pc = "viewing"
    /\ schedule' \in Schedules /\ Consenting(o)
    /\ Fresh(o) => Rest(schedule') = Rest(schedule)
    /\ UNCHANGED <<runs, log, applied, alone>>

\* A command records what it changed.
Records(o) ==
    /\ task[o].pc = "recording"
    /\ task'[o] \in TaskType /\ Placed(task'[o])
    /\ task'[o].nth = task[o].nth
    /\ task'[o].pc \in {"viewing", "done"}
    /\ Entry(o) \in RecordType /\ log' = Append(log, Entry(o))
    /\ UNCHANGED <<schedule, runs, applied, consent, alone>>

\* The server's own steps.
Serves ==
    /\ schedule' \in Schedules /\ schedule'.mode = schedule.mode
    /\ Rest(schedule') = Rest(schedule)
    /\ \/ runs' \in NextRuns
       \/ \E n \in DOMAIN runs : runs' = [runs EXCEPT ![n].open = FALSE]
    /\ UNCHANGED <<task, log, applied, consent, alone>>

TypeAndPlace == TypeInv /\ \A o \in Operators : Placed(task[o])

\* Where the task of an operator goes by Goto, and by a change of more than its place.
LEMMA OwnTask ==
    ASSUME TypeInv, NEW o \in Operators, NEW t, task' = [task EXCEPT ![o] = t]
    PROVE  Own(o) /\ task'[o] = t
  BY DEF TypeInv, Own

LEMMA GotoTask ==
    ASSUME TypeInv, NEW o \in Operators, NEW pc \in Places, Goto(o, pc)
    PROVE  /\ Own(o) /\ task'[o] \in TaskType
           /\ task'[o].pc = pc /\ task'[o].nth = task[o].nth
           /\ task'[o].command = task[o].command /\ task'[o].want = task[o].want
           /\ task'[o].seen = task[o].seen /\ task'[o].change = task[o].change
           /\ task'[o].answer = task[o].answer
  <1>1. task[o] \in TaskType
    BY DEF TypeInv
  <1>2. task' = [task EXCEPT ![o] = [task[o] EXCEPT !.pc = pc]]
    BY DEF Goto, TypeInv
  <1>3. Own(o) /\ task'[o] = [task[o] EXCEPT !.pc = pc]
    BY <1>2, OwnTask
  <1> QED
    BY <1>1, <1>3 DEF TaskType

\* A command that fails, wherever it stands, has only moved.
LEMMA FailMoves ==
    ASSUME TypeAndPlace, NEW o \in Operators, Fail(o),
           UNCHANGED <<schedule, runs, log, applied, consent, alone>>
    PROVE  Own(o) /\ Moves(o)
  <1>1. "failed" \in Places
    BY DEF Places
  <1>2. /\ Own(o) /\ task'[o] \in TaskType
        /\ task'[o].pc = "failed" /\ task'[o].nth = task[o].nth
        /\ task'[o].command = task[o].command /\ task'[o].want = task[o].want
        /\ task'[o].seen = task[o].seen
    BY <1>1, GotoTask DEF Fail, TypeAndPlace
  <1>3. Placed(task'[o])
    BY <1>2 DEF TypeAndPlace, Placed, Early
  <1> QED
    BY <1>2, <1>3 DEF Moves, TypeAndPlace, TypeInv

LEMMA BeginBegins ==
    ASSUME TypeAndPlace, NEW o \in Operators, NEW command \in Commands, NEW want \in Values,
           NEW pc \in Early, Begin(o, command, want, pc),
           pc = "asking" => command \in {"set", "trigger"},
           pc = "creating" => command = "ensure",
           pc \notin {"describing", "updating"},
           command = "ensure" => want \in Intervals,
           command = "set" => want \in Modes
    PROVE  Own(o) /\ Begins(o)
  <1> DEFINE t == [Idle EXCEPT !.pc = pc, !.nth = task[o].nth + 1,
                               !.command = command, !.want = want]
  <1>1. Own(o) /\ task'[o] = t
    BY OwnTask DEF Begin, TypeAndPlace
  <1>2. task[o].nth \in 0..MaxCommands /\ task[o].nth + 1 \in 1..MaxCommands
    BY ScheduleAssumption DEF Begin, TypeAndPlace, TypeInv, TaskType
  <1>3. /\ t \in TaskType
        /\ t.pc = pc /\ t.nth = task[o].nth + 1 /\ t.command = command /\ t.want = want
        /\ t.seen = NoSchedule
    <2>1. pc \in Places /\ task[o].nth + 1 \in 0..MaxCommands
      BY <1>2, ScheduleAssumption DEF Places, Early
    <2>2. /\ t \in TaskType
          /\ t.pc = pc /\ t.nth = task[o].nth + 1 /\ t.command = command /\ t.want = want
          /\ t.seen = Idle.seen
      BY <2>1, IdleType DEF TaskType
    <2> QED
      BY <2>2 DEF Idle
  <1>4. Placed(t)
    BY <1>2, <1>3 DEF Placed, Early
  <1> QED
    BY <1>1, <1>3, <1>4 DEF Begins, Begin, Over, Early

LEMMA GivenBegins ==
    ASSUME TypeAndPlace, NEW o \in Operators, Given(o)
    PROVE  Own(o) /\ Begins(o)
  <1>1. CASE EnsureDriftSchedule(o)
    <2>1. PICK interval \in Intervals : Begin(o, "ensure", interval, "creating")
      BY <1>1 DEF EnsureDriftSchedule
    <2> QED
      BY <2>1, BeginBegins DEF Commands, Values, Early
  <1>2. CASE SetDriftResponse(o)
    <2>1. PICK mode \in Modes : Begin(o, "set", mode, "asking")
      BY <1>2 DEF SetDriftResponse
    <2> QED
      BY <2>1, BeginBegins DEF Commands, Values, Early
  <1>3. CASE TriggerDriftSchedule(o)
    BY <1>3, BeginBegins DEF TriggerDriftSchedule, Commands, Values, Early
  <1>4. CASE PauseDriftSchedule(o)
    BY <1>4, BeginBegins DEF PauseDriftSchedule, Commands, Values, Early
  <1>5. CASE ResumeDriftSchedule(o)
    BY <1>5, BeginBegins DEF ResumeDriftSchedule, Commands, Values, Early
  <1>6. CASE DeleteDriftSchedule(o)
    BY <1>6, BeginBegins DEF DeleteDriftSchedule, Commands, Values, Early
  <1> QED
    BY <1>1, <1>2, <1>3, <1>4, <1>5, <1>6 DEF Given

LEMMA AskMoves ==
    ASSUME TypeAndPlace, NEW o \in Operators, Ask(o)
    PROVE  Own(o) /\ Moves(o)
  <1>1. /\ task[o] \in TaskType /\ Placed(task[o]) /\ task[o].pc = "asking"
        /\ task[o].command \in {"set", "trigger"} /\ task[o].nth # 0
    BY DEF Ask, TypeAndPlace, TypeInv, Placed, Early
  <1>2. AfterAsking(o) \in {"describing", "checking"}
        /\ (AfterAsking(o) = "describing" => task[o].command = "set")
    BY <1>1 DEF AfterAsking
  <1>3. UNCHANGED <<schedule, runs, log, applied, consent, alone>> /\ consent \in Consents
    BY DEF Ask, TypeAndPlace, TypeInv
  <1>4. CASE Fail(o)
    BY <1>3, <1>4, FailMoves
  <1>5. CASE Goto(o, AfterAsking(o)) /\ ~NeedsConsent(o)
    <2>1. /\ Own(o) /\ task'[o] \in TaskType
          /\ task'[o].pc = AfterAsking(o) /\ task'[o].nth = task[o].nth
          /\ task'[o].command = task[o].command /\ task'[o].want = task[o].want
      BY <1>2, <1>5, GotoTask DEF TypeAndPlace, Places
    <2>2. ~(task[o].command = "set" /\ task[o].want = "remediate")
      BY <1>5 DEF NeedsConsent
    <2>3. Placed(task'[o])
      BY <1>1, <1>2, <2>1, <2>2 DEF Placed, Early
    <2> QED
      BY <1>1, <1>2, <1>3, <2>1, <2>3 DEF Moves, Early
  <1>6. CASE task' = [task EXCEPT ![o].pc = AfterAsking(o), ![o].answer = "yes"]
    <2> DEFINE t == [task[o] EXCEPT !.pc = AfterAsking(o), !.answer = "yes"]
    <2>1. task' = [task EXCEPT ![o] = t]
      BY <1>6 DEF TypeAndPlace, TypeInv
    <2>2. Own(o) /\ task'[o] = t
      BY <2>1, OwnTask DEF TypeAndPlace
    <2>3. /\ t \in TaskType /\ t.pc = AfterAsking(o) /\ t.nth = task[o].nth
          /\ t.command = task[o].command /\ t.want = task[o].want /\ t.answer = "yes"
      BY <1>1, <1>2 DEF TaskType, Places
    <2>4. Placed(t)
      BY <1>1, <1>2, <2>3 DEF Placed, Early
    <2> QED
      BY <1>1, <1>2, <1>3, <2>2, <2>3, <2>4 DEF Moves, Early
  <1> QED
    BY <1>4, <1>5, <1>6 DEF Ask

\* The record a command is to write of a change.
NewEntry(o, change) ==
    [by |-> o, nth |-> task[o].nth, change |-> change, from |-> task[o].from,
     to |-> IF change = "triggered" THEN task[o].seen.mode ELSE task[o].want]

LEMMA RestType ==
    ASSUME NEW s \in Schedules
    PROVE  /\ Rest(s) \in Schedules /\ Rest(s).running = 0 /\ Rest(s).exists = s.exists
           /\ Rest(s).interval = s.interval /\ Rest(s).mode = s.mode /\ Rest(s).paused = s.paused
  <1>1. 0 \in 0..MaxRuns
    BY ScheduleAssumption
  <1> QED
    BY <1>1 DEF Rest, Schedules

\* A schedule is told by its fields.
LEMMA RestIs ==
    ASSUME NEW s \in Schedules, NEW t \in Schedules,
           t.exists = s.exists, t.interval = s.interval, t.mode = s.mode, t.paused = s.paused,
           t.timeout = "none", t.running = 0
    PROVE  Rest(s) = t
  BY DEF Rest, Schedules

\* A change, and the record that is then to be written.
LEMMA ChangedAlters ==
    ASSUME TypeAndPlace, NEW o \in Operators, NEW change \in Changes, Changed(o, change),
           task[o].pc \in Early, schedule' \in Schedules, Consenting(o),
           runs' \in NextRuns, UNCHANGED <<log, alone>>,
           Fresh(o) => Leads(Rest(schedule), NewEntry(o, change), Rest(schedule'))
    PROVE  Own(o) /\ Alters(o)
  <1> DEFINE t == [task[o] EXCEPT !.pc = "recording", !.change = change]
  <1>1. task[o] \in TaskType /\ Placed(task[o])
    BY DEF TypeAndPlace, TypeInv
  <1>2. task' = [task EXCEPT ![o] = t]
    BY DEF Changed, TypeAndPlace, TypeInv
  <1>3. Own(o) /\ task'[o] = t
    BY <1>2, OwnTask DEF TypeAndPlace
  <1>4. /\ t \in TaskType /\ t.pc = "recording" /\ t.nth = task[o].nth /\ t.seen = task[o].seen
        /\ t.command = task[o].command /\ t.want = task[o].want /\ t.change = change
        /\ t.from = task[o].from
    BY <1>1 DEF TaskType, Places
  <1>5. Placed(t)
    BY <1>1, <1>4 DEF Placed, Early, Changes
  <1>6. Entry(o)' = NewEntry(o, change)
    BY <1>3, <1>4 DEF Entry, NewEntry, To
  <1>7. Fresh(o) => Leads(Rest(schedule), Entry(o)', Rest(schedule'))
    BY <1>6
  <1> QED
    BY <1>3, <1>4, <1>5, <1>7 DEF Changed, Alters

LEMMA CreateSorts ==
    ASSUME TypeAndPlace, NEW o \in Operators, Create(o)
    PROVE  Own(o) /\ (Moves(o) \/ Alters(o))
  <1>1. task[o] \in TaskType /\ Placed(task[o]) /\ task[o].pc = "creating"
    BY DEF Create, TypeAndPlace, TypeInv
  <1>2. task[o].command = "ensure" /\ task[o].want \in Intervals /\ task[o].nth # 0
    BY <1>1 DEF Placed, Early
  <1>3. CASE ~schedule.exists /\ Changed(o, "created")
             /\ schedule' = [NoSchedule EXCEPT !.exists = TRUE, !.interval = task[o].want,
                                               !.timeout = "RUN_TIMEOUT"]
    <2>1. schedule' = [exists |-> TRUE, interval |-> task[o].want, mode |-> "report",
                       paused |-> FALSE, timeout |-> "RUN_TIMEOUT", running |-> 0]
      BY <1>3 DEF NoSchedule
    <2>2. schedule' \in Schedules /\ schedule'.mode = "report"
      BY <2>1, <1>2, ScheduleAssumption DEF Schedules, Modes
    <2>3. "created" \in Changes /\ task[o].pc \in Early /\ Consenting(o)
      BY <1>1, <2>2 DEF Create, Changes, Early, Consenting, TypeAndPlace, TypeInv
    <2>4. runs' \in NextRuns /\ UNCHANGED <<log, alone>>
      BY DEF Create, NextRuns
    <2>5. Leads(Rest(schedule), NewEntry(o, "created"), Rest(schedule'))
      <3>1. Rest(schedule') = [NoSchedule EXCEPT !.exists = TRUE, !.interval = task[o].want]
        <4> DEFINE t == [NoSchedule EXCEPT !.exists = TRUE, !.interval = task[o].want]
        <4>1. NoSchedule.mode = "report" /\ NoSchedule.paused = FALSE
              /\ NoSchedule.timeout = "none" /\ NoSchedule.running = 0
          BY DEF NoSchedule
        <4>2. /\ t \in Schedules /\ t.exists = TRUE /\ t.interval = task[o].want
              /\ t.mode = "report" /\ t.paused = FALSE /\ t.timeout = "none" /\ t.running = 0
          BY <1>2, <4>1, NoScheduleType DEF Schedules
        <4> HIDE DEF t
        <4>3. Rest(schedule') = t
          BY <2>1, <2>2, <4>2, RestIs
        <4> QED
          BY <4>3 DEF t
      <3>2. NewEntry(o, "created").change = "created" /\ NewEntry(o, "created").to = task[o].want
        BY DEF NewEntry
      <3>3. \A s : Replay(s, NewEntry(o, "created"))
                    = [NoSchedule EXCEPT !.exists = TRUE, !.interval = task[o].want]
        BY <3>2 DEF Replay
      <3> QED
        BY <1>3, <3>1, <3>2, <3>3 DEF Leads, Right
    <2> QED
      BY <1>3, <2>2, <2>3, <2>4, <2>5, ChangedAlters
  <1>4. CASE Goto(o, "describing") /\ UNCHANGED <<schedule, applied>>
    <2>1. /\ Own(o) /\ task'[o] \in TaskType
          /\ task'[o].pc = "describing" /\ task'[o].nth = task[o].nth
          /\ task'[o].command = task[o].command /\ task'[o].want = task[o].want
          /\ task'[o].seen = task[o].seen
      BY <1>4, GotoTask DEF TypeAndPlace, Places
    <2>2. Placed(task'[o])
      BY <1>1, <1>2, <2>1 DEF Placed, Early
    <2> QED
      BY <1>1, <1>2, <1>4, <2>1, <2>2 DEF Create, Moves, Early, TypeAndPlace, TypeInv
  <1> QED
    BY <1>3, <1>4 DEF Create

LEMMA DescribeMoves ==
    ASSUME TypeAndPlace, NEW o \in Operators, DescribeForUpdate(o)
    PROVE  Own(o) /\ Moves(o)
  <1>1. /\ task[o] \in TaskType /\ Placed(task[o]) /\ task[o].pc = "describing"
        /\ task[o].command \in {"ensure", "set"} /\ task[o].nth # 0
    BY DEF DescribeForUpdate, TypeAndPlace, TypeInv, Placed, Early
  <1>5. consent \in Consents
    BY DEF TypeAndPlace, TypeInv
  <1>2. CASE Fail(o) /\ UNCHANGED consent
    BY <1>2, FailMoves DEF DescribeForUpdate
  <1>3. CASE Goto(o, "viewing")
    <2>1. /\ Own(o) /\ task'[o] \in TaskType
          /\ task'[o].pc = "viewing" /\ task'[o].nth = task[o].nth
          /\ task'[o].command = task[o].command /\ task'[o].want = task[o].want
          /\ task'[o].seen = task[o].seen
      BY <1>3, GotoTask DEF TypeAndPlace, Places
    <2>2. Placed(task'[o])
      BY <1>1, <2>1 DEF Placed, Early
    <2>3. consent' \in Consents /\ consent' \in {consent, "given"}
      BY <1>5 DEF DescribeForUpdate, Consents
    <2> QED
      BY <1>1, <2>1, <2>2, <2>3 DEF DescribeForUpdate, Moves, Early
  <1>4. CASE /\ UNCHANGED consent /\ ~NoUpdate(o)
             /\ task' = [task EXCEPT ![o].pc = "updating", ![o].seen = schedule,
                                  ![o].from = Current(o, schedule)]
    <2> DEFINE t == [task[o] EXCEPT !.pc = "updating", !.seen = schedule,
                                    !.from = Current(o, schedule)]
    <2>1. task' = [task EXCEPT ![o] = t]
      BY <1>4 DEF TypeAndPlace, TypeInv
    <2>2. Own(o) /\ task'[o] = t
      BY <2>1, OwnTask DEF TypeAndPlace
    <2>3. schedule \in Schedules /\ Current(o, schedule) \in Values
      BY DEF TypeAndPlace, TypeInv, Schedules, Current, Values
    <2>4. /\ t \in TaskType /\ t.pc = "updating" /\ t.nth = task[o].nth
          /\ t.command = task[o].command /\ t.want = task[o].want
          /\ t.seen = schedule /\ t.change = task[o].change /\ t.answer = task[o].answer
          /\ t.from = Current(o, schedule)
      BY <1>1, <2>3 DEF TaskType, Places
    <2>5. t.command = "set" => t.from # t.want
      BY <1>4, <2>4 DEF NoUpdate
    <2>6. Placed(t)
      BY <1>1, <2>4, <2>5 DEF Placed, Early
    <2> QED
      BY <1>1, <1>4, <1>5, <2>2, <2>4, <2>6 DEF DescribeForUpdate, Moves, Early
  <1> QED
    BY <1>2, <1>3, <1>4 DEF DescribeForUpdate

\* An update that is written, recorded or not.
LEMMA UpdateWrites ==
    ASSUME TypeAndPlace, NEW o \in Operators, task[o].pc = "updating",
           schedule' = Built(o), consent' = ConsentAfter(o)
    PROVE  /\ schedule' \in Schedules /\ Consenting(o)
           /\ Fresh(o) => Rest(schedule') = IF task[o].command = "ensure"
                                              THEN [Rest(schedule) EXCEPT !.interval = task[o].want]
                                              ELSE [Rest(schedule) EXCEPT !.mode = task[o].want]
  <1>1. /\ task[o] \in TaskType /\ Placed(task[o]) /\ task[o].command \in {"ensure", "set"}
        /\ schedule \in Schedules /\ task[o].seen \in Schedules /\ consent \in Consents
    BY DEF TypeAndPlace, TypeInv, TaskType, Placed
  <1>2. /\ task[o].seen.mode \in Modes /\ task[o].seen.paused \in BOOLEAN
        /\ task[o].seen.interval \in Intervals \cup {"none"}
    BY <1>1 DEF Schedules
  <1>3. /\ schedule' \in Schedules
        /\ schedule'.mode = IF task[o].command = "ensure" THEN task[o].seen.mode ELSE task[o].want
    <2>1. CASE task[o].command = "ensure"
      <3>1. task[o].want \in Intervals
        BY <1>1, <2>1 DEF Placed
      <3>2. schedule' = [schedule EXCEPT !.interval = task[o].want, !.mode = task[o].seen.mode,
                                         !.paused = task[o].seen.paused, !.timeout = "RUN_TIMEOUT"]
        BY <2>1 DEF Built
      <3> QED
        BY <1>1, <1>2, <2>1, <3>1, <3>2 DEF Schedules
    <2>2. CASE task[o].command = "set"
      <3>1. task[o].want \in Modes
        BY <1>1, <2>2 DEF Placed
      <3>2. schedule' = [schedule EXCEPT !.mode = task[o].want, !.interval = task[o].seen.interval,
                                         !.paused = task[o].seen.paused, !.timeout = "RUN_TIMEOUT"]
        BY <2>2 DEF Built
      <3> QED
        BY <1>1, <1>2, <2>2, <3>1, <3>2 DEF Schedules
    <2> QED
      BY <1>1, <2>1, <2>2
  <1>4. Fresh(o) => /\ task[o].seen.mode = schedule.mode /\ task[o].seen.paused = schedule.paused
                    /\ task[o].seen.interval = schedule.interval
    BY <1>1, RestType DEF Fresh
  <1>5. Consenting(o)
    <2>1. consent' = IF schedule'.mode = "report" THEN "none"
                     ELSE IF task[o].command = "set"
                       THEN IF task[o].answer = "yes" THEN "given" ELSE "none"
                       ELSE IF schedule.mode = "remediate" THEN consent ELSE "revived"
      BY DEF ConsentAfter
    <2>2. CASE task[o].command = "set"
      <3>1. schedule'.mode = task[o].want /\ (task[o].want = "remediate" => task[o].answer = "yes")
        BY <1>1, <1>3, <2>2 DEF Placed
      <3> QED
        BY <1>1, <2>1, <2>2, <3>1 DEF Consenting, Consents
    <2>3. CASE task[o].command = "ensure"
      <3>1. schedule'.mode = task[o].seen.mode /\ schedule'.mode \in Modes
        BY <1>2, <1>3, <2>3
      <3>2. consent' = "revived" => consent = "revived" \/ ~Fresh(o)
        BY <1>4, <2>1, <2>3, <3>1 DEF Modes
      <3> QED
        BY <1>1, <2>1, <2>3, <3>1, <3>2 DEF Consenting, Consents, Modes
    <2> QED
      BY <1>1, <2>2, <2>3
  <1>6. ASSUME Fresh(o)
        PROVE  Rest(schedule') = IF task[o].command = "ensure"
                                   THEN [Rest(schedule) EXCEPT !.interval = task[o].want]
                                   ELSE [Rest(schedule) EXCEPT !.mode = task[o].want]
    BY <1>1, <1>4, <1>6 DEF Built, Rest, Schedules
  <1> QED
    BY <1>3, <1>5, <1>6

LEMMA UpdateSorts ==
    ASSUME TypeAndPlace, NEW o \in Operators, Update(o)
    PROVE  Own(o) /\ (Moves(o) \/ Alters(o) \/ Rewrites(o))
  <1>1. /\ task[o] \in TaskType /\ Placed(task[o]) /\ task[o].pc = "updating"
        /\ task[o].command \in {"ensure", "set"} /\ task[o].nth # 0 /\ schedule \in Schedules
    BY DEF Update, TypeAndPlace, TypeInv, Placed, Early
  <1>2. CASE Fail(o) /\ UNCHANGED <<schedule, applied, consent>>
    BY <1>2, FailMoves DEF Update
  <1>3. Rest(schedule).mode = schedule.mode /\ Rest(schedule).interval = schedule.interval
        /\ Rest(schedule) \in Schedules
    BY <1>1, RestType
  <1>4. UNCHANGED <<runs, log, alone>>
    BY DEF Update
  <1> DEFINE change == IF task[o].command = "ensure" THEN "interval_changed" ELSE "response_changed"
  <1>5. CASE schedule' = Built(o) /\ consent' = ConsentAfter(o) /\ Changed(o, change)
    <2>1. schedule' \in Schedules /\ Consenting(o)
      BY <1>1, <1>5, UpdateWrites
    <2>2. change \in Changes /\ task[o].pc \in Early /\ runs' \in NextRuns
      BY <1>1, <1>4 DEF Changes, Early, NextRuns
    <2>3. ASSUME Fresh(o) PROVE Leads(Rest(schedule), NewEntry(o, change), Rest(schedule'))
      <3>1. task[o].from = Current(o, schedule)
        BY <1>1, <2>3 DEF Fresh
      <3>2. Rest(schedule') = IF task[o].command = "ensure"
                                THEN [Rest(schedule) EXCEPT !.interval = task[o].want]
                                ELSE [Rest(schedule) EXCEPT !.mode = task[o].want]
        BY <1>1, <1>5, <2>3, UpdateWrites
      <3> QED
        BY <1>3, <3>1, <3>2 DEF Leads, Replay, Right, NewEntry, Founding, Current
    <2> HIDE DEF change
    <2> QED
      BY <1>4, <1>5, <2>1, <2>2, <2>3, ChangedAlters
  <1>6. CASE /\ schedule' = Built(o) /\ consent' = ConsentAfter(o)
             /\ task[o].from = task[o].want /\ Goto(o, "viewing") /\ UNCHANGED applied
    <2>1. schedule' \in Schedules /\ Consenting(o)
      BY <1>1, <1>6, UpdateWrites
    <2>2. /\ Own(o) /\ task'[o] \in TaskType
          /\ task'[o].pc = "viewing" /\ task'[o].nth = task[o].nth
          /\ task'[o].command = task[o].command /\ task'[o].want = task[o].want
      BY <1>6, GotoTask DEF TypeAndPlace, Places
    <2>3. Placed(task'[o])
      BY <1>1, <2>2 DEF Placed, Early
    <2>4. ASSUME Fresh(o) PROVE Rest(schedule') = Rest(schedule)
      <3>1. task[o].command = "ensure" /\ task[o].want = schedule.interval
        BY <1>1, <1>6, <2>4 DEF Placed, Fresh, Current
      <3>2. Rest(schedule') = [Rest(schedule) EXCEPT !.interval = schedule.interval]
        BY <1>1, <1>6, <2>4, <3>1, UpdateWrites
      <3> QED
        BY <1>3, <3>2 DEF Schedules
    <2> QED
      BY <1>1, <1>4, <1>6, <2>1, <2>2, <2>3, <2>4 DEF Rewrites
  <1> QED
    BY <1>2, <1>5, <1>6 DEF Update

LEMMA CallSorts ==
    ASSUME TypeAndPlace, NEW o \in Operators, Call(o)
    PROVE  Own(o) /\ (Moves(o) \/ Alters(o))
  <1>1. task[o].pc = "calling" /\ schedule \in Schedules
    BY DEF Call, TypeAndPlace, TypeInv
  <1>2. CASE Fail(o) /\ UNCHANGED <<schedule, applied, consent>>
    BY <1>2, FailMoves DEF Call
  <1>3. ASSUME NEW b \in BOOLEAN, schedule' = [schedule EXCEPT !.paused = b]
        PROVE  schedule' \in Schedules /\ schedule'.mode = schedule.mode
    BY <1>1, <1>3 DEF Schedules
  <1>4. schedule' = NoSchedule => schedule' \in Schedules /\ schedule'.mode = "report"
    BY NoScheduleType DEF NoSchedule
  <1>6. /\ consent' \in Consents /\ consent' \in {consent, "none"}
        /\ consent' # consent => schedule'.mode = "report"
    <2>1. consent \in Consents /\ "none" \in Consents
      BY DEF TypeAndPlace, TypeInv, Consents
    <2> QED
      BY <1>4, <2>1 DEF Call
  <1>5. CASE \/ schedule' = [schedule EXCEPT !.paused = TRUE] /\ Changed(o, "paused")
             \/ schedule' = [schedule EXCEPT !.paused = FALSE] /\ Changed(o, "resumed")
             \/ schedule' = NoSchedule /\ Changed(o, "deleted")
    <2>1. schedule' \in Schedules /\ schedule'.mode \in {schedule.mode, "report"}
      <3>1. CASE schedule' = NoSchedule
        BY <3>1, <1>4
      <3>2. CASE schedule' = [schedule EXCEPT !.paused = TRUE]
        BY <3>2, <1>3
      <3>3. CASE schedule' = [schedule EXCEPT !.paused = FALSE]
        BY <3>3, <1>3
      <3>4. CASE Fail(o) /\ UNCHANGED schedule
        BY <3>4, <1>1
      <3> QED
        BY <3>1, <3>2, <3>3, <3>4 DEF Call
    <2>2. schedule' \in Schedules
      BY <1>1, <1>3, <1>4 DEF Call
    <2>3. /\ {"paused", "resumed", "deleted"} \subseteq Changes /\ task[o].pc \in Early
          /\ Consenting(o)
      BY <1>1, <1>6, <2>1 DEF Changes, Early, Consenting
    <2>4. runs' \in NextRuns /\ UNCHANGED <<log, alone>>
      BY DEF Call, NextRuns
    <2>5. PICK change \in {"paused", "resumed", "deleted"} :
             /\ Changed(o, change)
             /\ schedule' = CASE change = "paused" -> [schedule EXCEPT !.paused = TRUE]
                              [] change = "resumed" -> [schedule EXCEPT !.paused = FALSE]
                              [] change = "deleted" -> NoSchedule
      BY <1>5
    <2>6. Leads(Rest(schedule), NewEntry(o, change), Rest(schedule'))
      <3>1. CASE change = "deleted"
        <4>1. Rest(schedule') = NoSchedule
          BY <2>5, <3>1, NoScheduleType, RestIs DEF NoSchedule
        <4> QED
          BY <3>1, <4>1 DEF Leads, Replay, Right, NewEntry, Founding
      <3>2. CASE change = "paused"
        <4>1. Rest(schedule') = [Rest(schedule) EXCEPT !.paused = TRUE]
          BY <1>1, <2>5, <3>2 DEF Rest, Schedules
        <4> QED
          BY <3>2, <4>1 DEF Leads, Replay, Right, NewEntry, Founding
      <3>3. CASE change = "resumed"
        <4>1. Rest(schedule') = [Rest(schedule) EXCEPT !.paused = FALSE]
          BY <1>1, <2>5, <3>3 DEF Rest, Schedules
        <4> QED
          BY <3>3, <4>1 DEF Leads, Replay, Right, NewEntry, Founding
      <3> QED
        BY <3>1, <3>2, <3>3
    <2> QED
      BY <2>2, <2>3, <2>4, <2>5, <2>6, ChangedAlters
  <1> QED
    BY <1>2, <1>5 DEF Call

LEMMA CheckRunningMoves ==
    ASSUME TypeAndPlace, NEW o \in Operators, CheckRunning(o)
    PROVE  Own(o) /\ Moves(o)
  <1>1. /\ task[o] \in TaskType /\ Placed(task[o]) /\ task[o].pc = "checking" /\ task[o].nth # 0
    BY DEF CheckRunning, TypeAndPlace, TypeInv, Placed, Early
  <1>2. CASE Fail(o)
    BY <1>2, FailMoves DEF CheckRunning
  <1>3. CASE task' = [task EXCEPT ![o].pc = "triggering", ![o].seen = schedule]
    <2> DEFINE t == [task[o] EXCEPT !.pc = "triggering", !.seen = schedule]
    <2>1. task' = [task EXCEPT ![o] = t]
      BY <1>3 DEF TypeAndPlace, TypeInv
    <2>2. Own(o) /\ task'[o] = t
      BY <2>1, OwnTask DEF TypeAndPlace
    <2>3. /\ t \in TaskType /\ t.pc = "triggering" /\ t.nth = task[o].nth
          /\ t.command = task[o].command /\ t.want = task[o].want /\ t.seen = schedule
      BY <1>1 DEF TaskType, Places, TypeAndPlace, TypeInv
    <2>4. Placed(t)
      BY <1>1, <2>3 DEF Placed, Early
    <2> QED
      BY <1>1, <2>2, <2>3, <2>4 DEF CheckRunning, Moves, Early, TypeAndPlace, TypeInv
  <1> QED
    BY <1>2, <1>3 DEF CheckRunning

\* A run that starts is the next one, in the mode of the schedule.
LEMMA RunStarts ==
    ASSUME TypeInv, StartRun
    PROVE  /\ schedule' \in Schedules /\ schedule'.mode = schedule.mode /\ runs' \in NextRuns
           /\ Rest(schedule') = Rest(schedule)
  <1>1. schedule \in Schedules /\ Len(runs) + 1 \in 0..MaxRuns
    BY ScheduleAssumption DEF TypeInv, StartRun
  <1>2. schedule' \in Schedules /\ schedule'.mode = schedule.mode
    BY <1>1 DEF StartRun, Schedules
  <1>3. Rest(schedule') = Rest(schedule)
    BY <1>1 DEF StartRun, Schedules, Rest
  <1> QED
    BY <1>2, <1>3 DEF StartRun, NextRuns

LEMMA TriggerSorts ==
    ASSUME TypeAndPlace, NEW o \in Operators, Trigger(o)
    PROVE  Own(o) /\ (Moves(o) \/ Alters(o))
  <1>1. CASE Fail(o) /\ UNCHANGED <<schedule, runs, applied>>
    BY <1>1, FailMoves DEF Trigger
  <1>2. CASE Changed(o, "triggered")
             /\ IF schedule.running = 0 THEN StartRun ELSE UNCHANGED <<schedule, runs>>
    <2>1. schedule' \in Schedules /\ schedule'.mode = schedule.mode /\ runs' \in NextRuns
      BY <1>2, RunStarts DEF TypeAndPlace, TypeInv, NextRuns
    <2>2. "triggered" \in Changes /\ task[o].pc \in Early /\ Consenting(o)
      BY <2>1 DEF Trigger, Changes, Early, Consenting, TypeAndPlace, TypeInv
    <2>3. UNCHANGED <<log, alone>>
      BY DEF Trigger
    <2>4. Leads(Rest(schedule), NewEntry(o, "triggered"), Rest(schedule'))
      <3>1. Rest(schedule') = Rest(schedule)
        BY <1>2 DEF StartRun, Rest, TypeAndPlace, TypeInv, Schedules
      <3> QED
        BY <3>1 DEF Leads, Replay, Right, NewEntry, Founding
    <2> QED
      BY <1>2, <2>1, <2>2, <2>3, <2>4, ChangedAlters
  <1> QED
    BY <1>1, <1>2 DEF Trigger

LEMMA RecordSorts ==
    ASSUME TypeAndPlace, NEW o \in Operators, RecordChange(o)
    PROVE  Own(o) /\ Records(o)
  <1> DEFINE pc == IF task[o].command \in {"ensure", "set"} THEN "viewing" ELSE "done"
             record == [by |-> o, nth |-> task[o].nth, change |-> task[o].change,
                        from |-> task[o].from, to |-> To(o)]
  <1>1. /\ task[o] \in TaskType /\ Placed(task[o]) /\ task[o].pc = "recording"
        /\ task[o].nth # 0 /\ task[o].change # "none"
    BY DEF RecordChange, TypeAndPlace, TypeInv, Placed, Early
  <1>2. pc \in {"viewing", "done"} /\ pc \in Places
    BY DEF Places
  <1>3. /\ Own(o) /\ task'[o] \in TaskType
        /\ task'[o].pc = pc /\ task'[o].nth = task[o].nth
        /\ task'[o].command = task[o].command /\ task'[o].want = task[o].want
        /\ task'[o].seen = task[o].seen
    BY <1>2, GotoTask DEF RecordChange, TypeAndPlace
  <1>4. Placed(task'[o])
    BY <1>1, <1>2, <1>3 DEF Placed, Early
  <1>5. record \in RecordType
    <2>1. task[o].nth \in 1..MaxCommands /\ task[o].change \in Changes
          /\ task[o].from \in Values /\ task[o].want \in Values /\ task[o].seen \in Schedules
      BY <1>1, ScheduleAssumption DEF TaskType
    <2>2. To(o) \in Values
      BY <2>1 DEF To, Values, Schedules
    <2> QED
      BY <2>1, <2>2 DEF RecordType
  <1>6. record = Entry(o) /\ log' = Append(log, Entry(o))
    BY DEF RecordChange, Entry
  <1> QED
    BY <1>1, <1>2, <1>3, <1>4, <1>5, <1>6 DEF RecordChange, Records

LEMMA ViewMoves ==
    ASSUME TypeAndPlace, NEW o \in Operators, View(o)
    PROVE  Own(o) /\ Moves(o)
  <1>1. CASE Fail(o)
    BY <1>1, FailMoves DEF View
  <1>2. CASE Goto(o, "done")
    <2>1. /\ Own(o) /\ task'[o] \in TaskType
          /\ task'[o].pc = "done" /\ task'[o].nth = task[o].nth
          /\ task'[o].command = task[o].command /\ task'[o].want = task[o].want
          /\ task'[o].seen = task[o].seen
      BY <1>2, GotoTask DEF TypeAndPlace, Places
    <2>2. Placed(task'[o])
      BY <2>1 DEF TypeAndPlace, Placed, Early
    <2> QED
      BY <2>1, <2>2 DEF View, Moves, TypeAndPlace, TypeInv
  <1> QED
    BY <1>1, <1>2 DEF View, Fail

\* Every step is one of these.
LEMMA StepSorted ==
    ASSUME TypeAndPlace, Next
    PROVE  \/ \E o \in Operators : Own(o) /\ (Begins(o) \/ Moves(o) \/ Alters(o) \/ Rewrites(o) \/ Records(o))
           \/ Serves
  <1>1. ASSUME NEW o \in Operators, Given(o) \/ Steps(o) \/ Break(o)
        PROVE  Own(o) /\ (Begins(o) \/ Moves(o) \/ Alters(o) \/ Rewrites(o) \/ Records(o))
    <2>1. CASE Given(o)
      BY <2>1, GivenBegins
    <2>2. CASE Ask(o) \/ DescribeForUpdate(o) \/ CheckRunning(o) \/ View(o)
      BY <2>2, AskMoves, DescribeMoves, CheckRunningMoves, ViewMoves
    <2>3. CASE Create(o) \/ Update(o) \/ Call(o) \/ Trigger(o)
      BY <2>3, CreateSorts, UpdateSorts, CallSorts, TriggerSorts
    <2>4. CASE RecordChange(o)
      BY <2>4, RecordSorts
    <2>5. CASE RecordFails(o) \/ Break(o)
      BY <2>5, FailMoves DEF RecordFails, Break
    <2> QED
      BY <1>1, <2>1, <2>2, <2>3, <2>4, <2>5 DEF Steps
  <1>2. CASE Fire
    BY <1>2, RunStarts DEF Fire, Serves, TypeAndPlace
  <1>3. ASSUME NEW n \in DOMAIN runs, RunEnds(n) PROVE Serves
    <2> DEFINE s == [schedule EXCEPT !.running = 0]
    <2>1. schedule \in Schedules /\ 0 \in 0..MaxRuns
      BY ScheduleAssumption DEF TypeAndPlace, TypeInv
    <2>2. s \in Schedules /\ s.mode = schedule.mode
      BY <2>1 DEF Schedules
    <2>3. schedule' \in Schedules /\ schedule'.mode = schedule.mode
      BY <1>3, <2>1, <2>2 DEF RunEnds
    <2>4. Rest(schedule') = Rest(schedule)
      BY <1>3, <2>1 DEF RunEnds, Rest, Schedules
    <2> QED
      BY <1>3, <2>3, <2>4 DEF RunEnds, Serves
  <1> QED
    BY <1>1, <1>2, <1>3 DEF Next

-----------------------------------------------------------------------------
(***************************************************************************)
(* The invariant is preserved                                              *)
(***************************************************************************)

LEMMA RunsHold ==
    ASSUME TypeInv, NEW n \in DOMAIN runs
    PROVE  runs[n] \in RunType
  BY DEF TypeInv

LEMMA RunsType ==
    ASSUME TypeInv, runs' \in NextRuns \/ \E n \in DOMAIN runs : runs' = [runs EXCEPT ![n].open = FALSE]
    PROVE  runs' \in Seq(RunType) /\ Len(runs') <= MaxRuns
  <1>1. CASE runs' = runs
    BY <1>1 DEF TypeInv
  <1>2. CASE Len(runs) < MaxRuns /\ runs' = Append(runs, [mode |-> schedule.mode, open |-> TRUE])
    <2> DEFINE r == [mode |-> schedule.mode, open |-> TRUE]
    <2>1. r \in RunType
      BY DEF TypeInv, Schedules, RunType
    <2>2. runs' = Append(runs, r)
      BY <1>2
    <2> HIDE DEF r
    <2>3. runs \in Seq(RunType) /\ Len(runs) \in Nat /\ Len(runs) + 1 <= MaxRuns
      BY <1>2, ScheduleAssumption DEF TypeInv
    <2> QED
      BY <2>1, <2>2, <2>3
  <1>3. ASSUME NEW n \in DOMAIN runs, runs' = [runs EXCEPT ![n].open = FALSE]
        PROVE  runs' \in Seq(RunType) /\ Len(runs') = Len(runs)
    <2> DEFINE r == [runs[n] EXCEPT !.open = FALSE]
    <2>1. r \in RunType
      <3>1. runs[n] \in RunType
        BY RunsHold
      <3> QED
        BY <3>1 DEF RunType
    <2>2. runs' = [runs EXCEPT ![n] = r]
      BY <1>3
    <2> HIDE DEF r
    <2> QED
      BY <2>1, <2>2 DEF TypeInv
  <1> QED
    BY <1>1, <1>2, <1>3 DEF NextRuns, TypeInv

LEMMA AloneType == TypeInv /\ Next => alone' \in BOOLEAN
  <1> SUFFICES ASSUME TypeInv, Next PROVE alone' \in BOOLEAN
    OBVIOUS
  <1> USE DEF TypeInv
  <1>1. ASSUME NEW o \in Operators, Given(o) PROVE alone' \in BOOLEAN
    <2>1. alone' = (alone /\ \A other \in Operators : Over(other))
      BY <1>1 DEF Given, EnsureDriftSchedule, SetDriftResponse, TriggerDriftSchedule,
                  PauseDriftSchedule, ResumeDriftSchedule, DeleteDriftSchedule, Begin
    <2> QED
      BY <2>1
  <1>2. ASSUME NEW o \in Operators, Steps(o) \/ Break(o) PROVE alone' \in BOOLEAN
    BY <1>2 DEF Steps, Break, Ask, Create, DescribeForUpdate, Update, Call, CheckRunning,
                Trigger, RecordChange, RecordFails, View
  <1>3. CASE Fire \/ \E n \in DOMAIN runs : RunEnds(n)
    BY <1>3 DEF Fire, RunEnds
  <1> QED
    BY <1>1, <1>2, <1>3 DEF Next

LEMMA TypeNext ==
    ASSUME TypeAndPlace, Next
    PROVE  TypeAndPlace'
  <1>1. alone' \in BOOLEAN
    BY AloneType DEF TypeAndPlace
  <1>2. TypeInv
    BY DEF TypeAndPlace
  <1>3. ASSUME NEW o \in Operators, Own(o), Begins(o) \/ Moves(o) \/ Alters(o) \/ Rewrites(o) \/ Records(o)
        PROVE  TypeAndPlace'
    <2>1. task' \in [Operators -> TaskType] /\ \A other \in Operators : Placed(task'[other])
      <3>1. task'[o] \in TaskType /\ Placed(task'[o])
        BY <1>3 DEF Begins, Moves, Alters, Rewrites, Records
      <3>2. PICK t \in TaskType : task' = [task EXCEPT ![o] = t] /\ Placed(t)
        BY <1>3, <3>1 DEF Own
      <3> QED
        BY <3>2 DEF TypeAndPlace, TypeInv
    <2>2. schedule' \in Schedules
      BY <1>2, <1>3 DEF Begins, Moves, Alters, Rewrites, Records, TypeInv
    <2>3. runs' \in Seq(RunType) /\ Len(runs') <= MaxRuns
      BY <1>2, <1>3, RunsType DEF Begins, Moves, Alters, Rewrites, Records, NextRuns
    <2>4. applied' \subseteq AppliedType
      <3>1. CASE Alters(o)
        <4>1. /\ task'[o].nth \in 1..MaxCommands /\ task'[o].change \in Changes
              /\ task'[o].nth = task[o].nth
          BY <3>1, ScheduleAssumption DEF Alters, TaskType, Placed
        <4> QED
          BY <1>2, <3>1, <4>1 DEF Alters, TypeInv, AppliedType
      <3> QED
        BY <1>2, <1>3, <3>1 DEF Begins, Moves, Rewrites, Records, TypeInv
    <2>6. consent' \in Consents
      BY <1>2, <1>3 DEF Begins, Moves, Alters, Rewrites, Records, Consenting, TypeInv
    <2>5. log' \in Seq(RecordType)
      BY <1>2, <1>3 DEF Begins, Moves, Alters, Rewrites, Records, TypeInv
    <2> QED
      BY <1>1, <2>1, <2>2, <2>3, <2>4, <2>5, <2>6 DEF TypeAndPlace, TypeInv
  <1>4. CASE Serves
    <2>1. runs' \in Seq(RunType) /\ Len(runs') <= MaxRuns
      BY <1>2, <1>4, RunsType DEF Serves
    <2> QED
      BY <1>1, <1>4, <2>1 DEF Serves, TypeAndPlace, TypeInv
  <1> QED
    BY <1>3, <1>4, StepSorted

\* What the trail of an operator is about: its task, and what it changed and recorded.
LEMMA TrailNext ==
    ASSUME IInv, TypeAndPlace', NEW o \in Operators, Own(o),
           Begins(o) \/ Moves(o) \/ Alters(o) \/ Rewrites(o) \/ Records(o)
    PROVE  (\A other \in Operators : Trail(other)') /\ LogFits'
  <1>1. TypeInv /\ Trail(o) /\ LogFits /\ task[o].nth \in Nat
    BY ScheduleAssumption DEF IInv, TypeInv, TaskType
  <1>2. \A other \in Operators \ {o} : task'[other] = task[other]
    BY DEF Own, IInv, TypeInv
  <1>3. CASE UNCHANGED <<log, applied>>
    <2>1. LogFits'
      BY <1>1, <1>3 DEF LogFits
    <2>2. ASSUME NEW other \in Operators \ {o} PROVE Trail(other)'
      BY <1>2, <1>3 DEF IInv, Trail, Logged
    <2>3. Trail(o)'
      <3>1. CASE Begins(o)
        <4>1. /\ task'[o].nth = task[o].nth + 1
              /\ task'[o].pc \notin {"recording", "viewing", "done"}
          BY <3>1 DEF Begins, Early
        <4>2. \A a \in applied : a.nth \in Nat
          BY <1>1 DEF TypeInv, AppliedType
        <4> QED
          BY <1>1, <1>3, <4>1, <4>2 DEF Trail
      <3>2. CASE Moves(o)
        BY <1>1, <1>3, <3>2 DEF Moves, Trail, Logged, Early
      <3>4. CASE Rewrites(o)
        BY <1>1, <1>3, <3>4 DEF Rewrites, Trail, Logged, Early
      <3>3. ~Alters(o) /\ ~Records(o)
        <4>1. CASE Alters(o)
          BY <1>1, <1>3, <4>1 DEF Alters, Trail
        <4>2. CASE Records(o)
          BY <1>1, <1>3, <4>2 DEF Records, TypeInv
        <4> QED
          BY <4>1, <4>2
      <3> QED
        BY <3>1, <3>2, <3>3, <3>4
    <2> QED
      BY <2>1, <2>2, <2>3
  <1>4. CASE Alters(o)
    <2> DEFINE new == [by |-> o, nth |-> task[o].nth, change |-> task'[o].change]
    <2>1. /\ applied' = applied \cup {new} /\ log' = log
          /\ task'[o].nth = task[o].nth /\ task'[o].pc = "recording" /\ task[o].pc \in Early
      BY <1>4 DEF Alters
    <2>2. LogFits'
      BY <1>1, <2>1 DEF LogFits
    <2>3. ASSUME NEW other \in Operators \ {o} PROVE Trail(other)'
      BY <1>2, <2>1 DEF IInv, Trail, Logged
    <2>4. ~Logged(o, task[o].nth)
      BY <1>1, <2>1 DEF Logged, LogFits, Trail
    <2>5. Trail(o)'
      BY <1>1, <2>1, <2>4 DEF Trail, Logged, Early
    <2> QED
      BY <2>2, <2>3, <2>5
  <1>5. CASE Records(o)
    <2>1. PICK record \in RecordType :
             /\ record.by = o /\ record.nth = task[o].nth /\ record.change = task[o].change
             /\ log' = Append(log, record)
      BY <1>5 DEF Records, Entry
    <2>2. /\ Len(log) \in Nat /\ DOMAIN log = 1..Len(log) /\ DOMAIN log' = 1..(Len(log) + 1)
          /\ \A i \in DOMAIN log : log'[i] = log[i]
          /\ log'[Len(log) + 1] = record
      BY <1>1, <2>1 DEF TypeInv
    <2>3. /\ applied' = applied /\ task[o].pc = "recording"
          /\ task'[o].nth = task[o].nth /\ task'[o].pc \in {"viewing", "done"}
      BY <1>5 DEF Records
    <2>4. /\ [by |-> o, nth |-> task[o].nth, change |-> task[o].change] \in applied
          /\ ~Logged(o, task[o].nth)
      BY <1>1, <2>3 DEF Trail
    <2>5. LogFits'
      <3>1. ASSUME NEW i \in DOMAIN log'
            PROVE  \E a \in applied : a.by = log'[i].by /\ a.nth = log'[i].nth
                                      /\ a.change = log'[i].change
        <4>1. CASE i \in DOMAIN log
          BY <1>1, <2>2, <4>1 DEF LogFits
        <4>2. CASE i = Len(log) + 1
          BY <2>1, <2>2, <2>4, <4>2
        <4> QED
          BY <2>2, <4>1, <4>2
      <3>2. ASSUME NEW i \in DOMAIN log', NEW j \in DOMAIN log',
                   log'[i].by = log'[j].by, log'[i].nth = log'[j].nth
            PROVE  i = j
        <4>1. \A k \in DOMAIN log : log[k].by # record.by \/ log[k].nth # record.nth
          BY <2>1, <2>4 DEF Logged
        <4> QED
          BY <1>1, <2>2, <3>2, <4>1 DEF LogFits
      <3> QED
        BY <2>3, <3>1, <3>2 DEF LogFits
    <2>6. \A by \in Operators, nth \in Nat : Logged(by, nth) => Logged(by, nth)'
      BY <2>2 DEF Logged
    <2>7. Logged(o, task[o].nth)'
      BY <2>1, <2>2, <2>3 DEF Logged
    <2>8. ASSUME NEW other \in Operators \ {o} PROVE Trail(other)'
      <3>1. task[other].nth \in Nat /\ Trail(other)
        BY <1>1, ScheduleAssumption DEF IInv, TypeInv, TaskType
      <3>2. Logged(other, task[other].nth)' => Logged(other, task[other].nth) 
        BY <1>2, <2>1, <2>2 DEF Logged
      <3> QED
        BY <1>2, <2>3, <2>6, <3>1, <3>2 DEF Trail
    <2>9. Trail(o)'
      BY <1>1, <2>3, <2>7 DEF Trail, Early
    <2> QED
      BY <2>5, <2>8, <2>9
  <1> QED
    BY <1>3, <1>4, <1>5 DEF Begins, Moves, Rewrites

\* The mode that writes is never left without an agreement, or a stale description to blame.
LEMMA AgreedNext ==
    ASSUME IInv, Next
    PROVE  Agreed'
  <1>1. TypeAndPlace /\ Agreed
    BY DEF IInv, TypeAndPlace
  <1>2. ASSUME NEW o \in Operators, Alters(o) \/ Rewrites(o) PROVE Agreed'
    BY <1>1, <1>2 DEF Alters, Rewrites, Consenting, Agreed
  <1>3. ASSUME NEW o \in Operators, Begins(o) \/ Moves(o) \/ Records(o) PROVE Agreed'
    BY <1>1, <1>3 DEF Begins, Moves, Records, Agreed
  <1>4. CASE Serves
    BY <1>1, <1>4 DEF Serves, Agreed
  <1> QED
    BY <1>1, <1>2, <1>3, <1>4, StepSorted

LEMMA InvNext == IInv /\ [Next]_vars => IInv'
  <1> SUFFICES ASSUME IInv, [Next]_vars PROVE IInv'
    OBVIOUS
  <1>1. CASE Next
    <2>1. TypeAndPlace /\ TypeAndPlace'
      BY <1>1, TypeNext DEF IInv, TypeAndPlace
    <2>2. (\A o \in Operators : Trail(o)') /\ LogFits'
      <3>1. CASE Serves
        BY <3>1 DEF Serves, IInv, Trail, Logged, LogFits
      <3> QED
        BY <1>1, <2>1, <3>1, StepSorted, TrailNext
    <2> QED
      BY <1>1, <2>1, <2>2, AgreedNext DEF IInv, TypeAndPlace
  <1>2. CASE UNCHANGED vars
    BY <1>2 DEF vars, IInv, TypeInv, Placed, Trail, Logged, LogFits, Agreed
  <1> QED
    BY <1>1, <1>2

-----------------------------------------------------------------------------
(***************************************************************************)
(* The records tell the schedule                                           *)
(***************************************************************************)

LEMMA HistoryInit == Init => History
  <1> SUFFICES ASSUME Init PROVE History
    OBVIOUS
  <1>1. \A o \in Operators : task[o].pc = "done"
    BY DEF Init, Idle
  <1>2. log = <<>> /\ Len(log) = 0
    BY DEF Init
  <1>3. OneAtATime
    BY <1>1 DEF OneAtATime, Over, Init
  <1>4. Replayable
    <2> DEFINE h == [n \in 0..Len(log) |-> NoSchedule]
    <2>1. Unfold(h, log) = h
      BY <1>2 DEF Unfold
    <2> QED
      BY <2>1 DEF Replayable, IsReplay
  <1>5. \A h : IsReplay(h, log) => Told(h)
    BY <1>1, <1>2 DEF Told, Pending, Started
  <1> QED
    BY <1>3, <1>4, <1>5 DEF History

\* No change is left unrecorded by commands that are over or have changed nothing yet.
LEMMA UnbrokenMeansNonePending ==
    ASSUME IInv, \A a \in applied : Logged(a.by, a.nth)
    PROVE  Unbroken /\ \A o \in Operators : ~Pending(o)
  <1>1. ASSUME NEW o \in Operators, Pending(o) PROVE FALSE
    <2> DEFINE a == [by |-> o, nth |-> task[o].nth, change |-> task[o].change]
    <2>1. a \in applied /\ a.by = o /\ a.nth = task[o].nth /\ ~Logged(o, task[o].nth)
      BY <1>1 DEF IInv, Trail, Pending
    <2> QED
      BY <2>1
  <1> QED
    BY <1>1 DEF Unbroken

\* A replay of a longer log is one of the log, and one step more.
LEMMA ReplayOfAppend ==
    ASSUME NEW E, NEW records \in Seq(E), NEW record \in E
    PROVE  /\ \A h : IsReplay(h, Append(records, record)) =>
                 \E g : /\ IsReplay(g, records) /\ \A n \in 0..Len(records) : h[n] = g[n]
                        /\ h[Len(records) + 1] = Replay(g[Len(records)], record)
           /\ (\E g : IsReplay(g, records)) => \E h : IsReplay(h, Append(records, record))
  <1> DEFINE longer == Append(records, record)
             N == Len(records)
  <1>1. /\ N \in Nat /\ Len(longer) = N + 1 /\ longer[N + 1] = record
        /\ \A i \in 1..N : longer[i] = records[i]
    BY LenProperties, AppendProperties
  <1> HIDE DEF longer, N
  <1>2. /\ \A n \in 0..N : n \in 0..(N + 1) /\ n # N + 1 /\ (n # 0 => n \in 1..N /\ n - 1 \in 0..N)
        /\ \A n \in 0..(N + 1) : n \in 0..N \/ n = N + 1
        /\ N + 1 \in 0..(N + 1) /\ N + 1 # 0 /\ (N + 1) - 1 = N /\ N \in 0..N
    BY <1>1
  <1>3. ASSUME NEW h, IsReplay(h, longer)
        PROVE  \E g : /\ IsReplay(g, records) /\ \A n \in 0..N : h[n] = g[n]
                      /\ h[N + 1] = Replay(g[N], record)
    <2> DEFINE g == [n \in 0..N |-> h[n]]
    <2>1. /\ h = [n \in 0..(N + 1) |-> IF n = 0 THEN NoSchedule ELSE Replay(h[n - 1], longer[n])]
      BY <1>1, <1>3 DEF IsReplay, Unfold
    <2>2. \A n \in 0..(N + 1) : h[n] = IF n = 0 THEN NoSchedule ELSE Replay(h[n - 1], longer[n])
      BY <2>1
    <2>3. h[N + 1] = Replay(g[N], record)
      BY <1>1, <1>2, <2>2
    <2>4. \A n \in 0..N : g[n] = IF n = 0 THEN NoSchedule ELSE Replay(g[n - 1], records[n])
      BY <1>1, <1>2, <2>2
    <2>5. g = [n \in 0..N |-> IF n = 0 THEN NoSchedule ELSE Replay(g[n - 1], records[n])]
      <3> DEFINE k == [n \in 0..N |-> IF n = 0 THEN NoSchedule ELSE Replay(g[n - 1], records[n])]
      <3>1. \A n \in 0..N : k[n] = g[n]
        BY <2>4
      <3> QED
        BY <3>1
    <2>6. IsReplay(g, records)
      BY <2>5 DEF IsReplay, Unfold, N
    <2> QED
      BY <2>3, <2>6
  <1>4. ASSUME NEW g, IsReplay(g, records) PROVE \E h : IsReplay(h, longer)
    <2> DEFINE h == [n \in 0..(N + 1) |-> IF n = N + 1 THEN Replay(g[N], record) ELSE g[n]]
               k == [n \in 0..(N + 1) |-> IF n = 0 THEN NoSchedule ELSE Replay(h[n - 1], longer[n])]
    <2>1. g = [n \in 0..N |-> IF n = 0 THEN NoSchedule ELSE Replay(g[n - 1], records[n])]
      BY <1>4 DEF IsReplay, Unfold, N
    <2>2. \A n \in 0..N : g[n] = IF n = 0 THEN NoSchedule ELSE Replay(g[n - 1], records[n])
      BY <2>1
    <2>3. \A n \in 0..N : h[n] = g[n]
      BY <1>2
    <2>4. h[N + 1] = Replay(g[N], record)
      BY <1>2
    <2>5. \A n \in 0..(N + 1) : h[n] = IF n = 0 THEN NoSchedule ELSE Replay(h[n - 1], longer[n])
      <3> HIDE DEF h
      <3> QED
        BY <1>1, <1>2, <2>2, <2>3, <2>4
    <2>6. h = k
      <3>1. \A n \in 0..(N + 1) : k[n] = h[n]
        <4> HIDE DEF h
        <4> QED
          BY <2>5
      <3> QED
        BY <3>1
    <2>7. IsReplay(h, longer)
      BY <1>1, <2>6 DEF IsReplay, Unfold
    <2> QED
      BY <2>7
  <1> QED
    BY <1>3, <1>4 DEF longer, N

\* One command at a time, after a step.
LEMMA OneNext ==
    ASSUME IInv, OneAtATime, NEW o \in Operators, Own(o),
           Begins(o) \/ Moves(o) \/ Alters(o) \/ Rewrites(o) \/ Records(o)
    PROVE  OneAtATime'
  <1> SUFFICES ASSUME alone' PROVE OneAtATime'
    BY DEF OneAtATime
  <1>1. \A other \in Operators \ {o} : task'[other] = task[other]
    BY DEF Own, IInv, TypeInv
  <1>2. alone /\ \A p, q \in Operators : Over(p) \/ Over(q) \/ p = q
    BY DEF OneAtATime, Begins, Moves, Alters, Rewrites, Records, IInv, TypeInv
  <1>3. (\A other \in Operators \ {o} : Over(other)) \/ Over(o)'
    <2>1. CASE Begins(o)
      BY <2>1 DEF Begins
    <2>2. CASE Moves(o) \/ Alters(o) \/ Rewrites(o) \/ Records(o)
      BY <1>2, <2>2 DEF Moves, Alters, Rewrites, Records, Over, Early
    <2> QED
      BY <2>1, <2>2
  <1>4. \A p, q \in Operators : Over(p)' \/ Over(q)' \/ p = q
    BY <1>1, <1>2, <1>3 DEF Over
  <1>5. ASSUME NEW p \in Operators, task'[p].pc = "updating"
        PROVE  Rest(task'[p].seen) = Rest(schedule') /\ task'[p].from = Current(p, schedule)'
    <2>1. CASE p = o
      <3>1. Moves(o) /\ schedule' = schedule
        BY <1>5, <2>1 DEF Begins, Moves, Alters, Rewrites, Records
      <3>2. /\ task'[o].seen = schedule /\ task'[o].from = Current(o, schedule)
            /\ task'[o].command = task[o].command
        BY <1>5, <2>1, <3>1 DEF Moves
      <3> QED
        BY <2>1, <3>1, <3>2 DEF Current
    <2>2. CASE p # o
      <3>1. task'[p] = task[p] /\ ~Over(p)
        BY <1>1, <1>5, <2>2 DEF Over
      <3>2. Over(o) \/ Over(o)'
        BY <1>2, <2>2, <3>1
      <3>3. schedule' = schedule
        BY <1>2, <2>2, <3>1 DEF Begins, Moves, Alters, Rewrites, Records, Over, Early
      <3> QED
        BY <1>2, <1>5, <3>1, <3>3 DEF OneAtATime, Current
    <2> QED
      BY <2>1, <2>2
  <1>6. consent' # "revived"
    <2>1. consent # "revived" /\ Fresh(o)
      BY <1>2 DEF OneAtATime, Fresh
    <2> QED
      BY <2>1 DEF Begins, Moves, Alters, Rewrites, Records, Consenting
  <1> QED
    BY <1>4, <1>5, <1>6 DEF OneAtATime

\* A step that changes neither what records tell of nor the records tells nothing new.
LEMMA ToldQuietly ==
    ASSUME IInv, History, NEW o \in Operators, Own(o), Begins(o) \/ Moves(o) \/ Rewrites(o),
           alone', Unbroken', NEW h, IsReplay(h, log')
    PROVE  Told(h)'
  <1>1. \A other \in Operators \ {o} : task'[other] = task[other]
    BY DEF Own, IInv, TypeInv
  <1>2. /\ alone /\ UNCHANGED <<log, applied>> /\ ~Pending(o)'
        /\ Rest(schedule') = Rest(schedule)
    <2>1. alone /\ UNCHANGED <<log, applied>> /\ ~Pending(o)'
      BY DEF Begins, Moves, Rewrites, Pending, Early, IInv, TypeInv
    <2>2. CASE Rewrites(o)
      BY <2>1, <2>2 DEF Rewrites, Fresh, History, OneAtATime
    <2>3. CASE Begins(o) \/ Moves(o)
      <3>1. schedule' = schedule
        BY <2>3 DEF Begins, Moves
      <3> QED
        BY <2>1, <3>1
    <2> QED
      BY <2>1, <2>2, <2>3
  <1>3. ~Pending(o)
    <2> SUFFICES ASSUME Pending(o) PROVE FALSE
      OBVIOUS
    <2> DEFINE a == [by |-> o, nth |-> task[o].nth, change |-> task[o].change]
    <2>1. a \in applied /\ a.by = o /\ a.nth = task[o].nth /\ ~Logged(o, task[o].nth)
      BY DEF IInv, Trail, Pending
    <2> QED
      BY <1>2, <2>1 DEF Unbroken, Logged
  <1>4. Unbroken
    <2>1. \A a \in applied : a.by \in Operators
      BY DEF IInv, TypeInv, AppliedType
    <2> QED
      BY <1>1, <1>2, <2>1 DEF Unbroken, Logged, Pending
  <1>5. Told(h)
    BY <1>2, <1>4 DEF History
  <1>6. \A p \in Operators : Pending(p)' <=> Pending(p)
    BY <1>1, <1>2, <1>3 DEF Pending
  <1>7. \A p \in Operators : Pending(p) => Entry(p)' = Entry(p)
    BY <1>1, <1>3 DEF Entry, To
  <1> QED
    BY <1>2, <1>5, <1>6, <1>7 DEF Told

\* While one command has a record to write, every other is over.
LEMMA OthersAreOver ==
    ASSUME History, alone, NEW o \in Operators, ~Over(o)
    PROVE  \A other \in Operators \ {o} : Over(other) /\ ~Pending(other)
  BY DEF History, OneAtATime, Over, Pending

\* A change, told by the record it is yet to have.
LEMMA ToldOfChange ==
    ASSUME IInv, History, NEW o \in Operators, Own(o), Alters(o),
           alone', Unbroken', NEW h, IsReplay(h, log')
    PROVE  Told(h)'
  <1>1. \A other \in Operators \ {o} : task'[other] = task[other]
    BY DEF Own, IInv, TypeInv
  <1>2. /\ alone /\ log' = log /\ task[o].pc \in Early /\ Pending(o)' /\ ~Pending(o) /\ ~Over(o)
        /\ task'[o].nth = task[o].nth /\ applied \subseteq applied'
    BY DEF Alters, Pending, Over, Early
  <1>3. \A other \in Operators \ {o} : ~Pending(other) /\ ~Pending(other)'
    BY <1>1, <1>2, OthersAreOver DEF Pending
  <1>4. Unbroken
    <2> SUFFICES ASSUME NEW a \in applied PROVE Logged(a.by, a.nth)
      BY DEF Unbroken
    <2>1. a.by \in Operators
      BY DEF IInv, TypeInv, AppliedType
    <2>2. a.by = o => a.nth # task[o].nth
      BY <1>2 DEF IInv, Trail
    <2>3. Logged(a.by, a.nth)'
      BY <1>2, <1>3, <2>1, <2>2 DEF Unbroken
    <2> QED
      BY <1>2, <2>3 DEF Logged
  <1>5. /\ \A i \in DOMAIN log : Started(log) => Right(h[i - 1], log[i])
        /\ Started(log) => h[Len(log)] = Rest(schedule)
    BY <1>2, <1>3, <1>4 DEF History, Told
  <1>6. Leads(Rest(schedule), Entry(o)', Rest(schedule'))
    <2>1. Fresh(o)
      BY <1>2 DEF Fresh, History, OneAtATime
    <2> QED
      BY <2>1 DEF Alters
  <1>7. Founding(Entry(o)') => Replay(NoSchedule, Entry(o)') = Rest(schedule')
    BY <1>6 DEF Leads
  <1> QED
    BY <1>2, <1>3, <1>5, <1>6, <1>7 DEF Told

\* A record, and the history it goes on.
LEMMA ToldInRecord ==
    ASSUME IInv, History, NEW o \in Operators, Own(o), Records(o),
           alone', Unbroken', NEW h, IsReplay(h, log')
    PROVE  Told(h)'
  <1> DEFINE record == Entry(o)
             N == Len(log)
  <1>1. \A other \in Operators \ {o} : task'[other] = task[other]
    BY DEF Own, IInv, TypeInv
  <1>2. /\ alone /\ Pending(o) /\ ~Over(o) /\ ~Pending(o)'
        /\ UNCHANGED <<schedule, applied>>
        /\ record \in RecordType /\ log' = Append(log, record)
    BY DEF Records, Pending, Over
  <1>3. \A p \in Operators : ~Pending(p)'
    BY <1>1, <1>2, OthersAreOver DEF Pending
  <1>4. /\ log \in Seq(RecordType) /\ N \in Nat /\ DOMAIN log = 1..N
        /\ Len(log') = N + 1 /\ DOMAIN log' = 1..(N + 1)
        /\ \A i \in DOMAIN log : log'[i] = log[i]
        /\ log'[N + 1] = record
    BY <1>2 DEF IInv, TypeInv
  <1>5. Unbroken
    <2> SUFFICES ASSUME NEW a \in applied, ~Logged(a.by, a.nth)
                 PROVE  Pending(a.by) /\ task[a.by].nth = a.nth
      BY DEF Unbroken
    <2>1. a.by \in Operators /\ Logged(a.by, a.nth)'
      BY <1>2, <1>3 DEF IInv, TypeInv, AppliedType, Unbroken
    <2>2. PICK i \in DOMAIN log' : log'[i].by = a.by /\ log'[i].nth = a.nth
      BY <2>1 DEF Logged
    <2>3. i \notin DOMAIN log
      BY <1>4, <2>2 DEF Logged
    <2>4. i = N + 1
      BY <1>4, <2>3
    <2>5. record.by = o /\ record.nth = task[o].nth
      BY DEF Entry
    <2> QED
      BY <1>2, <1>4, <2>2, <2>4, <2>5
  <1> HIDE DEF record
  <1>6. PICK g : /\ IsReplay(g, log) /\ \A n \in 0..N : h[n] = g[n]
                 /\ h[N + 1] = Replay(g[N], record)
    BY <1>2, <1>4, ReplayOfAppend
  <1>7. Told(g)
    BY <1>2, <1>5, <1>6 DEF History
  <1>8. CASE log = <<>>
    <2>1. N = 0 /\ log'[1] = record /\ DOMAIN log' = {1}
      BY <1>4, <1>8
    <2>2. g[0] = NoSchedule
      <3>1. 0 \in 0..N
        BY <2>1
      <3>2. g = [n \in 0..N |-> IF n = 0 THEN NoSchedule ELSE Replay(g[n - 1], log[n])]
        BY <1>6 DEF IsReplay, Unfold
      <3> QED
        BY <3>1, <3>2
    <2>3. Founding(record) => Replay(NoSchedule, record) = Rest(schedule)
      BY <1>2, <1>7, <1>8 DEF Told, record
    <2>4. Started(log') => Founding(record)
      BY <2>1 DEF Started
    <2>5. Founding(record) => \A s : Right(s, record)
      BY DEF Founding, Right
    <2>6. Started(log') => h[Len(log')] = Rest(schedule')
      BY <1>2, <1>4, <1>6, <2>1, <2>2, <2>3, <2>4
    <2>7. \A i \in DOMAIN log' : Started(log') => Right(h[i - 1], log'[i])
      BY <2>1, <2>4, <2>5
    <2> QED
      BY <1>3, <2>6, <2>7 DEF Told
  <1>9. CASE log # <<>>
    <2>1. N > 0 /\ 1 \in DOMAIN log
      BY <1>4, <1>9
    <2>2. Started(log') => Started(log)
      BY <1>4, <1>9, <2>1 DEF Started
    <2>3. Started(log) => Leads(g[N], record, Rest(schedule))
      BY <1>2, <1>7 DEF Told, record
    <2>4. Started(log') => h[Len(log')] = Rest(schedule')
      BY <1>2, <1>4, <1>6, <2>2, <2>3 DEF Leads
    <2>5. ASSUME NEW i \in DOMAIN log', Started(log') PROVE Right(h[i - 1], log'[i])
      <3>1. CASE i = N + 1
        <4>1. i - 1 = N /\ N \in 0..N
          BY <1>4, <3>1
        <4>2. h[i - 1] = g[N] /\ log'[i] = record
          BY <1>4, <1>6, <3>1, <4>1
        <4> QED
          BY <2>2, <2>3, <2>5, <4>2 DEF Leads
      <3>2. CASE i # N + 1
        <4>1. i \in DOMAIN log /\ i - 1 \in 0..N
          BY <1>4, <3>2
        <4>2. h[i - 1] = g[i - 1] /\ log'[i] = log[i]
          BY <1>4, <1>6, <4>1
        <4> QED
          BY <1>7, <2>2, <2>5, <4>1, <4>2 DEF Told
      <3> QED
        BY <3>1, <3>2
    <2> QED
      BY <1>3, <2>4, <2>5 DEF Told
  <1> QED
    BY <1>8, <1>9

LEMMA HistoryNext == IInv /\ History /\ [Next]_vars => History'
  <1> SUFFICES ASSUME IInv, History, [Next]_vars PROVE History'
    OBVIOUS
  <1>1. TypeAndPlace
    BY DEF IInv, TypeAndPlace
  <1>2. ASSUME NEW o \in Operators, Own(o), Begins(o) \/ Moves(o) \/ Alters(o) \/ Rewrites(o) \/ Records(o)
        PROVE  History'
    <2>1. OneAtATime'
      BY <1>2, OneNext DEF History
    <2>2. Replayable'
      <3>1. CASE log' = log
        BY <3>1 DEF History, Replayable
      <3>2. CASE Records(o)
        <4>1. log \in Seq(RecordType) /\ Entry(o) \in RecordType /\ log' = Append(log, Entry(o))
          BY <3>2 DEF IInv, TypeInv, Records
        <4> QED
          BY <4>1, ReplayOfAppend DEF History, Replayable
      <3> QED
        BY <1>2, <3>1, <3>2 DEF Begins, Moves, Alters, Rewrites
    <2>3. ASSUME alone', Unbroken', NEW h, IsReplay(h, log') PROVE Told(h)'
      BY <1>2, <2>3, ToldQuietly, ToldOfChange, ToldInRecord
    <2> QED
      BY <2>1, <2>2, <2>3 DEF History
  <1>3. CASE Rest(schedule') = Rest(schedule) /\ UNCHANGED <<task, log, applied, consent, alone>>
            /\ schedule \in Schedules /\ schedule' \in Schedules
    <2>1. \A o \in Operators : Current(o, schedule)' = Current(o, schedule)
      <3>1. schedule'.interval = schedule.interval /\ schedule'.mode = schedule.mode
        BY <1>3, RestType
      <3> QED
        BY <1>3, <3>1 DEF Current
    <2>2. OneAtATime'
      BY <1>3, <2>1 DEF History, OneAtATime, Over
    <2>3. Replayable'
      BY <1>3 DEF History, Replayable
    <2>4. Unbroken' <=> Unbroken
      BY <1>3 DEF Unbroken, Logged, Pending
    <2>5. \A h : Told(h)' <=> Told(h)
      BY <1>3 DEF Told, Pending, Entry, To
    <2> QED
      BY <1>3, <2>2, <2>3, <2>4, <2>5 DEF History
  <1>4. CASE Serves
    BY <1>3, <1>4 DEF Serves, IInv, TypeInv
  <1>5. CASE UNCHANGED vars
    BY <1>3, <1>5 DEF vars, IInv, TypeInv
  <1> QED
    BY <1>1, <1>2, <1>4, <1>5, StepSorted

\* What the records are told to give, of an uninterrupted history.
LEMMA HistoryTells == IInv /\ History => HistoryTellsTheSchedule
  <1> SUFFICES ASSUME IInv, History, alone, Started(log),
                      \A a \in applied : Logged(a.by, a.nth),
                      NEW h, IsReplay(h, log)
               PROVE  /\ h[Len(log)] = Rest(schedule)
                      /\ \A i \in DOMAIN log :
                            /\ log[i].change = "response_changed" => h[i - 1].mode = log[i].from
                            /\ log[i].change = "interval_changed" => h[i - 1].interval = log[i].from
    <2> DEFINE h == CHOOSE h : h = Unfold(h, log)
    <2>1. IInv /\ History => IsReplay(h, log)
      BY DEF History, Replayable, IsReplay
    <2> QED
      BY <2>1 DEF HistoryTellsTheSchedule, Started, Founding, Logged, Unfold
  <1>1. Unbroken /\ \A o \in Operators : ~Pending(o)
    BY UnbrokenMeansNonePending
  <1>2. Told(h)
    BY <1>1 DEF History
  <1> QED
    BY <1>1, <1>2 DEF Told, Right

LEMMA HistoryInvariance == Spec => [](IInv /\ History)
  <1>1. Init => IInv /\ History
    BY InvInit, HistoryInit
  <1>2. (IInv /\ History) /\ [Next]_vars => (IInv /\ History)'
    BY InvNext, HistoryNext
  <1> QED
    BY <1>1, <1>2, PTL DEF Spec

-----------------------------------------------------------------------------
(***************************************************************************)
(* The theorems                                                            *)
(***************************************************************************)

\* The inductive invariant, for every set of operators and every schedule found.
THEOREM ScheduleInvariance == Spec => []IInv
  <1> QED
    BY InvInit, InvNext, PTL DEF Spec

\* TypeOK, the type invariant.
THEOREM ScheduleTypeCorrect == Spec => []TypeOK
  <1>1. IInv => TypeOK
    BY TypeInvImpliesTypeOK DEF IInv
  <1> QED
    BY <1>1, ScheduleInvariance, PTL

\* TrailFitsTheChanges: however commands race and wherever they break, the trail tells of
\* no change that was not made and of none twice, and a command that reports success has
\* recorded what it changed.
THEOREM TrailIsTrue == Spec => []TrailFitsTheChanges
  <1> QED
    BY InvImpliesTrail, ScheduleInvariance, PTL

\* RemediateWasConfirmed: a schedule whose runs repair devices has an agreement that no
\* switch to report and no delete withdrew, unless commands raced and an update wrote a
\* description from before the withdrawal back; one at a time, the agreement always stands.
THEOREM UnattendedWritesWereAgreed == Spec => []RemediateWasConfirmed
  <1>1. IInv /\ History => RemediateWasConfirmed
    BY DEF IInv, Agreed, History, OneAtATime, RemediateWasConfirmed
  <1> QED
    BY <1>1, HistoryInvariance, PTL

\* HistoryTellsTheSchedule: when commands were given one at a time and none broke before
\* its record was stored, replaying the records gives the schedule as it is, and each
\* tells rightly what it changed, however many there are.
THEOREM HistoryIsTrue == Spec => []HistoryTellsTheSchedule
  <1> QED
    BY HistoryInvariance, HistoryTells, PTL
============================================================================
