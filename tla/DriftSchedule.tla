--------------------------- MODULE DriftSchedule ---------------------------
(***************************************************************************)
(* The drift schedule of one use case (orchestrator/schedules.py, and the  *)
(* schedule commands of presentation/cli.py): the Schedule the Temporal    *)
(* server keeps, the operators who steer it, each command being several    *)
(* calls that another command can come between, the runs it starts, and    *)
(* the schedule_changed records of the audit log.                          *)
(*                                                                         *)
(* An update of a schedule is a describe and a write with no conflict      *)
(* token; pause, unpause, trigger, create and delete are one call each.    *)
(* Notes and catch-up windows are left out, and of the run timeout is kept *)
(* whether the schedule has it; a run is its mode and whether it is open.  *)
(***************************************************************************)
EXTENDS Integers, FiniteSets, Sequences, SequencesExt

CONSTANTS
    Operators,     \* processes of the CLI and of invoke demo.up
    Intervals,     \* the intervals they ask for
    MaxCommands,   \* bound: commands of one operator
    MaxRuns,       \* bound: runs the schedule starts
    Found          \* the schedules that may be there to begin with

Modes == {"report", "remediate"}

\* What the server keeps.  interval is "none" when it was replaced by something
\* else outside snapl; timeout is that of its runs, "none" for a schedule made before runs
\* had one; running is the open run the server knows of, 0 for none.
Schedules == [exists : BOOLEAN, interval : Intervals \cup {"none"}, mode : Modes,
              paused : BOOLEAN, timeout : {"RUN_TIMEOUT", "none"}, running : 0..MaxRuns]

NoSchedule ==
    [exists |-> FALSE, interval |-> "none", mode |-> "report", paused |-> FALSE,
     timeout |-> "none", running |-> 0]

\* What records tell of: all but the run timeout and the run the server knows of.
Rest(s) == [s EXCEPT !.running = 0, !.timeout = "none"]

ASSUME ScheduleAssumption ==
    /\ MaxCommands \in Nat /\ MaxRuns \in Nat
    /\ "none" \notin Intervals
    /\ Found \subseteq {s \in Schedules : s.running = 0 /\ (s.exists \/ s = NoSchedule)}

VARIABLES
    schedule,    \* the server's Schedule
    runs,        \* the runs it started, in order
    task,        \* each operator: the command it is at, and how far
    log,         \* schedule_changed records, in the order they were stored
    applied,     \* which commands changed the schedule they described (history)
    consent,     \* the agreement to unattended writes that stands (history)
    alone        \* was each command over before the next was given (history)

vars == <<schedule, runs, task, log, applied, consent, alone>>

\* An operator agreed; nobody did, or the schedule was switched to report or deleted since;
\* or an update built on a description from before that brought the mode back.
Consents == {"given", "none", "revived"}

\* INTERVAL_CHANGED and the rest of ScheduleChange.
Changes == {"created", "interval_changed", "response_changed", "paused", "resumed",
            "triggered", "deleted"}

Commands == {"ensure", "set", "pause", "resume", "trigger", "delete"}

\* The values a record carries; "none" where it has none.
Values == Intervals \cup Modes \cup {"none"}

\* answer is what the operator said when the CLI asked, "none" when it did not.
Idle == [pc |-> "done", nth |-> 0, command |-> "none", want |-> "none", answer |-> "none",
         seen |-> NoSchedule, from |-> "none", change |-> "none"]

Init ==
    /\ schedule \in Found
    /\ runs = <<>>
    /\ task = [o \in Operators |-> Idle]
    /\ log = <<>>
    /\ applied = {}
    /\ consent = IF schedule.mode = "remediate" THEN "given" ELSE "none"
    /\ alone = TRUE

\* The command of an operator is over.
Over(o) == task[o].pc \in {"done", "failed"}

Goto(o, pc) == task' = [task EXCEPT ![o].pc = pc]

Fail(o) == Goto(o, "failed")

-----------------------------------------------------------------------------
(***************************************************************************)
(* The commands as an operator gives them                                  *)
(***************************************************************************)

Begin(o, command, want, pc) ==
    /\ Over(o) /\ task[o].nth < MaxCommands
    /\ task' = [task EXCEPT ![o] = [Idle EXCEPT !.pc = pc, !.nth = task[o].nth + 1,
                                                !.command = command, !.want = want]]
    /\ alone' = (alone /\ \A other \in Operators : Over(other))
    /\ UNCHANGED <<schedule, runs, log, applied, consent>>

\* schedule create, invoke demo.up.
EnsureDriftSchedule(o) == \E interval \in Intervals : Begin(o, "ensure", interval, "creating")

\* schedule mode.
SetDriftResponse(o) == \E mode \in Modes : Begin(o, "set", mode, "asking")

\* schedule pause, with a reason.
PauseDriftSchedule(o) == Begin(o, "pause", "none", "calling")

ResumeDriftSchedule(o) == Begin(o, "resume", "none", "calling")

TriggerDriftSchedule(o) == Begin(o, "trigger", "none", "asking")

\* schedule delete, once confirmed.
DeleteDriftSchedule(o) == Begin(o, "delete", "none", "calling")

\* describe_drift_schedule finds a schedule it can read.
Readable == schedule.exists /\ schedule.interval # "none"

\* Does the command authorize unattended writes, as far as it can tell?
NeedsConsent(o) ==
    \/ task[o].command = "set" /\ task[o].want = "remediate"
    \/ task[o].command = "trigger" /\ schedule.mode = "remediate"

\* The step after the CLI's own describe: the update, or the check for a run.
AfterAsking(o) == IF task[o].command = "set" THEN "describing" ELSE "checking"

\* Seeded fault: the CLI takes the operator's consent for granted.
AskNobody(o) ==
    /\ task[o].pc = "asking"
    /\ Goto(o, IF Readable THEN AfterAsking(o) ELSE "failed")
    /\ UNCHANGED <<schedule, runs, log, applied, consent, alone>>

\* schedule mode and schedule trigger describe the schedule and, where a run may
\* write, ask.
Ask(o) ==
    /\ task[o].pc = "asking"
    /\ \/ /\ ~Readable
          /\ Fail(o)
       \/ /\ Readable /\ ~NeedsConsent(o)
          /\ Goto(o, AfterAsking(o))
       \/ /\ Readable /\ NeedsConsent(o)
          /\ \/ Fail(o)
             \/ task' = [task EXCEPT ![o].pc = AfterAsking(o), ![o].answer = "yes"]
    /\ UNCHANGED <<schedule, runs, log, applied, consent, alone>>

-----------------------------------------------------------------------------
(***************************************************************************)
(* The calls to the server                                                 *)
(***************************************************************************)

\* The server changed: the command has a record to write.
Changed(o, change) ==
    /\ task' = [task EXCEPT ![o].pc = "recording", ![o].change = change]
    /\ applied' = applied \cup {[by |-> o, nth |-> task[o].nth, change |-> change]}

\* create_schedule, which fails for a schedule that is there.
Create(o) ==
    /\ task[o].pc = "creating"
    /\ \/ /\ ~schedule.exists
          /\ schedule' = [NoSchedule EXCEPT !.exists = TRUE, !.interval = task[o].want,
                                            !.timeout = "RUN_TIMEOUT"]
          /\ Changed(o, "created")
       \/ /\ schedule.exists
          /\ Goto(o, "describing")
          /\ UNCHANGED <<schedule, applied>>
    /\ UNCHANGED <<runs, log, consent, alone>>

\* What the command would change: its value now.
Current(o, s) == IF task[o].command = "ensure" THEN s.interval ELSE s.mode

\* Nothing is to be written: the value is the one asked for and, for ensure, the schedule's
\* runs have the run timeout.
NoUpdate(o) ==
    /\ Current(o, schedule) = task[o].want
    /\ task[o].command = "ensure" => schedule.timeout = "RUN_TIMEOUT"

\* Seeded fault: an update that changes nothing is recorded all the same.
DescribeForUpdateRecords(o) ==
    /\ task[o].pc = "describing"
    /\ task' = [task EXCEPT ![o].pc = IF ~schedule.exists THEN "failed"
                                      ELSE IF NoUpdate(o) THEN "recording" ELSE "updating",
                            ![o].change = "response_changed",
                            ![o].seen = schedule, ![o].from = Current(o, schedule)]
    /\ UNCHANGED <<schedule, runs, log, applied, consent, alone>>

\* The describe of an update and the updater.  A command that finds the mode it asks for
\* has agreed to it as well.
DescribeForUpdate(o) ==
    /\ task[o].pc = "describing"
    /\ \/ ~schedule.exists /\ Fail(o) /\ UNCHANGED consent
       \/ /\ schedule.exists /\ NoUpdate(o)
          /\ Goto(o, "viewing")
          /\ consent' = IF task[o].answer = "yes" THEN "given" ELSE consent
       \/ /\ schedule.exists /\ ~NoUpdate(o)
          /\ task' = [task EXCEPT ![o].pc = "updating", ![o].seen = schedule,
                                  ![o].from = Current(o, schedule)]
          /\ UNCHANGED consent
    /\ UNCHANGED <<schedule, runs, log, applied, alone>>

\* The schedule the updater built: what was described, with one thing replaced, and an
\* action whose runs have the run timeout.
Built(o) ==
    IF task[o].command = "ensure"
      THEN [schedule EXCEPT !.interval = task[o].want, !.mode = task[o].seen.mode,
                            !.paused = task[o].seen.paused, !.timeout = "RUN_TIMEOUT"]
      ELSE [schedule EXCEPT !.mode = task[o].want, !.interval = task[o].seen.interval,
                            !.paused = task[o].seen.paused, !.timeout = "RUN_TIMEOUT"]

\* The agreement that stands once an update is written.
ConsentAfter(o) ==
    IF Built(o).mode = "report" THEN "none"
    ELSE IF task[o].command = "set"
      THEN IF task[o].answer = "yes" THEN "given" ELSE "none"
      ELSE IF schedule.mode = "remediate" THEN consent ELSE "revived"

\* The write of an update: the whole schedule, whatever happened since the describe.  One
\* that gives an old schedule its run timeout and describes the interval asked for has
\* nothing to record.
Update(o) ==
    /\ task[o].pc = "updating"
    /\ \/ ~schedule.exists /\ Fail(o) /\ UNCHANGED <<schedule, applied, consent>>
       \/ /\ schedule.exists
          /\ schedule' = Built(o)
          /\ consent' = ConsentAfter(o)
          /\ IF task[o].from = task[o].want
               THEN Goto(o, "viewing") /\ UNCHANGED applied
               ELSE Changed(o, IF task[o].command = "ensure" THEN "interval_changed"
                               ELSE "response_changed")
    /\ UNCHANGED <<runs, log, alone>>

\* Pause, unpause and delete: one call, refused for a schedule that is not there.
Call(o) ==
    /\ task[o].pc = "calling"
    /\ \/ ~schedule.exists /\ Fail(o) /\ UNCHANGED <<schedule, applied, consent>>
       \/ /\ schedule.exists /\ task[o].command = "pause"
          /\ schedule' = [schedule EXCEPT !.paused = TRUE] /\ Changed(o, "paused")
          /\ UNCHANGED consent
       \/ /\ schedule.exists /\ task[o].command = "resume"
          /\ schedule' = [schedule EXCEPT !.paused = FALSE] /\ Changed(o, "resumed")
          /\ UNCHANGED consent
       \/ /\ schedule.exists /\ task[o].command = "delete"
          /\ schedule' = NoSchedule /\ Changed(o, "deleted")
          /\ consent' = "none"
    /\ UNCHANGED <<runs, log, alone>>

\* trigger_drift_schedule describes again, and refuses while a run is open.
CheckRunning(o) ==
    /\ task[o].pc = "checking"
    /\ \/ (~Readable \/ schedule.running # 0) /\ Fail(o)
       \/ /\ Readable /\ schedule.running = 0
          /\ task' = [task EXCEPT ![o].pc = "triggering", ![o].seen = schedule]
    /\ UNCHANGED <<schedule, runs, log, applied, consent, alone>>

StartRun ==
    /\ Len(runs) < MaxRuns
    /\ runs' = Append(runs, [mode |-> schedule.mode, open |-> TRUE])
    /\ schedule' = [schedule EXCEPT !.running = Len(runs) + 1]

\* The trigger: a run now, paused or not, unless one is open: then it is dropped.
Trigger(o) ==
    /\ task[o].pc = "triggering"
    /\ \/ ~schedule.exists /\ Fail(o) /\ UNCHANGED <<schedule, runs, applied>>
       \/ /\ schedule.exists
          /\ IF schedule.running = 0 THEN StartRun ELSE UNCHANGED <<schedule, runs>>
          /\ Changed(o, "triggered")
    /\ UNCHANGED <<log, consent, alone>>

-----------------------------------------------------------------------------
(***************************************************************************)
(* The record, and the end of a command                                    *)
(***************************************************************************)

\* Seeded fault: the record of a trigger names the command in place of the mode.
ToCommand(o) == IF task[o].change = "triggered" THEN task[o].command ELSE task[o].want

\* What the record says the schedule was changed to.
To(o) == IF task[o].change = "triggered" THEN task[o].seen.mode ELSE task[o].want

\* Seeded fault: the record tells the state before the change as the state after.
RecordBefore(o) ==
    /\ task[o].pc = "recording"
    /\ log' = Append(log, [by |-> o, nth |-> task[o].nth, change |-> task[o].change,
                           from |-> To(o), to |-> task[o].from])
    /\ Goto(o, IF task[o].command \in {"ensure", "set"} THEN "viewing" ELSE "done")
    /\ UNCHANGED <<schedule, runs, applied, consent, alone>>

\* _record_change.
RecordChange(o) ==
    /\ task[o].pc = "recording"
    /\ log' = Append(log, [by |-> o, nth |-> task[o].nth, change |-> task[o].change,
                           from |-> task[o].from, to |-> To(o)])
    /\ Goto(o, IF task[o].command \in {"ensure", "set"} THEN "viewing" ELSE "done")
    /\ UNCHANGED <<schedule, runs, applied, consent, alone>>

\* The describe whose view ensure_drift_schedule and set_drift_response return.
View(o) ==
    /\ task[o].pc = "viewing"
    /\ Goto(o, IF Readable THEN "done" ELSE "failed")
    /\ UNCHANGED <<schedule, runs, log, applied, consent, alone>>

\* The append fails: the command ends with an error, and the change stays.
RecordFails(o) ==
    /\ task[o].pc = "recording"
    /\ Fail(o)
    /\ UNCHANGED <<schedule, runs, log, applied, consent, alone>>

\* Another call fails, or the process is stopped.
Break(o) ==
    /\ ~Over(o) /\ task[o].pc # "recording"
    /\ Fail(o)
    /\ UNCHANGED <<schedule, runs, log, applied, consent, alone>>

-----------------------------------------------------------------------------
(***************************************************************************)
(* The server and the specification                                        *)
(***************************************************************************)

\* An interval has passed: a run starts in the mode of the moment, unless the
\* schedule is paused or its last run is still open.
Fire ==
    /\ schedule.exists /\ ~schedule.paused /\ schedule.running = 0
    /\ StartRun
    /\ UNCHANGED <<task, log, applied, consent, alone>>

\* A run closes; the server's schedule hears of it if it is the one it knows.
RunEnds(n) ==
    /\ runs[n].open
    /\ runs' = [runs EXCEPT ![n].open = FALSE]
    /\ schedule' = IF schedule.running = n THEN [schedule EXCEPT !.running = 0] ELSE schedule
    /\ UNCHANGED <<task, log, applied, consent, alone>>

Given(o) ==
    \/ EnsureDriftSchedule(o) \/ SetDriftResponse(o) \/ TriggerDriftSchedule(o)
    \/ PauseDriftSchedule(o) \/ ResumeDriftSchedule(o) \/ DeleteDriftSchedule(o)

Steps(o) ==
    \/ Ask(o) \/ Create(o) \/ DescribeForUpdate(o) \/ Update(o) \/ Call(o)
    \/ CheckRunning(o) \/ Trigger(o) \/ RecordChange(o) \/ RecordFails(o) \/ View(o)

Next ==
    \/ \E o \in Operators : Given(o) \/ Steps(o) \/ Break(o)
    \/ Fire
    \/ \E n \in DOMAIN runs : RunEnds(n)

Spec == Init /\ [][Next]_vars

-----------------------------------------------------------------------------
(***************************************************************************)
(* What is promised                                                        *)
(***************************************************************************)

Places == {"asking", "creating", "describing", "updating", "calling", "checking",
           "triggering", "recording", "viewing", "done", "failed"}

\* Type correctness.
TypeOK ==
    /\ schedule \in Schedules
    /\ runs \in Seq([mode : Modes, open : BOOLEAN]) /\ Len(runs) <= MaxRuns
    /\ task \in [Operators -> [pc : Places, nth : 0..MaxCommands,
                               command : Commands \cup {"none"}, want : Values,
                               answer : {"yes", "none"}, seen : Schedules, from : Values,
                               change : Changes \cup {"none"}]]
    /\ log \in Seq([by : Operators, nth : 1..MaxCommands, change : Changes,
                    from : Values, to : Values])
    /\ applied \subseteq [by : Operators, nth : 1..MaxCommands, change : Changes]
    /\ consent \in Consents /\ alone \in BOOLEAN

\* schedules.py: the record is appended after the Temporal call succeeds.  Whatever
\* commands race and wherever they break, the audit trail never tells of a change that
\* did not happen, or of one twice, and an operator who is told of success finds in it
\* what the command changed.
TrailFitsTheChanges ==
    /\ \A i \in DOMAIN log :
          \E a \in applied : a.by = log[i].by /\ a.nth = log[i].nth /\ a.change = log[i].change
    /\ \A i, j \in DOMAIN log : log[i].by = log[j].by /\ log[i].nth = log[j].nth => i = j
    /\ \A o \in Operators : task[o].pc = "done" =>
          \A a \in applied : a.by = o /\ a.nth = task[o].nth =>
              \E i \in DOMAIN log : log[i].by = o /\ log[i].nth = a.nth

\* FR-012: a schedule whose runs repair devices has an operator's agreement to it that no
\* switch to report and no delete has withdrawn since.  Only an update that raced with
\* another command, built on a description from before the withdrawal, brings the mode back
\* without one; a run takes the mode of the moment it starts.
RemediateWasConfirmed ==
    /\ schedule.mode = "remediate" => consent # "none"
    /\ consent = "revived" => ~alone

\* The schedule after one more record.
Replay(s, record) ==
    CASE record.change = "created" -> [NoSchedule EXCEPT !.exists = TRUE, !.interval = record.to]
      [] record.change = "interval_changed" -> [s EXCEPT !.interval = record.to]
      [] record.change = "response_changed" -> [s EXCEPT !.mode = record.to]
      [] record.change = "paused" -> [s EXCEPT !.paused = TRUE]
      [] record.change = "resumed" -> [s EXCEPT !.paused = FALSE]
      [] record.change = "deleted" -> NoSchedule
      [] record.change = "triggered" -> s

\* schedules.py:406: the records of a schedule are its whole policy history.  When
\* commands were given one at a time and none broke, an operator can replay them from
\* the first creation or deletion: they give the schedule as it is, each telling
\* rightly what it changed.
HistoryTellsTheSchedule ==
    LET After[n \in 0..Len(log)] ==
          IF n = 0 THEN NoSchedule ELSE Replay(After[n - 1], log[n])
        Recorded(a) == \E i \in DOMAIN log : log[i].by = a.by /\ log[i].nth = a.nth
        Whole == log # <<>> /\ log[1].change \in {"created", "deleted"}
                 /\ \A a \in applied : Recorded(a)
    IN alone /\ Whole =>
        /\ After[Len(log)] = Rest(schedule)
        /\ \A i \in DOMAIN log :
              /\ log[i].change = "response_changed" => After[i - 1].mode = log[i].from
              /\ log[i].change = "interval_changed" => After[i - 1].interval = log[i].from

-----------------------------------------------------------------------------
(***************************************************************************)
(* What the documents say and the code does not do                         *)
(***************************************************************************)

\* specs/009 FR-004: re-creating a schedule preserves its paused state and its
\* response.  Only a resume, a switch or a delete starts what a pause stopped.
EnsureKeepsTheRest ==
    [][\A o \in Operators :
          task[o].command = "ensure" /\ task[o].pc = "updating" /\ Update(o) =>
              schedule'.paused = schedule.paused /\ schedule'.mode = schedule.mode]_vars
============================================================================
