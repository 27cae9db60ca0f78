----------------------------- MODULE SqliteAudit -----------------------------
(***************************************************************************)
(* SqliteAuditLog (orchestrator/audit/sqlite.py) on a file: the worker and *)
(* the CLI's processes append to one database.  An append holds its        *)
(* process's asyncio lock, opens a connection, inserts and commits; it is  *)
(* retried, by an attempt that may run while the last one still does, and  *)
(* can be cut off before or during its commit.  The queries compare the    *)
(* text of timestamps and give the rows in the order of their ids.         *)
(*                                                                         *)
(* An instant is a number of half seconds; text has the second, the        *)
(* character that follows it and the fraction, as isoformat prints them.   *)
(***************************************************************************)
EXTENDS Integers, FiniteSets, Sequences, SequencesExt

CONSTANTS
    Processes,    \* the worker and CLI processes that write the file
    Events,       \* the events to append
    MaxAttempts,  \* attempts of one append
    MaxInstant,   \* bound: instants of the events and of the queries
    Offsets       \* UTC offsets of the clocks they come from, in half seconds

ASSUME SqliteAssumption == MaxAttempts \in Nat /\ MaxInstant \in Nat /\ Offsets \subseteq Int

VARIABLES
    stamp,     \* each event: the instant it was made, and the offset of its clock
    attempt,   \* each attempt to append: where it stands, and in which process
    lock,      \* each process: the attempt that holds its _write_lock
    writer,    \* the attempt whose write transaction is open; SQLite has one
    rows,      \* the committed rows of audit_events, by id
    acked      \* the events whose append returned

vars == <<stamp, attempt, lock, writer, rows, acked>>

Stamps == [at : 0..MaxInstant, offset : Offsets]

Attempts == Events \X (1..MaxAttempts)

Nobody == <<>>

Init ==
    /\ stamp \in [Events -> Stamps]
    /\ attempt = [a \in Attempts |-> [pc |-> "new", by |-> "none"]]
    /\ lock = [p \in Processes |-> Nobody]
    /\ writer = Nobody
    /\ rows = <<>>
    /\ acked = {}

-----------------------------------------------------------------------------
(***************************************************************************)
(* The text of a timestamp                                                 *)
(***************************************************************************)

\* isoformat: a whole second is followed by the offset's sign (character 43), a
\* fraction by its point (46).
IsoText(halves) ==
    <<halves \div 2, IF halves % 2 = 0 THEN 43 ELSE 46, 5 * (halves % 2)>>

\* Seeded fault: the text of the local clock.
LocalText(s) == IsoText(s.at + s.offset)

\* _utc_text.
UtcText(s) == IsoText(s.at)

\* SQLite compares text character by character.
Before(t, u) ==
    \E i \in 1..3 : t[i] < u[i] /\ \A j \in 1..(i - 1) : t[j] = u[j]

\* query_by_time_range: the ids it selects, in whose order it gives the rows.
InRange(start, end) ==
    {id \in DOMAIN rows : ~Before(rows[id].text, UtcText(start)) /\ Before(rows[id].text, UtcText(end))}

-----------------------------------------------------------------------------
(***************************************************************************)
(* append                                                                  *)
(***************************************************************************)

Goto(a, pc) == attempt' = [attempt EXCEPT ![a].pc = pc]

\* The append, or a retry of it: the attempt before may still be running.
Start(a, p) ==
    /\ attempt[a].pc = "new" /\ a[1] \notin acked
    /\ a[2] > 1 => attempt[<<a[1], a[2] - 1>>].pc # "new"
    /\ attempt' = [attempt EXCEPT ![a] = [pc |-> "queued", by |-> p]]
    /\ UNCHANGED <<stamp, lock, writer, rows, acked>>

\* async with self._write_lock, self._connect().
Connect(a) ==
    /\ attempt[a].pc = "queued" /\ lock[attempt[a].by] = Nobody
    /\ lock' = [lock EXCEPT ![attempt[a].by] = a]
    /\ Goto(a, "connected")
    /\ UNCHANGED <<stamp, writer, rows, acked>>

\* INSERT: the write transaction opens.
Insert(a) ==
    /\ attempt[a].pc = "connected" /\ writer = Nobody
    /\ writer' = a
    /\ Goto(a, "inserted")
    /\ UNCHANGED <<stamp, lock, rows, acked>>

Row(e) == [event |-> e, text |-> UtcText(stamp[e])]

\* Seeded fault: INSERT OR REPLACE, which gives the event a new id.
StoringReplaced(e) == Append(SelectSeq(rows, LAMBDA row : row.event # e), Row(e))

\* ON CONFLICT(event_id) DO NOTHING.
Storing(e) ==
    IF \E i \in DOMAIN rows : rows[i].event = e THEN rows ELSE Append(rows, Row(e))

\* The connection is closed and the lock released.
Release(a) ==
    /\ lock' = [lock EXCEPT ![attempt[a].by] = Nobody]
    /\ writer' = IF writer = a THEN Nobody ELSE writer

\* The commit; the connection is closed and the append returns.
Commit(a) ==
    /\ attempt[a].pc = "inserted"
    /\ rows' = Storing(a[1])
    /\ Release(a)
    /\ Goto(a, "committed")
    /\ UNCHANGED <<stamp, acked>>

\* The caller hears of it: the activity's completion reaches the server.
Report(a) ==
    /\ attempt[a].pc = "committed"
    /\ acked' = acked \cup {a[1]}
    /\ Goto(a, "done")
    /\ UNCHANGED <<stamp, lock, writer, rows>>

\* Seeded fault: the error is not translated.
BusyRaw(a) ==
    /\ attempt[a].pc = "connected" /\ writer # Nobody
    /\ Release(a)
    /\ Goto(a, "OperationalError")
    /\ UNCHANGED <<stamp, rows, acked>>

\* Another process writes for longer than SQLite waits: AuditLogError.
Busy(a) ==
    /\ attempt[a].pc = "connected" /\ writer # Nobody
    /\ Release(a)
    /\ Goto(a, "failed")
    /\ UNCHANGED <<stamp, rows, acked>>

\* The attempt is cancelled, or an error breaks into it.  A connection that closes
\* rolls back; a commit its thread was already making is made.
CutOff(a) ==
    /\ attempt[a].pc \in {"queued", "connected", "inserted", "committed"}
    /\ IF attempt[a].pc \in {"queued", "committed"} THEN UNCHANGED <<lock, writer>> ELSE Release(a)
    /\ \/ UNCHANGED rows
       \/ attempt[a].pc = "inserted" /\ rows' = Storing(a[1])
    /\ Goto(a, "failed")
    /\ UNCHANGED <<stamp, acked>>

\* The process dies: its locks are gone, its open transaction is rolled back.
Crash(p) ==
    /\ \E a \in Attempts : attempt[a].by = p /\ attempt[a].pc \notin {"done", "failed"}
    /\ attempt' = [a \in Attempts |->
           IF attempt[a].by = p /\ attempt[a].pc # "done"
           THEN [attempt[a] EXCEPT !.pc = "failed"] ELSE attempt[a]]
    /\ lock' = [lock EXCEPT ![p] = Nobody]
    /\ writer' = IF writer # Nobody /\ attempt[writer].by = p THEN Nobody ELSE writer
    /\ UNCHANGED <<stamp, rows, acked>>

Next ==
    \/ \E a \in Attempts :
          \/ \E p \in Processes : Start(a, p)
          \/ Connect(a) \/ Insert(a) \/ Commit(a) \/ Report(a) \/ Busy(a) \/ CutOff(a)
    \/ \E p \in Processes : Crash(p)

Spec == Init /\ [][Next]_vars

-----------------------------------------------------------------------------
(***************************************************************************)
(* What is promised                                                        *)
(***************************************************************************)

\* Type correctness.
TypeOK ==
    /\ stamp \in [Events -> Stamps]
    /\ attempt \in [Attempts -> [pc : {"new", "queued", "connected", "inserted",
                                       "committed", "done", "failed"},
                                 by : Processes \cup {"none"}]]
    /\ lock \in [Processes -> Attempts \cup {Nobody}]
    /\ writer \in Attempts \cup {Nobody}
    /\ \A i \in DOMAIN rows : rows[i].event \in Events
    /\ acked \subseteq Events

\* abc.py: append-only, each event once however often it is sent, and durable when the
\* append reports success.
Log == INSTANCE AuditLog WITH stored <- [i \in DOMAIN rows |-> rows[i].event]
ImplementsAuditLog == Log!AuditSpec

\* abc.py:50: a time range has the events with start <= timestamp < end, whatever the
\* offsets of the clocks and whether or not the instants have a fraction.
RangeIsExact ==
    \A start, end \in Stamps :
        InRange(start, end) =
            {id \in DOMAIN rows :
                start.at <= stamp[rows[id].event].at /\ stamp[rows[id].event].at < end.at}
============================================================================
