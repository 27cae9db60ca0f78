--------------------------- MODULE MCSqliteAudit ---------------------------
(***************************************************************************)
(* Small instances of SqliteAudit for TLC.                                 *)
(***************************************************************************)
EXTENDS SqliteAudit, TLC

\* UTC, and a clock one second ahead of it.
TwoOffsets == {0, 2}

\* Processes and events are told apart and nothing else: safety only.
WriterSymmetry == Permutations(Processes) \cup Permutations(Events)
============================================================================
