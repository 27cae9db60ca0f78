------------------------------ MODULE AuditLog ------------------------------
(***************************************************************************)
(* What the durable audit log promises (orchestrator/audit/abc.py): events *)
(* are stored in a sequence that only grows, each once, and an append that *)
(* reported success has stored its event.                                  *)
(***************************************************************************)
EXTENDS Sequences, SequencesExt

CONSTANT Events

VARIABLES
    stored,   \* the events, in the order they became durable
    acked     \* the events whose append reported success

auditVars == <<stored, acked>>

AuditInit == stored = <<>> /\ acked = {}

Store(e) ==
    /\ e \notin ToSet(stored)
    /\ stored' = Append(stored, e)
    /\ UNCHANGED acked

Ack(e) ==
    /\ e \in ToSet(stored)
    /\ acked' = acked \cup {e}
    /\ UNCHANGED stored

AuditNext == \E e \in Events : Store(e) \/ Ack(e)

AuditSpec == AuditInit /\ [][AuditNext]_auditVars
============================================================================
