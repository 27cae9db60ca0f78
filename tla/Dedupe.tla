------------------------------- MODULE Dedupe -------------------------------
(***************************************************************************)
(* list(dict.fromkeys(items)), which the workflows take of a list of       *)
(* devices, told by what it gives rather than by how it is computed.       *)
(***************************************************************************)
EXTENDS Integers, Sequences, SequencesExt

\* The list without its repetitions, in the order of the first occurrences, as the only
\* element of a set: an item is kept after those that occur before it first does.
Deduped(list) ==
    {kept \in SeqOf(ToSet(list), Len(list)) :
        /\ ToSet(kept) = ToSet(list)
        /\ \A j \in DOMAIN kept : \A i \in 1..(j - 1) :
              \E m \in DOMAIN list :
                  list[m] = kept[i] /\ \A n \in 1..m : list[n] # kept[j]}
=============================================================================
