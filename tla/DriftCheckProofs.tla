-------------------------- MODULE DriftCheckProofs --------------------------
(***************************************************************************)
(* What is proved of DriftCheck for every value of its constants: its      *)
(* types, what a report tells of the device and what a deploy leaves.      *)
(*                                                                         *)
(* The answers to the two GETs are merged by recursive functions, so this  *)
(* module begins with an induction: a set of natural numbers that is not   *)
(* empty has a least element, and what holds of 0 and carries over from    *)
(* n - 1 to n has no least exception.                                      *)
(***************************************************************************)
EXTENDS DriftCheck, WellFoundedInduction, FiniteSetTheorems, SequenceTheorems, TLAPS

(***************************************************************************)
(* Recursion                                                               *)
(***************************************************************************)

LEMMA LeastNatural ==
    ASSUME NEW T, T \subseteq Nat, T # {}
    PROVE  \E x \in T : \A y \in T : x <= y
  <1>1. IsWellFoundedOn(OpToRel(<, Nat), Nat)
    BY NatLessThanWellFounded
  <1>2. PICK x \in T : \A y \in T : ~ (<<y, x>> \in OpToRel(<, Nat))
    BY <1>1, WFMin
  <1>3. ASSUME NEW y \in T PROVE x <= y
    <2>1. x \in Nat /\ y \in Nat
      OBVIOUS
    <2>2. <<y, x>> \notin OpToRel(<, Nat)
      BY <1>2
    <2>3. <<y, x>> \notin {p \in Nat \X Nat : p[1] < p[2]}
      BY <2>2, Zenon DEF OpToRel
    <2> QED
      BY <2>1, <2>3
  <1> QED
    BY <1>3

\* A set that has 0, and n whenever it has n - 1, has all of 0..N.
LEMMA UpTo ==
    ASSUME NEW N \in Nat, NEW T, 0 \in T, \A n \in 1..N : n - 1 \in T => n \in T
    PROVE  0..N \subseteq T
  <1> DEFINE missing == {n \in 0..N : n \notin T}
  <1>1. ASSUME missing # {} PROVE FALSE
    <2>1. missing \subseteq Nat
      OBVIOUS
    <2> HIDE DEF missing
    <2>2. PICK n \in missing : \A m \in missing : n <= m
      BY <1>1, <2>1, LeastNatural
    <2> USE DEF missing
    <2>3. n \in 1..N /\ n - 1 \in 0..N
      BY <2>2
    <2>4. n - 1 \notin missing
      <3> SUFFICES ASSUME n - 1 \in missing PROVE FALSE
        OBVIOUS
      <3>1. n <= n - 1
        BY <2>2
      <3> QED
        BY <2>3, <3>1
    <2> QED
      BY <2>2, <2>3, <2>4
  <1> QED
    BY <1>1

\* Some function has this value at 0 and takes these steps.
Solvable(S, N, base, step) ==
    \E f \in [0..N -> S] : f[0] = base /\ \A n \in 1..N : f[n] = step[n][f[n - 1]]

\* A function is given by its value at 0 and its steps.
LEMMA RecursionHasASolution ==
    ASSUME NEW S, NEW N \in Nat, NEW base \in S, NEW step \in [1..N -> [S -> S]]
    PROVE  Solvable(S, N, base, step)
  <1> DEFINE Solves(f, m) == /\ f \in [0..m -> S] /\ f[0] = base
                             /\ \A n \in 1..m : f[n] = step[n][f[n - 1]]
             T == {m \in 0..N : \E f : Solves(f, m)}
  <1>1. 0 \in T
    <2>1. Solves([n \in 0..0 |-> base], 0)
      OBVIOUS
    <2> HIDE DEF Solves
    <2> QED
      BY <2>1
  <1>2. ASSUME NEW m \in 1..N, m - 1 \in T PROVE m \in T
    <2>1. PICK f : Solves(f, m - 1)
      <3> HIDE DEF Solves
      <3> QED
        BY <1>2
    <2>2. m \in Nat /\ m > 0 /\ m - 1 \in 0..m - 1 /\ f \in [0..m - 1 -> S]
      BY <2>1
    <2>3. f[m - 1] \in S /\ step[m] \in [S -> S]
      BY <2>2
    <2>4. step[m][f[m - 1]] \in S
      BY <2>3
    <2>5. PICK last \in S : last = step[m][f[m - 1]]
      BY <2>4
    <2> DEFINE g == [n \in 0..m |-> IF n = m THEN last ELSE f[n]]
    <2>6. g \in [0..m -> S]
      <3>1. \A n \in 0..m : n # m => n \in 0..m - 1
        BY <2>2
      <3> QED
        BY <2>2, <3>1
    <2>7. g[0] = base
      BY <2>1, <2>2
    <2>8. ASSUME NEW n \in 1..m PROVE g[n] = step[n][g[n - 1]]
      <3>1. n \in 0..m /\ n - 1 \in 0..m /\ n - 1 # m
        BY <2>2
      <3>2. g[n - 1] = f[n - 1]
        BY <3>1
      <3>3. CASE n = m
        BY <2>5, <3>1, <3>2, <3>3
      <3>4. CASE n # m
        <4>1. n \in 1..m - 1
          BY <2>2, <3>4
        <4>2. f[n] = step[n][f[n - 1]]
          BY <2>1, <4>1
        <4> QED
          BY <3>1, <3>2, <3>4, <4>2
      <3> QED
        BY <3>3, <3>4
    <2>9. Solves(g, m)
      <3> HIDE DEF g
      <3> QED
        BY <2>6, <2>7, <2>8
    <2> HIDE DEF Solves, g
    <2> QED
      BY <2>2, <2>9
  <1> HIDE DEF T
  <1>3. 0..N \subseteq T
    BY <1>1, <1>2, UpTo
  <1>4. N \in T
    BY <1>3
  <1> QED
    BY <1>4 DEF T, Solvable

-----------------------------------------------------------------------------
(***************************************************************************)
(* The answers                                                             *)
(***************************************************************************)

LEMMA AppendAdds ==
    ASSUME NEW E, NEW list \in Seq(E), NEW entry \in E
    PROVE  /\ Append(list, entry) \in Seq(E)
           /\ ToSet(Append(list, entry)) = ToSet(list) \cup {entry}
  <1>1. /\ Append(list, entry) \in Seq(E) /\ Len(Append(list, entry)) = Len(list) + 1
        /\ \A i \in 1..Len(list) : Append(list, entry)[i] = list[i]
        /\ Append(list, entry)[Len(list) + 1] = entry
    BY AppendProperties
  <1>2. /\ Len(list) \in Nat /\ DOMAIN list = 1..Len(list)
        /\ DOMAIN Append(list, entry) = 1..Len(list) + 1
    BY <1>1, LenProperties
  <1>3. \A i \in 1..Len(list) + 1 : i \in 1..Len(list) \/ i = Len(list) + 1
    BY <1>2
  <1> QED
    BY <1>1, <1>2, <1>3 DEF ToSet

\* What is merged holds every entry of either list, and no other.
LEMMA MergeHoldsBoth ==
    ASSUME NEW E, NEW existing \in Seq(E), NEW incoming \in Seq(E)
    PROVE  /\ MergeFragment(existing, incoming) \in Seq(E)
           /\ ToSet(MergeFragment(existing, incoming)) = ToSet(existing) \cup ToSet(incoming)
  <1> DEFINE N == Len(incoming)
             step == [n \in 1..N |-> [list \in Seq(E) |->
                        IF incoming[n] \in ToSet(existing) THEN list
                        ELSE Append(list, incoming[n])]]
             Body(f) == [n \in 0..N |-> IF n = 0 THEN existing
                                        ELSE IF incoming[n] \in ToSet(existing) THEN f[n - 1]
                                        ELSE Append(f[n - 1], incoming[n])]
             merged == CHOOSE f : f = Body(f)
  <1>1. N \in Nat /\ \A n \in 1..N : incoming[n] \in E
    BY LenProperties, ElementOfSeq
  <1>2. step \in [1..N -> [Seq(E) -> Seq(E)]]
    BY <1>1, AppendProperties
  <1>3. \E f : f = Body(f)
    <2>1. PICK f \in [0..N -> Seq(E)] :
             f[0] = existing /\ \A n \in 1..N : f[n] = step[n][f[n - 1]]
      <3>1. N \in Nat
        BY <1>1
      <3> HIDE DEF step, N
      <3>2. Solvable(Seq(E), N, existing, step)
        BY <1>2, <3>1, RecursionHasASolution, Zenon
      <3> QED
        BY <3>2 DEF Solvable
    <2>2. ASSUME NEW n \in 0..N PROVE f[n] = Body(f)[n]
      <3>1. CASE n = 0
        BY <2>1, <3>1
      <3>2. CASE n # 0
        <4>1. n \in 1..N /\ n - 1 \in 0..N /\ f[n - 1] \in Seq(E)
          <5>1. n \in 1..N /\ n - 1 \in 0..N
            BY <1>1, <3>2
          <5> QED
            BY <2>1, <5>1
        <4>2. f[n] = step[n][f[n - 1]]
          BY <2>1, <4>1
        <4> QED
          BY <3>2, <4>1, <4>2
      <3> QED
        BY <3>1, <3>2
    <2>3. f = Body(f)
      BY <2>1, <2>2
    <2> QED
      BY <2>3
  <1>4. merged = Body(merged)
    BY <1>3
  <1> HIDE DEF merged
  <1>5. /\ merged[0] = existing
        /\ \A n \in 1..N : merged[n] = IF incoming[n] \in ToSet(existing) THEN merged[n - 1]
                                       ELSE Append(merged[n - 1], incoming[n])
    <2>1. \A n \in 0..N : merged[n] = Body(merged)[n]
      BY <1>4
    <2>2. 0 \in 0..N /\ \A n \in 1..N : n \in 0..N /\ n # 0
      BY <1>1
    <2> QED
      BY <2>1, <2>2
  <1> DEFINE First(n) == {incoming[i] : i \in 1..n}
             T == {n \in 0..N : merged[n] \in Seq(E)
                                /\ ToSet(merged[n]) = ToSet(existing) \cup First(n)}
  <1>6. 0 \in T
    BY <1>1, <1>5
  <1>7. ASSUME NEW n \in 1..N, n - 1 \in T PROVE n \in T
    <2>1. merged[n - 1] \in Seq(E) /\ incoming[n] \in E
          /\ ToSet(merged[n - 1]) = ToSet(existing) \cup First(n - 1)
      BY <1>1, <1>7
    <2>2. First(n) = First(n - 1) \cup {incoming[n]}
      BY <1>1
    <2>3. CASE incoming[n] \in ToSet(existing)
      BY <1>5, <2>1, <2>2, <2>3
    <2>4. CASE incoming[n] \notin ToSet(existing)
      <3>1. merged[n] = Append(merged[n - 1], incoming[n])
        BY <1>5, <2>4
      <3>2. merged[n] \in Seq(E) /\ ToSet(merged[n]) = ToSet(merged[n - 1]) \cup {incoming[n]}
        BY <2>1, <3>1, AppendAdds
      <3> QED
        BY <2>1, <2>2, <3>2
    <2> QED
      BY <2>3, <2>4
  <1> HIDE DEF T
  <1>8. 0..N \subseteq T
    BY <1>1, <1>6, <1>7, UpTo
  <1>9. N \in T
    BY <1>1, <1>8
  <1>10. First(N) = ToSet(incoming)
    BY <1>1, LenProperties DEF ToSet
  <1>11. MergeFragment(existing, incoming) = merged[N]
    BY DEF MergeFragment, merged
  <1> QED
    BY <1>9, <1>10, <1>11 DEF T

\* What is collected holds every entry of every fragment, and no other.
LEMMA CollectedHoldsAll ==
    ASSUME NEW E, NEW fragments \in Seq(Seq(E))
    PROVE  /\ Collected(fragments) \in Seq(E)
           /\ ToSet(Collected(fragments)) =
                 UNION {ToSet(fragments[i]) : i \in 1..Len(fragments)}
  <1> DEFINE N == Len(fragments)
             step == [n \in 1..N |-> [list \in Seq(E) |-> MergeFragment(list, fragments[n])]]
             Body(f) == [n \in 0..N |-> IF n = 0 THEN <<>>
                                        ELSE MergeFragment(f[n - 1], fragments[n])]
             data == CHOOSE f : f = Body(f)
  <1>1. N \in Nat /\ \A n \in 1..N : fragments[n] \in Seq(E)
    BY LenProperties, ElementOfSeq
  <1>2. step \in [1..N -> [Seq(E) -> Seq(E)]]
    BY <1>1, MergeHoldsBoth
  <1>3. \E f : f = Body(f)
    <2>1. PICK f \in [0..N -> Seq(E)] :
             f[0] = <<>> /\ \A n \in 1..N : f[n] = step[n][f[n - 1]]
      <3>1. N \in Nat
        BY <1>1
      <3>2. <<>> \in Seq(E)
        BY EmptySeq
      <3> HIDE DEF step, N
      <3>3. Solvable(Seq(E), N, <<>>, step)
        BY <1>2, <3>1, <3>2, RecursionHasASolution, Zenon
      <3> QED
        BY <3>3 DEF Solvable
    <2>2. ASSUME NEW n \in 0..N PROVE f[n] = Body(f)[n]
      <3>1. CASE n = 0
        BY <2>1, <3>1
      <3>2. CASE n # 0
        <4>1. n \in 1..N /\ n - 1 \in 0..N /\ f[n - 1] \in Seq(E)
          <5>1. n \in 1..N /\ n - 1 \in 0..N
            BY <1>1, <3>2
          <5> QED
            BY <2>1, <5>1
        <4>2. f[n] = step[n][f[n - 1]]
          BY <2>1, <4>1
        <4> QED
          BY <3>2, <4>1, <4>2
      <3> QED
        BY <3>1, <3>2
    <2>3. f = Body(f)
      BY <2>1, <2>2
    <2> QED
      BY <2>3
  <1>4. data = Body(data)
    BY <1>3
  <1> HIDE DEF data
  <1>5. /\ data[0] = <<>>
        /\ \A n \in 1..N : data[n] = MergeFragment(data[n - 1], fragments[n])
    <2>1. \A n \in 0..N : data[n] = Body(data)[n]
      BY <1>4
    <2>2. 0 \in 0..N /\ \A n \in 1..N : n \in 0..N /\ n # 0
      BY <1>1
    <2> QED
      BY <2>1, <2>2
  <1> DEFINE First(n) == UNION {ToSet(fragments[i]) : i \in 1..n}
             T == {n \in 0..N : data[n] \in Seq(E) /\ ToSet(data[n]) = First(n)}
  <1>6. 0 \in T
    <2>1. 0 \in 0..N /\ data[0] \in Seq(E)
      BY <1>1, <1>5, EmptySeq
    <2>2. ToSet(data[0]) = {} /\ First(0) = {}
      BY <1>5 DEF ToSet
    <2> QED
      BY <2>1, <2>2
  <1>7. ASSUME NEW n \in 1..N, n - 1 \in T PROVE n \in T
    <2>1. /\ data[n - 1] \in Seq(E) /\ ToSet(data[n - 1]) = First(n - 1)
          /\ fragments[n] \in Seq(E)
      BY <1>1, <1>7
    <2>2. First(n) = First(n - 1) \cup ToSet(fragments[n])
      BY <1>1
    <2>3. data[n] = MergeFragment(data[n - 1], fragments[n])
      BY <1>5
    <2> HIDE DEF First, N, data
    <2>4. \A list, fragment \in Seq(E) :
             /\ MergeFragment(list, fragment) \in Seq(E)
             /\ ToSet(MergeFragment(list, fragment)) = ToSet(list) \cup ToSet(fragment)
      BY MergeHoldsBoth
    <2>5. data[n] \in Seq(E) /\ ToSet(data[n]) = ToSet(data[n - 1]) \cup ToSet(fragments[n])
      <3> DEFINE list == data[n - 1]
                 fragment == fragments[n]
      <3>1. list \in Seq(E) /\ fragment \in Seq(E) /\ data[n] = MergeFragment(list, fragment)
        BY <2>1, <2>3
      <3> HIDE DEF list, fragment
      <3>2. data[n] \in Seq(E) /\ ToSet(data[n]) = ToSet(list) \cup ToSet(fragment)
        BY <3>1, <2>4
      <3> QED
        BY <3>2 DEF list, fragment
    <2>6. n \in 0..N
      BY <1>1
    <2> QED
      BY <2>1, <2>2, <2>5, <2>6
  <1> HIDE DEF T
  <1>8. 0..N \subseteq T
    BY <1>1, <1>6, <1>7, UpTo
  <1>9. N \in T
    BY <1>1, <1>8
  <1>10. Collected(fragments) = data[N]
    BY DEF Collected, data
  <1> QED
    BY <1>9, <1>10 DEF T

\* A finite set can be listed.
LEMMA ASetIsListed ==
    ASSUME NEW S, IsFiniteSet(S)
    PROVE  SetToSeq(S) \in Seq(S) /\ ToSet(SetToSeq(S)) = S
  <1> DEFINE n == Cardinality(S)
             list == SetToSeq(S)
  <1>1. n \in Nat /\ \E f \in [1..n -> S] : IsInjective(f)
    BY FS_CardinalityType, Zenon DEF ExistsBijection, Bijection, Injection
  <1>2. list \in [1..n -> S] /\ IsInjective(list)
    BY <1>1, Zenon DEF SetToSeq
  <1> HIDE DEF list
  <1>3. list \in Seq(S)
    BY <1>1, <1>2, SeqDef
  <1>4. Cardinality(1..n) = n
    BY <1>1, FS_Interval
  <1>5. list \in Surjection(1..n, S)
    BY <1>2, <1>4, FS_Injection DEF Injection
  <1>6. ToSet(list) = S
    BY <1>2, <1>5 DEF Surjection, ToSet
  <1> QED
    BY <1>3, <1>6 DEF list

\* Whatever way the entries are cut up, what is collected from an answer is the entries.
LEMMA AnswerHoldsTheEntries ==
    ASSUME NEW entries, IsFiniteSet(entries), NEW answer \in Fragmented(entries)
    PROVE  /\ Collected(answer) \in Seq(entries)
           /\ ToSet(Collected(answer)) = entries
  <1>1. CASE answer = <<SetToSeq(entries)>>
    <2>1. SetToSeq(entries) \in Seq(entries) /\ ToSet(SetToSeq(entries)) = entries
      BY ASetIsListed
    <2> DEFINE list == SetToSeq(entries)
    <2> HIDE DEF list
    <2>2. /\ <<list>> \in Seq(Seq(entries)) /\ Len(<<list>>) = 1
          /\ UNION {ToSet(<<list>>[i]) : i \in 1..1} = ToSet(list)
      BY <2>1 DEF list
    <2> QED
      BY <1>1, <2>1, <2>2, CollectedHoldsAll DEF list
  <1>2. ASSUME NEW cut \in (SUBSET entries) \X (SUBSET entries),
               cut[1] \cup cut[2] = entries,
               answer = <<SetToSeq(cut[1]), SetToSeq(cut[2])>>
        PROVE  /\ Collected(answer) \in Seq(entries)
               /\ ToSet(Collected(answer)) = entries
    <2>1. \A i \in {1, 2} : IsFiniteSet(cut[i])
      BY FS_Subset
    <2> DEFINE one == SetToSeq(cut[1])
               two == SetToSeq(cut[2])
    <2>2. /\ one \in Seq(cut[1]) /\ ToSet(one) = cut[1]
          /\ two \in Seq(cut[2]) /\ ToSet(two) = cut[2]
      BY <2>1, ASetIsListed
    <2> HIDE DEF one, two
    <2>3. one \in Seq(entries) /\ two \in Seq(entries)
      BY <2>2, SeqDef
    <2>4. /\ <<one, two>> \in Seq(Seq(entries)) /\ Len(<<one, two>>) = 2
          /\ UNION {ToSet(<<one, two>>[i]) : i \in 1..2} = ToSet(one) \cup ToSet(two)
      BY <2>3
    <2> QED
      BY <1>2, <2>2, <2>4, CollectedHoldsAll DEF one, two
  <1> QED
    BY <1>1, <1>2 DEF Fragmented

\* A nonempty set of positions has a last one.
LEMMA LastPosition ==
    ASSUME NEW N \in Nat, NEW T, T \subseteq 1..N, T # {}
    PROVE  \E i \in T : \A j \in i + 1 .. N : j \notin T
  <1> DEFINE distances == {N - i : i \in T}
  <1>1. distances \subseteq Nat /\ distances # {}
    <2>1. \A i \in T : N - i \in Nat
      OBVIOUS
    <2> QED
      BY <2>1
  <1> HIDE DEF distances
  <1>2. PICK d \in distances : \A e \in distances : d <= e
    BY <1>1, LeastNatural
  <1> USE DEF distances
  <1>3. PICK i \in T : d = N - i
    OBVIOUS
  <1>4. ASSUME NEW j \in i + 1 .. N, j \in T PROVE FALSE
    <2>1. N - i <= N - j
      BY <1>2, <1>3, <1>4
    <2>2. i \in Nat /\ j \in Nat /\ j > i
      BY <1>3, <1>4
    <2> QED
      BY <2>1, <2>2
  <1> QED
    BY <1>3, <1>4

\* In a list whose entries are told apart by their names each is found under its own.
LEMMA EntriesAreFound ==
    ASSUME NEW E, NEW list \in Seq(E),
           \A a, b \in ToSet(list) : a.name = b.name => a = b
    PROVE  /\ DOMAIN ByName(list) = {entry.name : entry \in ToSet(list)}
           /\ \A entry \in ToSet(list) : ByName(list)[entry.name] = entry
  <1> DEFINE N == Len(list)
  <1>1. N \in Nat /\ DOMAIN list = 1..N
    BY LenProperties
  <1>2. DOMAIN ByName(list) = {entry.name : entry \in ToSet(list)}
    BY DEF ByName
  <1>3. ASSUME NEW entry \in ToSet(list)
        PROVE  ByName(list)[entry.name] = entry
    <2> DEFINE Final(i) == /\ list[i].name = entry.name
                           /\ \A j \in i + 1 .. N : list[j].name # entry.name
               named == {i \in 1..N : list[i].name = entry.name}
               last == CHOOSE i \in DOMAIN list : Final(i)
    <2>1. named \subseteq 1..N /\ named # {}
      BY <1>1 DEF ToSet
    <2>2. PICK i \in named : \A j \in i + 1 .. N : j \notin named
      <3> HIDE DEF N, named
      <3> QED
        BY <1>1, <2>1, LastPosition
    <2>3. i \in DOMAIN list /\ Final(i)
      BY <1>1, <2>2
    <2>4. last \in DOMAIN list /\ Final(last)
      <3> HIDE DEF Final
      <3> QED
        BY <2>3
    <2>5. list[last] \in ToSet(list) /\ list[last].name = entry.name
      BY <2>4 DEF ToSet
    <2>6. list[last] = entry
      BY <2>5
    <2>7. ByName(list)[entry.name] = list[last]
      BY <1>2 DEF ByName
    <2> QED
      BY <2>6, <2>7
  <1> QED
    BY <1>2, <1>3

-----------------------------------------------------------------------------
(***************************************************************************)
(* What is read tells the device                                           *)
(***************************************************************************)

\* What may be said of a port.
Told(port) ==
    {[description |-> port.description, ip_address |-> a[1], prefix_length |-> a[2],
      enabled |-> port.enabled, mtu |-> ReportedMtu(port)] : a \in AddressesOf(port)}

TellsInterfaces(interfaces, ports) ==
    /\ DOMAIN interfaces = DOMAIN ports
    /\ \A name \in DOMAIN ports : interfaces[name] \in Told(ports[name])

\* A set given by its names is finite when they are.
LEMMA NamedSetIsFinite ==
    ASSUME NEW f, IsFiniteSet(DOMAIN f)
    PROVE  IsFiniteSet({f[name] : name \in DOMAIN f})
  <1> DEFINE T == {f[name] : name \in DOMAIN f}
             g == [name \in DOMAIN f |-> f[name]]
  <1>1. g \in Surjection(DOMAIN f, T)
    BY DEF Surjection
  <1> HIDE DEF g, T
  <1>2. IsFiniteSet(T)
    BY <1>1, FS_Surjection
  <1> QED
    BY <1>2 DEF T

\* The interfaces read are the ports of the device.
LEMMA InterfacesAreTold ==
    ASSUME NEW ports, IsFiniteSet(DOMAIN ports),
           \A name \in DOMAIN ports : ports[name] \in Port,
           NEW answer \in InterfaceAnswers(ports)
    PROVE  TellsInterfaces(Interfaces(Collected(answer)), ports)
  <1> DEFINE Entry(orders, name) ==
                [name |-> name, description |-> ports[name].description,
                 addresses |-> orders[name], enabled |-> ports[name].enabled,
                 mtu |-> ReportedMtu(ports[name])]
  <1>1. PICK orders \in [DOMAIN ports -> SeqOf(Addresses, Cardinality(Addresses))] :
           /\ \A name \in DOMAIN ports : ToSet(orders[name]) = ports[name].addresses
           /\ answer \in Fragmented({Entry(orders, name) : name \in DOMAIN ports})
    BY DEF InterfaceAnswers
  <1> DEFINE f == [name \in DOMAIN ports |-> Entry(orders, name)]
             entries == {Entry(orders, name) : name \in DOMAIN ports}
             list == Collected(answer)
  <1>2. IsFiniteSet(entries)
    <2>1. DOMAIN f = DOMAIN ports /\ entries = {f[name] : name \in DOMAIN f}
      OBVIOUS
    <2> HIDE DEF f, entries
    <2> QED
      BY <2>1, NamedSetIsFinite
  <1>3. list \in Seq(entries) /\ ToSet(list) = entries
    <2> HIDE DEF entries
    <2> QED
      BY <1>1, <1>2, AnswerHoldsTheEntries DEF entries
  <1> HIDE DEF list
  <1>4. \A a, b \in ToSet(list) : a.name = b.name => a = b
    BY <1>3
  <1>5. /\ DOMAIN ByName(list) = {entry.name : entry \in ToSet(list)}
        /\ \A entry \in ToSet(list) : ByName(list)[entry.name] = entry
    <2> HIDE DEF entries
    <2> QED
      BY <1>3, <1>4, EntriesAreFound
  <1>6. /\ DOMAIN ByName(list) = DOMAIN ports
        /\ \A name \in DOMAIN ports : ByName(list)[name] = Entry(orders, name)
    <2>1. \A entry \in entries : entry.name \in DOMAIN ports
      OBVIOUS
    <2>2. \A name \in DOMAIN ports :
             Entry(orders, name) \in entries /\ Entry(orders, name).name = name
      OBVIOUS
    <2> HIDE DEF entries, Entry
    <2>3. \A name \in DOMAIN ports : ByName(list)[Entry(orders, name).name] = Entry(orders, name)
      BY <1>3, <1>5, <2>2
    <2>4. \A name \in DOMAIN ports : ByName(list)[name] = Entry(orders, name)
      BY <2>2, <2>3
    <2>5. {entry.name : entry \in entries} = DOMAIN ports
      BY <2>1, <2>2
    <2> QED
      BY <1>3, <1>5, <2>4, <2>5
  <1>7. ASSUME NEW name \in DOMAIN ports
        PROVE  Interfaces(list)[name] \in Told(ports[name])
    <2> DEFINE port == ports[name]
               order == orders[name]
    <2>1. Interfaces(list)[name] = NormalizeInterface(Entry(orders, name))
      BY <1>6 DEF Interfaces
    <2>2. ToSet(order) = port.addresses
      BY <1>1
    <2>3. order \in Seq(Addresses)
      <3>1. Cardinality(Addresses) \in Nat
        BY DriftCheckAssumption, FS_CardinalityType
      <3>2. PICK m \in 0..Cardinality(Addresses) : order \in [1..m -> Addresses]
        BY <1>1 DEF SeqOf
      <3> QED
        BY <3>1, <3>2, SeqDef
    <2>4. order = <<>> <=> port.addresses = {}
      <3>1. Len(order) \in Nat /\ DOMAIN order = 1..Len(order)
        BY <2>3, LenProperties
      <3>2. CASE order = <<>>
        BY <2>2, <3>2 DEF ToSet
      <3>3. CASE order # <<>>
        <4>1. 1 \in DOMAIN order
          BY <2>3, <3>1, <3>3, EmptySeq
        <4> QED
          BY <2>2, <3>3, <4>1 DEF ToSet
      <3> QED
        BY <3>2, <3>3
    <2>5. order # <<>> => order[1] \in port.addresses
      BY <2>2, <2>3 DEF ToSet
    <2> HIDE DEF order
    <2>6. NormalizeInterface(Entry(orders, name)) =
            [description |-> port.description,
             ip_address |-> IF order = <<>> THEN Unset ELSE order[1][1],
             prefix_length |-> IF order = <<>> THEN Unset ELSE order[1][2],
             enabled |-> port.enabled,
             mtu |-> ReportedMtu(port)]
      BY DEF NormalizeInterface, order
    <2> HIDE DEF port
    <2>7. CASE order = <<>>
      BY <2>1, <2>4, <2>6, <2>7 DEF Told, AddressesOf, port
    <2>8. CASE order # <<>>
      BY <2>1, <2>4, <2>5, <2>6, <2>8 DEF Told, AddressesOf, port
    <2> QED
      BY <2>7, <2>8
  <1>8. DOMAIN Interfaces(list) = DOMAIN ports
    BY <1>6 DEF Interfaces
  <1> QED
    BY <1>7, <1>8 DEF TellsInterfaces, list

\* The neighbours read are those of the device.
LEMMA NeighborsAreTold ==
    ASSUME NEW neighbors, IsFiniteSet(DOMAIN neighbors),
           neighbors \in [DOMAIN neighbors -> Neighbor],
           NEW answer \in NeighborAnswers(neighbors)
    PROVE  Neighbors(Collected(answer)) = neighbors
  <1> DEFINE Entry(peer) ==
                [name |-> peer, peer_asn |-> neighbors[peer].peer_asn,
                 peer_group |-> neighbors[peer].peer_group,
                 enabled |-> neighbors[peer].enabled]
             f == [peer \in DOMAIN neighbors |-> Entry(peer)]
             entries == {Entry(peer) : peer \in DOMAIN neighbors}
             list == Collected(answer)
  <1>1. answer \in Fragmented(entries)
    BY DEF NeighborAnswers
  <1>2. IsFiniteSet(entries)
    <2>1. DOMAIN f = DOMAIN neighbors /\ entries = {f[peer] : peer \in DOMAIN f}
      OBVIOUS
    <2> HIDE DEF f, entries
    <2> QED
      BY <2>1, NamedSetIsFinite
  <1>3. list \in Seq(entries) /\ ToSet(list) = entries
    <2> HIDE DEF entries
    <2> QED
      BY <1>1, <1>2, AnswerHoldsTheEntries DEF entries
  <1> HIDE DEF list
  <1>4. \A a, b \in ToSet(list) : a.name = b.name => a = b
    BY <1>3
  <1>5. /\ DOMAIN ByName(list) = {entry.name : entry \in ToSet(list)}
        /\ \A entry \in ToSet(list) : ByName(list)[entry.name] = entry
    <2> HIDE DEF entries
    <2> QED
      BY <1>3, <1>4, EntriesAreFound
  <1>6. /\ DOMAIN ByName(list) = DOMAIN neighbors
        /\ \A peer \in DOMAIN neighbors : ByName(list)[peer] = Entry(peer)
    <2>1. \A entry \in entries : entry.name \in DOMAIN neighbors
      OBVIOUS
    <2>2. \A peer \in DOMAIN neighbors : Entry(peer) \in entries /\ Entry(peer).name = peer
      OBVIOUS
    <2> HIDE DEF entries, Entry
    <2>3. \A peer \in DOMAIN neighbors : ByName(list)[Entry(peer).name] = Entry(peer)
      BY <1>3, <1>5, <2>2
    <2>4. \A peer \in DOMAIN neighbors : ByName(list)[peer] = Entry(peer)
      BY <2>2, <2>3
    <2>5. {entry.name : entry \in entries} = DOMAIN neighbors
      BY <2>1, <2>2
    <2> QED
      BY <1>3, <1>5, <2>4, <2>5
  <1>7. ASSUME NEW peer \in DOMAIN neighbors
        PROVE  Neighbors(list)[peer] = neighbors[peer]
    <2>1. Neighbors(list)[peer] = NormalizeNeighbor(Entry(peer))
      BY <1>6 DEF Neighbors
    <2>2. neighbors[peer] \in Neighbor
      OBVIOUS
    <2> QED
      BY <2>1, <2>2 DEF NormalizeNeighbor, Neighbor
  <1>8. Neighbors(list) = [peer \in DOMAIN neighbors |-> Neighbors(list)[peer]]
    BY <1>6 DEF Neighbors
  <1> QED
    BY <1>7, <1>8 DEF list

-----------------------------------------------------------------------------
(***************************************************************************)
(* What a report is made of                                                *)
(***************************************************************************)

\* What is read in a field of an entity, if it was read at all.
Has(actual, name, field) == IF name \in DOMAIN actual THEN actual[name][field] ELSE Unset

\* An item of a report, and why it is there.
IsForward(item, spec, wanted, actual, name, field) ==
    /\ name \in DOMAIN wanted /\ field \in spec.fields
    /\ wanted[name][field] = Unset => field \notin spec.skip_when_none
    /\ wanted[name][field] # Has(actual, name, field)
    /\ item = Item(name, field, wanted[name][field], Has(actual, name, field), FALSE)

IsUndesired(item, spec, wanted, actual, name, field) ==
    /\ name \in DOMAIN actual /\ field \in spec.value_fields
    /\ name \notin spec.protected \cup DOMAIN wanted
    /\ actual[name][field] # Unset
    /\ <<field, actual[name][field]>> \notin spec.device_defaults
    /\ item = Item(name, field, Unset, actual[name][field], TRUE)

LEMMA ForwardItemsAre ==
    ASSUME NEW spec, NEW wanted, NEW actual, NEW item
    PROVE  item \in ForwardItems(spec, wanted, actual) <=>
              \E name, field : IsForward(item, spec, wanted, actual, name, field)
  <1> DEFINE C == {x \in (DOMAIN wanted) \X spec.fields :
                      /\ ~(wanted[x[1]][x[2]] = Unset /\ x[2] \in spec.skip_when_none)
                      /\ wanted[x[1]][x[2]] # Has(actual, x[1], x[2])}
             Made(c) == Item(c[1], c[2], wanted[c[1]][c[2]], Has(actual, c[1], c[2]), FALSE)
  <1>1. ForwardItems(spec, wanted, actual) = {Made(c) : c \in C}
    BY DEF ForwardItems, Has
  <1>2. ASSUME NEW c \in C, item = Made(c)
        PROVE  \E name, field : IsForward(item, spec, wanted, actual, name, field)
    <2>1. IsForward(item, spec, wanted, actual, c[1], c[2])
      BY <1>2 DEF IsForward
    <2> QED
      BY <2>1
  <1>3. ASSUME NEW name, NEW field, IsForward(item, spec, wanted, actual, name, field)
        PROVE  \E c \in C : item = Made(c)
    <2>1. <<name, field>> \in C /\ item = Made(<<name, field>>)
      BY <1>3 DEF IsForward
    <2> HIDE DEF C, Made
    <2> QED
      BY <2>1
  <1> HIDE DEF C, Made
  <1> QED
    BY <1>1, <1>2, <1>3

LEMMA UndesiredItemsAre ==
    ASSUME NEW spec, NEW wanted, NEW actual, NEW item
    PROVE  item \in UndesiredItems(spec, wanted, actual) <=>
              \E name, field : IsUndesired(item, spec, wanted, actual, name, field)
  <1> DEFINE C == {x \in (DOMAIN actual) \X spec.value_fields :
                      /\ x[1] \notin spec.protected \cup DOMAIN wanted
                      /\ actual[x[1]][x[2]] # Unset
                      /\ <<x[2], actual[x[1]][x[2]]>> \notin spec.device_defaults}
             Made(c) == Item(c[1], c[2], Unset, actual[c[1]][c[2]], TRUE)
  <1>1. UndesiredItems(spec, wanted, actual) = {Made(c) : c \in C}
    BY DEF UndesiredItems
  <1>2. ASSUME NEW c \in C, item = Made(c)
        PROVE  \E name, field : IsUndesired(item, spec, wanted, actual, name, field)
    <2>1. IsUndesired(item, spec, wanted, actual, c[1], c[2])
      BY <1>2 DEF IsUndesired
    <2> QED
      BY <2>1
  <1>3. ASSUME NEW name, NEW field, IsUndesired(item, spec, wanted, actual, name, field)
        PROVE  \E c \in C : item = Made(c)
    <2>1. <<name, field>> \in C /\ item = Made(<<name, field>>)
      BY <1>3 DEF IsUndesired
    <2> HIDE DEF C, Made
    <2> QED
      BY <2>1
  <1> HIDE DEF C, Made
  <1> QED
    BY <1>1, <1>2, <1>3

\* A configuration of a device.
Config(c) ==
    /\ c = [interface |-> c.interface, neighbor |-> c.neighbor]
    /\ c.interface \in [DOMAIN c.interface -> Port]
    /\ DOMAIN c.interface \subseteq InterfaceNames /\ IsFiniteSet(DOMAIN c.interface)
    /\ c.neighbor \in [DOMAIN c.neighbor -> Neighbor]
    /\ DOMAIN c.neighbor \subseteq Peers /\ IsFiniteSet(DOMAIN c.neighbor)

\* What is told of a port, what it is meant to carry, and the same of a neighbour, are
\* known values.
LEMMA ToldIsKnown ==
    ASSUME NEW port \in Port, NEW told \in Told(port), NEW field \in InterfaceSpec.fields
    PROVE  told[field] \in FieldValues
  <1>1. PICK a \in AddressesOf(port) :
           told = [description |-> port.description, ip_address |-> a[1],
                   prefix_length |-> a[2], enabled |-> port.enabled, mtu |-> ReportedMtu(port)]
    BY DEF Told
  <1>2. /\ port.description \in FieldValues /\ port.enabled \in FieldValues
        /\ port.mtu \in FieldValues /\ ReportedMtu(port) \in FieldValues
    BY DEF Port, FieldValues, Or, ReportedMtu
  <1>3. a[1] \in FieldValues /\ a[2] \in FieldValues
    <2>1. CASE port.addresses = {}
      BY <2>1 DEF AddressesOf, FieldValues, Or
    <2>2. CASE port.addresses # {}
      <3>1. a \in Addresses
        BY <2>2 DEF AddressesOf, Port
      <3> QED
        BY <3>1 DEF FieldValues, Or
    <2> QED
      BY <2>1, <2>2
  <1> QED
    BY <1>1, <1>2, <1>3 DEF InterfaceSpec

LEMMA WantedIsKnown ==
    ASSUME NEW iface \in DesiredInterface, NEW field \in InterfaceSpec.fields
    PROVE  iface[field] \in FieldValues
  <1>1. iface \in [description : Or(Descriptions), ip_address : Or({a[1] : a \in Addresses}),
                   prefix_length : Or({a[2] : a \in Addresses}), enabled : Admin,
                   mtu : Or(Mtus)]
    BY DEF DesiredInterface
  <1> QED
    BY <1>1 DEF InterfaceSpec, FieldValues, Or

LEMMA PeersAreKnown ==
    ASSUME NEW neighbor \in Neighbor \cup DesiredSession, NEW field \in BgpSpec.fields
    PROVE  neighbor[field] \in FieldValues
  BY DEF Neighbor, DesiredSession, BgpSpec, FieldValues, Or

\* The names and fields of intent.
LEMMA IntentShape ==
    ASSUME NEW desired \in Intents
    PROVE  /\ desired.interfaces \in [DOMAIN desired.interfaces -> DesiredInterface]
           /\ desired.sessions \in [DOMAIN desired.sessions -> DesiredSession]
           /\ DOMAIN desired.interfaces \subseteq InterfaceNames
           /\ DOMAIN desired.sessions \subseteq Peers
           /\ IsFiniteSet(DOMAIN desired.interfaces) /\ IsFiniteSet(DOMAIN desired.sessions)
  BY DriftCheckAssumption DEF InterfaceNames, Peers

\* Every item of a comparison has known values.
LEMMA ItemsAreKnown ==
    ASSUME NEW desired \in Intents, NEW c, Config(c),
           NEW interfaces, TellsInterfaces(interfaces, c.interface),
           NEW item \in Items(desired, interfaces, c.neighbor)
    PROVE  item.desired \in FieldValues /\ item.actual \in FieldValues
  <1>0. Unset \in FieldValues
    BY DEF FieldValues, Or
  <1>1. ASSUME NEW name, NEW field,
               IsForward(item, InterfaceSpec, desired.interfaces, interfaces, name, field)
        PROVE  item.desired \in FieldValues /\ item.actual \in FieldValues
    <2>1. desired.interfaces[name][field] \in FieldValues
      BY <1>1, IntentShape, WantedIsKnown DEF IsForward
    <2>2. Has(interfaces, name, field) \in FieldValues
      BY <1>0, <1>1, ToldIsKnown DEF IsForward, Has, TellsInterfaces, Config
    <2> QED
      BY <1>1, <2>1, <2>2 DEF IsForward, Item
  <1>2. ASSUME NEW name, NEW field,
               IsForward(item, BgpSpec, desired.sessions, c.neighbor, name, field)
        PROVE  item.desired \in FieldValues /\ item.actual \in FieldValues
    <2>1. desired.sessions[name][field] \in FieldValues
      BY <1>2, IntentShape, PeersAreKnown DEF IsForward
    <2>2. Has(c.neighbor, name, field) \in FieldValues
      BY <1>0, <1>2, PeersAreKnown DEF IsForward, Has, Config
    <2> QED
      BY <1>2, <2>1, <2>2 DEF IsForward, Item
  <1>3. ASSUME NEW name, NEW field,
               IsUndesired(item, InterfaceSpec, desired.interfaces, interfaces, name, field)
        PROVE  item.desired \in FieldValues /\ item.actual \in FieldValues
    <2>1. field \in InterfaceSpec.fields
      BY <1>3 DEF IsUndesired, InterfaceSpec
    <2>2. interfaces[name][field] \in FieldValues
      BY <1>3, <2>1, ToldIsKnown DEF IsUndesired, TellsInterfaces, Config
    <2> QED
      BY <1>0, <1>3, <2>2 DEF IsUndesired, Item
  <1>4. ASSUME NEW name, NEW field,
               IsUndesired(item, BgpSpec, desired.sessions, c.neighbor, name, field)
        PROVE  item.desired \in FieldValues /\ item.actual \in FieldValues
    <2>1. field \in BgpSpec.fields
      BY <1>4 DEF IsUndesired, BgpSpec
    <2>2. c.neighbor[name][field] \in FieldValues
      BY <1>4, <2>1, PeersAreKnown DEF IsUndesired, Config
    <2> QED
      BY <1>0, <1>4, <2>2 DEF IsUndesired, Item
  <1> QED
    BY <1>1, <1>2, <1>3, <1>4, ForwardItemsAre, UndesiredItemsAre DEF Items

-----------------------------------------------------------------------------
(***************************************************************************)
(* A report tells what the device had                                      *)
(***************************************************************************)

LEMMA InterfaceIsFound ==
    ASSUME Config(read), NEW interfaces, TellsInterfaces(interfaces, read.interface),
           NEW name \in InterfaceNames, NEW field \in InterfaceSpec.fields
    PROVE  Has(interfaces, name, field) \in Found(name, field)
  <1>1. name \notin DOMAIN read.neighbor
    BY DriftCheckAssumption DEF Config
  <1>2. CASE name \notin DOMAIN read.interface
    BY <1>1, <1>2 DEF Has, Found, TellsInterfaces
  <1>3. CASE name \in DOMAIN read.interface
    <2> DEFINE port == read.interface[name]
    <2>1. PICK a \in AddressesOf(port) :
             interfaces[name] =
                [description |-> port.description, ip_address |-> a[1],
                 prefix_length |-> a[2], enabled |-> port.enabled, mtu |-> ReportedMtu(port)]
      BY <1>3 DEF TellsInterfaces, Told
    <2>2. Has(interfaces, name, field) = interfaces[name][field]
      BY <1>3 DEF Has, TellsInterfaces
    <2> DEFINE ips == {b[1] : b \in AddressesOf(port)}
               prefixes == {b[2] : b \in AddressesOf(port)}
    <2>3. Found(name, field) =
             CASE field = "ip_address" -> ips
               [] field = "prefix_length" -> prefixes
               [] field = "mtu" -> {ReportedMtu(port)}
               [] OTHER -> {port[field]}
      BY <1>1, <1>3 DEF Found
    <2>4. a[1] \in ips /\ a[2] \in prefixes
      BY <2>1
    <2> HIDE DEF port, ips, prefixes
    <2>5. CASE field = "ip_address"
      <3>1. Found(name, field) = ips
        BY <2>3, <2>5
      <3> QED
        BY <2>1, <2>2, <2>4, <2>5, <3>1
    <2>6. CASE field = "prefix_length"
      <3>1. Found(name, field) = prefixes
        BY <2>3, <2>6
      <3> QED
        BY <2>1, <2>2, <2>4, <2>6, <3>1
    <2>7. CASE field = "mtu"
      <3>1. Found(name, field) = {ReportedMtu(port)}
        BY <2>3, <2>7
      <3> QED
        BY <2>1, <2>2, <2>7, <3>1
    <2>8. CASE field \in {"description", "enabled"}
      <3>1. Found(name, field) = {port[field]}
        BY <2>3, <2>8
      <3> QED
        BY <2>1, <2>2, <2>8, <3>1
    <2> QED
      BY <2>5, <2>6, <2>7, <2>8 DEF InterfaceSpec
  <1> QED
    BY <1>2, <1>3

LEMMA PeerIsFound ==
    ASSUME Config(read), NEW peer \in Peers, NEW field \in BgpSpec.fields
    PROVE  Has(read.neighbor, peer, field) \in Found(peer, field)
  <1>1. peer \notin DOMAIN read.interface
    BY DriftCheckAssumption DEF Config
  <1> QED
    BY <1>1 DEF Has, Found

\* What a configuration puts on the device.
LEMMA ValuesAre ==
    ASSUME NEW c, NEW value
    PROVE  value \in Values(c) <=>
              \/ \E name \in DOMAIN c.interface : value \in PortValues(name, c.interface[name])
              \/ \E peer \in DOMAIN c.neighbor : value \in NeighborValues(peer, c.neighbor[peer])
  BY DEF Values

\* What is there and no default shows in what is told.
LEMMA PortValueIsTold ==
    ASSUME NEW port \in Port, NEW told \in Told(port), NEW name,
           NEW value \in PortValues(name, port), value[3] \notin {Unset, DefaultMtu}
    PROVE  /\ value[1] = name /\ value[2] \in InterfaceSpec.value_fields
           /\ told[value[2]] # Unset
           /\ <<value[2], told[value[2]]>> \notin InterfaceSpec.device_defaults
  <1>1. PICK a \in AddressesOf(port) :
           told = [description |-> port.description, ip_address |-> a[1],
                   prefix_length |-> a[2], enabled |-> port.enabled, mtu |-> ReportedMtu(port)]
    BY DEF Told
  <1>2. CASE value = <<name, "description", port.description>>
    BY <1>1, <1>2 DEF InterfaceSpec
  <1>3. CASE value = <<name, "mtu", port.mtu>>
    BY <1>1, <1>3 DEF InterfaceSpec, ReportedMtu
  <1>4. ASSUME NEW b \in port.addresses,
               value \in {<<name, "ip_address", b[1]>>, <<name, "prefix_length", b[2]>>}
        PROVE  /\ value[1] = name /\ value[2] \in InterfaceSpec.value_fields
               /\ told[value[2]] # Unset
               /\ <<value[2], told[value[2]]>> \notin InterfaceSpec.device_defaults
    <2>1. a \in Addresses
      BY <1>4 DEF AddressesOf, Port
    <2>2. a[1] # Unset /\ a[2] # Unset
      BY <2>1, DriftCheckAssumption
    <2> QED
      BY <1>1, <1>4, <2>2 DEF InterfaceSpec
  <1> QED
    BY <1>2, <1>3, <1>4 DEF PortValues

LEMMA ItemsTellTheDevice ==
    ASSUME Config(read), check.desired \in Intents,
           NEW interfaces, TellsInterfaces(interfaces, read.interface),
           report.items = Items(check.desired, interfaces, read.neighbor)
    PROVE  ReportTellsTheDevice
  <1> DEFINE desired == check.desired
  <1>1. ASSUME NEW item \in report.items
        PROVE  /\ item.actual \in Found(item.entity, item.field)
               /\ item.actual # item.desired
    <2>1. ASSUME NEW name, NEW field,
                 IsForward(item, InterfaceSpec, desired.interfaces, interfaces, name, field)
          PROVE  /\ item.actual \in Found(item.entity, item.field)
                 /\ item.actual # item.desired
      <3>1. name \in InterfaceNames /\ field \in InterfaceSpec.fields
        BY <2>1, IntentShape DEF IsForward
      <3>2. Has(interfaces, name, field) \in Found(name, field)
        BY <3>1, InterfaceIsFound
      <3> QED
        BY <2>1, <3>2 DEF IsForward, Item
    <2>2. ASSUME NEW name, NEW field,
                 IsForward(item, BgpSpec, desired.sessions, read.neighbor, name, field)
          PROVE  /\ item.actual \in Found(item.entity, item.field)
                 /\ item.actual # item.desired
      <3>1. name \in Peers /\ field \in BgpSpec.fields
        BY <2>2, IntentShape DEF IsForward
      <3>2. Has(read.neighbor, name, field) \in Found(name, field)
        BY <3>1, PeerIsFound
      <3> QED
        BY <2>2, <3>2 DEF IsForward, Item
    <2>3. ASSUME NEW name, NEW field,
                 IsUndesired(item, InterfaceSpec, desired.interfaces, interfaces, name, field)
          PROVE  /\ item.actual \in Found(item.entity, item.field)
                 /\ item.actual # item.desired
      <3>1. name \in InterfaceNames /\ field \in InterfaceSpec.fields
        BY <2>3 DEF IsUndesired, TellsInterfaces, Config, InterfaceSpec
      <3>2. Has(interfaces, name, field) \in Found(name, field)
        BY <3>1, InterfaceIsFound
      <3> QED
        BY <2>3, <3>2 DEF IsUndesired, Item, Has
    <2>4. ASSUME NEW name, NEW field,
                 IsUndesired(item, BgpSpec, desired.sessions, read.neighbor, name, field)
          PROVE  /\ item.actual \in Found(item.entity, item.field)
                 /\ item.actual # item.desired
      <3>1. name \in Peers /\ field \in BgpSpec.fields
        BY <2>4 DEF IsUndesired, Config, BgpSpec
      <3>2. Has(read.neighbor, name, field) \in Found(name, field)
        BY <3>1, PeerIsFound
      <3> QED
        BY <2>4, <3>2 DEF IsUndesired, Item, Has
    <2> QED
      BY <2>1, <2>2, <2>3, <2>4, ForwardItemsAre, UndesiredItemsAre DEF Items
  <1>2. ASSUME NEW entity \in DOMAIN Wanted, NEW field \in DOMAIN Wanted[entity],
               Wanted[entity][field] \notin Found(entity, field) \cup {Unset}
        PROVE  \E item \in report.items :
                  item.entity = entity /\ item.field = field /\ ~item.undesired
    <2>1. CASE entity \in DOMAIN desired.interfaces
      <3> DEFINE item == Item(entity, field, Wanted[entity][field],
                              Has(interfaces, entity, field), FALSE)
      <3>1. /\ Wanted[entity] = desired.interfaces[entity]
            /\ Wanted[entity] \in DesiredInterface /\ entity \in InterfaceNames
        BY <2>1, IntentShape DEF Wanted
      <3>2. field \in InterfaceSpec.fields
        BY <3>1 DEF DesiredInterface, InterfaceSpec
      <3>3. Has(interfaces, entity, field) \in Found(entity, field)
        BY <3>1, <3>2, InterfaceIsFound
      <3>4. IsForward(item, InterfaceSpec, desired.interfaces, interfaces, entity, field)
        BY <1>2, <2>1, <3>1, <3>2, <3>3 DEF IsForward
      <3>5. item.entity = entity /\ item.field = field /\ item.undesired = FALSE
        BY DEF Item
      <3> HIDE DEF item
      <3>6. item \in report.items
        BY <3>4, ForwardItemsAre DEF Items
      <3> QED
        BY <3>5, <3>6
    <2>2. CASE entity \notin DOMAIN desired.interfaces
      <3> DEFINE item == Item(entity, field, Wanted[entity][field],
                              Has(read.neighbor, entity, field), FALSE)
      <3>1. /\ entity \in DOMAIN desired.sessions
            /\ Wanted[entity] = desired.sessions[entity]
            /\ Wanted[entity] \in DesiredSession /\ entity \in Peers
        BY <2>2, IntentShape DEF Wanted
      <3>2. field \in BgpSpec.fields
        BY <3>1 DEF DesiredSession, BgpSpec
      <3>3. Has(read.neighbor, entity, field) \in Found(entity, field)
        BY <3>1, <3>2, PeerIsFound
      <3>4. IsForward(item, BgpSpec, desired.sessions, read.neighbor, entity, field)
        BY <1>2, <3>1, <3>2, <3>3 DEF IsForward
      <3>5. item.entity = entity /\ item.field = field /\ item.undesired = FALSE
        BY DEF Item
      <3> HIDE DEF item
      <3>6. item \in report.items
        BY <3>4, ForwardItemsAre DEF Items
      <3> QED
        BY <3>5, <3>6
    <2> QED
      BY <2>1, <2>2
  <1>3. ASSUME NEW value \in Values(read),
               value[1] \notin DOMAIN Wanted \cup InterfaceSpec.protected,
               value[3] \notin {Unset, DefaultMtu}
        PROVE  \E item \in report.items :
                  item.entity = value[1] /\ item.field = value[2] /\ item.undesired
    <2>1. value[1] \notin DOMAIN desired.interfaces /\ value[1] \notin DOMAIN desired.sessions
      BY <1>3 DEF Wanted
    <2>2. ASSUME NEW name \in DOMAIN read.interface,
                 value \in PortValues(name, read.interface[name])
          PROVE  \E item \in report.items :
                    item.entity = value[1] /\ item.field = value[2] /\ item.undesired
      <3> DEFINE field == value[2]
                 item == Item(name, field, Unset, interfaces[name][field], TRUE)
      <3>1. read.interface[name] \in Port /\ interfaces[name] \in Told(read.interface[name])
            /\ name \in DOMAIN interfaces
        BY DEF Config, TellsInterfaces
      <3>2. /\ value[1] = name /\ field \in InterfaceSpec.value_fields
            /\ interfaces[name][field] # Unset
            /\ <<field, interfaces[name][field]>> \notin InterfaceSpec.device_defaults
        BY <1>3, <2>2, <3>1, PortValueIsTold
      <3>3. IsUndesired(item, InterfaceSpec, desired.interfaces, interfaces, name, field)
        BY <1>3, <2>1, <3>1, <3>2 DEF IsUndesired
      <3>4. item.entity = name /\ item.field = field /\ item.undesired
        BY DEF Item
      <3> HIDE DEF item
      <3>5. item \in report.items
        BY <3>3, UndesiredItemsAre DEF Items
      <3> QED
        BY <3>2, <3>4, <3>5
    <2>3. ASSUME NEW peer \in DOMAIN read.neighbor,
                 value \in NeighborValues(peer, read.neighbor[peer])
          PROVE  \E item \in report.items :
                    item.entity = value[1] /\ item.field = value[2] /\ item.undesired
      <3> DEFINE field == value[2]
                 item == Item(peer, field, Unset, read.neighbor[peer][field], TRUE)
      <3>1. /\ value[1] = peer /\ field \in BgpSpec.value_fields
            /\ read.neighbor[peer][field] = value[3]
        BY <2>3 DEF NeighborValues, BgpSpec
      <3>2. IsUndesired(item, BgpSpec, desired.sessions, read.neighbor, peer, field)
        BY <1>3, <2>1, <3>1 DEF IsUndesired, BgpSpec
      <3>3. item.entity = peer /\ item.field = field /\ item.undesired
        BY DEF Item
      <3> HIDE DEF item
      <3>4. item \in report.items
        BY <3>2, UndesiredItemsAre DEF Items
      <3> QED
        BY <3>1, <3>3, <3>4
    <2> QED
      BY <2>2, <2>3, ValuesAre
  <1> QED
    BY <1>1, <1>2, <1>3 DEF ReportTellsTheDevice

-----------------------------------------------------------------------------
(***************************************************************************)
(* What a deploy leaves, and where what is too much comes from             *)
(***************************************************************************)

\* A port carries an interface of intent, and a device what is desired of it.
CarriesInterface(port, iface) ==
    /\ iface.description # Unset => port.description = iface.description
    /\ iface.ip_address # Unset => <<iface.ip_address, iface.prefix_length>> \in port.addresses
    /\ port.enabled = iface.enabled
    /\ iface.mtu # Unset => port.mtu = iface.mtu

CarriesSession(neighbor, session) ==
    /\ neighbor.peer_asn = session.peer_asn
    /\ session.peer_group # Unset => neighbor.peer_group = session.peer_group
    /\ neighbor.enabled = session.enabled

Carries(c, desired) ==
    /\ \A name \in DOMAIN desired.interfaces :
          /\ name \in DOMAIN c.interface
          /\ CarriesInterface(c.interface[name], desired.interfaces[name])
    /\ \A peer \in DOMAIN desired.sessions :
          /\ peer \in DOMAIN c.neighbor
          /\ CarriesSession(c.neighbor[peer], desired.sessions[peer])

\* A value that a port carries and that is not told of it is one of several addresses.
LEMMA OnlyAnAddressIsMissed ==
    ASSUME NEW port \in Port, NEW iface \in DesiredInterface, CarriesInterface(port, iface),
           NEW told \in Told(port), NEW field \in InterfaceSpec.fields,
           iface[field] # Unset, iface[field] # told[field]
    PROVE  field \in {"ip_address", "prefix_length"} /\ Cardinality(port.addresses) > 1
  <1>1. PICK a \in AddressesOf(port) :
           told = [description |-> port.description, ip_address |-> a[1],
                   prefix_length |-> a[2], enabled |-> port.enabled, mtu |-> ReportedMtu(port)]
    BY DEF Told
  <1>2. field \in {"ip_address", "prefix_length"}
    BY <1>1 DEF CarriesInterface, ReportedMtu, InterfaceSpec
  <1>3. iface.ip_address # Unset
    BY <1>2 DEF DesiredInterface
  <1>4. <<iface.ip_address, iface.prefix_length>> \in port.addresses
    BY <1>3 DEF CarriesInterface
  <1>5. a \in port.addresses /\ a # <<iface.ip_address, iface.prefix_length>>
    BY <1>1, <1>2, <1>4 DEF AddressesOf
  <1>6. IsFiniteSet(port.addresses)
    BY DriftCheckAssumption, FS_Subset DEF Port
  <1>7. Cardinality(port.addresses) \in Nat
    BY <1>6, FS_CardinalityType
  <1>8. Cardinality(port.addresses) # 0
    BY <1>4, <1>6, FS_EmptySet
  <1>9. Cardinality(port.addresses) # 1
    BY <1>4, <1>5, <1>6, FS_Singleton
  <1> QED
    BY <1>2, <1>7, <1>8, <1>9

LEMMA ItemsOfACarrier ==
    ASSUME Config(read), check.desired \in Intents, Carries(read, check.desired),
           NEW interfaces, TellsInterfaces(interfaces, read.interface),
           report.items = Items(check.desired, interfaces, read.neighbor),
           NEW item \in report.items, ~item.undesired
    PROVE  \/ item.desired = Unset
           \/ /\ item.field \in {"ip_address", "prefix_length"}
              /\ Cardinality(read.interface[item.entity].addresses) > 1
  <1> DEFINE desired == check.desired
             Goal == \/ item.desired = Unset
                     \/ /\ item.field \in {"ip_address", "prefix_length"}
                        /\ Cardinality(read.interface[item.entity].addresses) > 1
  <1>1. ASSUME NEW name, NEW field,
               IsForward(item, InterfaceSpec, desired.interfaces, interfaces, name, field)
        PROVE  Goal
    <2>1. /\ item.entity = name /\ item.field = field
          /\ item.desired = desired.interfaces[name][field]
          /\ desired.interfaces[name][field] # Has(interfaces, name, field)
          /\ name \in DOMAIN desired.interfaces /\ field \in InterfaceSpec.fields
      BY <1>1 DEF IsForward, Item
    <2>2. /\ name \in DOMAIN read.interface
          /\ read.interface[name] \in Port /\ desired.interfaces[name] \in DesiredInterface
          /\ CarriesInterface(read.interface[name], desired.interfaces[name])
          /\ interfaces[name] \in Told(read.interface[name])
          /\ Has(interfaces, name, field) = interfaces[name][field]
      BY <2>1, IntentShape DEF Carries, Config, TellsInterfaces, Has
    <2>3. CASE item.desired # Unset
      BY <2>1, <2>2, <2>3, OnlyAnAddressIsMissed
    <2> QED
      BY <2>3
  <1>2. ASSUME NEW name, NEW field,
               IsForward(item, BgpSpec, desired.sessions, read.neighbor, name, field)
        PROVE  item.desired = Unset
    <2>1. /\ item.desired = desired.sessions[name][field]
          /\ desired.sessions[name][field] # Has(read.neighbor, name, field)
          /\ name \in DOMAIN desired.sessions /\ field \in {"peer_asn", "peer_group", "enabled"}
      BY <1>2 DEF IsForward, Item, BgpSpec
    <2>2. /\ CarriesSession(read.neighbor[name], desired.sessions[name])
          /\ Has(read.neighbor, name, field) = read.neighbor[name][field]
      BY <2>1 DEF Carries, Has
    <2> QED
      BY <2>1, <2>2 DEF CarriesSession
  <1>3. ASSUME NEW spec, NEW wanted, NEW actual, NEW name, NEW field,
               IsUndesired(item, spec, wanted, actual, name, field)
        PROVE  FALSE
    BY <1>3 DEF IsUndesired, Item
  <1> HIDE DEF Goal
  <1>4. Goal
    BY <1>1, <1>2, <1>3, ForwardItemsAre, UndesiredItemsAre DEF Items, Goal
  <1> QED
    BY <1>4 DEF Goal

\* A value told of a port in a field is one of those it has, or its default.
LEMMA ToldValueIsThere ==
    ASSUME NEW port \in Port, NEW told \in Told(port), NEW name,
           NEW field \in InterfaceSpec.value_fields, told[field] # Unset,
           <<field, told[field]>> \notin InterfaceSpec.device_defaults
    PROVE  <<name, field, told[field]>> \in PortValues(name, port)
  <1>1. PICK a \in AddressesOf(port) :
           told = [description |-> port.description, ip_address |-> a[1],
                   prefix_length |-> a[2], enabled |-> port.enabled, mtu |-> ReportedMtu(port)]
    BY DEF Told
  <1>2. CASE field = "description"
    BY <1>1, <1>2 DEF PortValues
  <1>3. CASE field = "mtu"
    BY <1>1, <1>3 DEF PortValues, ReportedMtu, InterfaceSpec
  <1>4. CASE field \in {"ip_address", "prefix_length"}
    <2>1. a \in port.addresses
      BY <1>1, <1>4 DEF AddressesOf
    <2> QED
      BY <1>1, <1>4, <2>1 DEF PortValues
  <1> QED
    BY <1>2, <1>3, <1>4 DEF InterfaceSpec

LEMMA ItemsWerePut ==
    ASSUME Config(read), check.desired \in Intents, Values(read) \subseteq put,
           NEW interfaces, TellsInterfaces(interfaces, read.interface),
           report.items = Items(check.desired, interfaces, read.neighbor),
           NEW item \in report.items, item.desired = Unset
    PROVE  <<item.entity, item.field, item.actual>> \in put
  <1> DEFINE desired == check.desired
             there == <<item.entity, item.field, item.actual>>
  <1>1. ASSUME NEW name \in DOMAIN read.interface, NEW field \in InterfaceSpec.value_fields,
               interfaces[name][field] # Unset,
               <<field, interfaces[name][field]>> \notin InterfaceSpec.device_defaults,
               there = <<name, field, interfaces[name][field]>>
        PROVE  there \in put
    <2>1. read.interface[name] \in Port /\ interfaces[name] \in Told(read.interface[name])
      BY DEF Config, TellsInterfaces
    <2>2. <<name, field, interfaces[name][field]>> \in PortValues(name, read.interface[name])
      BY <1>1, <2>1, ToldValueIsThere
    <2> HIDE DEF there
    <2> QED
      BY <1>1, <2>2, ValuesAre
  <1>2. ASSUME NEW peer \in DOMAIN read.neighbor, NEW field \in BgpSpec.value_fields,
               there = <<peer, field, read.neighbor[peer][field]>>
        PROVE  there \in put
    <2>1. <<peer, field, read.neighbor[peer][field]>> \in NeighborValues(peer, read.neighbor[peer])
      BY DEF BgpSpec, NeighborValues
    <2> HIDE DEF there
    <2> QED
      BY <1>2, <2>1, ValuesAre
  <1>3. ASSUME NEW name, NEW field,
               IsForward(item, InterfaceSpec, desired.interfaces, interfaces, name, field)
        PROVE  there \in put
    <2>1. /\ there = <<name, field, Has(interfaces, name, field)>>
          /\ desired.interfaces[name][field] = Unset /\ field # "mtu"
          /\ Has(interfaces, name, field) # Unset
          /\ desired.interfaces[name] \in DesiredInterface
          /\ field \in InterfaceSpec.fields
      BY <1>3, IntentShape DEF IsForward, Item, InterfaceSpec
    <2>2. field # "enabled"
      BY <2>1, DriftCheckAssumption DEF DesiredInterface
    <2>3. field \in InterfaceSpec.value_fields
          /\ <<field, Has(interfaces, name, field)>> \notin InterfaceSpec.device_defaults
      BY <2>1, <2>2 DEF InterfaceSpec
    <2>4. name \in DOMAIN read.interface /\ Has(interfaces, name, field) = interfaces[name][field]
      BY <2>1 DEF Has, TellsInterfaces
    <2> HIDE DEF there
    <2> QED
      BY <1>1, <2>1, <2>3, <2>4
  <1>4. ASSUME NEW name, NEW field,
               IsForward(item, BgpSpec, desired.sessions, read.neighbor, name, field)
        PROVE  there \in put
    <2>1. /\ there = <<name, field, Has(read.neighbor, name, field)>>
          /\ desired.sessions[name][field] = Unset
          /\ Has(read.neighbor, name, field) # Unset
          /\ desired.sessions[name] \in DesiredSession
          /\ field \in {"peer_asn", "peer_group", "enabled"}
      BY <1>4, IntentShape DEF IsForward, Item, BgpSpec
    <2>2. field = "peer_group"
      BY <2>1, DriftCheckAssumption DEF DesiredSession
    <2>3. field \in BgpSpec.value_fields
      BY <2>2 DEF BgpSpec
    <2>4. name \in DOMAIN read.neighbor /\ Has(read.neighbor, name, field) = read.neighbor[name][field]
      BY <2>1 DEF Has
    <2> HIDE DEF there
    <2> QED
      BY <1>2, <2>1, <2>3, <2>4
  <1>5. ASSUME NEW name, NEW field,
               IsUndesired(item, InterfaceSpec, desired.interfaces, interfaces, name, field)
        PROVE  there \in put
    <2>1. /\ name \in DOMAIN read.interface /\ field \in InterfaceSpec.value_fields
          /\ interfaces[name][field] # Unset
          /\ <<field, interfaces[name][field]>> \notin InterfaceSpec.device_defaults
          /\ there = <<name, field, interfaces[name][field]>>
      BY <1>5 DEF IsUndesired, Item, TellsInterfaces
    <2> HIDE DEF there
    <2> QED
      BY <1>1, <2>1
  <1>6. ASSUME NEW name, NEW field,
               IsUndesired(item, BgpSpec, desired.sessions, read.neighbor, name, field)
        PROVE  there \in put
    <2>1. /\ name \in DOMAIN read.neighbor /\ field \in BgpSpec.value_fields
          /\ there = <<name, field, read.neighbor[name][field]>>
      BY <1>6 DEF IsUndesired, Item
    <2> HIDE DEF there
    <2> QED
      BY <1>2, <2>1
  <1> QED
    BY <1>3, <1>4, <1>5, <1>6, ForwardItemsAre, UndesiredItemsAre DEF Items

-----------------------------------------------------------------------------
(***************************************************************************)
(* The inductive invariant                                                 *)
(***************************************************************************)

\* A deploy or a scan is in progress or its report stands.
InHand == check.pc # "idle" \/ Compared

Typed ==
    /\ intent \in Intents
    /\ edits \in 0..MaxEdits
    /\ Config(device) /\ Config(read)
    /\ check = [pc |-> check.pc, verifies |-> check.verifies, desired |-> check.desired,
                interfaces |-> check.interfaces]
    /\ check.pc \in {"idle", "interfaces", "neighbors"}
    /\ check.desired \in Or(Intents)
    /\ InHand => check.desired \in Intents
    /\ report.status \in {"none", "clean", "drifted", "error"}
    /\ Compared \/ report.items = {}

\* What was read and not yet compared, and what was compared, are the device as each GET
\* found it.
ReadsTheDevice ==
    /\ check.pc = "neighbors" =>
          TellsInterfaces(Interfaces(check.interfaces), read.interface)
    /\ Compared =>
          \E interfaces :
              /\ TellsInterfaces(interfaces, read.interface)
              /\ report.items = Items(check.desired, interfaces, read.neighbor)

\* Whatever is on the device, or was when it was read, somebody put there.
AllWasPut == Values(device) \subseteq put /\ Values(read) \subseteq put

\* Until the device is edited it carries what was set, and is what was read.
StillCarries ==
    InHand /\ check.verifies /\ ~disturbed =>
        /\ Carries(device, check.desired)
        /\ check.pc # "interfaces" => read.interface = device.interface
        /\ Compared => read.neighbor = device.neighbor

IInv == Typed /\ ReadsTheDevice /\ AllWasPut /\ StillCarries

-----------------------------------------------------------------------------
(***************************************************************************)
(* Configurations                                                          *)
(***************************************************************************)

LEMMA UnreadIsEmpty ==
    Config(Unread) /\ Values(Unread) = {}
  <1>1. DOMAIN <<>> = {}
    OBVIOUS
  <1>2. \A S : <<>> \in [DOMAIN <<>> -> S]
    BY <1>1
  <1>3. IsFiniteSet({})
    BY FS_EmptySet
  <1>4. Config(Unread)
    BY <1>1, <1>2, <1>3 DEF Config, Unread
  <1>5. \A value : value \notin Values(Unread)
    BY <1>1, ValuesAre DEF Unread
  <1> QED
    BY <1>4, <1>5

LEMMA RenderedIsAPort ==
    ASSUME NEW port \in Port, NEW iface \in DesiredInterface,
           iface.ip_address # Unset => iface.prefix_length # Unset
    PROVE  /\ MergeInterface(port, RenderInterface(iface)) \in Port
           /\ CarriesInterface(MergeInterface(port, RenderInterface(iface)), iface)
  <1> DEFINE rendered == RenderInterface(iface)
  <1>1. rendered.addresses \subseteq Addresses
    BY DEF RenderInterface, DesiredInterface
  <1>2. /\ rendered.description = iface.description /\ rendered.enabled = iface.enabled
        /\ rendered.mtu = iface.mtu
        /\ iface.ip_address # Unset =>
              <<iface.ip_address, iface.prefix_length>> \in rendered.addresses
    BY DEF RenderInterface
  <1>3. /\ iface.description \in Or(Descriptions) /\ iface.enabled \in Admin
        /\ iface.mtu \in Or(Mtus)
    BY DEF DesiredInterface
  <1> HIDE DEF rendered
  <1>4. MergeInterface(port, rendered) \in Port
    BY <1>1, <1>2, <1>3 DEF MergeInterface, Override, Port
  <1>5. CarriesInterface(MergeInterface(port, rendered), iface)
    BY <1>2 DEF MergeInterface, Override, CarriesInterface
  <1> QED
    BY <1>4, <1>5 DEF rendered

LEMMA MergedIsANeighbor ==
    ASSUME NEW neighbor \in Neighbor, NEW session \in DesiredSession
    PROVE  /\ MergeNeighbor(neighbor, session) \in Neighbor
           /\ CarriesSession(MergeNeighbor(neighbor, session), session)
  BY DEF MergeNeighbor, Override, Neighbor, DesiredSession, Or, CarriesSession

\* What a SET leaves is a configuration that carries what was set.
LEMMA AppliedCarries ==
    ASSUME NEW c, Config(c), NEW desired \in Intents, Renders(desired)
    PROVE  Config(Applied(c, desired)) /\ Carries(Applied(c, desired), desired)
  <1> DEFINE new == Applied(c, desired)
             Old(name) == IF name \in DOMAIN c.interface THEN c.interface[name] ELSE NoPort
             OldPeer(peer) == IF peer \in DOMAIN c.neighbor THEN c.neighbor[peer] ELSE NoNeighbor
  <1>1. /\ new = [interface |-> new.interface, neighbor |-> new.neighbor]
        /\ DOMAIN new.interface = DOMAIN c.interface \cup DOMAIN desired.interfaces
        /\ DOMAIN new.neighbor = DOMAIN c.neighbor \cup DOMAIN desired.sessions
        /\ new.interface = [name \in DOMAIN new.interface |-> new.interface[name]]
        /\ new.neighbor = [peer \in DOMAIN new.neighbor |-> new.neighbor[peer]]
    BY DEF Applied
  <1>2. ASSUME NEW name \in DOMAIN new.interface
        PROVE  new.interface[name] =
                 IF name \in DOMAIN desired.interfaces
                 THEN MergeInterface(Old(name), RenderInterface(desired.interfaces[name]))
                 ELSE Old(name)
    BY <1>1 DEF Applied
  <1>3. ASSUME NEW peer \in DOMAIN new.neighbor
        PROVE  new.neighbor[peer] =
                 IF peer \in DOMAIN desired.sessions
                 THEN MergeNeighbor(OldPeer(peer), desired.sessions[peer])
                 ELSE OldPeer(peer)
    BY <1>1 DEF Applied
  <1>4. \A name : Old(name) \in Port
    BY DEF Config, NoPort, Port, Or, Admin
  <1>5. \A peer : OldPeer(peer) \in Neighbor
    BY DEF Config, NoNeighbor, Neighbor, Or, Admin
  <1>6. \A name \in DOMAIN desired.interfaces :
           /\ desired.interfaces[name] \in DesiredInterface
           /\ desired.interfaces[name].ip_address # Unset =>
                 desired.interfaces[name].prefix_length # Unset
    BY IntentShape DEF Renders
  <1>7. \A peer \in DOMAIN desired.sessions : desired.sessions[peer] \in DesiredSession
    BY IntentShape
  <1> HIDE DEF new, Old, OldPeer
  <1>8. ASSUME NEW name \in DOMAIN new.interface
        PROVE  /\ new.interface[name] \in Port
               /\ name \in DOMAIN desired.interfaces =>
                     CarriesInterface(new.interface[name], desired.interfaces[name])
    BY <1>2, <1>4, <1>6, <1>8, RenderedIsAPort
  <1>9. ASSUME NEW peer \in DOMAIN new.neighbor
        PROVE  /\ new.neighbor[peer] \in Neighbor
               /\ peer \in DOMAIN desired.sessions =>
                     CarriesSession(new.neighbor[peer], desired.sessions[peer])
    BY <1>3, <1>5, <1>7, <1>9, MergedIsANeighbor
  <1>10. /\ IsFiniteSet(DOMAIN new.interface) /\ DOMAIN new.interface \subseteq InterfaceNames
         /\ IsFiniteSet(DOMAIN new.neighbor) /\ DOMAIN new.neighbor \subseteq Peers
    <2>1. /\ IsFiniteSet(DOMAIN c.interface) /\ IsFiniteSet(DOMAIN desired.interfaces)
          /\ IsFiniteSet(DOMAIN c.neighbor) /\ IsFiniteSet(DOMAIN desired.sessions)
      BY IntentShape DEF Config
    <2>2. \A S, T : IsFiniteSet(S) /\ IsFiniteSet(T) => IsFiniteSet(S \cup T)
      BY FS_Union, Zenon
    <2>3. IsFiniteSet(DOMAIN new.interface) /\ IsFiniteSet(DOMAIN new.neighbor)
      BY <1>1, <2>1, <2>2
    <2> QED
      BY <1>1, <2>3, IntentShape DEF Config
  <1>11. Config(new)
    <2>1. /\ new.interface \in [DOMAIN new.interface -> Port]
          /\ new.neighbor \in [DOMAIN new.neighbor -> Neighbor]
      BY <1>1, <1>8, <1>9
    <2> QED
      BY <1>1, <1>10, <2>1 DEF Config
  <1>12. Carries(new, desired)
    BY <1>1, <1>8, <1>9 DEF Carries
  <1> QED
    BY <1>11, <1>12 DEF new

-----------------------------------------------------------------------------
(***************************************************************************)
(* The invariant holds                                                     *)
(***************************************************************************)

LEMMA InitHolds == Init => IInv
  <1> SUFFICES ASSUME Init PROVE IInv
    OBVIOUS
  <1>1. ASSUME NEW name \in Ports PROVE device.interface[name] \in Port
    <2>1. (CHOOSE a \in Addresses : TRUE) \in Addresses
      BY DriftCheckAssumption
    <2> QED
      BY <2>1 DEF Init, NoPort, Port, Or, Admin
  <1>2. /\ DOMAIN device.interface = Ports
        /\ device.interface \in [DOMAIN device.interface -> Port]
    BY <1>1 DEF Init
  <1>3. Config(device)
    <2>1. DOMAIN <<>> = {} /\ \A S : <<>> \in [{} -> S]
      OBVIOUS
    <2>2. device.neighbor = <<>> /\ device = [interface |-> device.interface, neighbor |-> <<>>]
      BY DEF Init
    <2>3. IsFiniteSet({})
      BY FS_EmptySet
    <2> QED
      BY <1>2, <2>1, <2>2, <2>3, DriftCheckAssumption DEF Config, InterfaceNames
  <1>4. ~InHand
    BY DEF Init, InHand, Compared, Idle, NoReport, Report
  <1>5. Typed
    BY <1>3, <1>4, DriftCheckAssumption, UnreadIsEmpty
       DEF Init, Typed, Idle, NoReport, Report, Or
  <1>6. ReadsTheDevice /\ StillCarries
    BY <1>4 DEF Init, Idle, InHand, ReadsTheDevice, StillCarries
  <1>7. AllWasPut
    BY UnreadIsEmpty DEF Init, AllWasPut
  <1> QED
    BY <1>5, <1>6, <1>7 DEF IInv

LEMMA StutterKeeps ==
    ASSUME IInv, UNCHANGED vars
    PROVE  IInv'
  BY DEF IInv, vars, Typed, ReadsTheDevice, AllWasPut, StillCarries, InHand, Compared

LEMMA EditIntentKeeps ==
    ASSUME IInv, EditIntent
    PROVE  IInv'
  <1>1. /\ InHand' = InHand /\ Compared' = Compared
    BY DEF EditIntent, InHand, Compared
  <1>2. edits' \in 0..MaxEdits
    BY DriftCheckAssumption DEF EditIntent, IInv, Typed
  <1>3. Typed'
    BY <1>1, <1>2 DEF EditIntent, IInv, Typed
  <1>4. ReadsTheDevice' /\ AllWasPut' /\ StillCarries'
    BY <1>1 DEF EditIntent, IInv, ReadsTheDevice, AllWasPut, StillCarries
  <1> QED
    BY <1>3, <1>4 DEF IInv

LEMMA EditKeeps ==
    ASSUME IInv, NEW config, Config(config), Edit(config)
    PROVE  IInv'
  <1>1. /\ InHand' = InHand /\ Compared' = Compared
    BY DEF Edit, InHand, Compared
  <1>2. edits' \in 0..MaxEdits
    BY DriftCheckAssumption DEF Edit, IInv, Typed
  <1>3. Typed'
    BY <1>1, <1>2 DEF Edit, IInv, Typed
  <1>4. ReadsTheDevice' /\ AllWasPut' /\ StillCarries'
    BY <1>1 DEF Edit, IInv, ReadsTheDevice, AllWasPut, StillCarries
  <1> QED
    BY <1>3, <1>4 DEF IInv

LEMMA EditInterfaceKeeps ==
    ASSUME IInv, NEW name \in DOMAIN device.interface, EditInterface(name)
    PROVE  IInv'
  <1> DEFINE port == device.interface[name]
             Set(p) == [device EXCEPT !.interface[name] = p]
  <1>1. Config(device) /\ port \in Port
    BY DEF IInv, Typed, Config
  <1>2. ASSUME NEW p \in Port PROVE Config(Set(p))
    <2>1. /\ Set(p).interface = [device.interface EXCEPT ![name] = p]
          /\ Set(p).neighbor = device.neighbor
          /\ Set(p) = [interface |-> Set(p).interface, neighbor |-> Set(p).neighbor]
      BY <1>1 DEF Config
    <2>2. /\ DOMAIN Set(p).interface = DOMAIN device.interface
          /\ Set(p).interface \in [DOMAIN device.interface -> Port]
      BY <1>1, <2>1 DEF Config
    <2> HIDE DEF Set
    <2> QED
      BY <1>1, <2>1, <2>2 DEF Config
  <1>3. ASSUME NEW v \in Or(Descriptions),
               Edit([device EXCEPT !.interface[name].description = v])
        PROVE  IInv'
    <2>1. [port EXCEPT !.description = v] \in Port
      BY <1>1 DEF Port
    <2>2. [device EXCEPT !.interface[name].description = v] =
          Set([port EXCEPT !.description = v])
      BY <1>1 DEF Config
    <2> QED
      BY <1>2, <1>3, <2>1, <2>2, EditKeeps
  <1>4. ASSUME NEW v \in SUBSET Addresses,
               Edit([device EXCEPT !.interface[name].addresses = v])
        PROVE  IInv'
    <2>1. [port EXCEPT !.addresses = v] \in Port
      BY <1>1 DEF Port
    <2>2. [device EXCEPT !.interface[name].addresses = v] = Set([port EXCEPT !.addresses = v])
      BY <1>1 DEF Config
    <2> QED
      BY <1>2, <1>4, <2>1, <2>2, EditKeeps
  <1>5. ASSUME NEW v \in Admin, Edit([device EXCEPT !.interface[name].enabled = v])
        PROVE  IInv'
    <2>1. [port EXCEPT !.enabled = v] \in Port
      BY <1>1 DEF Port
    <2>2. [device EXCEPT !.interface[name].enabled = v] = Set([port EXCEPT !.enabled = v])
      BY <1>1 DEF Config
    <2> QED
      BY <1>2, <1>5, <2>1, <2>2, EditKeeps
  <1>6. ASSUME NEW v \in Or(Mtus), Edit([device EXCEPT !.interface[name].mtu = v])
        PROVE  IInv'
    <2>1. [port EXCEPT !.mtu = v] \in Port
      BY <1>1 DEF Port
    <2>2. [device EXCEPT !.interface[name].mtu = v] = Set([port EXCEPT !.mtu = v])
      BY <1>1 DEF Config
    <2> QED
      BY <1>2, <1>6, <2>1, <2>2, EditKeeps
  <1> QED
    BY <1>3, <1>4, <1>5, <1>6 DEF EditInterface

LEMMA EditNeighborKeeps ==
    ASSUME IInv, NEW peer \in Peers, EditNeighbor(peer)
    PROVE  IInv'
  <1> DEFINE Set(n) == [device EXCEPT !.neighbor = n]
  <1>1. Config(device)
    BY DEF IInv, Typed
  <1>2. ASSUME NEW n, n \in [DOMAIN n -> Neighbor], DOMAIN n \subseteq Peers,
               IsFiniteSet(DOMAIN n)
        PROVE  Config(Set(n))
    <2>1. /\ Set(n).interface = device.interface /\ Set(n).neighbor = n
          /\ Set(n) = [interface |-> Set(n).interface, neighbor |-> Set(n).neighbor]
      BY <1>1 DEF Config
    <2> HIDE DEF Set
    <2> QED
      BY <1>1, <1>2, <2>1 DEF Config
  <1>3. ASSUME NEW neighbor \in Neighbor,
               Edit([device EXCEPT !.neighbor =
                  [p \in DOMAIN @ \cup {peer} |-> IF p = peer THEN neighbor ELSE @[p]]])
        PROVE  IInv'
    <2> DEFINE n == [p \in DOMAIN device.neighbor \cup {peer} |->
                        IF p = peer THEN neighbor ELSE device.neighbor[p]]
    <2>1. DOMAIN n = DOMAIN device.neighbor \cup {peer} /\ n \in [DOMAIN n -> Neighbor]
      BY <1>1 DEF Config
    <2>2. DOMAIN n \subseteq Peers /\ IsFiniteSet(DOMAIN n)
      <3>1. IsFiniteSet(DOMAIN device.neighbor \cup {peer})
        BY <1>1, FS_AddElement DEF Config
      <3> QED
        BY <1>1, <2>1, <3>1 DEF Config
    <2>3. Edit(Set(n))
      BY <1>3
    <2> HIDE DEF n, Set
    <2> QED
      BY <1>2, <2>1, <2>2, <2>3, EditKeeps
  <1>4. ASSUME Edit([device EXCEPT !.neighbor = [p \in DOMAIN @ \ {peer} |-> @[p]]])
        PROVE  IInv'
    <2> DEFINE n == [p \in DOMAIN device.neighbor \ {peer} |-> device.neighbor[p]]
    <2>1. DOMAIN n = DOMAIN device.neighbor \ {peer} /\ n \in [DOMAIN n -> Neighbor]
      BY <1>1 DEF Config
    <2>2. DOMAIN n \subseteq Peers /\ IsFiniteSet(DOMAIN n)
      <3>1. IsFiniteSet(DOMAIN device.neighbor \ {peer})
        BY <1>1, FS_RemoveElement DEF Config
      <3> QED
        BY <1>1, <2>1, <3>1 DEF Config
    <2>3. Edit(Set(n))
      BY <1>4
    <2> HIDE DEF n, Set
    <2> QED
      BY <1>2, <2>1, <2>2, <2>3, EditKeeps
  <1> QED
    BY <1>3, <1>4 DEF EditNeighbor

LEMMA DeployKeeps ==
    ASSUME IInv, Deploy
    PROVE  IInv'
  <1>1. /\ Config(device') /\ Carries(device', intent) /\ intent \in Intents
        /\ intent' = intent /\ edits' = edits
    BY AppliedCarries DEF Deploy, IInv, Typed
  <1>2. /\ check' = [pc |-> "interfaces", verifies |-> TRUE, desired |-> intent,
                     interfaces |-> <<>>]
        /\ report' = NoReport /\ read' = Unread
    BY DEF Deploy, Begin, Idle
  <1>3. ~Compared' /\ InHand' /\ check'.pc = "interfaces" /\ check'.desired = intent
    BY <1>2 DEF Compared, InHand
  <1>4. Typed'
    BY <1>1, <1>2, <1>3, UnreadIsEmpty DEF IInv, Typed, Or, NoReport, Report
  <1>5. ReadsTheDevice' /\ StillCarries'
    BY <1>1, <1>3 DEF ReadsTheDevice, StillCarries
  <1>6. AllWasPut'
    BY <1>2, UnreadIsEmpty DEF Deploy, AllWasPut
  <1> QED
    BY <1>4, <1>5, <1>6 DEF IInv

LEMMA ScanKeeps ==
    ASSUME IInv, Scan
    PROVE  IInv'
  <1>1. /\ check' = [pc |-> "interfaces", verifies |-> FALSE, desired |-> intent,
                     interfaces |-> <<>>]
        /\ report' = NoReport /\ read' = Unread /\ intent \in Intents
    BY DEF Scan, Begin, Idle, IInv, Typed
  <1>2. /\ ~Compared' /\ InHand' /\ check'.pc = "interfaces" /\ check'.desired = intent
        /\ check'.verifies = FALSE
    BY <1>1 DEF Compared, InHand
  <1>3. Typed'
    BY <1>1, <1>2, UnreadIsEmpty DEF Scan, IInv, Typed, Or, NoReport, Report
  <1>4. ReadsTheDevice' /\ StillCarries'
    BY <1>2 DEF ReadsTheDevice, StillCarries
  <1>5. AllWasPut'
    BY <1>1, UnreadIsEmpty DEF Scan, IInv, AllWasPut
  <1> QED
    BY <1>3, <1>4, <1>5 DEF IInv

\* A render or a collection that fails leaves nothing in hand.
LEMMA FailureKeeps ==
    ASSUME IInv, RenderFails \/ CollectFails
    PROVE  IInv'
  <1>1. /\ check' = Idle /\ report'.status \in {"none", "error"} /\ report'.items = {}
        /\ read' = Unread /\ UNCHANGED <<intent, device, edits, put, disturbed>>
    BY DEF RenderFails, CollectFails, NoReport, Report
  <1>2. ~Compared' /\ ~InHand'
    BY <1>1 DEF Compared, InHand, Idle
  <1>3. Typed'
    BY <1>1, <1>2, UnreadIsEmpty DEF IInv, Typed, Idle, Or
  <1>4. ReadsTheDevice' /\ StillCarries'
    BY <1>1, <1>2 DEF ReadsTheDevice, StillCarries, Idle
  <1>5. AllWasPut'
    BY <1>1, UnreadIsEmpty DEF IInv, AllWasPut
  <1> QED
    BY <1>3, <1>4, <1>5 DEF IInv

\* What a GET finds is on the device.
LEMMA ReadWasPut ==
    ASSUME NEW c, Values(c) \subseteq put, Values(device) \subseteq put,
           NEW new, new.interface \in {c.interface, device.interface},
           new.neighbor \in {c.neighbor, device.neighbor}
    PROVE  Values(new) \subseteq put
  <1> SUFFICES ASSUME NEW value \in Values(new) PROVE value \in put
    OBVIOUS
  <1>1. value \in Values(c) \/ value \in Values(device)
    BY ValuesAre
  <1> QED
    BY <1>1

LEMMA GetInterfacesKeeps ==
    ASSUME IInv, GetInterfaces
    PROVE  IInv'
  <1>1. PICK answer \in InterfaceAnswers(device.interface) :
           check' = [check EXCEPT !.pc = "neighbors", !.interfaces = Collected(answer)]
    BY DEF GetInterfaces
  <1>2. Config(device) /\ Config(read)
    BY DEF IInv, Typed
  <1>3. TellsInterfaces(Interfaces(Collected(answer)), device.interface)
    BY <1>2, InterfacesAreTold DEF Config
  <1>4. /\ check' = [pc |-> "neighbors", verifies |-> check.verifies,
                     desired |-> check.desired, interfaces |-> Collected(answer)]
        /\ check.pc = "interfaces"
    BY <1>1 DEF GetInterfaces, IInv, Typed
  <1>5. /\ read' = [interface |-> device.interface, neighbor |-> read.neighbor]
        /\ read'.interface = device.interface /\ read'.neighbor = read.neighbor
        /\ UNCHANGED <<intent, device, report, edits, put, disturbed>>
    BY <1>2 DEF GetInterfaces, Config
  <1>6. ~Compared /\ InHand /\ ~Compared' /\ InHand'
    BY <1>4 DEF Compared, InHand
  <1>7. Config(read')
    BY <1>2, <1>5 DEF Config
  <1>8. Typed'
    BY <1>4, <1>5, <1>6, <1>7 DEF IInv, Typed
  <1>9. ReadsTheDevice'
    BY <1>3, <1>4, <1>5, <1>6 DEF ReadsTheDevice
  <1>10. AllWasPut'
    BY <1>5, ReadWasPut DEF IInv, AllWasPut
  <1>11. StillCarries'
    BY <1>4, <1>5, <1>6 DEF IInv, StillCarries
  <1> QED
    BY <1>8, <1>9, <1>10, <1>11 DEF IInv

LEMMA GetNeighborsKeeps ==
    ASSUME IInv, GetNeighbors
    PROVE  IInv'
  <1> DEFINE interfaces == Interfaces(check.interfaces)
             items == Items(check.desired, interfaces, device.neighbor)
  <1>1. Config(device) /\ Config(read)
    BY DEF IInv, Typed
  <1>2. PICK answer \in NeighborAnswers(device.neighbor) :
           report' = Report(IF Items(check.desired, interfaces, Neighbors(Collected(answer))) = {}
                            THEN "clean" ELSE "drifted",
                            Items(check.desired, interfaces, Neighbors(Collected(answer))))
    BY DEF GetNeighbors
  <1>3. Neighbors(Collected(answer)) = device.neighbor
    BY <1>1, NeighborsAreTold DEF Config
  <1>4. report'.status \in {"clean", "drifted"} /\ report'.items = items
    BY <1>2, <1>3 DEF Report
  <1>5. /\ check' = [pc |-> "idle", verifies |-> check.verifies,
                     desired |-> check.desired, interfaces |-> <<>>]
        /\ check.pc = "neighbors"
    BY DEF GetNeighbors, IInv, Typed
  <1>6. /\ read' = [interface |-> read.interface, neighbor |-> device.neighbor]
        /\ read'.interface = read.interface /\ read'.neighbor = device.neighbor
        /\ UNCHANGED <<intent, device, edits, put, disturbed>>
    BY <1>1 DEF GetNeighbors, Config
  <1>7. InHand /\ Compared' /\ InHand'
    BY <1>4, <1>5 DEF Compared, InHand
  <1>8. Config(read')
    BY <1>1, <1>6 DEF Config
  <1> HIDE DEF interfaces, items
  <1>9. Typed'
    BY <1>4, <1>5, <1>6, <1>7, <1>8 DEF IInv, Typed
  <1>10. ReadsTheDevice'
    <2>1. TellsInterfaces(interfaces, read'.interface)
      BY <1>5, <1>6 DEF IInv, ReadsTheDevice, interfaces
    <2>2. report'.items = Items(check'.desired, interfaces, read'.neighbor)
      BY <1>4, <1>5, <1>6 DEF items
    <2> QED
      BY <1>5, <2>1, <2>2 DEF ReadsTheDevice
  <1>11. AllWasPut'
    BY <1>6, ReadWasPut DEF IInv, AllWasPut
  <1>12. StillCarries'
    BY <1>5, <1>6, <1>7 DEF IInv, StillCarries
  <1> QED
    BY <1>9, <1>10, <1>11, <1>12 DEF IInv

LEMMA InvariantHolds == Spec => []IInv
  <1>1. IInv /\ [Next]_vars => IInv'
    <2> SUFFICES ASSUME IInv, [Next]_vars PROVE IInv'
      OBVIOUS
    <2> QED
      BY StutterKeeps, EditIntentKeeps, EditInterfaceKeeps, EditNeighborKeeps, DeployKeeps,
         ScanKeeps, FailureKeeps, GetInterfacesKeeps, GetNeighborsKeeps DEF Next
  <1> QED
    BY InitHolds, <1>1, PTL DEF Spec

-----------------------------------------------------------------------------
(***************************************************************************)
(* The theorems                                                            *)
(***************************************************************************)

\* The state of the device, of the check and of its report are of their types, and a
\* report names values that intent or a device may have (diff.py's DriftItem).
THEOREM CheckTypeCorrect == Spec => []TypeOK
  <1>1. IInv => TypeOK
    <2> SUFFICES ASSUME IInv PROVE TypeOK
      OBVIOUS
    <2>1. ASSUME NEW item \in report.items
          PROVE  item.desired \in FieldValues /\ item.actual \in FieldValues
      <3>1. Compared
        BY <2>1 DEF IInv, Typed
      <3>2. PICK interfaces : /\ TellsInterfaces(interfaces, read.interface)
                              /\ report.items = Items(check.desired, interfaces, read.neighbor)
        BY <3>1 DEF IInv, ReadsTheDevice
      <3>3. check.desired \in Intents /\ Config(read)
        BY <3>1 DEF IInv, Typed, InHand
      <3> QED
        BY <2>1, <3>2, <3>3, ItemsAreKnown
    <2> QED
      BY <2>1 DEF IInv, Typed, Config, TypeOK
  <1> QED
    BY InvariantHolds, <1>1, PTL

\* However the answers of the device are cut up, repeated and ordered (collector.py,
\* client.py's _merge_fragment) and whoever edits it between the two GETs, the report of
\* the comparison (diff.py) tells what was found and leaves out nothing intent wants.
THEOREM ReportIsTrue == Spec => []ReportTellsTheDevice
  <1>1. IInv => ReportTellsTheDevice
    <2> SUFFICES ASSUME IInv, Compared PROVE ReportTellsTheDevice
      BY DEF ReportTellsTheDevice
    <2>1. PICK interfaces : /\ TellsInterfaces(interfaces, read.interface)
                            /\ report.items = Items(check.desired, interfaces, read.neighbor)
      BY DEF IInv, ReadsTheDevice
    <2>2. check.desired \in Intents /\ Config(read)
      BY DEF IInv, Typed, InHand
    <2> QED
      BY <2>1, <2>2, ItemsTellTheDevice
  <1> QED
    BY InvariantHolds, <1>1, PTL

\* A verification that follows its SET (executor.py) with no edit in between finds no
\* difference but what a merge cannot take away.
THEOREM DeploysConverge == Spec => []DeployConverges
  <1>1. IInv => DeployConverges
    <2> SUFFICES ASSUME IInv, Compared, check.verifies, ~disturbed,
                        NEW item \in report.items, ~item.undesired
                 PROVE  \/ item.desired = Unset
                        \/ /\ item.field \in {"ip_address", "prefix_length"}
                           /\ Cardinality(read.interface[item.entity].addresses) > 1
      BY DEF DeployConverges
    <2>1. PICK interfaces : /\ TellsInterfaces(interfaces, read.interface)
                            /\ report.items = Items(check.desired, interfaces, read.neighbor)
      BY DEF IInv, ReadsTheDevice
    <2>2. check.desired \in Intents /\ Config(read) /\ InHand
      BY DEF IInv, Typed, InHand
    <2>3. Carries(device, check.desired) /\ read.interface = device.interface
          /\ read.neighbor = device.neighbor
      BY <2>2 DEF IInv, StillCarries, Compared
    <2>4. Carries(read, check.desired)
      BY <2>3 DEF Carries
    <2> QED
      BY <2>1, <2>2, <2>4, ItemsOfACarrier
  <1> QED
    BY InvariantHolds, <1>1, PTL

\* No phantom (diff.py:45): what a report calls too much was put there by somebody.
THEOREM NoPhantoms == Spec => []NothingOutOfThinAir
  <1>1. IInv => NothingOutOfThinAir
    <2> SUFFICES ASSUME IInv, Compared, NEW item \in report.items, item.desired = Unset
                 PROVE  <<item.entity, item.field, item.actual>> \in put
      BY DEF NothingOutOfThinAir
    <2>1. PICK interfaces : /\ TellsInterfaces(interfaces, read.interface)
                            /\ report.items = Items(check.desired, interfaces, read.neighbor)
      BY DEF IInv, ReadsTheDevice
    <2>2. check.desired \in Intents /\ Config(read) /\ Values(read) \subseteq put
      BY DEF IInv, Typed, InHand, AllWasPut
    <2> QED
      BY <2>1, <2>2, ItemsWerePut
  <1> QED
    BY InvariantHolds, <1>1, PTL
=============================================================================
