------------------------- MODULE IntentSystemProofs -------------------------
(***************************************************************************)
(* What is proved of IntentSystem for every value of its constants: its    *)
(* types; that another project's source of truth is not written; that      *)
(* answers hold what stood; and, of a run of the seed nobody disturbs,     *)
(* that it is not refused and that its result is true.                     *)
(***************************************************************************)
EXTENDS IntentSystem, FiniteSetTheorems, SequenceTheorems, TLAPS

(***************************************************************************)
(* The inductive invariant                                                 *)
(***************************************************************************)

\* What the data declares is never a record of theirs.
OurItems == {item \in Items : item.id \notin Theirs}

Records(recs) ==
    /\ DOMAIN recs \subseteq Ids /\ IsFiniteSet(DOMAIN recs)
    /\ \A id \in DOMAIN recs : recs[id] \in Record

SourceInv ==
    /\ registered \subseteq Batches /\ loaded \subseteq Batches
    /\ Records(records)
    /\ late \subseteq Requests

\* Where the run stands fits what it has left to do.
SeedInv ==
    /\ SeedTypeOK
    /\ seed.todo \in Seq(OurItems)
    /\ seed.pc \in {"address", "making", "lookup", "saving"} => seed.todo # <<>>
    /\ seed.pc = "making" => Item.ips # {}
    /\ seed.pc \in {"identifying", "counting", "loading"} => seed.batch \in 1..3

ReaderInv == StoreTypeOK /\ DOMAIN reader = DOMAIN NoRead

\* As long as one of their records is there, no run has come to its first write.
Untouched ==
    /\ registered = {"base"} /\ loaded = {"base"} /\ late = {}
    /\ seed.pc \in Endings \cup {"idle", "identifying", "counting"}

TheirsInv ==
    /\ \A q \in late : q.id \notin Theirs
    /\ Theirs \cap DOMAIN records # {} => Untouched

HistoryInv ==
    /\ changes \in 0..MaxChanges /\ made \subseteq Ids /\ disturbed \in BOOLEAN
    /\ stood \subseteq ever

IInv == SourceInv /\ SeedInv /\ ReaderInv /\ TheirsInv /\ HistoryInv

-----------------------------------------------------------------------------
(***************************************************************************)
(* The data, the batches and the requests                                  *)
(***************************************************************************)

LEMMA TheBatches ==
    /\ Batches = {"base", "extensions", "project"} /\ Len(BatchOrder) = 3
    /\ \A i \in 1..3 : BatchOrder[i] \in Batches
  BY DEF Batches, BatchOrder

LEMMA TheBounds == MaxSeeds \in Nat /\ MaxPolls \in Nat /\ MaxPolls > 0
  BY SeedAssumption

LEMMA TheStages == ToSet(SeedOrder) = {"sections", "groups", "sessions"}
  BY DEF ToSet, SeedOrder

\* A sequence of items that are none of theirs.
LEMMA OursInOrder ==
    ASSUME NEW s \in Seq(Items), \A item \in ToSet(s) : item.id \notin Theirs
    PROVE  s \in Seq(OurItems)
  <1>1. Len(s) \in Nat /\ s \in [1..Len(s) -> Items]
    BY LenProperties
  <1>2. \A i \in 1..Len(s) : s[i] \in OurItems
    BY <1>1 DEF ToSet, OurItems
  <1>3. s \in [1..Len(s) -> OurItems]
    BY <1>1, <1>2
  <1> QED
    BY <1>1, <1>3, SeqDef

LEMMA OurData ==
    ASSUME NEW data \in Declarations \cup {NoData}
    PROVE  /\ data.sections \in Seq(OurItems) /\ data.sessions \in Seq(OurItems)
           /\ data.groups \subseteq OurItems /\ IsFiniteSet(data.groups)
           /\ data.valid \in BOOLEAN
  <1>1. CASE data = NoData
    BY <1>1, FS_EmptySet DEF NoData
  <1>2. CASE data \in Declarations
    <2>1. SectionItems \subseteq Items /\ GroupItems \subseteq Items /\ SessionItems \subseteq Items
      BY DEF SectionItems, GroupItems, SessionItems
    <2>2. data.sections \in Seq(SectionItems) /\ data.sessions \in Seq(SessionItems)
          /\ data.groups \subseteq GroupItems /\ data.valid \in BOOLEAN
      BY <1>2, SeedAssumption
    <2>3. data.sections \in Seq(Items) /\ data.sessions \in Seq(Items)
      BY <2>1, <2>2, SeqMonotonic
    <2> QED
      BY <1>2, <2>1, <2>2, <2>3, OursInOrder, SeedAssumption, SystemAssumption DEF OurItems
  <1> QED
    BY <1>1, <1>2

\* The shadow groups, in whatever order.
LEMMA GroupsInOrder ==
    ASSUME NEW S, S \subseteq OurItems, IsFiniteSet(S), NEW s \in SetToSeqs(S)
    PROVE  s \in Seq(OurItems)
  <1>1. Cardinality(S) \in Nat
    BY FS_CardinalityType
  <1>2. s \in [1..Cardinality(S) -> OurItems]
    BY DEF SetToSeqs
  <1> QED
    BY <1>1, <1>2, SeqDef

LEMMA TheItem ==
    ASSUME SeedInv, seed.todo # <<>>
    PROVE  /\ Item \in OurItems /\ Item \in Items
           /\ Tail(seed.todo) \in Seq(OurItems)
  BY HeadTailProperties DEF SeedInv, Item, OurItems

\* A request is well formed and is not about a record of theirs.
LEMMA TheRequest ==
    ASSUME SeedInv, Writing
    PROVE  Request \in Requests /\ Request.id \notin Theirs
  <1>1. Item \in OurItems /\ Item \in Items
    BY TheItem DEF SeedInv, Writing
  <1>2. CASE seed.pc = "making"
    <2>1. (CHOOSE a \in Item.ips : TRUE) \in Item.ips
      BY <1>2 DEF SeedInv
    <2>2. (CHOOSE a \in Item.ips : TRUE) \in Addresses
      BY <1>1, <2>1 DEF Items, Attributes
    <2>3. AddressRecord \in Record
      BY DEF AddressRecord, Record
    <2> QED
      BY <1>2, <2>2, <2>3, SystemAssumption
         DEF Request, Requests, Addresses, Devices
  <1>3. CASE seed.pc = "saving"
    <2>1. Written \in Record
      BY <1>1 DEF Written, Record, Items, Attributes, SeedInv, SeedTypeOK, SeedRuns
    <2> QED
      BY <1>1, <1>3, <2>1 DEF Request, Requests, OurItems, Items, Attributes
  <1> QED
    BY <1>2, <1>3 DEF Writing

-----------------------------------------------------------------------------
(***************************************************************************)
(* The records                                                             *)
(***************************************************************************)

LEMMA WhatLands ==
    ASSUME Records(records), NEW q \in Requests, Acceptable(q)
    PROVE  Records(Landed(q)) /\ DOMAIN Landed(q) \subseteq DOMAIN records \cup {q.id}
  <1>1. q.id \in Ids /\ q.record \in Record
    BY DEF Requests
  <1> DEFINE changed == [records[q.id] EXCEPT
                           !.value = q.record.value,
                           !.use_case = IF q.record.use_case = Unset THEN @
                                      ELSE q.record.use_case]
  <1>2. q.id \in DOMAIN records => changed \in Record
    BY <1>1 DEF Records, Record
  <1>3. \A rec : DOMAIN Put(q.id, rec) = DOMAIN records \cup {q.id}
    BY DEF Put
  <1>4. \A rec \in Record : Records(Put(q.id, rec))
    <2> SUFFICES ASSUME NEW rec \in Record PROVE Records(Put(q.id, rec))
      OBVIOUS
    <2>1. IsFiniteSet(DOMAIN records \cup {q.id})
      BY FS_AddElement DEF Records
    <2> QED
      BY <1>1, <1>3, <2>1 DEF Records, Put
  <1>5. CASE q.op = "create"
    BY <1>1, <1>3, <1>4, <1>5 DEF Landed
  <1>6. CASE q.op # "create"
    BY <1>2, <1>3, <1>4, <1>6 DEF Landed, Acceptable
  <1> QED
    BY <1>5, <1>6

LEMMA WhatRemains ==
    ASSUME Records(records), NEW device
    PROVE  Records(Removed(device)) /\ DOMAIN Removed(device) \subseteq DOMAIN records
  <1> DEFINE lost == {device} \cup {c \in DOMAIN records \cap Children : device \in records[c].refs}
  <1>1. Removed(device)
          = [x \in DOMAIN records \ lost |-> [records[x] EXCEPT !.refs = @ \ lost]]
    BY DEF Removed
  <1> HIDE DEF lost
  <1>2. IsFiniteSet(DOMAIN records \ lost)
    BY FS_Subset DEF Records
  <1>3. \A x \in DOMAIN records : [records[x] EXCEPT !.refs = @ \ lost] \in Record
    BY DEF Records, Record
  <1> QED
    BY <1>1, <1>2, <1>3 DEF Records

-----------------------------------------------------------------------------
(***************************************************************************)
(* The steps of the seed keep the types                                    *)
(***************************************************************************)

\* A run as it begins and as an error leaves it.
LEMMA FreshKeepsTypes ==
    ASSUME NEW pc \in Endings \cup {"identifying"}, NEW data \in Declarations \cup {NoData},
           NEW n \in 0..MaxSeeds, seed' = Fresh(n, pc, data)
    PROVE  SeedInv'
  <1>1. seed' \in SeedRuns
    BY TheBatches, TheStages, TheBounds, EmptySeq DEF Fresh, SeedRuns
  <1>2. seed'.todo = <<>> /\ seed'.pc = pc /\ seed'.batch = 1
    BY DEF Fresh
  <1>3. seed'.pc \notin {"address", "making", "lookup", "saving"}
    BY <1>2 DEF Endings
  <1> QED
    BY <1>1, <1>2, <1>3, EmptySeq DEF SeedInv, SeedTypeOK

LEMMA BreakKeepsTypes ==
    ASSUME SeedInv, NEW ending \in Endings, Break(ending)
    PROVE  SeedInv'
  <1>1. seed.runs \in 0..MaxSeeds
    BY DEF SeedInv, SeedTypeOK, SeedRuns
  <1> QED
    BY <1>1, FreshKeepsTypes DEF Break

LEMMA BeginKeepsTypes ==
    ASSUME SeedInv, NEW data \in Declarations, Begin(data)
    PROVE  SeedInv'
  <1>1. seed.runs + 1 \in 0..MaxSeeds
    BY TheBounds DEF Begin, SeedInv, SeedTypeOK, SeedRuns
  <1> QED
    BY <1>1, FreshKeepsTypes DEF Begin

LEMMA RequireKeepsTypes ==
    ASSUME SeedInv, seed.pc \in {"identifying", "counting"},
           NEW verdict \in {"ours", "foreign", "unidentified"}, Require(verdict)
    PROVE  SeedInv'
  <1>1. CASE verdict = "ours"
    BY <1>1 DEF Require, Goto, SeedInv, SeedTypeOK, SeedRuns, Item
  <1>2. CASE verdict # "ours"
    BY <1>2, BreakKeepsTypes DEF Require, Endings
  <1> QED
    BY <1>1, <1>2

LEMMA IdentifyKeepsTypes ==
    ASSUME SeedInv, IdentifyBySchema \/ IdentifyByDevices
    PROVE  SeedInv'
  <1>1. CASE IdentifyBySchema
    <2>1. CASE Goto("counting")
      BY <1>1, <2>1 DEF IdentifyBySchema, Goto, SeedInv, SeedTypeOK, SeedRuns, Item
    <2> QED
      BY <1>1, <2>1, RequireKeepsTypes DEF IdentifyBySchema, Classify
  <1>2. CASE IdentifyByDevices
    BY <1>2, RequireKeepsTypes DEF IdentifyByDevices, Classify, Unread
  <1> QED
    BY <1>1, <1>2

LEMMA LoadBatchKeepsTypes ==
    ASSUME SeedInv, LoadBatch
    PROVE  SeedInv'
  <1> DEFINE pc == IF seed.batch = Len(BatchOrder) THEN "polling" ELSE "loading"
  <1>1. seed.batch \in 1..3 /\ seed.batch + 1 \in 1..Len(BatchOrder) + 1
    BY TheBatches DEF LoadBatch, SeedInv
  <1>2. pc \in {"polling", "loading"} /\ (pc = "loading" => seed.batch + 1 \in 1..3)
    BY <1>1, TheBatches
  <1>3. seed' = [seed EXCEPT !.batch = seed.batch + 1, !.pc = pc]
    BY DEF LoadBatch, SeedInv, SeedTypeOK, SeedRuns
  <1> HIDE DEF pc
  <1>4. seed' \in SeedRuns
    BY <1>1, <1>2, <1>3 DEF SeedInv, SeedTypeOK, SeedRuns
  <1>5. seed'.batch = seed.batch + 1 /\ seed'.pc = pc /\ seed'.todo = seed.todo
    BY <1>3 DEF SeedInv, SeedTypeOK, SeedRuns
  <1> QED
    BY <1>2, <1>4, <1>5 DEF SeedInv, SeedTypeOK

LEMMA PollKeepsTypes ==
    ASSUME SeedInv, registered \subseteq Batches, PollSchema
    PROVE  SeedInv'
  <1> USE TheBounds
  <1>1. CASE Ready
    <2>1. seed' = [seed EXCEPT !.cache = registered, !.polls = 0, !.pc = "validating"]
      BY <1>1 DEF PollSchema
    <2>2. 0 \in 0..MaxPolls - 1 /\ registered \in SUBSET Batches
      OBVIOUS
    <2>3. seed' \in SeedRuns
      BY <2>1, <2>2 DEF SeedInv, SeedTypeOK, SeedRuns
    <2>4. seed'.pc = "validating" /\ seed'.todo = seed.todo
      BY <2>1 DEF SeedInv, SeedTypeOK, SeedRuns
    <2> QED
      BY <2>3, <2>4 DEF SeedInv, SeedTypeOK
  <1>2. CASE ~Ready /\ ~(seed.polls + 1 >= MaxPolls)
    <2>1. seed' = [seed EXCEPT !.cache = registered, !.polls = seed.polls + 1]
      BY <1>2 DEF PollSchema, SeedInv, SeedTypeOK, SeedRuns
    <2>2. seed.polls + 1 \in 0..MaxPolls - 1
      BY <1>2 DEF SeedInv, SeedTypeOK, SeedRuns
    <2>3. seed' \in SeedRuns
      BY <2>1, <2>2 DEF SeedInv, SeedTypeOK, SeedRuns
    <2>4. seed'.pc = "polling" /\ seed'.todo = seed.todo
      BY <2>1 DEF PollSchema, SeedInv, SeedTypeOK, SeedRuns
    <2> QED
      BY <2>3, <2>4 DEF SeedInv, SeedTypeOK
  <1>3. CASE ~Ready /\ seed.polls + 1 >= MaxPolls
    BY <1>3, BreakKeepsTypes DEF PollSchema, Endings
  <1> QED
    BY <1>1, <1>2, <1>3

LEMMA ValidateKeepsTypes ==
    ASSUME SeedInv, Validate
    PROVE  SeedInv'
  <1>1. CASE seed.data.valid
    <2>1. seed.data.sections \in Seq(OurItems)
      BY OurData DEF SeedInv, SeedTypeOK, SeedRuns
    <2>2. seed.data.sections \in Seq(Items)
      BY <2>1, SeqMonotonic DEF OurItems
    <2>3. seed' = [seed EXCEPT !.todo = seed.data.sections, !.pc = "next"]
      BY <1>1 DEF Validate
    <2>4. seed' \in SeedRuns
      BY <2>2, <2>3 DEF SeedInv, SeedTypeOK, SeedRuns
    <2>5. seed'.pc = "next" /\ seed'.todo = seed.data.sections
      BY <2>3 DEF SeedInv, SeedTypeOK, SeedRuns
    <2> QED
      BY <2>1, <2>4, <2>5 DEF SeedInv, SeedTypeOK
  <1>2. CASE ~seed.data.valid
    BY <1>2, BreakKeepsTypes DEF Validate, Endings
  <1> QED
    BY <1>1, <1>2

-----------------------------------------------------------------------------
(***************************************************************************)
(* Item by item                                                            *)
(***************************************************************************)

LEMMA EndStageKeepsTypes ==
    ASSUME SeedInv, EndStage
    PROVE  SeedInv'
  <1>1. CASE Goto("seeded")
    BY <1>1 DEF Goto, SeedInv, SeedTypeOK, SeedRuns, Endings
  <1>2. CASE Break("invalid")
    BY <1>2, BreakKeepsTypes DEF Endings
  <1>3. ASSUME NextStage # "done", TakeStage(NextStage)
        PROVE  SeedInv'
    <2>1. NextStage \in ToSet(SeedOrder)
      <3>1. PICK at \in 1..3 : SeedOrder[at] = seed.stage
        BY DEF SeedInv, SeedTypeOK, SeedRuns, SeedOrder, ToSet
      <3> DEFINE place == CHOOSE i \in 1..Len(SeedOrder) : SeedOrder[i] = seed.stage
      <3>2. place \in 1..3
        BY <3>1 DEF SeedOrder
      <3>3. place # 3
        BY <1>3 DEF NextStage, SeedOrder
      <3> QED
        BY <3>2, <3>3, <1>3 DEF NextStage, SeedOrder, ToSet
    <2>2. PICK todo \in IF NextStage = "groups" THEN SetToSeqs(seed.data.groups)
                        ELSE {seed.data.sessions} :
             seed' = [seed EXCEPT !.stage = NextStage, !.todo = todo]
      BY <1>3 DEF TakeStage
    <2>3. todo \in Seq(OurItems)
      BY <2>2, OurData, GroupsInOrder DEF SeedInv, SeedTypeOK, SeedRuns
    <2>4. todo \in Seq(Items)
      BY <2>3, SeqMonotonic DEF OurItems
    <2>5. seed' \in SeedRuns
      BY <2>1, <2>2, <2>4 DEF SeedInv, SeedTypeOK, SeedRuns
    <2>6. seed'.pc = "next" /\ seed'.todo = todo
      BY <2>2 DEF EndStage, SeedInv, SeedTypeOK, SeedRuns
    <2> QED
      BY <2>3, <2>5, <2>6 DEF SeedInv, SeedTypeOK
  <1> QED
    BY <1>1, <1>2, <1>3 DEF EndStage

LEMMA ResolveKeepsTypes ==
    ASSUME SeedInv, Resolve
    PROVE  SeedInv'
  <1>1. CASE Item.needs \subseteq DOMAIN records
    <2> DEFINE refs == Item.needs \cup {id \in Item.wants : Wired(id)}
               pc == IF Item.ips = {} THEN "lookup" ELSE "address"
    <2>1. seed' = [seed EXCEPT !.refs = refs, !.pc = pc]
      BY <1>1 DEF Resolve
    <2>2. refs \in SUBSET Ids
      BY TheItem DEF Resolve, Items, Attributes
    <2>3. pc \in {"lookup", "address"}
      OBVIOUS
    <2> HIDE DEF refs, pc
    <2>4. seed' \in SeedRuns
      BY <2>1, <2>2, <2>3 DEF SeedInv, SeedTypeOK, SeedRuns
    <2>5. seed'.pc = pc /\ seed'.todo = seed.todo
      BY <2>1 DEF SeedInv, SeedTypeOK, SeedRuns
    <2> QED
      BY <2>3, <2>4, <2>5 DEF Resolve, SeedInv, SeedTypeOK
  <1>2. CASE ~(Item.needs \subseteq DOMAIN records)
    BY <1>2, BreakKeepsTypes DEF Resolve, Endings
  <1> QED
    BY <1>1, <1>2

LEMMA FindAddressKeepsTypes ==
    ASSUME SeedInv, FindAddress
    PROVE  SeedInv'
  <1>1. seed.pc = "address" /\ Item \in Items
    BY TheItem DEF FindAddress, SeedInv
  <1>2. CASE Item.ips \subseteq DOMAIN records
    <2>1. seed' = [seed EXCEPT !.refs = seed.refs \cup Item.ips, !.pc = "lookup"]
      BY <1>2 DEF FindAddress, SeedInv, SeedTypeOK, SeedRuns
    <2>2. seed.refs \cup Item.ips \in SUBSET Ids
      BY <1>1 DEF SeedInv, SeedTypeOK, SeedRuns, Items, Attributes, Addresses
    <2>3. seed' \in SeedRuns
      BY <2>1, <2>2 DEF SeedInv, SeedTypeOK, SeedRuns
    <2>4. seed'.pc = "lookup" /\ seed'.todo = seed.todo
      BY <2>1 DEF SeedInv, SeedTypeOK, SeedRuns
    <2> QED
      BY <1>1, <2>3, <2>4 DEF SeedInv, SeedTypeOK
  <1>3. CASE ~(Item.ips \subseteq DOMAIN records)
    <2>1. seed' = [seed EXCEPT !.pc = "making"]
      BY <1>3 DEF FindAddress
    <2>2. seed' \in SeedRuns
      BY <2>1 DEF SeedInv, SeedTypeOK, SeedRuns
    <2>3. seed'.pc = "making" /\ seed'.todo = seed.todo /\ Item' = Item
      BY <2>1 DEF SeedInv, SeedTypeOK, SeedRuns, Item
    <2> QED
      BY <1>1, <1>3, <2>2, <2>3 DEF SeedInv, SeedTypeOK
  <1> QED
    BY <1>2, <1>3

LEMMA MakeAddressKeepsTypes ==
    ASSUME SeedInv, MakeAddress
    PROVE  SeedInv'
  <1>1. seed.pc = "making" /\ Item \in Items
    BY TheItem DEF MakeAddress, SeedInv
  <1>2. seed' = [seed EXCEPT !.refs = seed.refs \cup Item.ips, !.pc = "lookup"]
    BY DEF MakeAddress, SeedInv, SeedTypeOK, SeedRuns
  <1>3. seed.refs \cup Item.ips \in SUBSET Ids
    BY <1>1 DEF SeedInv, SeedTypeOK, SeedRuns, Items, Attributes, Addresses
  <1>4. seed' \in SeedRuns
    BY <1>2, <1>3 DEF SeedInv, SeedTypeOK, SeedRuns
  <1>5. seed'.pc = "lookup" /\ seed'.todo = seed.todo
    BY <1>2 DEF SeedInv, SeedTypeOK, SeedRuns
  <1> QED
    BY <1>1, <1>4, <1>5 DEF SeedInv, SeedTypeOK

LEMMA LookUpKeepsTypes ==
    ASSUME SeedInv, LookUp
    PROVE  SeedInv'
  <1>1. PICK there \in BOOLEAN : seed' = [seed EXCEPT !.found = there, !.pc = "saving"]
    <2>1. (Item.id \in DOMAIN records) \in BOOLEAN
      OBVIOUS
    <2>2. seed' = [seed EXCEPT !.found = (Item.id \in DOMAIN records), !.pc = "saving"]
      BY Zenon DEF LookUp
    <2> QED
      BY <2>1, <2>2, Zenon
  <1>2. seed' \in SeedRuns
    <2>1. CASE there = TRUE
      BY <1>1, <2>1 DEF SeedInv, SeedTypeOK, SeedRuns
    <2>2. CASE there = FALSE
      BY <1>1, <2>2 DEF SeedInv, SeedTypeOK, SeedRuns
    <2> QED
      BY <2>1, <2>2
  <1>3. seed'.pc = "saving" /\ seed'.todo = seed.todo
    BY <1>1 DEF SeedInv, SeedTypeOK, SeedRuns
  <1> QED
    BY <1>2, <1>3 DEF LookUp, SeedInv, SeedTypeOK

LEMMA SaveKeepsTypes ==
    ASSUME SeedInv, Save
    PROVE  SeedInv'
  <1>1. Item \in Items /\ Tail(seed.todo) \in Seq(OurItems)
    BY TheItem DEF Save, SeedInv
  <1>2. Tail(seed.todo) \in Seq(Items)
    BY <1>1, SeqMonotonic DEF OurItems
  <1> DEFINE made_now == IF Item.id \in Devices /\ ~seed.found THEN 1 ELSE 0
             found_now == IF Item.id \in Devices /\ seed.found THEN 1 ELSE 0
             groups == IF seed.stage = "groups" THEN seed.shadows \cup {Item.id} ELSE seed.shadows
  <1>3. seed' = [seed EXCEPT !.todo = Tail(seed.todo), !.refs = {}, !.found = FALSE,
                   !.pc = "next", !.shadows = groups,
                   !.created = seed.created + made_now, !.updated = seed.updated + found_now]
    BY DEF Save, Through, SeedInv, SeedTypeOK, SeedRuns
  <1>4. seed.created + made_now \in Nat /\ seed.updated + found_now \in Nat
    BY DEF SeedInv, SeedTypeOK, SeedRuns
  <1>5. groups \in SUBSET Ids
    BY <1>1 DEF Items, Attributes, SeedInv, SeedTypeOK, SeedRuns
  <1> HIDE DEF made_now, found_now, groups
  <1>6. seed' \in SeedRuns
    BY <1>2, <1>3, <1>4, <1>5 DEF SeedInv, SeedTypeOK, SeedRuns
  <1>7. seed'.pc = "next" /\ seed'.todo = Tail(seed.todo)
    BY <1>3 DEF SeedInv, SeedTypeOK, SeedRuns
  <1> QED
    BY <1>1, <1>6, <1>7 DEF SeedInv, SeedTypeOK

\* Whatever the seed does.
SeedMoves == SeedProgress \/ SeedFails \/ \E data \in Declarations : Begin(data)

\* One case per action; those that end the run by an error go by BreakKeepsTypes.
LEMMA SeedMovesKeepTypes ==
    ASSUME SourceInv, SeedInv, SeedMoves
    PROVE  SeedInv'
  <1>1. CASE \E ending \in Endings : Break(ending)
    BY <1>1, BreakKeepsTypes
  <1>2. CASE \E data \in Declarations : Begin(data)
    BY <1>2, BeginKeepsTypes
  <1>3. CASE SeedFails
    BY <1>1, <1>3 DEF SeedFails, LoadRefused, LoadLost, LookUpFails, WriteLost, Endings
  <1>4. CASE WriteRejected
    BY <1>1, <1>4 DEF WriteRejected, Endings
  <1>5. CASE IdentifyBySchema \/ IdentifyByDevices
    BY <1>5, IdentifyKeepsTypes
  <1>6. CASE LoadBatch
    BY <1>6, LoadBatchKeepsTypes
  <1>7. CASE PollSchema
    BY <1>7, PollKeepsTypes DEF SourceInv
  <1>8. CASE Validate
    BY <1>8, ValidateKeepsTypes
  <1>9. CASE EndStage
    BY <1>9, EndStageKeepsTypes
  <1>10. CASE Resolve
    BY <1>10, ResolveKeepsTypes
  <1>11. CASE FindAddress
    BY <1>11, FindAddressKeepsTypes
  <1>12. CASE MakeAddress
    BY <1>12, MakeAddressKeepsTypes
  <1>13. CASE LookUp
    BY <1>13, LookUpKeepsTypes
  <1>14. CASE Save
    BY <1>14, SaveKeepsTypes
  <1> QED
    BY <1>2, <1>3, <1>4, <1>5, <1>6, <1>7, <1>8, <1>9, <1>10, <1>11, <1>12, <1>13, <1>14
       DEF SeedMoves, SeedProgress

-----------------------------------------------------------------------------
(***************************************************************************)
(* What a step does to the source of truth                                 *)
(***************************************************************************)

\* The seed reads, loads a batch, writes what it was about to write, or leaves it behind.
Reads == UNCHANGED source

Loads ==
    /\ seed.pc = "loading" /\ UNCHANGED <<registered, records, late>>
    /\ loaded' \in {loaded, loaded \cup {BatchOrder[seed.batch]}}

Writes ==
    /\ Writing /\ Acceptable(Request) /\ UNCHANGED <<loaded, registered, late>>
    /\ records' = Landed(Request)

Leaves ==
    /\ Writing /\ UNCHANGED <<loaded, registered, records>>
    /\ late' = late \cup {Request}

LEMMA WhatTheSeedDoes ==
    ASSUME SeedMoves
    PROVE  Reads \/ Loads \/ Writes \/ Leaves
  <1>1. CASE SeedProgress
    <2>1. CASE LoadBatch
      BY <2>1, Zenon DEF LoadBatch, Loads
    <2>2. CASE MakeAddress
      BY <2>2 DEF MakeAddress, Writes, Writing
    <2>3. CASE Save
      BY <2>3 DEF Save, Writes, Writing
    <2> QED
      BY <1>1, <2>1, <2>2, <2>3
         DEF SeedProgress, Reads, IdentifyBySchema, IdentifyByDevices, PollSchema, Validate,
             EndStage, Resolve, FindAddress, LookUp, WriteRejected
  <1>2. CASE SeedFails
    BY <1>2 DEF SeedFails, LoadRefused, LoadLost, LookUpFails, WriteLost, Reads, Loads, Leaves
  <1>3. CASE \E data \in Declarations : Begin(data)
    BY <1>3 DEF Begin, Reads
  <1> QED
    BY <1>1, <1>2, <1>3 DEF SeedMoves

LEMMA SeedMovesKeepSource ==
    ASSUME SourceInv, SeedInv, SeedMoves
    PROVE  SourceInv'
  <1>1. CASE Reads
    BY <1>1 DEF Reads, source, SourceInv, Records
  <1>2. CASE Loads
    BY <1>2, TheBatches DEF Loads, SourceInv, SeedInv, Records
  <1>3. CASE Writes
    <2>1. Request \in Requests
      BY <1>3, TheRequest DEF Writes
    <2>2. Records(records')
      BY <1>3, <2>1, WhatLands DEF Writes, SourceInv
    <2> QED
      BY <1>3, <2>2 DEF Writes, SourceInv, Records
  <1>4. CASE Leaves
    <2>1. Request \in Requests
      BY <1>4, TheRequest DEF Leaves
    <2> QED
      BY <1>4, <2>1 DEF Leaves, SourceInv, Records
  <1> QED
    BY <1>1, <1>2, <1>3, <1>4, WhatTheSeedDoes

\* Others write by requests that were left behind, by edits and by deletions.
Others ==
    \/ Elsewhere \/ ByHand \/ DeleteDevice \/ DeleteFails \/ UNCHANGED source

LEMMA WhatOthersDo ==
    ASSUME SourceInv, TheirsInv, Others
    PROVE  /\ SourceInv' /\ loaded' = loaded /\ late' \subseteq late
           /\ Theirs \cap DOMAIN records' \subseteq DOMAIN records
           /\ registered' = registered \/ \E b \in loaded \ registered : TRUE
  <1>1. ASSUME NEW b \in Batches, Register(b) PROVE SourceInv'
    BY <1>1 DEF Register, SourceInv, Records
  <1>2. ASSUME NEW q \in late, LateRequestLands(q)
        PROVE  SourceInv' /\ Theirs \cap DOMAIN records' \subseteq DOMAIN records
    <2>1. q \in Requests /\ q.id \notin Theirs
      BY DEF SourceInv, TheirsInv
    <2>2. Records(records') /\ DOMAIN records' \subseteq DOMAIN records \cup {q.id}
      BY <1>2, <2>1, WhatLands DEF LateRequestLands, SourceInv
    <2> QED
      BY <1>2, <2>1, <2>2 DEF LateRequestLands, SourceInv, Records
  <1>3. ASSUME NEW id \in DOMAIN records, NEW value \in Values, Edit(id, value)
        PROVE  SourceInv' /\ DOMAIN records' = DOMAIN records
    BY <1>3 DEF Edit, SourceInv, Records, Record
  <1>4. ASSUME NEW id \in DOMAIN records, NEW address \in Addresses, AddAddress(id, address)
        PROVE  SourceInv' /\ DOMAIN records' = DOMAIN records
    BY <1>4 DEF AddAddress, SourceInv, Records, Record, Addresses
  <1>5. ASSUME DeleteDevice \/ DeleteFails
        PROVE  SourceInv' /\ DOMAIN records' \subseteq DOMAIN records
    BY <1>5, WhatRemains DEF DeleteDevice, DeleteFails, SourceInv, Records
  <1>6. CASE Elsewhere
    BY <1>1, <1>2, <1>6 DEF Elsewhere, Register, LateRequestLands
  <1>7. CASE ByHand
    BY <1>3, <1>4, <1>7 DEF ByHand, Edit, AddAddress
  <1>8. CASE DeleteDevice \/ DeleteFails
    BY <1>5, <1>8 DEF DeleteDevice, DeleteFails
  <1>9. CASE UNCHANGED source
    BY <1>9 DEF source, SourceInv, Records
  <1> QED
    BY <1>6, <1>7, <1>8, <1>9 DEF Others

-----------------------------------------------------------------------------
(***************************************************************************)
(* Another project's source of truth                                       *)
(***************************************************************************)

\* Where their devices are, the identity check ends the run or has its second read to do.
LEMMA TheirsAreFound ==
    ASSUME SourceInv, SeedInv, TheirsInv, SeedMoves, Theirs \cap DOMAIN records # {}
    PROVE  UNCHANGED source /\ Untouched'
  <1>1. /\ registered = {"base"} /\ loaded = {"base"} /\ late = {}
        /\ seed.pc \in Endings \cup {"idle", "identifying", "counting"}
    BY DEF TheirsInv, Untouched
  <1>2. \A ending \in Endings : Break(ending) => seed'.pc = ending
    BY DEF Break, Fresh
  <1>3. UNCHANGED source
    BY <1>1, WhatTheSeedDoes DEF Reads, Loads, Writes, Leaves, Writing, Endings
  <1>4. CASE IdentifyBySchema
    <2>1. Goto("counting") \/ Break("unidentified")
      BY <1>1, <1>4 DEF IdentifyBySchema, Unprovisioned, HasMarker, Require
    <2>2. Goto("counting") => seed'.pc = "counting"
      BY DEF Goto, SeedInv, SeedTypeOK, SeedRuns
    <2> QED
      BY <1>1, <1>2, <1>3, <2>1, <2>2 DEF Untouched, source, Endings
  <1>5. CASE IdentifyByDevices
    <2> DEFINE there == DOMAIN records \cap Devices
    <2>1. IsFiniteSet(there) /\ there # {}
      BY FS_Subset, SystemAssumption DEF SourceInv, Records
    <2>2. Cardinality(there) \in Nat /\ Cardinality(there) # 0
      BY <2>1, FS_CardinalityType, FS_EmptySet
    <2>3. Break("foreign") \/ Break("unidentified")
      BY <1>5, <2>2 DEF IdentifyByDevices, Classify, Unread, Require
    <2> QED
      BY <1>1, <1>2, <1>3, <2>3 DEF Untouched, source, Endings
  <1>6. CASE \E data \in Declarations : Begin(data)
    BY <1>1, <1>3, <1>6 DEF Begin, Fresh, Untouched, source
  <1> QED
    BY <1>1, <1>4, <1>5, <1>6
       DEF SeedMoves, SeedProgress, SeedFails, LoadBatch, PollSchema, Validate, EndStage, Resolve,
           FindAddress, MakeAddress, LookUp, Save, WriteRejected, LoadRefused, LoadLost,
           LookUpFails, WriteLost, Writing, Endings

LEMMA SeedMovesKeepTheirs ==
    ASSUME SourceInv, SeedInv, TheirsInv, SeedMoves
    PROVE  TheirsInv'
  <1>1. \A q \in late' : q.id \notin Theirs
    BY WhatTheSeedDoes, TheRequest DEF Reads, Loads, Writes, Leaves, source, TheirsInv
  <1>2. Theirs \cap DOMAIN records' \subseteq DOMAIN records
    BY WhatTheSeedDoes, TheRequest, WhatLands
       DEF Reads, Loads, Writes, Leaves, source, SourceInv
  <1> QED
    BY <1>1, <1>2, TheirsAreFound DEF TheirsInv

LEMMA OthersKeepTheirs ==
    ASSUME SourceInv, TheirsInv, Others, seed' = seed
    PROVE  TheirsInv'
  BY WhatOthersDo DEF TheirsInv, Untouched

-----------------------------------------------------------------------------
(***************************************************************************)
(* The intent store and the history keep their types                       *)
(***************************************************************************)

LEMMA WhatIsTold ==
    ASSUME NEW children, NEW unnamed, NEW missed, NEW told \in Tellings(children, unnamed, missed)
    PROVE  DOMAIN told = DOMAIN children
  BY DEF Tellings

LEMMA WhatIsGathered ==
    ASSUME ReaderInv
    PROVE  DOMAIN Gathered \subseteq Children
  BY DEF Gathered, Answers, Found, ReaderInv, StoreTypeOK

LEMMA WhatIsMissing ==
    ASSUME ReaderInv, NEW missed \in Missing(Gathered), NEW miss \in missed
    PROVE  miss[1] \in Children
  BY WhatIsGathered DEF Missing

LEMMA ReaderStepKeepsTypes ==
    ASSUME ReaderInv, ReaderStep
    PROVE  /\ deletion' = deletion /\ Reads
           /\ DOMAIN reader' = DOMAIN NoRead
           /\ reader'.pc \in {"idle", "interfaces", "sessions", "answered"}
           /\ reader'.query \in UseCases \cup Queries \cup {Unset}
           /\ reader'.listed \subseteq Devices
           /\ DOMAIN reader'.interfaces \cup DOMAIN reader'.told \subseteq Children
           /\ \A miss \in reader'.missed : miss[1] \in Children
  <1> USE DEF ReaderInv, StoreTypeOK, Reads
  <1>0. DOMAIN NoRead = {"pc", "query", "listed", "interfaces", "told", "missed"} /\ DOMAIN <<>> = {}
    BY DEF NoRead
  <1>1. CASE reader' = NoRead /\ UNCHANGED <<source, deletion>>
    BY <1>1 DEF NoRead
  <1>2. ASSUME NEW query \in UseCases \cup Queries, ReadDevices(query)
        PROVE  /\ UNCHANGED <<source, deletion>>
               /\ DOMAIN reader' = DOMAIN reader
               /\ reader'.pc = "interfaces" /\ reader'.query = query
               /\ reader'.listed \subseteq Devices
               /\ reader'.interfaces = reader.interfaces /\ reader'.told = reader.told
               /\ reader'.missed = reader.missed
    <2>1. Matching(query) \subseteq Devices
      BY StoreAssumption DEF Matching
    <2> QED
      BY <1>0, <1>2, <2>1 DEF ReadDevices
  <1>3. CASE ReadInterfaces
    <2>1. DOMAIN Answers("InterfacePhysical") \subseteq Children
      BY DEF Answers, Found
    <2> QED
      BY <1>0, <1>3, <2>1 DEF ReadInterfaces
  <1>4. CASE ReadSessions
    <2>1. PICK unnamed, missed, told :
            /\ missed \in Missing(Gathered) /\ told \in Tellings(Gathered, unnamed, missed)
            /\ Answer(told, missed)
      BY <1>4 DEF ReadSessions
    <2>2. DOMAIN told \subseteq Children /\ \A miss \in missed : miss[1] \in Children
      BY <2>1, WhatIsTold, WhatIsGathered, WhatIsMissing
    <2> QED
      BY <1>0, <1>4, <2>1, <2>2 DEF ReadSessions, Answer
  <1> QED
    BY <1>1, <1>2, <1>3, <1>4
       DEF ReaderStep, ReadRefused, QueryFails, TakeAnswer

LEMMA NotedDeletions ==
    ASSUME ReaderInv, NoteDeletions
    PROVE  gone' \subseteq Devices
  BY DEF NoteDeletions, ReaderInv, StoreTypeOK

LEMMA HistoryKeepsTypes ==
    ASSUME HistoryInv, SourceInv', changes' \in 0..MaxChanges, Note
    PROVE  HistoryInv'
  <1>1. made' \subseteq Ids
    BY DEF HistoryInv, Note, SourceInv, Records
  <1>2. disturbed' \in BOOLEAN
    <2>1. (disturbed \/ (records' # records /\ seed' = seed)) \in BOOLEAN
      OBVIOUS
    <2> QED
      BY <2>1, Zenon DEF Note
  <1>3. stood' \subseteq ever'
    BY DEF HistoryInv, Note
  <1> QED
    BY <1>1, <1>2, <1>3 DEF HistoryInv

-----------------------------------------------------------------------------
(***************************************************************************)
(* The theorems                                                            *)
(***************************************************************************)

LEMMA Initially == Init => IInv
  <1> SUFFICES ASSUME Init PROVE IInv
    OBVIOUS
  <1>1. SourceInv
    <2>1. DOMAIN records \in {{}, Theirs}
      BY DEF Init
    <2>2. IsFiniteSet(DOMAIN records)
      BY <2>1, FS_EmptySet, SystemAssumption
    <2>3. Records(records)
      BY <2>1, <2>2, SystemAssumption DEF Init, Records, Record, Devices
    <2> QED
      BY <2>3, TheBatches DEF Init, SourceInv
  <1>2. SeedInv
    <2>1. seed \in SeedRuns
      BY TheBatches, TheStages, TheBounds, EmptySeq DEF Init, SeedInit, Fresh, SeedRuns
    <2> QED
      BY <2>1, EmptySeq DEF Init, SeedInit, Fresh, SeedInv, SeedTypeOK
  <1>3. ReaderInv
    BY DEF Init, StoreInit, NoRead, ReaderInv, StoreTypeOK
  <1>4. TheirsInv
    BY DEF Init, SeedInit, Fresh, TheirsInv, Untouched
  <1>5. HistoryInv
    <2>1. changes = 0 /\ made = {} /\ disturbed = FALSE /\ stood = {}
      BY DEF Init
    <2>2. changes \in 0..MaxChanges
      BY <2>1, SystemAssumption
    <2>3. disturbed \in BOOLEAN
      BY <2>1, Zenon
    <2>4. made \subseteq Ids /\ stood \subseteq ever
      BY <2>1
    <2> QED
      BY <2>2, <2>3, <2>4, Zenon DEF HistoryInv
  <1> QED
    BY <1>1, <1>2, <1>3, <1>4, <1>5 DEF IInv

\* Every step is one of the seed, of the store's callers or of somebody else, and is noted.
LEMMA EveryStep ==
    ASSUME IInv, [Next]_vars
    PROVE  IInv'
  <1> USE DEF IInv
  <1>1. CASE SeedAdvances \/ SeedIsRunOrBroken
    <2>1. SeedMoves /\ UNCHANGED <<reader, deletion, changes>> /\ Note
      BY <1>1 DEF SeedAdvances, SeedIsRunOrBroken, SeedMoves
    <2>2. SourceInv' /\ SeedInv' /\ TheirsInv'
      BY <2>1, SeedMovesKeepSource, SeedMovesKeepTypes, SeedMovesKeepTheirs
    <2>3. ReaderInv'
      BY <2>1, NotedDeletions DEF Note, ReaderInv, StoreTypeOK
    <2>4. HistoryInv'
      BY <2>1, <2>2, HistoryKeepsTypes DEF HistoryInv
    <2> QED
      BY <2>2, <2>3, <2>4
  <1>2. CASE StoreIsCalled
    <2>1. seed' = seed /\ Note
      BY <1>2 DEF StoreIsCalled
    <2>2. Others /\ ReaderInv'
      <3>1. gone' \subseteq Devices
        BY <2>1, NotedDeletions DEF Note
      <3>2. CASE ReaderStep
        BY <3>1, <3>2, ReaderStepKeepsTypes DEF Others, Reads, ReaderInv, StoreTypeOK
      <3>3. CASE DeleteDevice \/ DeleteFails
        BY <3>1, <3>3 DEF DeleteDevice, DeleteFails, Others, ReaderInv, StoreTypeOK
      <3>4. ASSUME NEW device \in Queries, FindDoomed(device) PROVE Others /\ ReaderInv'
        BY <3>1, <3>4, StoreAssumption DEF FindDoomed, Others, ReaderInv, StoreTypeOK
      <3> QED
        BY <1>2, <3>2, <3>3, <3>4 DEF StoreIsCalled
    <2>3. SourceInv' /\ TheirsInv'
      BY <2>1, <2>2, WhatOthersDo, OthersKeepTheirs
    <2>4. changes' \in 0..MaxChanges
      BY <1>2, SystemAssumption DEF StoreIsCalled, HistoryInv
    <2> QED
      BY <2>1, <2>2, <2>3, <2>4, HistoryKeepsTypes
         DEF SeedInv, SeedTypeOK, Item
  <1>3. CASE SourceChanges
    <2>1. Others /\ UNCHANGED <<seed, reader, deletion>> /\ Note
      BY <1>3 DEF SourceChanges, Others
    <2>2. SourceInv' /\ TheirsInv'
      BY <2>1, WhatOthersDo, OthersKeepTheirs
    <2>3. ReaderInv'
      BY <2>1, NotedDeletions DEF Note, ReaderInv, StoreTypeOK
    <2>4. changes' \in 0..MaxChanges
      BY <1>3, SystemAssumption DEF SourceChanges, HistoryInv
    <2> QED
      BY <2>1, <2>2, <2>3, <2>4, HistoryKeepsTypes
         DEF SeedInv, SeedTypeOK, Item
  <1>4. CASE UNCHANGED vars
    <2>1. SourceInv' /\ SeedInv' /\ ReaderInv'
      BY <1>4 DEF vars, source, SourceInv, Records, SeedInv, SeedTypeOK, Item, ReaderInv, StoreTypeOK
    <2>2. TheirsInv' /\ HistoryInv'
      BY <1>4 DEF vars, source, history, TheirsInv, Untouched, HistoryInv
    <2> QED
      BY <2>1, <2>2
  <1> QED
    BY <1>1, <1>2, <1>3, <1>4 DEF Next

\* The inductive invariant holds in every reachable state.
THEOREM Invariance == Spec => []IInv
  <1>1. IInv /\ [Next]_vars => IInv'
    BY EveryStep
  <1> QED
    BY Initially, <1>1, PTL DEF Spec

\* Every variable of the intent layer keeps its type: the records of the source of truth,
\* the runs of the seed, the reads of the store (SourceTypeOK, SeedTypeOK, StoreTypeOK).
THEOREM TypeCorrect == Spec => []TypeOK
  <1>1. IInv => TypeOK
    BY DEF IInv, SourceInv, Records, SeedInv, ReaderInv, HistoryInv, TypeOK, SourceTypeOK
  <1> QED
    BY <1>1, Invariance, PTL

\* The task never writes a schema or a record to a source of truth that holds another
\* project's devices, whatever fails and whatever an earlier run left (tasks/demo.py:235).
THEOREM TheirsStayUntouched == Spec => NothingIsWrittenToTheirs
  <1>1. ASSUME IInv, [Next]_vars, seed' # seed, Theirs \cap DOMAIN records # {}
        PROVE  loaded' = loaded /\ records' = records /\ late' = late
    <2>1. SeedMoves
      BY <1>1 DEF Next, SeedAdvances, SeedIsRunOrBroken, StoreIsCalled, SourceChanges, SeedMoves, vars
    <2> QED
      BY <1>1, <2>1, TheirsAreFound DEF IInv, source
  <1>2. IInv /\ [Next]_vars =>
          [seed' # seed /\ Theirs \cap DOMAIN records # {} =>
              loaded' = loaded /\ records' = records /\ late' = late]_vars
    BY <1>1
  <1> QED
    BY <1>2, Invariance, PTL DEF Spec, NothingIsWrittenToTheirs

-----------------------------------------------------------------------------
(***************************************************************************)
(* Every child has its device                                              *)
(***************************************************************************)

\* A child's relations name one device.
Rooted(id, refs) == id \in Children => \E d \in Devices : refs \cap Devices = {d}

\* Each child there is has one device, which is there.
Planted(recs) ==
    \A c \in DOMAIN recs :
        /\ Rooted(c, recs[c].refs)
        /\ c \in Children => recs[c].refs \cap Devices \subseteq DOMAIN recs

\* And so will those that are still to be created.
RootInv ==
    /\ Planted(records)
    /\ \A q \in late : Rooted(q.id, q.record.refs)
    /\ seed.pc \in {"address", "making", "lookup", "saving"} =>
          seed.refs \cap Devices = Item.needs \cap Devices

LEMMA AddressesAreNoDevices ==
    /\ \A id \in Addresses : id \notin Devices /\ id \notin Children
    /\ \A id \in Devices : id \notin Children
  BY DEF Addresses, Devices, Children

LEMMA TheRequestIsRooted ==
    ASSUME SeedInv, RootInv, Writing
    PROVE  Rooted(Request.id, Request.record.refs)
  <1>1. Item \in Items
    BY TheItem DEF SeedInv, Writing
  <1>2. CASE seed.pc = "making"
    <2>1. (CHOOSE a \in Item.ips : TRUE) \in Addresses
      BY <1>1, <1>2 DEF SeedInv, Items, Attributes
    <2> QED
      BY <1>2, <2>1, AddressesAreNoDevices DEF Request, Rooted
  <1>3. CASE seed.pc = "saving"
    <2>1. Request.id = Item.id /\ Request.record.refs = seed.refs
      BY <1>3 DEF Request, Written
    <2>2. seed.refs \cap Devices = Item.needs \cap Devices
      BY <1>3 DEF RootInv
    <2> QED
      BY <1>1, <2>1, <2>2 DEF Rooted, Items
  <1> QED
    BY <1>2, <1>3 DEF Writing

\* A record that lands has its device, which is there.
LEMMA LandsRooted ==
    ASSUME Records(records), RootInv, NEW q \in Requests, Acceptable(q),
           Rooted(q.id, q.record.refs), records' = Landed(q)
    PROVE  Planted(records')
  <1> DEFINE changed == [records[q.id] EXCEPT
                           !.value = q.record.value,
                           !.use_case = IF q.record.use_case = Unset THEN @
                                      ELSE q.record.use_case]
  <1>1. q.id \in DOMAIN records => changed.refs = records[q.id].refs
    BY DEF Records, Record
  <1> HIDE DEF changed
  <1>2. CASE q.op = "create"
    <2>1. records' = Put(q.id, q.record) /\ q.record.refs \subseteq DOMAIN records
      BY <1>2 DEF Landed, Acceptable
    <2> QED
      BY <2>1 DEF Put, RootInv, Planted, Rooted
  <1>3. CASE q.op # "create"
    <2>1. records' = Put(q.id, changed) /\ q.id \in DOMAIN records
      BY <1>3 DEF Landed, Acceptable, changed
    <2> QED
      BY <1>1, <2>1 DEF Put, RootInv, Planted, Rooted
  <1> QED
    BY <1>2, <1>3

\* A device that is removed takes its children along: those that remain keep theirs.
LEMMA RemainsRooted ==
    ASSUME Records(records), RootInv, NEW device \in Devices, records' = Removed(device)
    PROVE  Planted(records')
  <1> DEFINE lost == {device} \cup {c \in DOMAIN records \cap Children : device \in records[c].refs}
  <1>1. records' = [x \in DOMAIN records \ lost |-> [records[x] EXCEPT !.refs = @ \ lost]]
    BY DEF Removed
  <1>2. lost \cap Devices = {device}
    BY AddressesAreNoDevices
  <1>3. \A c \in DOMAIN records \ lost : c \in Children => device \notin records[c].refs
    OBVIOUS
  <1> HIDE DEF lost
  <1>4. \A c \in DOMAIN records' : /\ c \in DOMAIN records \ lost
                                 /\ records'[c].refs = records[c].refs \ lost
    BY <1>1 DEF Records, Record
  <1>5. DOMAIN records' = DOMAIN records \ lost
    BY <1>1
  <1>6. ASSUME NEW c \in DOMAIN records', c \in Children
        PROVE  records'[c].refs \cap Devices = records[c].refs \cap Devices
    BY <1>2, <1>3, <1>4, <1>6
  <1> QED
    BY <1>2, <1>3, <1>4, <1>5, <1>6 DEF RootInv, Planted, Rooted

LEMMA SeedKeepsRoots ==
    ASSUME SourceInv, SeedInv, RootInv, SeedMoves
    PROVE  RootInv'
  <1>1. Planted(records')
    <2>1. CASE Writes
      <3>1. Request \in Requests /\ Rooted(Request.id, Request.record.refs)
        BY <2>1, TheRequest, TheRequestIsRooted DEF Writes
      <3> QED
        BY <2>1, <3>1, LandsRooted DEF Writes, SourceInv
    <2>2. CASE ~Writes
      BY <2>2, WhatTheSeedDoes DEF Reads, Loads, Leaves, source, RootInv
    <2> QED
      BY <2>1, <2>2
  <1>2. \A q \in late' : Rooted(q.id, q.record.refs)
    BY WhatTheSeedDoes, TheRequestIsRooted DEF Reads, Loads, Writes, Leaves, source, RootInv
  <1>3. seed'.pc \in {"address", "making", "lookup", "saving"} =>
           seed'.refs \cap Devices = Item'.needs \cap Devices
    <2> USE DEF SeedInv, SeedTypeOK, SeedRuns, Item
    <2>1. \A ending \in Endings : Break(ending) => seed'.pc = ending
      BY DEF Break, Fresh
    <2>2. CASE Resolve
      <3>1. Item \in Items
        BY <2>2, TheItem DEF Resolve
      <3>2. {id \in Item.wants : Wired(id)} \cap Devices = {}
        BY <3>1 DEF Items, Devices
      <3>3. CASE Item.needs \subseteq DOMAIN records
        <4> DEFINE refs == Item.needs \cup {id \in Item.wants : Wired(id)}
                   pc == IF Item.ips = {} THEN "lookup" ELSE "address"
        <4>1. seed' = [seed EXCEPT !.refs = refs, !.pc = pc]
          BY <2>2, <3>3 DEF Resolve
        <4>2. refs \cap Devices = Item.needs \cap Devices
          BY <3>2
        <4> HIDE DEF refs, pc
        <4>3. seed'.refs = refs /\ seed'.todo = seed.todo
          BY <4>1
        <4> QED
          BY <4>2, <4>3
      <3>4. CASE ~(Item.needs \subseteq DOMAIN records)
        BY <2>1, <2>2, <3>4 DEF Resolve, Endings
      <3> QED
        BY <3>3, <3>4
    <2>3. CASE FindAddress \/ MakeAddress
      <3>1. Item \in Items
        BY <2>3, TheItem DEF FindAddress, MakeAddress
      <3>2. Item.ips \cap Devices = {}
        BY <3>1, AddressesAreNoDevices DEF Items, Attributes
      <3>3. seed'.refs \in {seed.refs, seed.refs \cup Item.ips} /\ seed'.todo = seed.todo
        BY <2>3 DEF FindAddress, MakeAddress
      <3> QED
        BY <2>3, <3>2, <3>3 DEF RootInv, FindAddress, MakeAddress
    <2>4. CASE LookUp
      BY <2>4 DEF LookUp, RootInv
    <2>5. CASE Save
      BY <2>5 DEF Save, Through
    <2>6. CASE \E data \in Declarations : Begin(data)
      BY <2>6 DEF Begin, Fresh
    <2>7. CASE SeedFails \/ WriteRejected
      BY <2>1, <2>7 DEF SeedFails, LoadRefused, LoadLost, LookUpFails, WriteLost, WriteRejected, Endings
    <2>8. CASE IdentifyBySchema \/ IdentifyByDevices
      BY <2>1, <2>8 DEF IdentifyBySchema, IdentifyByDevices, Require, Goto, Classify, Unread, Endings
    <2>9. CASE LoadBatch
      BY <2>9 DEF LoadBatch
    <2>10. CASE PollSchema
      BY <2>1, <2>10 DEF PollSchema, Endings
    <2>11. CASE Validate
      BY <2>1, <2>11 DEF Validate, Endings
    <2>12. CASE EndStage
      BY <2>1, <2>12 DEF EndStage, TakeStage, Goto, Endings
    <2> QED
      BY <2>2, <2>3, <2>4, <2>5, <2>6, <2>7, <2>8, <2>9, <2>10, <2>11, <2>12
         DEF SeedMoves, SeedProgress
  <1> QED
    BY <1>1, <1>2, <1>3 DEF RootInv

LEMMA OthersKeepRoots ==
    ASSUME SourceInv, ReaderInv, RootInv, Others, seed' = seed
    PROVE  RootInv'
  <1>1. /\ \A q \in late' : Rooted(q.id, q.record.refs)
        /\ seed'.pc \in {"address", "making", "lookup", "saving"} =>
              seed'.refs \cap Devices = Item'.needs \cap Devices
    <2>1. late' \subseteq late
      BY DEF Others, Elsewhere, Register, LateRequestLands, ByHand, Edit, AddAddress,
             DeleteDevice, DeleteFails, source
    <2> QED
      BY <2>1 DEF RootInv, Item
  <1>2. Planted(records')
    <2>1. CASE records' = records
      BY <2>1 DEF RootInv
    <2>2. ASSUME NEW q \in late, LateRequestLands(q), records' # records
          PROVE  Planted(records')
      <3>1. q \in Requests /\ Rooted(q.id, q.record.refs)
        BY DEF SourceInv, RootInv
      <3> QED
        BY <2>2, <3>1, LandsRooted DEF LateRequestLands, SourceInv
    <2>3. ASSUME NEW id, NEW value, Edit(id, value)
          PROVE  /\ DOMAIN records' = DOMAIN records
                 /\ \A c \in DOMAIN records : records'[c].refs = records[c].refs
      BY <2>3 DEF Edit, SourceInv, Records, Record
    <2>4. ASSUME NEW id, NEW address, AddAddress(id, address)
          PROVE  /\ DOMAIN records' = DOMAIN records
                 /\ \A c \in DOMAIN records :
                       records'[c].refs \cap Devices = records[c].refs \cap Devices
      BY <2>4, AddressesAreNoDevices DEF AddAddress, SourceInv, Records, Record
    <2>5. CASE ByHand
      BY <2>3, <2>4, <2>5 DEF ByHand, RootInv, Planted, Rooted
    <2>6. CASE (DeleteDevice \/ DeleteFails) /\ records' # records
      <3>1. deletion \in Devices /\ records' = Removed(deletion)
        BY <2>6 DEF DeleteDevice, DeleteFails, ReaderInv, StoreTypeOK, NoDevice
      <3> QED
        BY <3>1, RemainsRooted DEF SourceInv
    <2> QED
      BY <2>1, <2>2, <2>5, <2>6 DEF Others, Elsewhere, Register, source
  <1> QED
    BY <1>1, <1>2 DEF RootInv


-----------------------------------------------------------------------------
(***************************************************************************)
(* What a read knows                                                       *)
(***************************************************************************)

\* The kinds an answer tells of.
Told == {"InterfacePhysical", "RoutingBGPSession"}

\* An entry has its child's one device, which is there.
LEMMA EntryHas ==
    ASSUME NEW recs, Records(recs), Planted(recs), NEW e \in Entries(recs)
    PROVE  /\ e.child \in DOMAIN recs \cap Children /\ Kind(e.child) \in Told
           /\ e.value = recs[e.child].value
           /\ e.addresses = recs[e.child].refs \cap Addresses
           /\ recs[e.child].refs \cap Devices = {e.device}
           /\ e.device \in Devices /\ e.device \in DOMAIN recs
  <1>1. PICK c \in {x \in DOMAIN recs : Kind(x) \in Told} :
           e = [child |-> c, device |-> CHOOSE d \in Devices : d \in recs[c].refs,
                value |-> recs[c].value, addresses |-> recs[c].refs \cap Addresses]
    BY DEF Entries, Told
  <1>2. /\ e.child = c /\ e.device = CHOOSE d \in Devices : d \in recs[c].refs
        /\ e.value = recs[c].value /\ e.addresses = recs[c].refs \cap Addresses
    BY <1>1
  <1>3. c \in Children
    BY DEF Children, Told, Records
  <1>4. PICK d \in Devices : recs[c].refs \cap Devices = {d}
    BY <1>3 DEF Planted, Rooted
  <1>5. d \in recs[c].refs /\ \A x \in Devices : x \in recs[c].refs => x = d
    BY <1>4
  <1>6. e.device = d
    BY <1>2, <1>5
  <1>7. d \in DOMAIN recs
    BY <1>3, <1>4 DEF Planted
  <1> QED
    BY <1>2, <1>3, <1>4, <1>6, <1>7

\* What the server answers of a child is an entry, of the child's device, which is listed.
LEMMA AnswerIsEntry ==
    ASSUME Records(records), Planted(records), reader.listed \subseteq Devices,
           NEW kind \in Told, NEW c \in DOMAIN Answers(kind)
    PROVE  /\ Kind(c) = kind
           /\ \E e \in Entries(records) :
                 /\ e.child = c /\ e.device = Answers(kind)[c].device
                 /\ e.value = Answers(kind)[c].value
                 /\ e.addresses = Answers(kind)[c].addresses /\ e.device \in reader.listed
  <1> DEFINE e == [child |-> c, device |-> CHOOSE d \in Devices : d \in records[c].refs,
                   value |-> records[c].value, addresses |-> records[c].refs \cap Addresses]
  <1>1. /\ c \in DOMAIN records \cap Children /\ Kind(c) = kind
        /\ records[c].refs \cap (reader.listed \ gone) # {}
    BY DEF Answers, Found
  <1>2. e \in Entries(records)
    BY <1>1 DEF Entries, Told
  <1>3. /\ e.child = c /\ e.device = Answers(kind)[c].device
        /\ e.value = Answers(kind)[c].value /\ e.addresses = Answers(kind)[c].addresses
    BY DEF Answers, Parent
  <1> HIDE DEF e
  <1>4. records[c].refs \cap Devices = {e.device}
    BY <1>2, <1>3, EntryHas
  <1>5. e.device \in reader.listed
    BY <1>1, <1>4
  <1> QED
    BY <1>1, <1>2, <1>3, <1>5

\* A child that stands on a listed device that was not removed is in the server's answer.
LEMMA EntryIsAnswered ==
    ASSUME Records(records), Planted(records), NEW e \in Entries(records),
           e.device \in reader.listed, e.device \notin gone
    PROVE  e.child \in DOMAIN Answers(Kind(e.child))
  <1>1. /\ e.child \in DOMAIN records \cap Children
        /\ records[e.child].refs \cap Devices = {e.device}
    BY EntryHas
  <1> QED
    BY <1>1 DEF Answers, Found

\* While a read is on: the entries that stood still stand, on devices that were not removed
\* meanwhile; after the second question it has every interface of those it listed, and
\* each as it was.
ReadInv ==
    /\ reader.pc \in {"idle", "answered"} => gone = {}
    /\ reader.pc # "idle" =>
          /\ stood \subseteq Entries(records) /\ Entries(records) \subseteq ever
          /\ IsFiniteSet(reader.listed)
          /\ \A e \in stood : e.device \notin gone
    /\ reader.pc = "sessions" =>
          /\ \A e \in stood : e.device \in reader.listed /\ Kind(e.child) = "InterfacePhysical" =>
                               e.child \in DOMAIN reader.interfaces
          /\ \A c \in DOMAIN reader.interfaces :
                /\ Kind(c) = "InterfacePhysical"
                /\ \E e \in ever : /\ e.child = c /\ e.device = reader.interfaces[c].device
                                  /\ e.value = reader.interfaces[c].value
                                  /\ e.addresses = reader.interfaces[c].addresses
                                  /\ e.device \in reader.listed
    /\ AnswerHoldsWhatStood

\* What the history keeps of a read that goes on.
LEMMA HistoryOfTheRead ==
    ASSUME SourceInv', RootInv', ReadInv, Note, reader.pc # "idle", reader'.pc # "idle"
    PROVE  /\ stood' \subseteq Entries(records)' /\ Entries(records)' \subseteq ever'
           /\ stood' \subseteq stood /\ ever \subseteq ever'
           /\ \A e \in stood' : e.device \notin gone'
           /\ reader'.pc = "answered" => gone' = {}
  <1>1. stood' = stood \cap Entries(records') /\ ever' = ever \cup Entries(records')
    BY DEF Note
  <1>2. gone' \subseteq gone \cup (Devices \ DOMAIN records')
    BY DEF Note, NoteDeletions
  <1>3. Records(records') /\ Planted(records')
    BY DEF SourceInv, RootInv
  <1>4. \A e \in Entries(records') : e.device \in DOMAIN records'
    BY <1>3, EntryHas
  <1>5. \A e \in stood : e.device \notin gone
    BY DEF ReadInv
  <1>6. \A e \in stood' : e.device \notin gone'
    BY <1>1, <1>2, <1>4, <1>5
  <1>7. reader'.pc = "answered" => gone' = {}
    BY DEF Note, NoteDeletions
  <1>8. Entries(records)' = Entries(records')
    BY DEF Entries
  <1> QED
    BY <1>1, <1>6, <1>7, <1>8

LEMMA ReadGoesOn ==
    ASSUME SourceInv', RootInv', ReadInv, Note, reader' = reader
    PROVE  ReadInv'
  <1>1. CASE reader.pc = "idle"
    BY <1>1 DEF ReadInv, Note, NoteDeletions, AnswerHoldsWhatStood
  <1>2. CASE reader.pc # "idle"
    <2>1. /\ stood' \subseteq Entries(records)' /\ Entries(records)' \subseteq ever'
          /\ stood' \subseteq stood /\ ever \subseteq ever'
          /\ \A e \in stood' : e.device \notin gone'
          /\ reader'.pc = "answered" => gone' = {}
      BY <1>2, HistoryOfTheRead
    <2>2. AnswerHoldsWhatStood'
      BY <2>1 DEF ReadInv, AnswerHoldsWhatStood
    <2> QED
      BY <1>2, <2>1, <2>2 DEF ReadInv
  <1> QED
    BY <1>1, <1>2

LEMMA ReadEnds ==
    ASSUME Note, reader' = NoRead
    PROVE  ReadInv'
  <1>1. reader'.pc = "idle"
    BY DEF NoRead
  <1> QED
    BY <1>1 DEF ReadInv, Note, NoteDeletions, AnswerHoldsWhatStood

LEMMA ReadBegins ==
    ASSUME SourceInv, ReaderInv, ReadInv, Note, NEW query, ReadDevices(query)
    PROVE  ReadInv'
  <1>1. /\ reader.pc = "idle" /\ records' = records
        /\ reader' = [reader EXCEPT !.query = query, !.listed = Matching(query), !.pc = "interfaces"]
    BY DEF ReadDevices, source
  <1>2. reader'.pc = "interfaces" /\ reader'.listed = Matching(query)
    BY <1>1 DEF ReaderInv, NoRead
  <1>3. IsFiniteSet(Matching(query))
    BY FS_Subset DEF Matching, SourceInv, Records
  <1>4. gone' = {}
    BY <1>1, <1>2 DEF Note, NoteDeletions, ReadInv
  <1>5. stood' = Entries(records') /\ ever' = Entries(records')
    BY <1>1, <1>2 DEF Note
  <1>6. Entries(records)' = Entries(records')
    BY DEF Entries
  <1> QED
    BY <1>2, <1>3, <1>4, <1>5, <1>6 DEF ReadInv, AnswerHoldsWhatStood

LEMMA InterfacesRead ==
    ASSUME SourceInv, SourceInv', ReaderInv, RootInv, RootInv', ReadInv, Note, ReadInterfaces
    PROVE  ReadInv'
  <1>1. /\ reader.pc = "interfaces" /\ records' = records
        /\ reader' = [reader EXCEPT !.interfaces = Answers("InterfacePhysical"), !.pc = "sessions"]
    BY DEF ReadInterfaces, source
  <1>2. /\ reader'.pc = "sessions" /\ reader'.interfaces = Answers("InterfacePhysical")
        /\ reader'.listed = reader.listed
    BY <1>1 DEF ReaderInv, NoRead
  <1>3. /\ stood' \subseteq Entries(records)' /\ Entries(records)' \subseteq ever'
        /\ stood' \subseteq stood /\ ever \subseteq ever'
        /\ \A e \in stood' : e.device \notin gone'
    BY <1>1, <1>2, HistoryOfTheRead
  <1>4. Records(records) /\ Planted(records) /\ reader.listed \subseteq Devices
    BY DEF SourceInv, RootInv, ReaderInv, StoreTypeOK
  <1>5. /\ stood \subseteq Entries(records) /\ Entries(records) \subseteq ever
        /\ \A e \in stood : e.device \notin gone
    BY <1>1 DEF ReadInv
  <1>6. ASSUME NEW e \in stood, e.device \in reader.listed, Kind(e.child) = "InterfacePhysical"
        PROVE  e.child \in DOMAIN Answers("InterfacePhysical")
    BY <1>4, <1>5, <1>6, EntryIsAnswered
  <1>7. ASSUME NEW c \in DOMAIN Answers("InterfacePhysical")
        PROVE  /\ Kind(c) = "InterfacePhysical"
               /\ \E e \in ever : /\ e.child = c /\ e.device = Answers("InterfacePhysical")[c].device
                                 /\ e.value = Answers("InterfacePhysical")[c].value
                                 /\ e.addresses = Answers("InterfacePhysical")[c].addresses
                                 /\ e.device \in reader.listed
    BY <1>4, <1>5, AnswerIsEntry DEF Told
  <1>8. IsFiniteSet(reader'.listed)
    BY <1>1, <1>2 DEF ReadInv
  <1> HIDE DEF Answers
  <1>9. \A c \in DOMAIN reader'.interfaces :
                /\ Kind(c) = "InterfacePhysical"
                /\ \E e \in ever' : /\ e.child = c /\ e.device = reader'.interfaces[c].device
                                   /\ e.value = reader'.interfaces[c].value
                                   /\ e.addresses = reader'.interfaces[c].addresses
                                   /\ e.device \in reader'.listed
    BY <1>2, <1>3, <1>7
  <1>10. \A e \in stood' : e.device \in reader'.listed /\ Kind(e.child) = "InterfacePhysical" =>
                               e.child \in DOMAIN reader'.interfaces
    BY <1>2, <1>3, <1>6
  <1> QED
    BY <1>2, <1>3, <1>8, <1>9, <1>10 DEF ReadInv, AnswerHoldsWhatStood

\* Both questions together: each child as it was at some time since the devices were read.
LEMMA GatheredIsEntry ==
    ASSUME Records(records), Planted(records), reader.listed \subseteq Devices,
           ReadInv, reader.pc = "sessions", NEW c \in DOMAIN Gathered
    PROVE  \E e \in ever :
              /\ e.child = c /\ e.device = Gathered[c].device /\ e.value = Gathered[c].value
              /\ e.addresses = Gathered[c].addresses /\ e.device \in reader.listed
  <1> DEFINE sessions == Answers("RoutingBGPSession")
  <1>1. Entries(records) \subseteq ever
    BY DEF ReadInv
  <1>2. CASE c \in DOMAIN sessions
    <2>1. Gathered[c] = sessions[c]
      BY <1>2 DEF Gathered
    <2>2. \E e \in Entries(records) :
             /\ e.child = c /\ e.device = sessions[c].device /\ e.value = sessions[c].value
             /\ e.addresses = sessions[c].addresses /\ e.device \in reader.listed
      BY <1>2, AnswerIsEntry DEF Told
    <2> QED
      BY <1>1, <2>1, <2>2
  <1>3. CASE c \notin DOMAIN sessions
    <2>1. c \in DOMAIN reader.interfaces /\ Gathered[c] = reader.interfaces[c]
      BY <1>3 DEF Gathered
    <2> QED
      BY <2>1 DEF ReadInv
  <1> QED
    BY <1>2, <1>3

LEMMA PlacedRight ==
    ASSUME IsFiniteSet(reader.listed), NEW child, NEW entry, entry.device \in reader.listed,
           NEW unnamed, DeviceOf(child, entry, unnamed) # NoDevice
    PROVE  DeviceOf(child, entry, unnamed) = entry.device
  <1>1. CASE Cardinality(reader.listed) = 1
    <2>1. PICK d : reader.listed = {d}
      BY <1>1, FS_Singleton
    <2> QED
      BY <1>1, <2>1 DEF DeviceOf
  <1>2. CASE Cardinality(reader.listed) # 1
    BY <1>2 DEF DeviceOf
  <1> QED
    BY <1>1, <1>2

LEMMA SelectsAnAddress ==
    ASSUME NEW addresses, NEW address \in SelectAddress(addresses)
    PROVE  \/ /\ address \in addresses
              /\ addresses \cap IPv4 # {} => address \in IPv4
           \/ addresses = {} /\ address = NoAddress
  BY DEF SelectAddress

LEMMA ToldAsGathered ==
    ASSUME NEW children, NEW unnamed, NEW missed, NEW told \in Tellings(children, unnamed, missed),
           NEW c \in DOMAIN children
    PROVE  /\ told[c].device = DeviceOf(c, children[c], unnamed)
           /\ told[c].value = children[c].value
           /\ told[c].address \in SelectAddress(Resolved(c, children[c].addresses, missed))
  BY DEF Tellings

LEMMA SessionsRead ==
    ASSUME SourceInv, SourceInv', ReaderInv, RootInv, RootInv', ReadInv, Note, ReadSessions
    PROVE  ReadInv'
  <1>1. PICK unnamed, missed, told :
           /\ \A c \in DOMAIN Gathered : DeviceOf(c, Gathered[c], unnamed) # NoDevice
           /\ told \in Tellings(Gathered, unnamed, missed) /\ Answer(told, missed)
    BY DEF ReadSessions
  <1>2. /\ reader'.pc = "answered" /\ reader'.told = told /\ reader'.listed = reader.listed
        /\ reader'.missed = missed /\ reader.pc = "sessions"
    BY <1>1 DEF ReadSessions, Answer, ReaderInv, NoRead
  <1>3. /\ stood' \subseteq Entries(records)' /\ Entries(records)' \subseteq ever'
        /\ stood' \subseteq stood /\ ever \subseteq ever' /\ gone' = {}
    BY <1>2, HistoryOfTheRead
  <1>4. Records(records) /\ Planted(records) /\ reader.listed \subseteq Devices
    BY DEF SourceInv, RootInv, ReaderInv, StoreTypeOK
  <1>5. /\ stood \subseteq Entries(records) /\ IsFiniteSet(reader.listed)
        /\ \A e \in stood : e.device \notin gone
    BY <1>2 DEF ReadInv
  <1>6. DOMAIN told = DOMAIN Gathered
    BY <1>1, WhatIsTold
  <1>7. ASSUME NEW e \in stood, e.device \in reader.listed
        PROVE  e.child \in DOMAIN told
    <2>1. Kind(e.child) \in Told
      BY <1>4, <1>5, EntryHas
    <2>2. CASE Kind(e.child) = "InterfacePhysical"
      BY <1>2, <1>6, <1>7, <2>2 DEF ReadInv, Gathered
    <2>3. CASE Kind(e.child) = "RoutingBGPSession"
      <3>1. e.child \in DOMAIN Answers("RoutingBGPSession")
        BY <1>4, <1>5, <1>7, <2>3, EntryIsAnswered
      <3> QED
        BY <1>6, <3>1 DEF Gathered
    <2> QED
      BY <2>1, <2>2, <2>3 DEF Told
  <1>8. ASSUME NEW c \in DOMAIN told
        PROVE  \E e \in ever :
                  /\ e.child = c /\ e.value = told[c].value
                  /\ e.device = told[c].device /\ e.device \in reader.listed
                  /\ LET resolved == Resolved(c, e.addresses, missed)
                     IN \/ /\ told[c].address \in resolved
                           /\ resolved \cap IPv4 # {} => told[c].address \in IPv4
                        \/ resolved = {} /\ told[c].address = NoAddress
    <2>1. PICK e \in ever :
             /\ e.child = c /\ e.device = Gathered[c].device /\ e.value = Gathered[c].value
             /\ e.addresses = Gathered[c].addresses /\ e.device \in reader.listed
      BY <1>2, <1>4, <1>6, GatheredIsEntry
    <2>2. /\ told[c].device = DeviceOf(c, Gathered[c], unnamed)
          /\ told[c].value = Gathered[c].value
          /\ told[c].address \in SelectAddress(Resolved(c, Gathered[c].addresses, missed))
      BY <1>1, <1>6, ToldAsGathered
    <2>3. told[c].device = e.device
      BY <1>1, <1>5, <1>6, <2>1, <2>2, PlacedRight
    <2>4. LET resolved == Resolved(c, e.addresses, missed)
          IN \/ /\ told[c].address \in resolved
                /\ resolved \cap IPv4 # {} => told[c].address \in IPv4
             \/ resolved = {} /\ told[c].address = NoAddress
      BY <2>1, <2>2, SelectsAnAddress
    <2> QED
      BY <2>1, <2>2, <2>3, <2>4
  <1>9. AnswerHoldsWhatStood'
    BY <1>2, <1>3, <1>7, <1>8 DEF AnswerHoldsWhatStood, Resolved
  <1>10. IsFiniteSet(reader'.listed)
    BY <1>2, <1>5
  <1> QED
    BY <1>2, <1>3, <1>9, <1>10 DEF ReadInv

LEMMA ReadsInitially == Init => RootInv /\ ReadInv
  <1> SUFFICES ASSUME Init PROVE RootInv /\ ReadInv
    OBVIOUS
  <1>1. RootInv
    <2>1. \A c \in DOMAIN records : c \notin Children
      BY SystemAssumption, AddressesAreNoDevices DEF Init
    <2> QED
      BY <2>1 DEF Init, SeedInit, Fresh, RootInv, Planted, Rooted
  <1>2. ReadInv
    BY DEF Init, StoreInit, NoRead, ReadInv, AnswerHoldsWhatStood
  <1> QED
    BY <1>1, <1>2

LEMMA ReadsNext ==
    ASSUME IInv, IInv', RootInv, ReadInv, [Next]_vars
    PROVE  RootInv' /\ ReadInv'
  <1> USE DEF IInv
  <1>1. CASE SeedAdvances \/ SeedIsRunOrBroken
    <2>1. SeedMoves /\ reader' = reader /\ Note
      BY <1>1 DEF SeedAdvances, SeedIsRunOrBroken, SeedMoves
    <2>2. RootInv'
      BY <2>1, SeedKeepsRoots
    <2> QED
      BY <2>1, <2>2, ReadGoesOn
  <1>2. CASE StoreIsCalled
    <2>1. seed' = seed /\ Note
      BY <1>2 DEF StoreIsCalled
    <2>2. Others
      BY <1>2 DEF StoreIsCalled, Others, ReaderStep, ReadDevices, ReadInterfaces, ReadSessions,
                  ReadRefused, QueryFails, TakeAnswer, FindDoomed, source
    <2>3. RootInv'
      BY <2>1, <2>2, OthersKeepRoots
    <2>4. CASE reader' = reader
      BY <2>1, <2>3, <2>4, ReadGoesOn
    <2>5. CASE reader' = NoRead
      BY <2>1, <2>3, <2>5, ReadEnds
    <2>6. CASE \E query : ReadDevices(query)
      BY <2>1, <2>3, <2>6, ReadBegins
    <2>7. CASE ReadInterfaces
      BY <2>1, <2>3, <2>7, InterfacesRead
    <2>8. CASE ReadSessions
      BY <2>1, <2>3, <2>8, SessionsRead
    <2> QED
      BY <1>2, <2>3, <2>4, <2>5, <2>6, <2>7, <2>8
         DEF StoreIsCalled, ReaderStep, ReadRefused, QueryFails, TakeAnswer, DeleteDevice,
             DeleteFails, FindDoomed
  <1>3. CASE SourceChanges
    <2>1. Others /\ seed' = seed /\ reader' = reader /\ Note
      BY <1>3 DEF SourceChanges, Others
    <2>2. RootInv'
      BY <2>1, OthersKeepRoots
    <2> QED
      BY <2>1, <2>2, ReadGoesOn
  <1>4. CASE UNCHANGED vars
    <2>1. RootInv'
      BY <1>4 DEF vars, source, RootInv, Item
    <2>2. reader' = reader /\ stood' = stood /\ ever' = ever /\ gone' = gone
      BY <1>4 DEF vars, history
    <2>3. AnswerHoldsWhatStood => AnswerHoldsWhatStood'
      BY <2>2 DEF AnswerHoldsWhatStood
    <2>4. ReadInv'
      BY <1>4, <2>2, <2>3 DEF vars, source, history, ReadInv, Entries
    <2> QED
      BY <2>1, <2>4
  <1> QED
    BY <1>1, <1>2, <1>3, <1>4 DEF Next

\* AnswerHoldsWhatStood: whatever the records, whoever changes them between its three
\* questions and whichever addresses miss the client's store, an answer holds every child
\* that stood throughout, on its device, and none that was not there at some time; the address
\* it tells is of those that did not miss, an IPv4 one where there was one among them.
THEOREM AnswersHoldWhatStood == Spec => []AnswerHoldsWhatStood
  <1> DEFINE AInv == IInv /\ RootInv /\ ReadInv
  <1>1. Init => AInv
    BY Initially, ReadsInitially
  <1>2. AInv /\ [Next]_vars => AInv'
    BY EveryStep, ReadsNext
  <1>3. AInv => AnswerHoldsWhatStood
    BY DEF ReadInv
  <1> QED
    BY <1>1, <1>2, <1>3, PTL DEF Spec

-----------------------------------------------------------------------------
(***************************************************************************)
(* A run that nobody disturbs goes through                                 *)
(***************************************************************************)

AtWork == {"next", "address", "making", "lookup", "saving"}

\* What the run has come to: it is made, or is still to do.
Reached(run) ==
    ToSet(run.data.sections) \cup IF run.stage = "sections" THEN {} ELSE run.data.groups

\* What is still to do finds what it needs, and the next request fits the records.
Going(run, there) ==
    /\ Provided(run.todo, there)
    /\ \A item \in Reached(run) : item.id \in there \/ item \in ToSet(run.todo)
    /\ run.shadows \subseteq there
    /\ run.pc # "next" => run.refs \subseteq there
    /\ run.pc = "making" => Head(run.todo).ips \cap there = {}
    /\ run.pc = "saving" => IF run.found THEN Head(run.todo).id \in there
                            ELSE Head(run.todo).id \notin there

Unhindered ==
    /\ seed.pc \notin {"invalid", "rejected"}
    /\ seed.pc \in {"identifying", "counting", "loading", "polling", "validating"} =>
          seed.stage = "sections" /\ seed.shadows = {}
    /\ seed.pc \in AtWork => Going(seed, DOMAIN records)

SteadyInv == disturbed \/ Unhindered

LEMMA ProvidedGrows ==
    ASSUME NEW items, NEW there, NEW more, there \subseteq more, Provided(items, there)
    PROVE  Provided(items, more)
  BY DEF Provided

\* The first of a sequence and those after it.
LEMMA FirstAndRest ==
    ASSUME NEW items \in Seq(Items), items # <<>>
    PROVE  ToSet(items) = {Head(items)} \cup ToSet(Tail(items))
  <1>1. /\ Len(items) \in Nat /\ Len(items) > 0
        /\ Head(items) = items[1] /\ Len(Tail(items)) = Len(items) - 1
        /\ \A i \in 1..Len(items) - 1 : Tail(items)[i] = items[i + 1]
        /\ DOMAIN Tail(items) = 1..Len(Tail(items))
    BY HeadTailProperties, LenProperties
  <1>2. ASSUME NEW i \in 1..Len(items) PROVE items[i] \in {Head(items)} \cup ToSet(Tail(items))
    <2>1. CASE i = 1
      BY <1>1, <2>1
    <2>2. CASE i # 1
      <3>1. i - 1 \in 1..Len(Tail(items))
        BY <1>1, <2>2
      <3>2. Tail(items)[i - 1] = items[i]
        BY <1>1, <3>1
      <3>3. Tail(items)[i - 1] \in ToSet(Tail(items))
        BY <1>1, <3>1 DEF ToSet
      <3> QED
        BY <3>2, <3>3, Zenon
    <2> QED
      BY <2>1, <2>2
  <1>3. ASSUME NEW i \in 1..Len(Tail(items)) PROVE Tail(items)[i] \in ToSet(items)
    <2>1. i + 1 \in 1..Len(items) /\ Tail(items)[i] = items[i + 1]
      BY <1>1
    <2> QED
      BY <2>1 DEF ToSet
  <1> QED
    BY <1>1, <1>2, <1>3 DEF ToSet

\* The first of a sequence of items has what it needs; once it is made, so have the others.
LEMMA ProvidedNext ==
    ASSUME NEW items \in Seq(Items), items # <<>>, NEW there, Provided(items, there)
    PROVE  /\ Head(items) \in ToSet(items) /\ Head(items).needs \subseteq there
           /\ ToSet(items) = {Head(items)} \cup ToSet(Tail(items))
           /\ Provided(Tail(items), there \cup {Head(items).id})
  <1>1. /\ Len(items) \in Nat /\ Len(items) > 0
        /\ Head(items) = items[1] /\ Len(Tail(items)) = Len(items) - 1
        /\ \A i \in 1..Len(items) - 1 : Tail(items)[i] = items[i + 1]
        /\ DOMAIN Tail(items) = 1..Len(Tail(items))
    BY HeadTailProperties, LenProperties
  <1>2. Head(items).needs \subseteq there
    BY <1>1 DEF Provided
  <1>3. ToSet(items) = {Head(items)} \cup ToSet(Tail(items))
    BY FirstAndRest
  <1>4. ASSUME NEW i \in 1..Len(Tail(items))
        PROVE  Tail(items)[i].needs
                 \subseteq (there \cup {Head(items).id}) \cup {Tail(items)[j].id : j \in 1..i - 1}
    <2>1. i + 1 \in 1..Len(items) /\ Tail(items)[i] = items[i + 1]
      BY <1>1
    <2>2. items[i + 1].needs \subseteq there \cup {items[j].id : j \in 1..i}
      BY <1>1, <2>1 DEF Provided
    <2>3. ASSUME NEW j \in 1..i
          PROVE  items[j].id \in {Head(items).id} \cup {Tail(items)[k].id : k \in 1..i - 1}
      <3>1. CASE j = 1
        BY <1>1, <3>1
      <3>2. CASE j # 1
        <4>1. j - 1 \in 1..i - 1 /\ j - 1 \in 1..Len(items) - 1
          BY <1>1, <3>2
        <4>2. Tail(items)[j - 1] = items[j]
          BY <1>1, <4>1
        <4> QED
          BY <4>1, <4>2
      <3> QED
        BY <3>1, <3>2
    <2> QED
      BY <2>1, <2>2, <2>3
  <1> QED
    BY <1>1, <1>2, <1>3, <1>4 DEF Provided, ToSet

\* Every shadow group is in the order taken.
LEMMA AllGroupsTaken ==
    ASSUME NEW S, IsFiniteSet(S), NEW s \in SetToSeqs(S)
    PROVE  ToSet(s) = S
  <1> DEFINE n == Cardinality(S)
  <1>1. n \in Nat /\ s \in [1..n -> S] /\ \A i, j \in 1..n : i # j => s[i] # s[j]
    BY FS_CardinalityType DEF SetToSeqs
  <1>2. s \in Injection(1..n, S)
    BY <1>1 DEF Injection, IsInjective
  <1>3. IsFiniteSet(1..n) /\ Cardinality(1..n) = n
    BY <1>1, FS_Interval
  <1>4. s \in Surjection(1..n, S)
    BY <1>2, <1>3, FS_Injection
  <1>5. s \in Seq(S) /\ Len(s) = n
    BY <1>1, SeqDef, LenProperties
  <1> QED
    BY <1>1, <1>4, <1>5 DEF ToSet, Surjection

\* The data of a run refers to nothing it does not make.
LEMMA TheData ==
    ASSUME \A data \in Declarations : SelfContained(data), SeedInv
    PROVE  /\ SelfContained(seed.data)
           /\ seed.data.sections \in Seq(Items) /\ seed.data.sessions \in Seq(Items)
           /\ IsFiniteSet(seed.data.groups)
  <1>1. seed.data \in Declarations \cup {NoData}
    BY DEF SeedInv, SeedTypeOK, SeedRuns
  <1>2. SelfContained(NoData)
    BY DEF SelfContained, NoData, Provided, ToSet
  <1>3. /\ seed.data.sections \in Seq(OurItems) /\ seed.data.sessions \in Seq(OurItems)
        /\ IsFiniteSet(seed.data.groups)
    BY <1>1, OurData
  <1>4. Seq(OurItems) \subseteq Seq(Items)
    BY SeqMonotonic DEF OurItems
  <1> QED
    BY <1>1, <1>2, <1>3, <1>4

\* The request of an unhindered run is taken by the server.
LEMMA TheRequestFits ==
    ASSUME SeedInv, Unhindered, Writing
    PROVE  Acceptable(Request)
  <1>1. Going(seed, DOMAIN records) /\ seed.pc \in AtWork /\ seed.pc # "next"
    BY DEF Unhindered, Writing, AtWork
  <1>2. CASE seed.pc = "making"
    <2>1. (CHOOSE a \in Item.ips : TRUE) \in Item.ips
      BY <1>2 DEF SeedInv
    <2>2. (CHOOSE a \in Item.ips : TRUE) \notin DOMAIN records
      BY <1>1, <1>2, <2>1 DEF Going, Item
    <2> QED
      BY <1>2, <2>2 DEF Request, Acceptable, AddressRecord
  <1>3. CASE seed.pc = "saving"
    <2>1. Request.id = Item.id /\ Request.record.refs = seed.refs
          /\ Request.op = IF seed.found THEN "update" ELSE "create"
      BY <1>3 DEF Request, Written
    <2> QED
      BY <1>1, <1>3, <2>1 DEF Going, Item, Acceptable
  <1> QED
    BY <1>2, <1>3 DEF Writing

LEMMA WhatIsThereThen ==
    ASSUME NEW q, Acceptable(q)
    PROVE  DOMAIN Landed(q) = DOMAIN records \cup {q.id}
  BY DEF Landed, Put

\* One stage after the other.
LEMMA TheNextStage ==
    ASSUME SeedInv
    PROVE  /\ seed.stage \in {"sections", "groups", "sessions"}
           /\ seed.stage = "sections" => NextStage = "groups"
           /\ seed.stage = "groups" => NextStage = "sessions"
           /\ seed.stage = "sessions" => NextStage = "done"
  <1>1. seed.stage \in {"sections", "groups", "sessions"}
    BY TheStages DEF SeedInv, SeedTypeOK, SeedRuns
  <1>2. Len(SeedOrder) = 3 /\ SeedOrder[1] = "sections" /\ SeedOrder[2] = "groups"
        /\ SeedOrder[3] = "sessions"
    BY DEF SeedOrder
  <1> DEFINE place == CHOOSE i \in 1..Len(SeedOrder) : SeedOrder[i] = seed.stage
  <1>3. place \in 1..3 /\ SeedOrder[place] = seed.stage
    BY <1>1, <1>2
  <1>4. NextStage = IF place = Len(SeedOrder) THEN "done" ELSE SeedOrder[place + 1]
    BY DEF NextStage
  <1> HIDE DEF place
  <1>5. place = 1 \/ place = 2 \/ place = 3
    BY <1>3
  <1> QED
    BY <1>1, <1>2, <1>3, <1>4, <1>5

\* The stages follow one another, and each finds what the ones before it made.
LEMMA StageEnds ==
    ASSUME \A data \in Declarations : SelfContained(data), SeedInv, Unhindered, EndStage
    PROVE  Unhindered'
  <1> DEFINE there == DOMAIN records
             sections == {item.id : item \in ToSet(seed.data.sections)}
             groups == {item.id : item \in seed.data.groups}
  <1>1. /\ seed.pc = "next" /\ seed.todo = <<>> /\ records' = records
        /\ Going(seed, there)
    BY DEF EndStage, source, Unhindered, AtWork
  <1>2. \A item \in Reached(seed) : item.id \in there
    BY <1>1 DEF Going, ToSet
  <1>3. sections \subseteq there
    BY <1>2 DEF Reached
  <1>4. CASE Goto("seeded")
    BY <1>4 DEF Goto, SeedInv, SeedTypeOK, SeedRuns, Unhindered, AtWork
  <1>5. ASSUME ~(NextStage = "done" \/ (seed.data.groups = {} /\ seed.data.sessions = <<>>)),
               seed.stage = "sections", DefaultVrf \notin there
        PROVE  FALSE
    <2>1. DefaultVrf \in sections
      BY <1>5, TheData DEF SelfContained
    <2> QED
      BY <1>3, <1>5, <2>1
  <1>6. ASSUME NextStage # "done", TakeStage(NextStage)
        PROVE  Unhindered'
    <2>1. PICK todo \in IF NextStage = "groups" THEN SetToSeqs(seed.data.groups)
                        ELSE {seed.data.sessions} :
             seed' = [seed EXCEPT !.stage = NextStage, !.todo = todo]
      BY <1>6, Zenon DEF TakeStage
    <2>2. /\ seed'.pc = "next" /\ seed'.todo = todo /\ seed'.stage = NextStage
          /\ seed'.data = seed.data /\ seed'.shadows = seed.shadows
      BY <1>1, <2>1 DEF SeedInv, SeedTypeOK, SeedRuns
    <2>3. Provided(todo, there)
          /\ \A item \in Reached(seed') : item.id \in there \/ item \in ToSet(todo)
      <3>1. CASE seed.stage = "sections"
        <4>1. ToSet(todo) = seed.data.groups
          BY <2>1, <3>1, TheNextStage, TheData, AllGroupsTaken
        <4>2. \A item \in ToSet(todo) : item.needs \subseteq there
          BY <1>3, <4>1, TheData DEF SelfContained
        <4>3. Provided(todo, there)
          BY <4>2 DEF Provided, ToSet
        <4>4. Reached(seed') = ToSet(seed.data.sections) \cup seed.data.groups
          BY <2>2, <3>1, TheNextStage DEF Reached
        <4> QED
          BY <1>3, <4>1, <4>3, <4>4
      <3>2. CASE seed.stage = "groups"
        <4>1. todo = seed.data.sessions
          BY <2>1, <3>2, TheNextStage
        <4>2. Reached(seed) = ToSet(seed.data.sections) \cup seed.data.groups
              /\ Reached(seed') = Reached(seed)
          BY <2>2, <3>2, TheNextStage DEF Reached
        <4>3. sections \cup groups \subseteq there
          BY <1>2, <4>2
        <4>4. Provided(todo, sections \cup groups)
          BY <4>1, TheData DEF SelfContained
        <4> QED
          BY <1>2, <4>2, <4>3, <4>4, ProvidedGrows
      <3> QED
        BY <1>6, <3>1, <3>2, TheNextStage
    <2>4. seed'.shadows \subseteq there
      BY <1>1, <2>2 DEF Going
    <2>5. Going(seed', there)
      BY <2>2, <2>3, <2>4 DEF Going
    <2> QED
      BY <1>1, <2>2, <2>5 DEF Unhindered, AtWork
  <1> QED
    BY <1>4, <1>5, <1>6 DEF EndStage

\* An item is through: what comes after it may refer to it.
LEMMA SaveGoesOn ==
    ASSUME SeedInv, Unhindered, Save
    PROVE  Unhindered'
  <1> DEFINE there == DOMAIN records
  <1>1. Item \in Items /\ seed.todo # <<>> /\ seed.todo \in Seq(Items) /\ seed.pc = "saving"
    BY TheItem DEF Save, SeedInv, SeedTypeOK, SeedRuns
  <1>2. Going(seed, there)
    BY <1>1 DEF Unhindered, AtWork
  <1>3. DOMAIN records' = there \cup {Item.id}
    BY <1>1, WhatIsThereThen DEF Save, Request
  <1>4. /\ seed'.pc = "next" /\ seed'.todo = Tail(seed.todo)
        /\ seed'.data = seed.data /\ seed'.stage = seed.stage
        /\ seed'.shadows \subseteq seed.shadows \cup {Item.id}
    BY DEF Save, Through, SeedInv, SeedTypeOK, SeedRuns
  <1>5. /\ Provided(Tail(seed.todo), there \cup {Item.id})
        /\ ToSet(seed.todo) = {Item} \cup ToSet(Tail(seed.todo))
    BY <1>1, <1>2, ProvidedNext DEF Going, Item
  <1>6. Reached(seed') = Reached(seed)
    BY <1>4 DEF Reached
  <1>7. Going(seed', DOMAIN records')
    BY <1>2, <1>3, <1>4, <1>5, <1>6 DEF Going
  <1> QED
    BY <1>4, <1>7 DEF Unhindered, AtWork

\* An address is taken as it is found, or made.
LEMMA AddressGoesOn ==
    ASSUME SeedInv, Unhindered, FindAddress \/ MakeAddress
    PROVE  Unhindered'
  <1> DEFINE there == DOMAIN records
  <1>1. Item \in Items /\ seed.pc \in {"address", "making"}
    BY TheItem DEF FindAddress, MakeAddress, SeedInv
  <1>2. Going(seed, there) /\ seed.refs \subseteq there
    BY <1>1 DEF Unhindered, AtWork, Going
  <1>3. /\ seed'.todo = seed.todo /\ seed'.data = seed.data /\ seed'.stage = seed.stage
        /\ seed'.shadows = seed.shadows
    BY DEF FindAddress, MakeAddress, SeedInv, SeedTypeOK, SeedRuns
  <1>4. Reached(seed') = Reached(seed)
    BY <1>3 DEF Reached
  <1>5. CASE FindAddress
    <2>1. records' = records
      BY <1>5 DEF FindAddress, source
    <2>2. CASE Item.ips \subseteq there
      <3>1. seed'.pc = "lookup" /\ seed'.refs = seed.refs \cup Item.ips
        BY <1>5, <2>2 DEF FindAddress, SeedInv, SeedTypeOK, SeedRuns
      <3>2. Going(seed', DOMAIN records')
        BY <1>2, <1>3, <1>4, <2>1, <2>2, <3>1 DEF Going
      <3> QED
        BY <3>1, <3>2 DEF Unhindered, AtWork
    <2>3. CASE ~(Item.ips \subseteq there)
      <3>1. seed'.pc = "making" /\ seed'.refs = seed.refs
        BY <1>5, <2>3 DEF FindAddress, SeedInv, SeedTypeOK, SeedRuns
      <3>2. \A a, b \in Item.ips : a = b
        BY <1>1 DEF Items
      <3>3. Head(seed.todo).ips \cap there = {}
        BY <2>3, <3>2 DEF Item
      <3>4. Going(seed', DOMAIN records')
        BY <1>2, <1>3, <1>4, <2>1, <3>1, <3>3 DEF Going
      <3> QED
        BY <3>1, <3>4 DEF Unhindered, AtWork
    <2> QED
      BY <2>2, <2>3
  <1>6. CASE MakeAddress
    <2>1. seed'.pc = "lookup" /\ seed'.refs = seed.refs \cup Item.ips /\ seed.pc = "making"
      BY <1>6 DEF MakeAddress, SeedInv, SeedTypeOK, SeedRuns
    <2>2. Request.id = CHOOSE a \in Item.ips : TRUE
      BY <2>1 DEF Request
    <2>3. Request.id \in Item.ips
      BY <2>1, <2>2 DEF SeedInv
    <2>4. Item.ips = {Request.id}
      BY <1>1, <2>3 DEF Items
    <2>5. DOMAIN records' = there \cup Item.ips
      BY <1>6, <2>4, WhatIsThereThen DEF MakeAddress
    <2>6. Provided(seed.todo, there \cup Item.ips)
      BY <1>2, ProvidedGrows DEF Going
    <2>7. Going(seed', DOMAIN records')
      BY <1>2, <1>3, <1>4, <2>1, <2>5, <2>6 DEF Going
    <2> QED
      BY <2>1, <2>7 DEF Unhindered, AtWork
  <1> QED
    BY <1>5, <1>6

\* What an item needs is there.
LEMMA ResolveGoesOn ==
    ASSUME SeedInv, Unhindered, Resolve
    PROVE  Unhindered'
  <1> DEFINE there == DOMAIN records
             refs == Item.needs \cup {id \in Item.wants : Wired(id)}
             pc == IF Item.ips = {} THEN "lookup" ELSE "address"
  <1>1. /\ Item \in Items /\ seed.todo # <<>> /\ seed.todo \in Seq(Items) /\ seed.pc = "next"
        /\ records' = records
    BY TheItem DEF Resolve, source, SeedInv, SeedTypeOK, SeedRuns
  <1>2. Going(seed, there)
    BY <1>1 DEF Unhindered, AtWork
  <1>3. Item.needs \subseteq there
    BY <1>1, <1>2, ProvidedNext DEF Going, Item
  <1>4. seed' = [seed EXCEPT !.refs = refs, !.pc = pc]
    BY <1>3 DEF Resolve
  <1>5. refs \subseteq there
    BY <1>2, <1>3 DEF Wired, Going
  <1>6. pc \in {"lookup", "address"}
    OBVIOUS
  <1> HIDE DEF refs, pc
  <1>7. /\ seed'.pc = pc /\ seed'.refs = refs /\ seed'.todo = seed.todo
        /\ seed'.data = seed.data /\ seed'.stage = seed.stage /\ seed'.shadows = seed.shadows
    BY <1>4 DEF SeedInv, SeedTypeOK, SeedRuns
  <1>8. Reached(seed') = Reached(seed)
    BY <1>7 DEF Reached
  <1>9. Going(seed', DOMAIN records')
    BY <1>1, <1>2, <1>5, <1>6, <1>7, <1>8 DEF Going
  <1> QED
    BY <1>6, <1>7, <1>9 DEF Unhindered, AtWork

\* The item's record is there or it is not.
LEMMA LookUpGoesOn ==
    ASSUME SeedInv, Unhindered, LookUp
    PROVE  Unhindered'
  <1>1. /\ seed.pc = "lookup" /\ records' = records /\ Going(seed, DOMAIN records)
    BY DEF LookUp, source, Unhindered, AtWork
  <1>2. PICK there \in BOOLEAN :
           /\ there = (Item.id \in DOMAIN records)
           /\ seed' = [seed EXCEPT !.found = there, !.pc = "saving"]
    <2>1. (Item.id \in DOMAIN records) \in BOOLEAN
      OBVIOUS
    <2>2. seed' = [seed EXCEPT !.found = (Item.id \in DOMAIN records), !.pc = "saving"]
      BY Zenon DEF LookUp
    <2> QED
      BY <2>1, <2>2, Zenon
  <1>3. /\ seed'.pc = "saving" /\ seed'.todo = seed.todo /\ seed'.refs = seed.refs
        /\ seed'.data = seed.data /\ seed'.stage = seed.stage /\ seed'.shadows = seed.shadows
    BY <1>2 DEF SeedInv, SeedTypeOK, SeedRuns
  <1>4. seed'.found = there
    BY <1>2, Zenon DEF SeedInv, SeedTypeOK, SeedRuns
  <1>5. Reached(seed') = Reached(seed)
    BY <1>3 DEF Reached
  <1>6. IF seed'.found THEN Head(seed'.todo).id \in DOMAIN records'
        ELSE Head(seed'.todo).id \notin DOMAIN records'
    <2>1. CASE there = TRUE
      BY <1>1, <1>2, <1>3, <1>4, <2>1 DEF Item
    <2>2. CASE there = FALSE
      BY <1>1, <1>2, <1>3, <1>4, <2>2 DEF Item
    <2> QED
      BY <2>1, <2>2
  <1>7. Going(seed', DOMAIN records')
    BY <1>1, <1>3, <1>5, <1>6 DEF Going
  <1> QED
    BY <1>3, <1>7 DEF Unhindered, AtWork

\* From the identity check to the first item nothing is refused for what the data says.
LEMMA WorkBegins ==
    ASSUME \A data \in Declarations : SelfContained(data), SeedInv, Unhindered,
           IdentifyBySchema \/ IdentifyByDevices \/ LoadBatch \/ PollSchema \/ Validate
    PROVE  Unhindered'
  <1>1. /\ seed.pc \in {"identifying", "counting", "loading", "polling", "validating"}
        /\ seed.stage = "sections" /\ seed.shadows = {}
    BY DEF IdentifyBySchema, IdentifyByDevices, LoadBatch, PollSchema, Validate, Unhindered
  <1>2. \A ending \in Endings \ {"invalid", "rejected"} : Break(ending) => Unhindered'
    BY DEF Break, Fresh, Unhindered, Endings, AtWork
  <1>3. ASSUME seed'.pc \in {"counting", "loading", "polling", "validating"},
               seed'.stage = seed.stage, seed'.shadows = seed.shadows
        PROVE  Unhindered'
    BY <1>1, <1>3 DEF Unhindered, AtWork
  <1>4. CASE IdentifyBySchema \/ IdentifyByDevices
    <2>1. CASE Goto("loading") \/ Goto("counting")
      BY <1>3, <2>1 DEF Goto, SeedInv, SeedTypeOK, SeedRuns
    <2> QED
      BY <1>2, <1>4, <2>1 DEF IdentifyBySchema, IdentifyByDevices, Require, Classify, Endings
  <1>5. CASE LoadBatch
    BY <1>3, <1>5 DEF LoadBatch, SeedInv, SeedTypeOK, SeedRuns
  <1>6. CASE PollSchema
    <2>1. CASE Break("unready")
      BY <1>2, <2>1 DEF Endings
    <2> QED
      BY <1>3, <1>6, <2>1 DEF PollSchema, SeedInv, SeedTypeOK, SeedRuns
  <1>7. CASE Validate /\ seed.data.valid
    <2>1. /\ seed'.pc = "next" /\ seed'.todo = seed.data.sections /\ seed'.data = seed.data
          /\ seed'.stage = seed.stage /\ seed'.shadows = seed.shadows
      BY <1>7 DEF Validate, SeedInv, SeedTypeOK, SeedRuns
    <2>2. Provided(seed'.todo, DOMAIN records')
      BY <2>1, TheData, ProvidedGrows DEF SelfContained
    <2>3. Reached(seed') = ToSet(seed'.todo)
      BY <1>1, <2>1 DEF Reached
    <2>4. Going(seed', DOMAIN records')
      BY <1>1, <2>1, <2>2, <2>3 DEF Going
    <2> QED
      BY <2>1, <2>4 DEF Unhindered, AtWork
  <1>8. CASE Validate /\ ~seed.data.valid
    BY <1>2, <1>8 DEF Validate, Endings
  <1> QED
    BY <1>4, <1>5, <1>6, <1>7, <1>8

\* One case per action.
LEMMA SeedGoesOn ==
    ASSUME \A data \in Declarations : SelfContained(data), SeedInv, Unhindered,
           SeedProgress \/ SeedFails
    PROVE  Unhindered'
  <1>1. CASE SeedFails
    BY <1>1 DEF SeedFails, LoadRefused, LoadLost, LookUpFails, WriteLost, Break, Fresh,
                Unhindered, AtWork
  <1>2. ~WriteRejected
    BY TheRequestFits DEF WriteRejected
  <1> QED
    BY <1>1, <1>2, SaveGoesOn, AddressGoesOn, ResolveGoesOn, LookUpGoesOn, WorkBegins, StageEnds
       DEF SeedProgress

\* Only a new run is counted.
LEMMA SameRun ==
    ASSUME SeedInv, SeedProgress \/ SeedFails
    PROVE  seed'.runs = seed.runs
  <1> USE DEF SeedInv, SeedTypeOK, SeedRuns
  <1>1. \A ending : Break(ending) => seed'.runs = seed.runs
    BY DEF Break, Fresh
  <1>2. \A pc : Goto(pc) => seed'.runs = seed.runs
    BY DEF Goto
  <1>3. CASE SeedFails \/ WriteRejected
    BY <1>1, <1>3 DEF SeedFails, LoadRefused, LoadLost, LookUpFails, WriteLost, WriteRejected
  <1>4. CASE IdentifyBySchema \/ IdentifyByDevices
    BY <1>1, <1>2, <1>4 DEF IdentifyBySchema, IdentifyByDevices, Require
  <1>5. CASE LoadBatch
    BY <1>5 DEF LoadBatch
  <1>6. CASE PollSchema
    BY <1>1, <1>6 DEF PollSchema
  <1>7. CASE Validate
    BY <1>1, <1>7 DEF Validate
  <1>8. CASE EndStage
    BY <1>1, <1>2, <1>8 DEF EndStage, TakeStage
  <1>9. CASE Resolve
    BY <1>1, <1>9 DEF Resolve
  <1>10. CASE FindAddress \/ MakeAddress
    BY <1>10 DEF FindAddress, MakeAddress
  <1>11. CASE LookUp
    BY <1>11 DEF LookUp
  <1>12. CASE Save
    BY <1>12 DEF Save, Through
  <1> QED
    BY <1>3, <1>4, <1>5, <1>6, <1>7, <1>8, <1>9, <1>10, <1>11, <1>12 DEF SeedProgress

\* Nobody else changes a record, or the run is disturbed.
LEMMA StaysSteady ==
    ASSUME \A data \in Declarations : SelfContained(data), IInv, SteadyInv, [Next]_vars
    PROVE  SteadyInv'
  <1> SUFFICES ASSUME ~disturbed' PROVE Unhindered'
    BY DEF SteadyInv
  <1>1. CASE seed'.pc \in Endings \ {"invalid", "rejected"}
    BY <1>1 DEF Endings, Unhindered, AtWork
  <1>2. CASE \E data \in Declarations : Begin(data)
    BY <1>2 DEF Begin, Fresh, Unhindered, AtWork
  <1>3. CASE UNCHANGED vars
    BY <1>3 DEF vars, source, history, SteadyInv, Unhindered, AtWork, Going, Reached
  <1> SUFFICES ASSUME ~(seed'.pc \in Endings \ {"invalid", "rejected"}),
                      ~(\E data \in Declarations : Begin(data)), Next
               PROVE  Unhindered'
    BY <1>1, <1>2, <1>3
  <1>4. Note
    BY DEF Next, SeedAdvances, SeedIsRunOrBroken, StoreIsCalled, SourceChanges
  <1>5. ~disturbed /\ Unhindered /\ (seed' = seed => records' = records)
    <2>1. seed'.runs = seed.runs => ~disturbed /\ ~(records' # records /\ seed' = seed)
      <3>1. disturbed' = IF Begun \/ seed'.pc \in Endings \ {"seeded", "invalid", "rejected"}
                         THEN FALSE ELSE disturbed \/ (records' # records /\ seed' = seed)
        BY <1>4, Zenon DEF Note
      <3> SUFFICES ASSUME seed'.runs = seed.runs
                   PROVE  ~disturbed /\ ~(records' # records /\ seed' = seed)
        OBVIOUS
      <3>2. ~(Begun \/ seed'.pc \in Endings \ {"seeded", "invalid", "rejected"})
        BY DEF Begun
      <3> QED
        BY <3>1, <3>2, Zenon
    <2>2. seed'.runs = seed.runs
      BY SameRun DEF Next, SeedAdvances, SeedIsRunOrBroken, StoreIsCalled, SourceChanges, IInv
    <2> QED
      BY <2>1, <2>2 DEF SteadyInv
  <1>6. CASE SeedProgress \/ SeedFails
    BY <1>5, <1>6, SeedGoesOn DEF IInv
  <1>7. CASE seed' = seed
    BY <1>5, <1>7 DEF Unhindered, AtWork, Going, Reached
  <1> QED
    BY <1>6, <1>7 DEF Next, SeedAdvances, SeedIsRunOrBroken, StoreIsCalled, SourceChanges

\* OnlyDisturbedSeedsAreRefused: with data that makes what it refers to, whatever broken runs
\* have left, a run during which nobody else writes finds every record it refers to and is
\* never refused by the server, so the task can be run again (tasks/demo.py:222).
THEOREM SeedCanBeRunAgain ==
    ASSUME \A data \in Declarations : SelfContained(data)
    PROVE  Spec => []OnlyDisturbedSeedsAreRefused
  <1> DEFINE AInv == IInv /\ SteadyInv
  <1>1. Init => AInv
    <2>1. Init => SteadyInv
      BY DEF Init, SeedInit, Fresh, SteadyInv, Unhindered, AtWork
    <2> QED
      BY <2>1, Initially
  <1>2. AInv /\ [Next]_vars => AInv'
    BY EveryStep, StaysSteady
  <1>3. AInv => OnlyDisturbedSeedsAreRefused
    BY DEF SteadyInv, Unhindered, OnlyDisturbedSeedsAreRefused
  <1> QED
    BY <1>1, <1>2, <1>3, PTL DEF Spec

-----------------------------------------------------------------------------
(***************************************************************************)
(* A seed that ends tells what it did                                      *)
(***************************************************************************)

BeforeWork == {"identifying", "counting", "loading", "polling", "validating"}

\* The items of the stage the run is at, and of the stages up to it.
OfStage(run) ==
    CASE run.stage = "sections" -> ToSet(run.data.sections)
      [] run.stage = "groups" -> run.data.groups
      [] run.stage = "sessions" -> ToSet(run.data.sessions)

Came(run) ==
    Reached(run) \cup IF run.stage = "sessions" THEN ToSet(run.data.sessions) ELSE {}

Done(run) == Came(run) \ ToSet(run.todo)

\* A record is as its item says; one the run made has every relation it could have.
AsDeclared(item, recs, new) ==
    /\ item.id \in DOMAIN recs
    /\ recs[item.id].value = item.value
    /\ item.use_case # Unset => recs[item.id].use_case = item.use_case
    /\ item.id \in new =>
          recs[item.id].refs = item.needs \cup item.ips \cup (item.wants \cap DOMAIN recs)

\* What is to do is of this stage, each item once.
Queue(run) ==
    /\ ToSet(run.todo) \subseteq OfStage(run)
    /\ \A i, j \in DOMAIN run.todo : run.todo[i] = run.todo[j] => i = j

\* What the run will give the item at hand refers to what it may refer to.
AtHand(run, there) ==
    /\ run.pc \in {"address", "making"} =>
          run.refs = Head(run.todo).needs \cup (Head(run.todo).wants \cap there)
    /\ run.pc \in {"lookup", "saving"} =>
          run.refs = Head(run.todo).needs \cup Head(run.todo).ips
                       \cup (Head(run.todo).wants \cap there)

Tally(run, new) ==
    /\ new \subseteq {item.id : item \in Done(run)} \cup Addresses
    /\ run.created = Cardinality(new \cap Devices)
    /\ IsFiniteSet({item \in Done(run) : item.id \in Devices})
    /\ run.created + run.updated = Cardinality({item \in Done(run) : item.id \in Devices})

Progress(run, recs, new) ==
    /\ Queue(run) /\ "project" \in run.cache
    /\ \A item \in Done(run) : AsDeclared(item, recs, new)
    /\ \A group \in run.data.groups \cap Done(run) : group.id \in run.shadows
    /\ run.shadows \subseteq DOMAIN recs
    /\ AtHand(run, DOMAIN recs)
    /\ Tally(run, new)

Truthful ==
    /\ seed.pc \in BeforeWork =>
          /\ seed.stage = "sections" /\ seed.shadows = {}
          /\ seed.created = 0 /\ seed.updated = 0 /\ made = {}
          /\ seed.pc = "validating" => "project" \in seed.cache
    /\ seed.pc \in AtWork \cup {"seeded"} => Progress(seed, records, made)
    /\ seed.pc = "seeded" => Done(seed) = Declared

TruthInv == disturbed \/ Truthful

\* The kinds of the data's items, and that a key names one of them.
LEMMA DataHas ==
    ASSUME \A data \in Declarations : Unambiguous(data), SeedInv
    PROVE  /\ ToSet(seed.data.sections) \subseteq SectionItems
           /\ seed.data.groups \subseteq GroupItems
           /\ ToSet(seed.data.sessions) \subseteq SessionItems
           /\ seed.data.sections \in Seq(Items) /\ seed.data.sessions \in Seq(Items)
           /\ IsFiniteSet(seed.data.groups) /\ Unambiguous(seed.data)
  <1>1. seed.data \in Declarations \cup {NoData}
    BY DEF SeedInv, SeedTypeOK, SeedRuns
  <1>2. CASE seed.data = NoData
    BY <1>2, FS_EmptySet DEF NoData, ToSet, Unambiguous
  <1>3. CASE seed.data \in Declarations
    <2>1. /\ seed.data.sections \in Seq(SectionItems) /\ seed.data.groups \subseteq GroupItems
          /\ seed.data.sessions \in Seq(SessionItems) /\ IsFiniteSet(seed.data.groups)
      BY <1>3, SeedAssumption
    <2>2. \A S : \A s \in Seq(S) : ToSet(s) \subseteq S
      BY LenProperties DEF ToSet
    <2>3. seed.data.sections \in Seq(Items) /\ seed.data.sessions \in Seq(Items)
      BY <2>1, SeqMonotonic DEF SectionItems, SessionItems
    <2> QED
      BY <1>3, <2>1, <2>2, <2>3
  <1> QED
    BY <1>1, <1>2, <1>3

\* The items of each stage are of kinds of their own.
LEMMA KindsApart ==
    /\ \A item \in SectionItems : /\ item \notin GroupItems /\ item \notin SessionItems
                                 /\ item.wants = {} /\ item.id \notin Addresses
    /\ \A item \in GroupItems : /\ item \notin SessionItems /\ item.id \notin Addresses
                               /\ item.wants = {} /\ item.ips = {}
    /\ \A item \in SessionItems : /\ item.id \notin Addresses /\ item.id \notin item.wants
                                 /\ item.ips = {}
    /\ \A a, b \in SessionItems : a.id \notin b.wants
    /\ \A a \in SectionItems, b \in GroupItems : a.id # b.id
    /\ \A a \in SectionItems, b \in SessionItems : a.id # b.id
    /\ \A a \in GroupItems, b \in SessionItems : a.id # b.id
  BY DEF SectionItems, GroupItems, SessionItems, Items, Addresses

LEMMA OneOfAKey ==
    ASSUME \A data \in Declarations : Unambiguous(data), SeedInv
    PROVE  /\ \A a, b \in Declared : a.id = b.id => a = b
           /\ Declared \subseteq Items
           /\ \A item \in Declared : item.id \notin Addresses
  <1> DEFINE Once(S) == \A a, b \in S : a.id = b.id => a = b
  <1>1. \A items \in {seed.data.sections, seed.data.sessions} : Once(ToSet(items))
    BY DataHas DEF Unambiguous, ToSet
  <1>2. Once(seed.data.groups)
    BY DataHas DEF Unambiguous
  <1>3. Once(Declared)
    BY <1>1, <1>2, DataHas, KindsApart DEF Declared
  <1>4. Declared \subseteq SectionItems \cup GroupItems \cup SessionItems
    BY DataHas DEF Declared
  <1> QED
    BY <1>3, <1>4, KindsApart DEF SectionItems, GroupItems, SessionItems

\* The item at hand leaves the queue, which does not have it twice.
LEMMA QueueNext ==
    ASSUME NEW items \in Seq(Items), items # <<>>,
           \A i, j \in DOMAIN items : items[i] = items[j] => i = j
    PROVE  /\ Head(items) \notin ToSet(Tail(items))
           /\ \A i, j \in DOMAIN Tail(items) : Tail(items)[i] = Tail(items)[j] => i = j
  <1>1. /\ Len(items) \in Nat /\ Len(items) > 0 /\ DOMAIN items = 1..Len(items)
        /\ Head(items) = items[1] /\ Len(Tail(items)) = Len(items) - 1
        /\ \A i \in 1..Len(items) - 1 : Tail(items)[i] = items[i + 1]
        /\ DOMAIN Tail(items) = 1..Len(Tail(items))
    BY HeadTailProperties, LenProperties
  <1>2. \A i \in DOMAIN Tail(items) : Tail(items)[i] = items[i + 1] /\ i + 1 \in DOMAIN items
                                      /\ i + 1 # 1
    BY <1>1
  <1>3. Head(items) \notin ToSet(Tail(items))
    BY <1>1, <1>2 DEF ToSet
  <1>4. ASSUME NEW i \in DOMAIN Tail(items), NEW j \in DOMAIN Tail(items),
               Tail(items)[i] = Tail(items)[j]
        PROVE  i = j
    <2>1. i + 1 = j + 1
      BY <1>2, <1>4
    <2> QED
      BY <1>1, <2>1
  <1> QED
    BY <1>3, <1>4

\* A step that neither writes nor goes on to another item.
LEMMA ProgressKept ==
    ASSUME NEW r, NEW s, NEW recs, NEW new, Progress(r, recs, new),
           s.todo = r.todo, s.data = r.data, s.stage = r.stage, s.cache = r.cache,
           s.shadows = r.shadows, s.created = r.created, s.updated = r.updated,
           AtHand(s, DOMAIN recs)
    PROVE  Progress(s, recs, new)
  <1>1. Done(s) = Done(r) /\ OfStage(s) = OfStage(r)
    BY DEF Done, Came, Reached, OfStage
  <1> QED
    BY <1>1 DEF Progress, Queue, Tally

\* The item at hand is of its stage, is not done, and nothing done wants it.
LEMMA TheItemAtHand ==
    ASSUME \A data \in Declarations : Unambiguous(data), SeedInv,
           Queue(seed), seed.todo # <<>>
    PROVE  /\ Item \in OfStage(seed) /\ Item \in Came(seed) /\ Item \in Declared
           /\ Item \notin Done(seed) /\ Done(seed) \subseteq Declared
           /\ \A item \in Done(seed) : item.id # Item.id
           /\ \A item \in Done(seed) \cup {Item} : Item.id \notin item.wants
           /\ Item.ips # {} => \A item \in Done(seed) \cup {Item} : item.wants = {}
           /\ Item \in seed.data.groups => seed.stage = "groups"
           /\ Item.wants # {} => seed.stage = "sessions" /\ Item \in SessionItems
  <1>1. seed.todo \in Seq(Items)
    BY DEF SeedInv, SeedTypeOK, SeedRuns
  <1>2. Item \in ToSet(seed.todo)
    BY <1>1, HeadTailProperties, LenProperties DEF Item, ToSet
  <1>3. seed.stage \in {"sections", "groups", "sessions"}
    BY TheNextStage
  <1>4. Item \in OfStage(seed) /\ Item \notin Done(seed)
    BY <1>2 DEF Queue, Done
  <1>5. OfStage(seed) \subseteq Came(seed) /\ Came(seed) \subseteq Declared
    BY <1>3 DEF OfStage, Came, Reached, Declared
  <1>6. \A item \in Done(seed) : item.id # Item.id
    BY <1>4, <1>5, OneOfAKey DEF Done
  <1>7. CASE seed.stage = "sections"
    <2>1. Item \in SectionItems /\ Came(seed) \subseteq SectionItems
      BY <1>4, <1>7, DataHas DEF OfStage, Came, Reached
    <2> QED
      BY <1>4, <1>5, <1>6, <2>1, DataHas, KindsApart DEF Done
  <1>8. CASE seed.stage = "groups"
    <2>1. Item \in GroupItems /\ Came(seed) \subseteq SectionItems \cup GroupItems
      BY <1>4, <1>8, DataHas DEF OfStage, Came, Reached
    <2> QED
      BY <1>4, <1>5, <1>6, <1>8, <2>1, KindsApart DEF Done
  <1>9. CASE seed.stage = "sessions"
    <2>1. Item \in SessionItems /\ Came(seed) \subseteq SectionItems \cup GroupItems \cup SessionItems
      BY <1>4, <1>9, DataHas DEF OfStage, Came, Reached
    <2> QED
      BY <1>4, <1>5, <1>6, <1>9, <2>1, DataHas, KindsApart DEF Done
  <1> QED
    BY <1>3, <1>7, <1>8, <1>9

\* The item at hand is through.
LEMMA OneMoreDone ==
    ASSUME \A data \in Declarations : Unambiguous(data), SeedInv, Queue(seed),
           seed.todo # <<>>, seed'.todo = Tail(seed.todo), seed'.data = seed.data,
           seed'.stage = seed.stage
    PROVE  Done(seed') = Done(seed) \cup {Item} /\ Queue(seed')
  <1>1. seed.todo \in Seq(Items)
    BY DEF SeedInv, SeedTypeOK, SeedRuns
  <1>2. Item \notin ToSet(seed'.todo) /\ ToSet(seed.todo) = {Item} \cup ToSet(seed'.todo)
    BY <1>1, QueueNext, FirstAndRest DEF Queue, Item
  <1>3. \A i, j \in DOMAIN seed'.todo : seed'.todo[i] = seed'.todo[j] => i = j
    BY <1>1, QueueNext DEF Queue
  <1>4. Came(seed') = Came(seed) /\ OfStage(seed') = OfStage(seed) /\ Item \in Came(seed)
    BY TheItemAtHand DEF Came, Reached, OfStage
  <1> QED
    BY <1>2, <1>3, <1>4 DEF Done, Queue

\* The counts go with the item saved.
LEMMA OneMoreCounted ==
    ASSUME \A data \in Declarations : Unambiguous(data), SeedInv, Queue(seed), Tally(seed, made),
           seed.todo # <<>>, Done(seed') = Done(seed) \cup {Item}, NEW isNew \in BOOLEAN,
           made' = IF isNew THEN made \cup {Item.id} ELSE made,
           seed'.created = seed.created + (IF Item.id \in Devices /\ isNew THEN 1 ELSE 0),
           seed'.updated = seed.updated + (IF Item.id \in Devices /\ ~isNew THEN 1 ELSE 0)
    PROVE  Tally(seed', made')
  <1> DEFINE before == {item \in Done(seed) : item.id \in Devices}
             after == {item \in Done(seed') : item.id \in Devices}
  <1>1. Item \notin Done(seed) /\ \A item \in Done(seed) : item.id # Item.id
    BY TheItemAtHand
  <1>2. Item.id \notin Addresses
    BY TheItemAtHand, OneOfAKey
  <1>3. Item.id \notin made
    BY <1>1, <1>2 DEF Tally
  <1>4. after = IF Item.id \in Devices THEN before \cup {Item} ELSE before
    OBVIOUS
  <1>5. IsFiniteSet(before) /\ seed.created = Cardinality(made \cap Devices)
        /\ seed.created + seed.updated = Cardinality(before)
        /\ seed.created \in Nat /\ seed.updated \in Nat
    BY DEF Tally, SeedInv, SeedTypeOK, SeedRuns
  <1>6. IsFiniteSet(made \cap Devices)
    <2>1. made \cap Devices \subseteq {item.id : item \in before}
      BY AddressesAreNoDevices DEF Tally
    <2>2. IsFiniteSet({item.id : item \in before})
      <3> DEFINE key == [item \in before |-> item.id]
      <3>1. key \in Surjection(before, {item.id : item \in before})
        BY DEF Surjection
      <3> QED
        BY <1>5, <3>1, FS_Surjection
    <2> QED
      BY <2>1, <2>2, FS_Subset
  <1>7. IsFiniteSet(after)
        /\ Cardinality(after) = Cardinality(before) + IF Item.id \in Devices THEN 1 ELSE 0
    <2>1. Cardinality(before) \in Nat /\ Item \notin before
      BY <1>1, <1>5, FS_CardinalityType
    <2>2. CASE Item.id \in Devices
      <3>1. after = before \cup {Item}
        BY <1>4, <2>2
      <3>2. IsFiniteSet(before \cup {Item})
            /\ Cardinality(before \cup {Item}) = Cardinality(before) + 1
        BY <1>5, <2>1, FS_AddElement
      <3> HIDE DEF before, after
      <3> QED
        BY <2>2, <3>1, <3>2
    <2>3. CASE Item.id \notin Devices
      <3>1. after = before
        BY <1>4, <2>3
      <3> HIDE DEF before, after
      <3> QED
        BY <1>5, <2>1, <2>3, <3>1
    <2> QED
      BY <2>2, <2>3
  <1>8. Cardinality(made' \cap Devices)
          = Cardinality(made \cap Devices) + IF Item.id \in Devices /\ isNew THEN 1 ELSE 0
    <2>1. CASE Item.id \in Devices /\ isNew
      <3>1. made' \cap Devices = (made \cap Devices) \cup {Item.id}
        BY <2>1
      <3> QED
        BY <1>3, <1>6, <2>1, <3>1, FS_AddElement
    <2>2. CASE ~(Item.id \in Devices /\ isNew)
      <3>1. made' \cap Devices = made \cap Devices
        BY <2>2
      <3>2. Cardinality(made \cap Devices) \in Nat
        BY <1>6, FS_CardinalityType
      <3>3. (IF Item.id \in Devices /\ isNew THEN 1 ELSE 0) = 0
        BY <2>2, Zenon
      <3>4. Cardinality(made \cap Devices)
              = Cardinality(made \cap Devices) + IF Item.id \in Devices /\ isNew THEN 1 ELSE 0
        BY <3>2, <3>3
      <3> QED
        BY <3>1, <3>4, Zenon
    <2> QED
      BY <2>1, <2>2
  <1>9. made' \subseteq {item.id : item \in Done(seed')} \cup Addresses
    BY DEF Tally
  <1>10. seed'.created + seed'.updated = Cardinality(after)
    <2>1. CASE isNew
      BY <1>5, <1>7, <2>1
    <2>2. CASE ~isNew
      BY <1>5, <1>7, <2>2
    <2> QED
      BY <2>1, <2>2
  <1> QED
    BY <1>5, <1>7, <1>8, <1>9, <1>10 DEF Tally

\* Some record comes or changes; those of the items done, and what they want, do not.
LEMMA StaysAsDeclared ==
    ASSUME NEW item, NEW recs, NEW new, AsDeclared(item, recs, new), NEW more, NEW newer,
           DOMAIN recs \subseteq DOMAIN more, item.id \in newer => item.id \in new,
           more[item.id] = recs[item.id],
           item.wants \cap DOMAIN more = item.wants \cap DOMAIN recs
    PROVE  AsDeclared(item, more, newer)
  BY DEF AsDeclared

\* The item saved is as declared, and so are those saved before.
LEMMA SavedAsDeclared ==
    ASSUME \A data \in Declarations : Unambiguous(data), SeedInv, Records(records),
           Progress(seed, records, made), seed.pc = "saving", seed.todo # <<>>,
           Acceptable(Request), records' = Landed(Request),
           made' = IF seed.found THEN made ELSE made \cup {Item.id}
    PROVE  \A item \in Done(seed) \cup {Item} : AsDeclared(item, records', made')
  <1>1. /\ \A item \in Done(seed) : item.id # Item.id
        /\ \A item \in Done(seed) \cup {Item} : Item.id \notin item.wants
        /\ Item.id \notin Addresses
    BY TheItemAtHand, OneOfAKey DEF Progress
  <1>2. Item.id \notin made
    BY <1>1 DEF Progress, Tally
  <1>3. /\ seed.refs = Item.needs \cup Item.ips \cup (Item.wants \cap DOMAIN records)
        /\ "project" \in seed.cache
    BY DEF Progress, AtHand, Item
  <1>4. /\ Written.value = Item.value /\ Written.use_case = Item.use_case
        /\ Written.refs = seed.refs
    BY <1>3 DEF Written
  <1>5. CASE seed.found
    <2>1. Item.id \in DOMAIN records
          /\ records' = Put(Item.id, [records[Item.id] EXCEPT
                                        !.value = Written.value,
                                        !.use_case = IF Written.use_case = Unset THEN @
                                                     ELSE Written.use_case])
      BY <1>5 DEF Request, Acceptable, Landed
    <2>2. /\ DOMAIN records' = DOMAIN records
          /\ \A id \in DOMAIN records : id # Item.id => records'[id] = records[id]
      BY <2>1 DEF Put
    <2>3. records[Item.id] \in Record
      BY <2>1 DEF Records
    <2>4. /\ records'[Item.id].value = Item.value
          /\ Item.use_case # Unset => records'[Item.id].use_case = Item.use_case
      BY <1>4, <2>1, <2>3 DEF Put, Record
    <2>5. AsDeclared(Item, records', made')
      BY <1>2, <1>5, <2>1, <2>2, <2>4 DEF AsDeclared
    <2>6. ASSUME NEW item \in Done(seed) PROVE AsDeclared(item, records', made')
      <3>1. AsDeclared(item, records, made) /\ item.id \in DOMAIN records
        BY DEF Progress, AsDeclared
      <3> QED
        BY <1>1, <1>5, <2>2, <3>1, StaysAsDeclared
    <2> QED
      BY <2>5, <2>6
  <1>6. CASE ~seed.found
    <2>1. Item.id \notin DOMAIN records /\ records' = Put(Item.id, Written)
      BY <1>6 DEF Request, Acceptable, Landed
    <2>2. /\ DOMAIN records' = DOMAIN records \cup {Item.id} /\ records'[Item.id] = Written
          /\ \A id \in DOMAIN records : records'[id] = records[id]
      BY <2>1 DEF Put
    <2>3. AsDeclared(Item, records', made')
      BY <1>1, <1>3, <1>4, <2>2 DEF AsDeclared
    <2>4. ASSUME NEW item \in Done(seed) PROVE AsDeclared(item, records', made')
      <3>1. AsDeclared(item, records, made) /\ item.id \in DOMAIN records
        BY DEF Progress, AsDeclared
      <3>2. item.id \in made' => item.id \in made
        BY <1>1, <1>6
      <3>3. item.wants \cap DOMAIN records' = item.wants \cap DOMAIN records
        BY <1>1, <2>2
      <3> QED
        BY <2>2, <3>1, <3>2, <3>3, StaysAsDeclared
    <2> QED
      BY <2>3, <2>4
  <1> QED
    BY <1>5, <1>6

\* What comes to be is the run's.
MadeNext == made' = made \cup (DOMAIN records' \ DOMAIN records)

LEMMA SaveTells ==
    ASSUME \A data \in Declarations : Unambiguous(data), SeedInv, SourceInv, Truthful,
           Save, MadeNext
    PROVE  Truthful'
  <1>1. /\ seed.pc = "saving" /\ seed.todo # <<>> /\ Acceptable(Request)
        /\ records' = Landed(Request) /\ Request.id = Item.id
    BY DEF Save, SeedInv, Request
  <1>2. Progress(seed, records, made)
    BY <1>1 DEF Truthful, AtWork
  <1>3. /\ seed'.pc = "next" /\ seed'.todo = Tail(seed.todo) /\ seed'.data = seed.data
        /\ seed'.stage = seed.stage /\ seed'.cache = seed.cache
        /\ seed'.shadows = IF seed.stage = "groups" THEN seed.shadows \cup {Item.id}
                           ELSE seed.shadows
    BY DEF Save, Through, SeedInv, SeedTypeOK, SeedRuns
  <1>4. Done(seed') = Done(seed) \cup {Item} /\ Queue(seed')
    BY <1>1, <1>2, <1>3, OneMoreDone DEF Progress
  <1>5. DOMAIN records' = DOMAIN records \cup {Item.id}
        /\ (seed.found <=> Item.id \in DOMAIN records)
    BY <1>1, WhatIsThereThen DEF Request, Acceptable
  <1>6. made' = IF seed.found THEN made ELSE made \cup {Item.id}
    BY <1>5 DEF MadeNext
  <1>7. \A item \in Done(seed') : AsDeclared(item, records', made')
    BY <1>1, <1>2, <1>4, <1>6, SavedAsDeclared DEF SourceInv
  <1>8. \A group \in seed'.data.groups \cap Done(seed') : group.id \in seed'.shadows
    <2>1. Item \in seed.data.groups => seed.stage = "groups"
      BY <1>1, <1>2, TheItemAtHand DEF Progress
    <2> QED
      BY <1>2, <1>3, <1>4, <2>1 DEF Progress
  <1>9. seed'.shadows \subseteq DOMAIN records'
    BY <1>2, <1>3, <1>5 DEF Progress
  <1>10. Tally(seed', made')
    <2>1. PICK isNew \in BOOLEAN : isNew = ~seed.found
      OBVIOUS
    <2>2. made' = IF isNew THEN made \cup {Item.id} ELSE made
      BY <1>6, <2>1
    <2>3. seed'.created = seed.created + (IF Item.id \in Devices /\ isNew THEN 1 ELSE 0)
      BY <2>1 DEF Save, Through, SeedInv, SeedTypeOK, SeedRuns
    <2>4. seed'.updated = seed.updated + (IF Item.id \in Devices /\ ~isNew THEN 1 ELSE 0)
      BY <2>1 DEF Save, Through, SeedInv, SeedTypeOK, SeedRuns
    <2> QED
      BY <1>1, <1>2, <1>4, <2>2, <2>3, <2>4, OneMoreCounted DEF Progress
  <1>11. AtHand(seed', DOMAIN records')
    BY <1>3 DEF AtHand
  <1>12. Progress(seed', records', made')
    BY <1>2, <1>3, <1>4, <1>7, <1>8, <1>9, <1>10, <1>11 DEF Progress
  <1> QED
    BY <1>3, <1>12 DEF Truthful, AtWork, BeforeWork

\* An address an item brings along is no record of the data.
LEMMA MakeAddressTells ==
    ASSUME \A data \in Declarations : Unambiguous(data), SeedInv, Truthful,
           MakeAddress, MadeNext
    PROVE  Truthful'
  <1>1. /\ seed.pc = "making" /\ seed.todo # <<>> /\ Acceptable(Request)
        /\ records' = Landed(Request) /\ Item.ips # {} /\ Item \in Items
    BY TheItem DEF MakeAddress, SeedInv
  <1>2. Progress(seed, records, made)
    BY <1>1 DEF Truthful, AtWork
  <1>3. Request.op = "create" /\ Request.id \in Item.ips /\ Request.record = AddressRecord
    BY <1>1 DEF Request
  <1>4. Request.id \in Addresses
    BY <1>1, <1>3 DEF Items, Attributes
  <1>5. /\ records' = Put(Request.id, AddressRecord) /\ Request.id \notin DOMAIN records
        /\ DOMAIN records' = DOMAIN records \cup {Request.id}
    BY <1>1, <1>3 DEF Landed, Acceptable, Put
  <1>6. made' = made \cup {Request.id}
    BY <1>5 DEF MadeNext
  <1>7. /\ seed'.pc = "lookup" /\ seed'.todo = seed.todo /\ seed'.data = seed.data
        /\ seed'.stage = seed.stage /\ seed'.cache = seed.cache /\ seed'.shadows = seed.shadows
        /\ seed'.created = seed.created /\ seed'.updated = seed.updated
        /\ seed'.refs = seed.refs \cup Item.ips
    BY DEF MakeAddress, SeedInv, SeedTypeOK, SeedRuns
  <1>8. Done(seed') = Done(seed) /\ OfStage(seed') = OfStage(seed)
    BY <1>7 DEF Done, Came, Reached, OfStage
  <1>9. /\ \A item \in Done(seed) \cup {Item} : item.wants = {}
        /\ \A item \in Done(seed) : item.id \notin Addresses
    BY <1>1, <1>2, TheItemAtHand, OneOfAKey DEF Progress
  <1>10. \A item \in Done(seed') : AsDeclared(item, records', made')
    <2> SUFFICES ASSUME NEW item \in Done(seed) PROVE AsDeclared(item, records', made')
      BY <1>8
    <2>1. AsDeclared(item, records, made) /\ item.id \in DOMAIN records
      BY <1>2 DEF Progress, AsDeclared
    <2>2. item.id # Request.id
      BY <1>4, <1>9
    <2>3. records'[item.id] = records[item.id]
      BY <1>5, <2>1, <2>2 DEF Put
    <2>4. item.wants \cap DOMAIN records' = item.wants \cap DOMAIN records
      BY <1>9
    <2>5. item.id \in made' => item.id \in made
      BY <1>6, <2>2
    <2> QED
      BY <1>5, <2>1, <2>3, <2>4, <2>5, StaysAsDeclared
  <1>11. Tally(seed', made')
    <2>1. made' \cap Devices = made \cap Devices
      BY <1>4, <1>6, AddressesAreNoDevices
    <2>2. made' \subseteq {item.id : item \in Done(seed')} \cup Addresses
      BY <1>2, <1>4, <1>6, <1>8 DEF Progress, Tally
    <2> QED
      BY <1>2, <1>7, <1>8, <2>1, <2>2 DEF Progress, Tally
  <1>12. AtHand(seed', DOMAIN records')
    <2>1. Head(seed'.todo) = Item /\ seed'.refs = Item.needs \cup Item.ips
      BY <1>1, <1>2, <1>7, <1>9 DEF Progress, AtHand, Item
    <2> QED
      BY <1>7, <1>9, <2>1 DEF AtHand
  <1>13. Progress(seed', records', made')
    BY <1>2, <1>5, <1>7, <1>8, <1>10, <1>11, <1>12 DEF Progress, Queue
  <1> QED
    BY <1>7, <1>13 DEF Truthful, AtWork, BeforeWork

LEMMA FindAddressTells ==
    ASSUME SeedInv, Truthful, FindAddress, MadeNext
    PROVE  Truthful'
  <1>1. seed.pc = "address" /\ records' = records /\ made' = made
    BY DEF FindAddress, source, MadeNext
  <1>2. Progress(seed, records, made)
    BY <1>1 DEF Truthful, AtWork
  <1>3. /\ seed'.todo = seed.todo /\ seed'.data = seed.data
        /\ seed'.stage = seed.stage /\ seed'.cache = seed.cache /\ seed'.shadows = seed.shadows
        /\ seed'.created = seed.created /\ seed'.updated = seed.updated
        /\ \/ seed'.pc = "lookup" /\ seed'.refs = seed.refs \cup Item.ips
           \/ seed'.pc = "making" /\ seed'.refs = seed.refs
    BY DEF FindAddress, SeedInv, SeedTypeOK, SeedRuns
  <1>4. AtHand(seed', DOMAIN records)
    BY <1>1, <1>2, <1>3 DEF Progress, AtHand, Item
  <1>5. Progress(seed', records', made')
    BY <1>1, <1>2, <1>3, <1>4, ProgressKept
  <1> QED
    BY <1>3, <1>5 DEF Truthful, AtWork, BeforeWork

\* What is wanted and there is found: a shadow group is one this run has upserted.
LEMMA ResolveTells ==
    ASSUME \A data \in Declarations : Unambiguous(data), SeedInv, Truthful, Resolve, MadeNext
    PROVE  Truthful'
  <1>1. seed.pc = "next" /\ records' = records /\ made' = made /\ seed.todo # <<>>
        /\ Item \in Items
    BY TheItem DEF Resolve, source, MadeNext
  <1>2. Progress(seed, records, made)
    BY <1>1 DEF Truthful, AtWork
  <1>3. CASE ~(Item.needs \subseteq DOMAIN records)
    BY <1>3 DEF Resolve, Break, Fresh, Truthful, AtWork, BeforeWork
  <1>4. CASE Item.needs \subseteq DOMAIN records
    <2> DEFINE refs == Item.needs \cup {id \in Item.wants : Wired(id)}
               pc == IF Item.ips = {} THEN "lookup" ELSE "address"
    <2>1. seed' = [seed EXCEPT !.refs = refs, !.pc = pc]
      BY <1>4 DEF Resolve
    <2>2. ASSUME NEW id \in Item.wants PROVE Wired(id) <=> id \in DOMAIN records
      <3>1. Kind(id) \in {"IpamIPAddress", "RoutingBGPPeerGroup"} /\ id \in Ids
        BY <1>1 DEF Items
      <3>2. CASE Kind(id) = "RoutingBGPPeerGroup"
        <4>1. /\ seed.stage = "sessions" /\ Item \in ToSet(seed.data.sessions)
              /\ ToSet(seed.todo) \subseteq SessionItems
          BY <1>1, <1>2, TheItemAtHand, DataHas DEF Progress, Queue, OfStage
        <4>2. PICK group \in seed.data.groups : group.id = id
          BY <3>1, <3>2, <4>1, DataHas DEF Unambiguous, Addresses
        <4>3. group \in Done(seed)
          BY <4>1, DataHas, KindsApart DEF Done, Came, Reached
        <4>4. id \in seed.shadows /\ seed.shadows \subseteq DOMAIN records
          BY <1>2, <4>2, <4>3 DEF Progress
        <4> QED
          BY <3>2, <4>4 DEF Wired
      <3> QED
        BY <3>1, <3>2 DEF Wired
    <2>3. refs = Item.needs \cup (Item.wants \cap DOMAIN records)
      BY <2>2
    <2>4. pc \in {"lookup", "address"} /\ (pc = "lookup" => Item.ips = {})
      OBVIOUS
    <2> HIDE DEF refs, pc
    <2>5. /\ seed'.pc = pc /\ seed'.refs = refs /\ seed'.todo = seed.todo
          /\ seed'.data = seed.data /\ seed'.stage = seed.stage /\ seed'.cache = seed.cache
          /\ seed'.shadows = seed.shadows
          /\ seed'.created = seed.created /\ seed'.updated = seed.updated
      BY <2>1 DEF SeedInv, SeedTypeOK, SeedRuns
    <2>6. AtHand(seed', DOMAIN records)
      BY <2>3, <2>4, <2>5 DEF AtHand, Item
    <2>7. Progress(seed', records', made')
      BY <1>1, <1>2, <2>5, <2>6, ProgressKept
    <2> QED
      BY <2>4, <2>5, <2>7 DEF Truthful, AtWork, BeforeWork
  <1> QED
    BY <1>3, <1>4

LEMMA LookUpTells ==
    ASSUME SeedInv, Truthful, LookUp, MadeNext
    PROVE  Truthful'
  <1>1. seed.pc = "lookup" /\ records' = records /\ made' = made
    BY DEF LookUp, source, MadeNext
  <1>2. Progress(seed, records, made)
    BY <1>1 DEF Truthful, AtWork
  <1>3. PICK there \in BOOLEAN : seed' = [seed EXCEPT !.found = there, !.pc = "saving"]
    <2>1. (Item.id \in DOMAIN records) \in BOOLEAN
      OBVIOUS
    <2>2. seed' = [seed EXCEPT !.found = (Item.id \in DOMAIN records), !.pc = "saving"]
      BY Zenon DEF LookUp
    <2> QED
      BY <2>1, <2>2, Zenon
  <1>4. /\ seed'.pc = "saving" /\ seed'.todo = seed.todo /\ seed'.refs = seed.refs
        /\ seed'.data = seed.data /\ seed'.stage = seed.stage /\ seed'.cache = seed.cache
        /\ seed'.shadows = seed.shadows
        /\ seed'.created = seed.created /\ seed'.updated = seed.updated
    BY <1>3 DEF SeedInv, SeedTypeOK, SeedRuns
  <1>5. AtHand(seed', DOMAIN records)
    BY <1>1, <1>2, <1>4 DEF Progress, AtHand
  <1>6. Progress(seed', records', made')
    BY <1>1, <1>2, <1>4, <1>5, ProgressKept
  <1> QED
    BY <1>4, <1>6 DEF Truthful, AtWork, BeforeWork

\* No shadow group is taken twice.
LEMMA NoGroupTwice ==
    ASSUME NEW S, IsFiniteSet(S), NEW s \in SetToSeqs(S)
    PROVE  \A i, j \in DOMAIN s : s[i] = s[j] => i = j
  <1>1. /\ s \in [1..Cardinality(S) -> S]
        /\ \A i, j \in 1..Cardinality(S) : i # j => s[i] # s[j]
    BY DEF SetToSeqs
  <1> QED
    BY <1>1

\* A stage is through when all of it is done, and the next one has nothing done.
LEMMA EndStageTells ==
    ASSUME \A data \in Declarations : Unambiguous(data), SeedInv, Truthful, EndStage, MadeNext
    PROVE  Truthful'
  <1>1. seed.pc = "next" /\ seed.todo = <<>> /\ records' = records /\ made' = made
    BY DEF EndStage, source, MadeNext
  <1>2. Progress(seed, records, made)
    BY <1>1 DEF Truthful, AtWork
  <1>3. Done(seed) = Came(seed)
    BY <1>1 DEF Done, ToSet
  <1>4. CASE Goto("seeded") /\ (NextStage = "done"
                                  \/ (seed.data.groups = {} /\ seed.data.sessions = <<>>))
    <2>1. /\ seed'.pc = "seeded" /\ seed'.todo = seed.todo /\ seed'.data = seed.data
          /\ seed'.stage = seed.stage /\ seed'.cache = seed.cache
          /\ seed'.shadows = seed.shadows
          /\ seed'.created = seed.created /\ seed'.updated = seed.updated
      BY <1>4 DEF Goto, SeedInv, SeedTypeOK, SeedRuns
    <2>2. AtHand(seed', DOMAIN records)
      BY <2>1 DEF AtHand
    <2>3. Progress(seed', records', made')
      BY <1>1, <1>2, <2>1, <2>2, ProgressKept
    <2>4. Came(seed) = Declared
      <3>1. CASE NextStage = "done"
        <4>1. seed.stage = "sessions"
          BY <3>1, TheNextStage
        <4> QED
          BY <4>1 DEF Came, Reached, Declared
      <3>2. CASE seed.data.groups = {} /\ seed.data.sessions = <<>>
        <4>1. ToSet(seed.data.sessions) = {}
          BY <3>2 DEF ToSet
        <4> QED
          BY <3>2, <4>1 DEF Came, Reached, Declared
      <3> QED
        BY <1>4, <3>1, <3>2
    <2>5. Done(seed') = Done(seed) /\ Declared' = Declared
      BY <2>1 DEF Done, Came, Reached, Declared
    <2> QED
      BY <1>3, <2>1, <2>3, <2>4, <2>5 DEF Truthful, BeforeWork
  <1>5. CASE Break("invalid")
    BY <1>5 DEF Break, Fresh, Truthful, AtWork, BeforeWork
  <1>6. ASSUME NextStage # "done", TakeStage(NextStage)
        PROVE  Truthful'
    <2>1. PICK todo \in IF NextStage = "groups" THEN SetToSeqs(seed.data.groups)
                        ELSE {seed.data.sessions} :
             seed' = [seed EXCEPT !.stage = NextStage, !.todo = todo]
      BY <1>6, Zenon DEF TakeStage
    <2>2. /\ seed'.pc = "next" /\ seed'.todo = todo /\ seed'.stage = NextStage
          /\ seed'.data = seed.data /\ seed'.cache = seed.cache
          /\ seed'.shadows = seed.shadows
          /\ seed'.created = seed.created /\ seed'.updated = seed.updated
      BY <1>1, <2>1 DEF SeedInv, SeedTypeOK, SeedRuns
    <2>3. Queue(seed') /\ Done(seed') = Done(seed)
      <3>1. CASE seed.stage = "sections"
        <4>1. NextStage = "groups" /\ todo \in SetToSeqs(seed.data.groups)
          BY <2>1, <3>1, TheNextStage
        <4>2. /\ ToSet(todo) = seed.data.groups
              /\ \A i, j \in DOMAIN todo : todo[i] = todo[j] => i = j
          BY <4>1, DataHas, AllGroupsTaken, NoGroupTwice
        <4>3. Came(seed) = ToSet(seed.data.sections)
              /\ Came(seed') = ToSet(seed.data.sections) \cup seed.data.groups
          BY <2>2, <3>1, <4>1 DEF Came, Reached
        <4>4. ToSet(seed.data.sections) \cap seed.data.groups = {}
          BY DataHas, KindsApart
        <4> QED
          BY <1>3, <2>2, <4>1, <4>2, <4>3, <4>4 DEF Done, Queue, OfStage
      <3>2. CASE seed.stage = "groups"
        <4>1. NextStage = "sessions" /\ todo = seed.data.sessions
          BY <2>1, <3>2, TheNextStage
        <4>2. \A i, j \in DOMAIN todo : todo[i] = todo[j] => i = j
          BY <4>1, DataHas DEF Unambiguous
        <4>3. Came(seed) = ToSet(seed.data.sections) \cup seed.data.groups
              /\ Came(seed') = Came(seed) \cup ToSet(seed.data.sessions)
          BY <2>2, <3>2, <4>1 DEF Came, Reached
        <4>4. Came(seed) \cap ToSet(seed.data.sessions) = {}
          BY <4>3, DataHas, KindsApart
        <4> QED
          BY <1>3, <2>2, <4>1, <4>2, <4>3, <4>4 DEF Done, Queue, OfStage
      <3> QED
        BY <1>6, <3>1, <3>2, TheNextStage
    <2>4. AtHand(seed', DOMAIN records')
      BY <2>2 DEF AtHand
    <2>5. Tally(seed', made')
      BY <1>1, <1>2, <2>2, <2>3 DEF Progress, Tally
    <2>6. Progress(seed', records', made')
      BY <1>1, <1>2, <2>2, <2>3, <2>4, <2>5 DEF Progress
    <2> QED
      BY <2>2, <2>6 DEF Truthful, AtWork, BeforeWork
  <1> QED
    BY <1>4, <1>5, <1>6 DEF EndStage

\* A run knows the project's schema before it writes, and has done nothing until then.
LEMMA WorkBeginsTells ==
    ASSUME \A data \in Declarations : Unambiguous(data), SeedInv, Truthful, MadeNext,
           IdentifyBySchema \/ IdentifyByDevices \/ LoadBatch \/ PollSchema \/ Validate
    PROVE  Truthful'
  <1>1. /\ seed.pc \in BeforeWork /\ records' = records /\ made' = made
    BY DEF IdentifyBySchema, IdentifyByDevices, LoadBatch, PollSchema, Validate, source,
           BeforeWork, MadeNext
  <1>2. /\ seed.stage = "sections" /\ seed.shadows = {} /\ seed.created = 0
        /\ seed.updated = 0 /\ made = {}
        /\ seed.pc = "validating" => "project" \in seed.cache
    BY <1>1 DEF Truthful
  <1>3. \A ending \in Endings \ {"seeded"} : Break(ending) => Truthful'
    BY DEF Break, Fresh, Truthful, Endings, AtWork, BeforeWork
  <1>4. ASSUME seed'.pc \in BeforeWork, seed'.stage = seed.stage, seed'.shadows = seed.shadows,
               seed'.created = seed.created, seed'.updated = seed.updated,
               seed'.pc = "validating" => "project" \in seed'.cache
        PROVE  Truthful'
    BY <1>1, <1>2, <1>4 DEF Truthful, AtWork, BeforeWork
  <1>5. CASE IdentifyBySchema \/ IdentifyByDevices
    <2>1. CASE Goto("loading") \/ Goto("counting")
      BY <1>4, <2>1 DEF Goto, SeedInv, SeedTypeOK, SeedRuns, BeforeWork
    <2> QED
      BY <1>3, <1>5, <2>1 DEF IdentifyBySchema, IdentifyByDevices, Require, Classify, Endings
  <1>6. CASE LoadBatch
    BY <1>4, <1>6 DEF LoadBatch, SeedInv, SeedTypeOK, SeedRuns, BeforeWork
  <1>7. CASE PollSchema
    <2>1. CASE Break("unready")
      BY <1>3, <2>1 DEF Endings
    <2>2. CASE Ready
      <3>1. "project" \in registered
        BY <2>2 DEF Ready, Extending
      <3> QED
        BY <1>4, <1>7, <2>2, <3>1 DEF PollSchema, SeedInv, SeedTypeOK, SeedRuns, BeforeWork
    <2>3. CASE ~Ready /\ ~Break("unready")
      BY <1>4, <1>7, <2>3 DEF PollSchema, SeedInv, SeedTypeOK, SeedRuns, BeforeWork
    <2> QED
      BY <2>1, <2>2, <2>3
  <1>8. CASE Validate /\ seed.data.valid
    <2>1. /\ seed.pc = "validating" /\ seed'.pc = "next" /\ seed'.todo = seed.data.sections
          /\ seed'.data = seed.data /\ seed'.cache = seed.cache /\ seed'.stage = seed.stage
          /\ seed'.shadows = seed.shadows
          /\ seed'.created = seed.created /\ seed'.updated = seed.updated
      BY <1>8 DEF Validate, SeedInv, SeedTypeOK, SeedRuns
    <2>2. Done(seed') = {}
      BY <1>2, <2>1 DEF Done, Came, Reached
    <2>3. Queue(seed')
      BY <1>2, <2>1, DataHas DEF Queue, OfStage, Unambiguous
    <2>4. Tally(seed', made')
      <3>1. {item \in Done(seed') : item.id \in Devices} = {} /\ made' \cap Devices = {}
        BY <1>1, <1>2, <2>2
      <3>2. /\ IsFiniteSet({item \in Done(seed') : item.id \in Devices})
            /\ Cardinality({item \in Done(seed') : item.id \in Devices}) = 0
            /\ Cardinality(made' \cap Devices) = 0
        BY <3>1, FS_EmptySet, Zenon
      <3>3. seed'.created = 0 /\ seed'.updated = 0 /\ 0 + 0 = 0
        BY <1>2, <2>1
      <3>4. made' \subseteq {item.id : item \in Done(seed')} \cup Addresses
        BY <1>1, <1>2
      <3> QED
        BY <3>2, <3>3, <3>4, Zenon DEF Tally
    <2>5. AtHand(seed', DOMAIN records')
      BY <2>1 DEF AtHand
    <2>6. Progress(seed', records', made')
      BY <1>2, <2>1, <2>2, <2>3, <2>4, <2>5 DEF Progress
    <2> QED
      BY <2>1, <2>6 DEF Truthful, AtWork, BeforeWork
  <1>9. CASE Validate /\ ~seed.data.valid
    BY <1>3, <1>9 DEF Validate, Endings
  <1> QED
    BY <1>5, <1>6, <1>7, <1>8, <1>9

\* One case per action.
LEMMA SeedTells ==
    ASSUME \A data \in Declarations : Unambiguous(data), SeedInv, SourceInv, Truthful, MadeNext,
           SeedProgress \/ SeedFails
    PROVE  Truthful'
  <1>1. CASE SeedFails \/ WriteRejected
    BY <1>1 DEF SeedFails, LoadRefused, LoadLost, LookUpFails, WriteLost, WriteRejected, Break,
                Fresh, Truthful, AtWork, BeforeWork
  <1> QED
    BY <1>1, SaveTells, MakeAddressTells, FindAddressTells, ResolveTells, LookUpTells,
       EndStageTells, WorkBeginsTells DEF SeedProgress

\* Nobody else changes a record, or the run is disturbed.
LEMMA StaysTruthful ==
    ASSUME \A data \in Declarations : Unambiguous(data), IInv, TruthInv, [Next]_vars
    PROVE  TruthInv'
  <1> SUFFICES ASSUME ~disturbed' PROVE Truthful'
    BY DEF TruthInv
  <1>1. CASE seed'.pc \in Endings \ {"seeded"}
    BY <1>1 DEF Endings, Truthful, AtWork, BeforeWork
  <1>2. CASE UNCHANGED vars
    BY <1>2 DEF vars, source, history, TruthInv, Truthful, Progress, Queue, OfStage, Done, Came,
                Reached, AtHand, Tally, Declared
  <1> SUFFICES ASSUME seed'.pc \notin Endings \ {"seeded"}, Next
               PROVE  Truthful'
    BY <1>1, <1>2
  <1>3. Note
    BY DEF Next, SeedAdvances, SeedIsRunOrBroken, StoreIsCalled, SourceChanges
  <1>4. CASE \E data \in Declarations : Begin(data)
    <2>1. seed'.runs # seed.runs
      BY <1>4 DEF Begin, Fresh, IInv, SeedInv, SeedTypeOK, SeedRuns
    <2>2. made' = {}
      BY <1>3, <2>1 DEF Note, Begun
    <2> QED
      BY <1>4, <2>2 DEF Begin, Fresh, Truthful, AtWork, BeforeWork
  <1>5. ASSUME seed'.runs = seed.runs
        PROVE  MadeNext /\ ~disturbed /\ Truthful /\ (seed' = seed => records' = records)
    <2>1. disturbed' = (disturbed \/ (records' # records /\ seed' = seed))
      <3>1. disturbed' = IF Begun \/ seed'.pc \in Endings \ {"seeded", "invalid", "rejected"}
                         THEN FALSE ELSE disturbed \/ (records' # records /\ seed' = seed)
        BY <1>3, Zenon DEF Note
      <3>2. ~(Begun \/ seed'.pc \in Endings \ {"seeded", "invalid", "rejected"})
        BY <1>5 DEF Begun
      <3> QED
        BY <3>1, <3>2, Zenon
    <2>2. made' = made \cup (DOMAIN records' \ DOMAIN records)
      BY <1>3, <1>5 DEF Note, Begun
    <2>3. ~disturbed /\ (seed' = seed => records' = records)
      BY <2>1
    <2> QED
      BY <2>2, <2>3 DEF MadeNext, TruthInv
  <1>6. CASE SeedProgress \/ SeedFails
    <2>1. seed'.runs = seed.runs
      BY <1>6, SameRun DEF IInv
    <2> QED
      BY <1>5, <1>6, <2>1, SeedTells DEF IInv
  <1>7. CASE seed' = seed
    <2>1. records' = records /\ made' = made /\ Truthful
      BY <1>5, <1>7 DEF MadeNext
    <2> QED
      BY <1>7, <2>1 DEF Truthful, Progress, Queue, OfStage, Done, Came, Reached, AtHand, Tally,
                        Declared
  <1> QED
    BY <1>4, <1>6, <1>7 DEF Next, SeedAdvances, SeedIsRunOrBroken, StoreIsCalled, SourceChanges

\* SeededMeansDeclared: whatever the data, as long as it is unambiguous, and whatever broken
\* runs have left, a run that returns its result, and that nobody else wrote during, has every
\* declared record in place as declared, and its counts tell the devices made and found
\* (seed.py:333).
THEOREM SeededTellsTheTruth ==
    ASSUME \A data \in Declarations : Unambiguous(data)
    PROVE  Spec => []SeededMeansDeclared
  <1> DEFINE AInv == IInv /\ TruthInv
  <1>1. Init => AInv
    <2>1. Init => TruthInv
      BY DEF Init, SeedInit, Fresh, TruthInv, Truthful, AtWork, BeforeWork
    <2> QED
      BY <2>1, Initially
  <1>2. AInv /\ [Next]_vars => AInv'
    BY EveryStep, StaysTruthful
  <1>3. AInv => SeededMeansDeclared
    <2> SUFFICES ASSUME IInv, Truthful, seed.pc = "seeded" PROVE SeededMeansDeclared
      BY DEF TruthInv, SeededMeansDeclared
    <2>1. Progress(seed, records, made) /\ Done(seed) = Declared
      BY DEF Truthful
    <2>2. \A item \in Declared : AsDeclared(item, records, made)
      BY <2>1 DEF Progress
    <2>3. /\ seed.created = Cardinality(made \cap Devices)
          /\ seed.created + seed.updated = Cardinality(DeclaredDevices)
          /\ seed.created \in Nat /\ seed.updated \in Nat
      BY <2>1 DEF Progress, Tally, DeclaredDevices, IInv, SeedInv, SeedTypeOK, SeedRuns
    <2>4. seed.updated = Cardinality(DeclaredDevices) - seed.created
      BY <2>3
    <2> QED
      BY <2>2, <2>3, <2>4 DEF AsDeclared, SeededMeansDeclared
  <1> QED
    BY <1>1, <1>2, <1>3, PTL DEF Spec

=============================================================================
