---------------------------- MODULE IntentSystem ----------------------------
(***************************************************************************)
(* The intent layer as a whole: the seed task fills the source of truth    *)
(* (SeedIngest) while desired state is read and a device deleted           *)
(* (IntentStore), requests given up by an earlier run land late, and       *)
(* somebody edits the records in the server's own interface.               *)
(***************************************************************************)
EXTENDS IntentStore, SeedIngest

CONSTANTS
    Theirs,    \* the records of another project's source of truth
    MaxChanges \* bound: edits by hand and deletions of devices

ASSUME SystemAssumption ==
    /\ Theirs \subseteq Devices /\ IsFiniteSet(Theirs)
    /\ MaxChanges \in Nat
    /\ \A data \in Declarations :
          \A item \in ToSet(data.sections) \cup data.groups \cup ToSet(data.sessions) :
              item.id \notin Theirs

\* History, which no action reads.
VARIABLES
    changes,   \* edits by hand and deletions so far
    made,      \* records that came to be during the current run of the seed
    disturbed, \* another than that run has changed the records since it began
    stood,     \* entries of children that have stood since the devices were read
    ever       \* entries of children there at some time since then

history == <<changes, made, disturbed, stood, ever>>
vars == <<source, seed, reader, deletion, gone, history>>

\* A child as desired state may tell it.
Entries(recs) ==
    {[child |-> c, device |-> CHOOSE d \in Devices : d \in recs[c].refs, value |-> recs[c].value,
      addresses |-> recs[c].refs \cap Addresses] :
        c \in {x \in DOMAIN recs : Kind(x) \in {"InterfacePhysical", "RoutingBGPSession"}}}

\* A fresh server, one with the base schema, and another project's.
Init ==
    /\ loaded \in {{}, {"base"}} /\ registered = loaded
    /\ records \in {[d \in there |-> [value |-> Unset, use_case |-> Unset, refs |-> {}]] :
                      there \in IF loaded = {} THEN {{}} ELSE {{}, Theirs}}
    /\ late = {}
    /\ SeedInit /\ StoreInit
    /\ changes = 0 /\ made = {} /\ disturbed = FALSE /\ stood = {} /\ ever = {}

Begun == seed'.runs # seed.runs

\* What each step leaves in the history; what only a run's end tells is dropped elsewhere.
Note ==
    /\ NoteDeletions
    /\ made' = IF Begun \/ seed'.pc \in Endings \ {"seeded"} THEN {}
               ELSE made \cup (DOMAIN records' \ DOMAIN records)
    /\ disturbed' = IF Begun \/ seed'.pc \in Endings \ {"seeded", "invalid", "rejected"} THEN FALSE
                    ELSE disturbed \/ (records' # records /\ seed' = seed)
    /\ stood' = IF reader'.pc = "idle" THEN {}
                ELSE IF reader.pc = "idle" THEN Entries(records')
                ELSE stood \cap Entries(records')
    /\ ever' = IF reader'.pc = "idle" THEN {}
               ELSE IF reader.pc = "idle" THEN Entries(records')
               ELSE ever \cup Entries(records')

\* A value of an interface is edited, or an address added to it.
ByHand ==
    \/ \E id \in DOMAIN records, value \in Values :
          Kind(id) = "InterfacePhysical" /\ Edit(id, value)
    \/ \E id \in DOMAIN records, address \in Addresses : AddAddress(id, address)

Elsewhere ==
    \/ \E b \in Batches : Register(b)
    \/ \E q \in late : LateRequestLands(q)

SeedAdvances ==
    /\ SeedProgress
    /\ UNCHANGED <<reader, deletion, changes>>
    /\ Note

SeedIsRunOrBroken ==
    /\ \/ SeedFails
       \/ \E data \in Declarations : Begin(data)
    /\ UNCHANGED <<reader, deletion, changes>>
    /\ Note

StoreIsCalled ==
    /\ \/ /\ ReaderStep \/ DeleteDevice \/ DeleteFails
          /\ UNCHANGED changes
       \/ /\ changes < MaxChanges /\ changes' = changes + 1
          /\ \E device \in Queries : FindDoomed(device)
    /\ UNCHANGED seed
    /\ Note

SourceChanges ==
    /\ \/ Elsewhere /\ UNCHANGED changes
       \/ ByHand /\ changes < MaxChanges /\ changes' = changes + 1
    /\ UNCHANGED <<seed, reader, deletion>>
    /\ Note

Next == SeedAdvances \/ SeedIsRunOrBroken \/ StoreIsCalled \/ SourceChanges

Spec == Init /\ [][Next]_vars

\* Every request of the run is answered, or fails after the client's timeout.
FairSpec == Spec /\ WF_vars(SeedAdvances)

-----------------------------------------------------------------------------
(***************************************************************************)
(* Properties                                                              *)
(***************************************************************************)

TypeOK ==
    /\ SourceTypeOK /\ SeedTypeOK /\ StoreTypeOK
    /\ changes \in 0..MaxChanges /\ made \subseteq Ids /\ disturbed \in BOOLEAN
    /\ stood \subseteq ever

Declared == ToSet(seed.data.sections) \cup seed.data.groups \cup ToSet(seed.data.sessions)

DeclaredDevices == {item \in Declared : item.id \in Devices}

\* When the seed returns its result, and nobody else has written meanwhile, every declared
\* record is there with the attributes the data gives it, use_case among them (a schema that
\* is not registered yet makes the client drop it, schema.py:33); a record
\* the run made has every relation the data gives it; and the counts of the result tell the
\* devices made and found.  (What was there before keeps the relations it had, seed.py:333.)
SeededMeansDeclared ==
    seed.pc = "seeded" /\ ~disturbed =>
        /\ \A item \in Declared :
              /\ item.id \in DOMAIN records
              /\ records[item.id].value = item.value
              /\ item.use_case # Unset => records[item.id].use_case = item.use_case
              /\ item.id \in made =>
                    records[item.id].refs = item.needs \cup item.ips \cup (item.wants \cap DOMAIN records)
        /\ seed.created = Cardinality(made \cap Devices)
        /\ seed.updated = Cardinality(DeclaredDevices) - seed.created

\* The data names each of its records once, and its sessions only peer groups it declares.
Unambiguous(data) ==
    /\ \A items \in {data.sections, data.sessions} :
          \A i, j \in DOMAIN items : items[i].id = items[j].id => i = j
    /\ \A a, b \in data.groups : a.id = b.id => a = b
    /\ \A item \in ToSet(data.sessions), id \in Ids \ Addresses :
          id \in item.wants => \E group \in data.groups : group.id = id

\* What comes in this order finds what it refers to, there already or made just before.
Provided(items, there) ==
    \A i \in 1..Len(items) :
        items[i].needs \subseteq there \cup {items[j].id : j \in 1..i - 1}

\* The data makes every record it refers to, and before it refers to it.
SelfContained(data) ==
    LET sections == {item.id : item \in ToSet(data.sections)}
        groups == {item.id : item \in data.groups}
    IN /\ Provided(data.sections, {})
       /\ \A item \in data.groups : item.needs \subseteq sections
       /\ Provided(data.sessions, sections \cup groups)
       /\ data.groups # {} \/ data.sessions # <<>> => DefaultVrf \in sections

\* Whatever an earlier run left behind when it broke off, a run that nobody disturbs finds
\* every record it refers to and is not refused by the server: the task can be run again
\* (seed.py:3, tasks/demo.py:222).
OnlyDisturbedSeedsAreRefused ==
    seed.pc \in {"invalid", "rejected"} => disturbed

\* The seed writes nothing, schema or record, to a source of truth that holds another
\* project's devices, or that it could not identify (tasks/demo.py:235).
NothingIsWrittenToTheirs ==
    [][seed' # seed /\ Theirs \cap DOMAIN records # {} =>
          loaded' = loaded /\ records' = records /\ late' = late]_vars

\* Desired state tells every child that stood from the first question to the last, on the
\* device it belongs to, and tells none that was not on that device at some time meanwhile.
\* The address told is one the child had, an IPv4 one before another (store.py:153), and no
\* address is passed over but those that missed the client's store (store.py:97): the answer
\* is silent about these, so a child may be told with an IPv6 address, or with none, although
\* it has an IPv4 one.
AnswerHoldsWhatStood ==
    reader.pc = "answered" =>
        /\ \A e \in stood : e.device \in reader.listed => e.child \in DOMAIN reader.told
        /\ \A c \in DOMAIN reader.told : \E e \in ever :
              /\ e.child = c /\ e.value = reader.told[c].value
              /\ e.device = reader.told[c].device /\ e.device \in reader.listed
              /\ LET resolved == Resolved(c, e.addresses, reader.missed)
                 IN \/ /\ reader.told[c].address \in resolved
                       /\ resolved \cap IPv4 # {} => reader.told[c].address \in IPv4
                    \/ resolved = {} /\ reader.told[c].address = NoAddress

\* Every run of the seed ends: the wait for the schema has a deadline (schema.py:204).
EverySeedEnds == ~Over ~> Over
=============================================================================
