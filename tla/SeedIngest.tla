----------------------------- MODULE SeedIngest -----------------------------
(***************************************************************************)
(* Filling the source of truth: the task tasks/demo.py seed, which asks    *)
(* whose instance it is (intent/infrahub/identity.py), provisions the      *)
(* schema and waits for it (schema.py), and upserts the declared records   *)
(* (seed.py).  Any request may fail or the process be killed; the operator *)
(* then runs the task again, perhaps with another version of the data.     *)
(*                                                                         *)
(* A version of the data has the items of the generic sections in their    *)
(* order, the shadow groups its sessions make, and the sessions; valid     *)
(* tells whether every device has the required fields.  An item has its    *)
(* record's key and attributes, the records it must find (needs), those it *)
(* takes if they are there (wants) and the address it brings along (ips).  *)
(***************************************************************************)
EXTENDS SourceOfTruth, SequencesExt

CONSTANTS
    Declarations,  \* versions of the seed data
    MaxSeeds,      \* bound: how often the task is run
    MaxPolls       \* polls before the readiness deadline

Attributes == [id : Ids, value : Values, use_case : UseCases \cup {Unset},
               needs : SUBSET Ids, wants : SUBSET Ids, ips : SUBSET Addresses]

\* A child needs its one device; what is wanted is an address or a shadow group; and an
\* item brings one address along at most.
Items ==
    {item \in Attributes :
        /\ item.id \in Children => \E d \in Devices : item.needs \cap Devices = {d}
        /\ item.wants \subseteq {id \in Ids : Kind(id) \in {"IpamIPAddress", "RoutingBGPPeerGroup"}}
        /\ \A a, b \in item.ips : a = b}

\* No section declares addresses.  Only a session refers to what need not be there, and
\* only an item of a section brings an address along.
SectionItems ==
    {item \in Items :
        /\ Kind(item.id) \notin {"RoutingBGPPeerGroup", "RoutingBGPSession", "IpamIPAddress"}
        /\ item.wants = {}}

GroupItems ==
    {item \in Items : Kind(item.id) = "RoutingBGPPeerGroup" /\ item.wants = {} /\ item.ips = {}}

SessionItems == {item \in Items : Kind(item.id) = "RoutingBGPSession" /\ item.ips = {}}

ASSUME SeedAssumption ==
    /\ Declarations \subseteq [valid : BOOLEAN, sections : Seq(SectionItems),
                               groups : SUBSET GroupItems, sessions : Seq(SessionItems)]
    /\ \A data \in Declarations : IsFiniteSet(data.groups)
    /\ MaxSeeds \in Nat /\ MaxPolls \in Nat \ {0}

VARIABLE seed      \* the run of the task: where it stands and what it knows

\* How a run ends: with a SeedResult; refused by the task (foreign, unidentified), by the
\* schema (unready), by its own checks (incomplete: a required field is missing; invalid: a
\* record it refers to is not there) or by the server (rejected); or broken off.
Endings == {"seeded", "foreign", "unidentified", "unready", "incomplete", "invalid", "rejected",
            "unreachable"}

Over == seed.pc \in Endings \cup {"idle"}

NoData == [valid |-> FALSE, sections |-> <<>>, groups |-> {}, sessions |-> <<>>]

\* The n-th run, as it begins.
Fresh(n, pc, data) ==
    [pc |-> pc, data |-> data, cache |-> {}, batch |-> 1, polls |-> 0, stage |-> "sections",
     todo |-> <<>>, shadows |-> {}, refs |-> {}, found |-> FALSE, created |-> 0, updated |-> 0,
     runs |-> n]

SeedInit == seed = Fresh(0, "idle", NoData)

Goto(pc) == seed' = [seed EXCEPT !.pc = pc]

\* An error: nothing is left of the run but the records it wrote.
Break(ending) == seed' = Fresh(seed.runs, ending, NoData)

\* A new process, with nothing cached by its client.
Begin(data) ==
    /\ Over /\ seed.runs < MaxSeeds
    /\ seed' = Fresh(seed.runs + 1, "identifying", data)
    /\ UNCHANGED source

-----------------------------------------------------------------------------
(***************************************************************************)
(* identify: whose source of truth is this                                 *)
(***************************************************************************)

\* DcimDevice shows snapl's use_case attribute; there is no DcimDevice at all.
HasMarker == "project" \in registered
Unprovisioned == "base" \notin registered

Unread == -1

\* classify: devices and no marker are another project's; what cannot be read is unknown.
Classify(has_marker, device_count) ==
    IF has_marker THEN "ours"
    ELSE IF device_count = Unread THEN "unidentified"
    ELSE IF device_count > 0 THEN "foreign"
    ELSE "ours"

\* Seeded fault: what is not provably foreign is seeded.
FailOpen(verdict) == IF verdict = "foreign" THEN Break(verdict) ELSE Goto("loading")

\* The task seeds only what is positively ours.
Require(verdict) == IF verdict = "ours" THEN Goto("loading") ELSE Break(verdict)

\* The schema is read afresh (what the client caches of it here, the polls read again);
\* devices are counted only when it leaves the question open.
IdentifyBySchema ==
    /\ seed.pc = "identifying"
    /\ \/ Require("unidentified")
       \/ Unprovisioned /\ Require(Classify(FALSE, 0))
       \/ ~Unprovisioned /\ HasMarker /\ Require(Classify(TRUE, Unread))
       \/ ~Unprovisioned /\ ~HasMarker /\ Goto("counting")
    /\ UNCHANGED source

IdentifyByDevices ==
    /\ seed.pc = "counting"
    /\ \E device_count \in {Cardinality(DOMAIN records \cap Devices), Unread} :
          Require(Classify(FALSE, device_count))
    /\ UNCHANGED source

-----------------------------------------------------------------------------
(***************************************************************************)
(* provision_schema                                                        *)
(***************************************************************************)

\* Each batch is given to the server when the one before it was accepted.
LoadBatch ==
    /\ seed.pc = "loading"
    /\ loaded' = loaded \cup {BatchOrder[seed.batch]}
    /\ seed' = [seed EXCEPT !.batch = @ + 1,
                   !.pc = IF seed.batch = Len(BatchOrder) THEN "polling" ELSE "loading"]
    /\ UNCHANGED <<registered, records, late>>

\* The answer names errors: the batch is not taken.
LoadRefused ==
    /\ seed.pc = "loading"
    /\ Break("unready")
    /\ UNCHANGED source

LoadLost ==
    /\ seed.pc = "loading"
    /\ loaded' \in {loaded, loaded \cup {BatchOrder[seed.batch]}}
    /\ Break("unreachable")
    /\ UNCHANGED <<registered, records, late>>

\* _unsatisfied_schema: nothing that is expected is missing.
Ready == Extending \subseteq registered

\* Seeded fault: the first poll is taken for the last.
PollOnce ==
    /\ seed.pc = "polling"
    /\ seed' = [seed EXCEPT !.cache = registered, !.pc = "validating"]
    /\ UNCHANGED source

\* Seeded fault: a poll does not look at the deadline.
PollForEver ==
    /\ seed.pc = "polling"
    /\ seed' = [seed EXCEPT !.cache = registered,
                   !.pc = IF Ready THEN "validating" ELSE "polling"]
    /\ UNCHANGED source

\* Seeded fault: one poll too many.
PollOnceMore ==
    /\ seed.pc = "polling"
    /\ IF Ready
       THEN seed' = [seed EXCEPT !.cache = registered, !.polls = 0, !.pc = "validating"]
       ELSE IF seed.polls + 1 > MaxPolls
       THEN Break("unready")
       ELSE seed' = [seed EXCEPT !.polls = @ + 1]
    /\ UNCHANGED source

\* _await_schema_ready: until the attributes show, or the deadline has passed.
PollSchema ==
    /\ seed.pc = "polling"
    /\ IF Ready
       THEN seed' = [seed EXCEPT !.cache = registered, !.polls = 0, !.pc = "validating"]
       ELSE IF seed.polls + 1 >= MaxPolls
       THEN Break("unready")
       ELSE seed' = [seed EXCEPT !.cache = registered, !.polls = @ + 1]
    /\ UNCHANGED source

-----------------------------------------------------------------------------
(***************************************************************************)
(* SeedIngester.seed: the sections in their order, item by item            *)
(***************************************************************************)

\* The generic sections come in SEED_ORDER already; groups and sessions follow.
SeedOrder == <<"sections", "groups", "sessions">>

NextStage ==
    LET at == CHOOSE i \in 1..Len(SeedOrder) : SeedOrder[i] = seed.stage
    IN IF at = Len(SeedOrder) THEN "done" ELSE SeedOrder[at + 1]

\* Required fields are checked before anything is written.
Validate ==
    /\ seed.pc = "validating"
    /\ IF seed.data.valid
       THEN seed' = [seed EXCEPT !.todo = seed.data.sections, !.pc = "next"]
       ELSE Break("incomplete")
    /\ UNCHANGED source

DefaultVrf == <<"IpamVRF", "default", "">>

\* One shadow group per device that has a session in it, in the order of a Python set.
TakeStage(stage) ==
    \E todo \in IF stage = "groups" THEN SetToSeqs(seed.data.groups) ELSE {seed.data.sessions} :
        seed' = [seed EXCEPT !.stage = stage, !.todo = todo]

\* A stage is through: the next one begins, or the result is returned.  Groups and
\* sessions are refused at once when there is no default VRF.
EndStage ==
    /\ seed.pc = "next" /\ seed.todo = <<>>
    /\ IF NextStage = "done" \/ (seed.data.groups = {} /\ seed.data.sessions = <<>>)
       THEN Goto("seeded")
       ELSE IF seed.stage = "sections" /\ DefaultVrf \notin DOMAIN records
       THEN Break("invalid")
       ELSE TakeStage(NextStage)
    /\ UNCHANGED source

Item == Head(seed.todo)

\* Addresses are looked up; a shadow group is the one this run has upserted (pg_id_map).
Wired(id) == id \in IF Kind(id) = "RoutingBGPPeerGroup" THEN seed.shadows ELSE DOMAIN records

\* _resolve_relationships, and its like for groups and sessions.
Resolve ==
    /\ seed.pc = "next" /\ seed.todo # <<>>
    /\ IF Item.needs \subseteq DOMAIN records
       THEN seed' = [seed EXCEPT !.refs = Item.needs \cup {id \in Item.wants : Wired(id)},
                                 !.pc = IF Item.ips = {} THEN "lookup" ELSE "address"]
       ELSE Break("invalid")
    /\ UNCHANGED source

\* Seeded fault: an address is made without a look.
MakeAlways ==
    /\ seed.pc = "address"
    /\ Goto("making")
    /\ UNCHANGED source

\* _materialise_ip_address: the item's address is taken if it is there, else made.
FindAddress ==
    /\ seed.pc = "address"
    /\ seed' = IF Item.ips \subseteq DOMAIN records
               THEN [seed EXCEPT !.refs = @ \cup Item.ips, !.pc = "lookup"]
               ELSE [seed EXCEPT !.pc = "making"]
    /\ UNCHANGED source

LookUp ==
    /\ seed.pc = "lookup"
    /\ seed' = [seed EXCEPT !.found = Item.id \in DOMAIN records, !.pc = "saving"]
    /\ UNCHANGED source

AddressRecord == [value |-> Unset, use_case |-> Unset, refs |-> {}]

\* The client knows use_case only if the schema it cached has it.
Written == [value |-> Item.value, refs |-> seed.refs,
            use_case |-> IF "project" \in seed.cache THEN Item.use_case ELSE Unset]

Writing == seed.pc \in {"making", "saving"}

\* The request the run is about to send.
Request ==
    IF seed.pc = "making"
    THEN [op |-> "create", id |-> CHOOSE a \in Item.ips : TRUE, record |-> AddressRecord]
    ELSE [op |-> IF seed.found THEN "update" ELSE "create", id |-> Item.id, record |-> Written]

MakeAddress ==
    /\ seed.pc = "making" /\ Acceptable(Request)
    /\ records' = Landed(Request)
    /\ seed' = [seed EXCEPT !.refs = @ \cup Item.ips, !.pc = "lookup"]
    /\ UNCHANGED <<loaded, registered, late>>

\* The item is through: devices are counted, a shadow group is kept for its sessions.
Through ==
    seed' = [seed EXCEPT !.todo = Tail(@), !.refs = {}, !.found = FALSE, !.pc = "next",
                !.shadows = IF seed.stage = "groups" THEN @ \cup {Item.id} ELSE @,
                !.created = @ + IF Item.id \in Devices /\ ~seed.found THEN 1 ELSE 0,
                !.updated = @ + IF Item.id \in Devices /\ seed.found THEN 1 ELSE 0]

\* _upsert_item and its like, once the server has taken the record.
Save ==
    /\ seed.pc = "saving" /\ Acceptable(Request)
    /\ records' = Landed(Request)
    /\ Through
    /\ UNCHANGED <<loaded, registered, late>>

\* What it found, or refers to, has come or gone meanwhile: the server's error ends the run.
WriteRejected ==
    /\ Writing /\ ~Acceptable(Request)
    /\ Break("rejected")
    /\ UNCHANGED source

\* A read fails, or the process is killed between two requests: the task ends by the error.
LookUpFails ==
    /\ seed.pc \in {"polling", "validating", "next", "address", "lookup"}
    /\ Break("unreachable")
    /\ UNCHANGED source

\* A write times out or its process is killed: it may land later.
WriteLost ==
    /\ Writing
    /\ Break("unreachable")
    /\ late' = late \cup {Request}
    /\ UNCHANGED <<loaded, registered, records>>

SeedProgress ==
    \/ IdentifyBySchema \/ IdentifyByDevices \/ LoadBatch \/ PollSchema
    \/ Validate \/ EndStage \/ Resolve \/ FindAddress \/ MakeAddress \/ LookUp \/ Save
    \/ WriteRejected

SeedFails == LoadRefused \/ LoadLost \/ LookUpFails \/ WriteLost

\* A run of the task.
SeedRuns ==
    [pc : Endings \cup {"idle", "identifying", "counting", "loading", "polling", "validating",
                        "next", "address", "making", "lookup", "saving"},
     data : Declarations \cup {NoData},
     cache : SUBSET Batches, batch : 1..Len(BatchOrder) + 1, polls : 0..MaxPolls - 1,
     stage : ToSet(SeedOrder), todo : Seq(Items), shadows : SUBSET Ids, refs : SUBSET Ids,
     found : BOOLEAN, created : Nat, updated : Nat, runs : 0..MaxSeeds]

SeedTypeOK == seed \in SeedRuns
=============================================================================
