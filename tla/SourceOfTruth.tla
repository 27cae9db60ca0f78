--------------------------- MODULE SourceOfTruth ---------------------------
(***************************************************************************)
(* Infrahub, the source of truth, as the intent package uses it: records   *)
(* found by natural key, a schema whose batches are loaded at once and     *)
(* registered later, and requests that may land after their sender has     *)
(* given up waiting for the answer.                                        *)
(*                                                                         *)
(* A record's identity is its natural key, <<kind, name, scope>>.  The     *)
(* schemas make the keys of every kind unique, so the server refuses to    *)
(* create a record a second time.                                          *)
(***************************************************************************)
EXTENDS Integers, FiniteSets, Sequences

CONSTANTS
    Ids,        \* natural keys: <<kind, name, scope>>
    Values,     \* what the plain attributes of a record may hold
    UseCases,   \* values of the use_case attribute
    Unset       \* an attribute nobody has written

ASSUME SourceAssumption ==
    /\ Ids \subseteq STRING \X STRING \X STRING
    /\ Unset \notin Values \cup UseCases

VARIABLES
    loaded,      \* schema batches the server was given
    registered,  \* those whose kinds and attributes it shows
    records,     \* the records by identity
    late         \* requests whose sender no longer waits for them

source == <<loaded, registered, records, late>>

Kind(id) == id[1]

Devices == {id \in Ids : Kind(id) = "DcimDevice"}
Addresses == {id \in Ids : Kind(id) = "IpamIPAddress"}
Children == {id \in Ids : Kind(id) \in {"InterfacePhysical", "RoutingBGPSession",
                                        "RoutingBGPPeerGroup"}}

\* refs are the records its relations name, the device of a child among them.
Record == [value : Values \cup {Unset}, use_case : UseCases \cup {Unset}, refs : SUBSET Ids]

Parent(id) == CHOOSE d \in Devices : d \in records[id].refs

-----------------------------------------------------------------------------
(***************************************************************************)
(* The schema                                                              *)
(***************************************************************************)

\* discover_schema_batches: base/, extensions/, and the project's own files.
BatchOrder == <<"base", "extensions", "project">>

Batches == {BatchOrder[i] : i \in 1..Len(BatchOrder)}

\* collect_extension_attributes: use_case and the other attributes the project adds
\* to kinds of the base; the relations that extensions/ adds are not waited for.
Extending == {"project"}

\* The server's task-worker registers a batch, after those it refers to.
Register(b) ==
    /\ b \in loaded \ registered
    /\ \A i, j \in 1..Len(BatchOrder) :
          i < j /\ BatchOrder[j] = b => BatchOrder[i] \in registered
    /\ registered' = registered \cup {b}
    /\ UNCHANGED <<loaded, records, late>>

-----------------------------------------------------------------------------
(***************************************************************************)
(* Requests that write                                                     *)
(***************************************************************************)

Requests == [op : {"create", "update"}, id : Ids, record : Record]

Put(id, record) ==
    [x \in DOMAIN records \cup {id} |-> IF x = id THEN record ELSE records[x]]

\* The server refuses a key it has, a record that is gone, a relation to nothing.
Acceptable(q) ==
    IF q.op = "create"
    THEN q.id \notin DOMAIN records /\ q.record.refs \subseteq DOMAIN records
    ELSE q.id \in DOMAIN records

\* An update leaves relations, and attributes it does not carry, as they are.
Landed(q) ==
    IF q.op = "create"
    THEN Put(q.id, q.record)
    ELSE Put(q.id, [records[q.id] EXCEPT
                       !.value = q.record.value,
                       !.use_case = IF q.record.use_case = Unset THEN @
                                  ELSE q.record.use_case])

LateRequestLands(q) ==
    /\ q \in late
    /\ late' = late \ {q}
    /\ records' = IF Acceptable(q) THEN Landed(q) ELSE records
    /\ UNCHANGED <<loaded, registered>>

\* A deleted device takes its children with it; nothing else keeps a relation to them.
Removed(device) ==
    LET gone == {device} \cup {c \in DOMAIN records \cap Children : device \in records[c].refs}
    IN [x \in DOMAIN records \ gone |-> [records[x] EXCEPT !.refs = @ \ gone]]

\* Somebody edits a record in the server's own interface.
Edit(id, value) ==
    /\ id \in DOMAIN records /\ records[id].value \notin {value, Unset}
    /\ records' = [records EXCEPT ![id].value = value]
    /\ UNCHANGED <<loaded, registered, late>>

\* Or gives an interface another address.
AddAddress(interface, address) ==
    /\ {interface, address} \subseteq DOMAIN records
    /\ Kind(interface) = "InterfacePhysical" /\ address \in Addresses
    /\ address \notin records[interface].refs
    /\ records' = [records EXCEPT ![interface].refs = @ \cup {address}]
    /\ UNCHANGED <<loaded, registered, late>>

SourceTypeOK ==
    /\ registered \subseteq Batches /\ loaded \subseteq Batches
    /\ DOMAIN records \subseteq Ids
    /\ \A id \in DOMAIN records : records[id] \in Record
    /\ late \subseteq Requests
=============================================================================
