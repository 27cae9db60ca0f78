----------------------------- MODULE IntentStore ----------------------------
(***************************************************************************)
(* InfrahubIntentStore (intent/infrahub/store.py) over the source of       *)
(* truth: get_desired_state, which asks three questions one after the      *)
(* other and puts the answers together, and delete_device.                 *)
(***************************************************************************)
EXTENDS SourceOfTruth

CONSTANTS
    Queries,     \* devices asked for by id or name, others being asked for by use_case
    IPv4         \* the addresses without a colon

ASSUME StoreAssumption == Queries \subseteq Devices /\ IPv4 \subseteq Addresses

VARIABLES
    reader,    \* the call of get_desired_state
    deletion,  \* the device that a call of delete_device has found
    gone       \* devices deleted since the read began: their ids match nothing any more

NoDevice == <<"", "", "">>
NoAddress == <<"", "", "">>

NoRead == [pc |-> "idle", query |-> Unset, listed |-> {}, interfaces |-> <<>>, told |-> <<>>,
           missed |-> {}]

StoreInit ==
    /\ reader = NoRead
    /\ deletion = NoDevice
    /\ gone = {}

-----------------------------------------------------------------------------
(***************************************************************************)
(* get_desired_state                                                       *)
(***************************************************************************)

Matching(query) ==
    IF query \in UseCases
    THEN {d \in DOMAIN records \cap Devices : records[d].use_case = query}
    ELSE DOMAIN records \cap {query}

\* The devices first; with none, nothing more is asked.
ReadDevices(query) ==
    /\ reader.pc = "idle" /\ Matching(query) # {}
    /\ reader' = [reader EXCEPT !.query = query, !.listed = Matching(query), !.pc = "interfaces"]
    /\ UNCHANGED <<source, deletion>>

\* The children of a kind the server finds by device__ids.
Found(kind) ==
    {c \in DOMAIN records \cap Children :
        Kind(c) = kind /\ records[c].refs \cap (reader.listed \ gone) # {}}

\* Each with the addresses its relations name (a session has one, its remote_ip), whether or
\* not their nodes came with them.
Answers(kind) ==
    [c \in Found(kind) |-> [device |-> Parent(c), value |-> records[c].value,
                            addresses |-> records[c].refs \cap Addresses]]

ReadInterfaces ==
    /\ reader.pc = "interfaces"
    /\ reader' = [reader EXCEPT !.interfaces = Answers("InterfacePhysical"), !.pc = "sessions"]
    /\ UNCHANGED <<source, deletion>>

\* _peer_id: the relation of any child to its device may come without an id to be read.
Unnamed(children) == SUBSET DOMAIN children

\* _group_by_device: with one device asked for, all that came is its; with several the
\* relation tells, if it can be read.
DeviceOf(child, entry, unnamed) ==
    IF Cardinality(reader.listed) = 1 THEN CHOOSE d \in reader.listed : TRUE
    ELSE IF child \in unnamed THEN NoDevice
    ELSE entry.device

\* _select_interface_ip: the first IPv4 address, else the first, in no stable order.
SelectAddress(addresses) ==
    IF addresses = {} THEN {NoAddress}
    ELSE IF addresses \cap IPv4 # {} THEN addresses \cap IPv4 ELSE addresses

\* _resolve_peer: the node of any address a relation names may not be in the client's store,
\* and then the relation reads as if it did not name it.
Missing(children) == SUBSET UNION {{c} \X children[c].addresses : c \in DOMAIN children}

Resolved(child, addresses, missed) == {a \in addresses : <<child, a>> \notin missed}

\* What may be told of the children that came, by the address told of each.
Tellings(children, unnamed, missed) ==
    LET picks == {pick \in [DOMAIN children -> Addresses \cup {NoAddress}] :
                     \A c \in DOMAIN children :
                        pick[c] \in SelectAddress(Resolved(c, children[c].addresses, missed))}
    IN {[c \in DOMAIN children |-> [device |-> DeviceOf(c, children[c], unnamed),
                                    value |-> children[c].value, address |-> pick[c]]] : pick \in picks}

\* What both questions brought.
Gathered ==
    LET sessions == Answers("RoutingBGPSession")
    IN [c \in DOMAIN sessions \cup DOMAIN reader.interfaces |->
          IF c \in DOMAIN sessions THEN sessions[c] ELSE reader.interfaces[c]]

Answer(told, missed) ==
    reader' = [reader EXCEPT !.pc = "answered", !.told = told, !.missed = missed,
                             !.interfaces = <<>>]

\* Seeded fault: a child that names no queried device is left out (issue 46).
ReadLeavingOut ==
    /\ reader.pc = "sessions"
    /\ \E unnamed \in Unnamed(Gathered), missed \in Missing(Gathered) :
          LET placed == {c \in DOMAIN Gathered : DeviceOf(c, Gathered[c], unnamed) # NoDevice}
          IN \E told \in Tellings([c \in placed |-> Gathered[c]], unnamed, missed) :
                Answer(told, missed)
    /\ UNCHANGED <<source, deletion>>

\* Both groupings come after the last question.
ReadSessions ==
    /\ reader.pc = "sessions"
    /\ LET children == Gathered IN
       \E unnamed \in Unnamed(children) :
          /\ \A c \in DOMAIN children : DeviceOf(c, children[c], unnamed) # NoDevice
          /\ \E missed \in Missing(children) :
                \E told \in Tellings(children, unnamed, missed) : Answer(told, missed)
    /\ UNCHANGED <<source, deletion>>

\* IntentAttributionError: a child with no place refuses the whole answer.
ReadRefused ==
    /\ reader.pc = "sessions"
    /\ \E unnamed \in Unnamed(Gathered), c \in DOMAIN Gathered :
          DeviceOf(c, Gathered[c], unnamed) = NoDevice
    /\ reader' = NoRead
    /\ UNCHANGED <<source, deletion>>

\* _filters: a failing request ends the call as IntentConnectionError.
QueryFails ==
    /\ reader.pc \in {"interfaces", "sessions"}
    /\ reader' = NoRead
    /\ UNCHANGED <<source, deletion>>

\* The caller has the answer.
TakeAnswer ==
    /\ reader.pc = "answered"
    /\ reader' = NoRead
    /\ UNCHANGED <<source, deletion>>

-----------------------------------------------------------------------------
(***************************************************************************)
(* delete_device                                                           *)
(***************************************************************************)

\* The device is looked up first; one that is not there, or cannot be read, ends the call.
FindDoomed(device) ==
    /\ deletion = NoDevice /\ device \in DOMAIN records
    /\ deletion' = device
    /\ UNCHANGED <<source, reader>>

\* Its children go with it.
DeleteDevice ==
    /\ deletion \in DOMAIN records \cap Devices
    /\ records' = Removed(deletion)
    /\ deletion' = NoDevice
    /\ UNCHANGED <<loaded, registered, late, reader>>

\* IntentDeletionError; when only the answer is lost, the device may be gone all the same.
DeleteFails ==
    /\ deletion # NoDevice
    /\ records' \in {records, Removed(deletion)}
    /\ deletion' = NoDevice
    /\ UNCHANGED <<loaded, registered, late, reader>>

-----------------------------------------------------------------------------

\* In every step of the system: the id of a deleted device never comes back.
NoteDeletions ==
    gone' = IF reader'.pc \notin {"interfaces", "sessions"} THEN {}
            ELSE gone \cup ((DOMAIN records \cap Devices) \ DOMAIN records')

ReaderStep ==
    \/ \E query \in UseCases \cup Queries : ReadDevices(query)
    \/ ReadInterfaces \/ ReadSessions \/ ReadRefused \/ QueryFails \/ TakeAnswer

StoreTypeOK ==
    /\ reader.pc \in {"idle", "interfaces", "sessions", "answered"}
    /\ reader.query \in UseCases \cup Queries \cup {Unset}
    /\ reader.listed \subseteq Devices
    /\ DOMAIN reader.interfaces \cup DOMAIN reader.told \subseteq Children
    /\ \A miss \in reader.missed : miss[1] \in Children
    /\ deletion \in Devices \cup {NoDevice}
    /\ gone \subseteq Devices
=============================================================================
