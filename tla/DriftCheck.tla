----------------------------- MODULE DriftCheck -----------------------------
(***************************************************************************)
(* What one device is meant to carry, what it carries, and how the two are *)
(* brought together and compared: the rendering of intent (executor        *)
(* renderer.py and its templates), the SET (executor.py), the GETs that    *)
(* read the device back (collector.py, client.py), the translation of what *)
(* they return (adapters/srlinux.py), the difference (structural/diff.py)  *)
(* and the choice of what a scheduled repair may touch (remediation.py).   *)
(*                                                                         *)
(* A value is a name.  A key left out of a payload, an attribute that is   *)
(* None and a leaf a device does not have are Unset.  What the payload     *)
(* holds besides (router id, address families, groups) is never compared   *)
(* and is left out, and so is a neighbour's own address, which only names  *)
(* it.                                                                     *)
(***************************************************************************)
EXTENDS Integers, FiniteSets, Sequences, SequencesExt

CONSTANTS
    Unset,
    Intents,       \* what the device may be meant to carry
    Ports,         \* the interfaces the hardware has
    Descriptions, Addresses, Mtus, Asns, Groups,  \* what may be put on the device
    MaxEdits       \* bound: edits of intent and of the device

\* What SR Linux reports for a port that carries any config and no mtu of its own.
DefaultMtu == "9232"

Admin == {"enable", "disable"}

Or(values) == values \cup {Unset}

\* An interface on the device, and a BGP neighbour.
Port == [description : Or(Descriptions), addresses : SUBSET Addresses,
         enabled : Admin, mtu : Or(Mtus)]
Neighbor == [peer_asn : Or(Asns), peer_group : Or(Groups), enabled : Admin]

\* What is meant: a prefix length comes with its address (store.py:144), but not every
\* address with one; a session has its ASN.
DesiredInterface ==
    {iface \in [description : Or(Descriptions), ip_address : Or({a[1] : a \in Addresses}),
                prefix_length : Or({a[2] : a \in Addresses}), enabled : Admin, mtu : Or(Mtus)] :
        /\ iface.prefix_length # Unset => iface.ip_address # Unset
        /\ iface.prefix_length # Unset => <<iface.ip_address, iface.prefix_length>> \in Addresses}

DesiredSession == [peer_asn : Asns, peer_group : Or(Groups), enabled : Admin]

\* The neighbours and the interfaces there may be.
Peers == UNION {DOMAIN desired.sessions : desired \in Intents}
InterfaceNames == Ports \cup UNION {DOMAIN desired.interfaces : desired \in Intents}

ASSUME DriftCheckAssumption ==
    /\ MaxEdits \in Nat
    /\ Unset \notin Descriptions \cup Mtus \cup Asns \cup Groups \cup Admin \cup {DefaultMtu}
    /\ \A a \in Addresses : Unset \notin {a[1], a[2]}
    /\ IsFiniteSet(Addresses) /\ Addresses # {} /\ IsFiniteSet(Ports)
    /\ \A desired \in Intents :
          /\ desired.interfaces \in [DOMAIN desired.interfaces -> DesiredInterface]
          /\ desired.sessions \in [DOMAIN desired.sessions -> DesiredSession]
          /\ IsFiniteSet(DOMAIN desired.interfaces) /\ IsFiniteSet(DOMAIN desired.sessions)
    /\ Peers \cap InterfaceNames = {}

VARIABLES
    intent,     \* the desired state the source of truth holds
    device,     \* the configuration of the device
    check,      \* the deploy or the scan in progress: its desired state, what it has read
    report,     \* the last DriftReport, or none
    edits,      \* how often intent or the device has been edited
    put,        \* history: <<entity, field, value>> somebody ever put on the device
    disturbed,  \* history: the device was edited since the deploy's SET
    read        \* history: the device as each GET found it

vars == <<intent, device, check, report, edits, put, disturbed, read>>

-----------------------------------------------------------------------------
(***************************************************************************)
(* Rendering and the SET                                                   *)
(***************************************************************************)

\* render refuses an address without a prefix length.
Renders(desired) ==
    \A name \in DOMAIN desired.interfaces :
        LET iface == desired.interfaces[name] IN
        iface.ip_address # Unset => iface.prefix_length # Unset

\* Seeded fault: a disabled interface is not rendered as disabled.
RenderInterfaceEnabledOnly(iface) ==
    [description |-> iface.description,
     addresses |-> IF iface.ip_address = Unset THEN {}
                   ELSE {<<iface.ip_address, iface.prefix_length>>},
     enabled |-> "enable",
     mtu |-> iface.mtu]

\* interfaces.j2: what is unset in intent is not in the payload.
RenderInterface(iface) ==
    [description |-> iface.description,
     addresses |-> IF iface.ip_address = Unset THEN {}
                   ELSE {<<iface.ip_address, iface.prefix_length>>},
     enabled |-> iface.enabled,
     mtu |-> iface.mtu]

Override(old, new) == IF new = Unset THEN old ELSE new

\* A gNMI update at "/" merges: a leaf is overwritten, a list gains entries, nothing
\* is removed.
MergeInterface(port, update) ==
    [description |-> Override(port.description, update.description),
     addresses |-> port.addresses \cup update.addresses,
     enabled |-> update.enabled,
     mtu |-> Override(port.mtu, update.mtu)]

MergeNeighbor(neighbor, update) ==
    [peer_asn |-> update.peer_asn,
     peer_group |-> Override(neighbor.peer_group, update.peer_group),
     enabled |-> update.enabled]

NoPort == [description |-> Unset, addresses |-> {}, enabled |-> "enable", mtu |-> Unset]
NoNeighbor == [peer_asn |-> Unset, peer_group |-> Unset, enabled |-> "enable"]

\* The device after the SET of a desired state.
Applied(config, desired) ==
    [interface |->
        [name \in DOMAIN config.interface \cup DOMAIN desired.interfaces |->
            LET port == IF name \in DOMAIN config.interface THEN config.interface[name] ELSE NoPort
            IN  IF name \in DOMAIN desired.interfaces
                THEN MergeInterface(port, RenderInterface(desired.interfaces[name]))
                ELSE port],
     neighbor |->
        [peer \in DOMAIN config.neighbor \cup DOMAIN desired.sessions |->
            LET neighbor == IF peer \in DOMAIN config.neighbor THEN config.neighbor[peer] ELSE NoNeighbor
            IN  IF peer \in DOMAIN desired.sessions
                THEN MergeNeighbor(neighbor, desired.sessions[peer])
                ELSE neighbor]]

-----------------------------------------------------------------------------
(***************************************************************************)
(* Reading the device back                                                 *)
(***************************************************************************)

\* The mtu a port reports.
ReportedMtu(port) ==
    IF port.mtu # Unset \/ (port.description = Unset /\ port.addresses = {})
    THEN port.mtu ELSE DefaultMtu

\* A GET's answer: the entries of a list, in some order, one after the other in one
\* fragment or in two, where an entry may come twice but always whole.
Fragmented(entries) ==
    {<<SetToSeq(entries)>>} \cup
    {<<SetToSeq(cut[1]), SetToSeq(cut[2])>> :
        cut \in {c \in (SUBSET entries) \X (SUBSET entries) : c[1] \cup c[2] = entries}}

\* The answers to GET /interface: the addresses of a port come in either order.
InterfaceAnswers(config) ==
    UNION {Fragmented({[name |-> name, description |-> config[name].description,
                        addresses |-> orders[name], enabled |-> config[name].enabled,
                        mtu |-> ReportedMtu(config[name])] : name \in DOMAIN config}) :
           orders \in {o \in [DOMAIN config -> SeqOf(Addresses, Cardinality(Addresses))] :
                          \A name \in DOMAIN config :
                              /\ ToSet(o[name]) = config[name].addresses
                              /\ Len(o[name]) = Cardinality(config[name].addresses)}}

\* The answers to the GET of the BGP container.
NeighborAnswers(config) ==
    Fragmented({[name |-> peer, peer_asn |-> config[peer].peer_asn,
                 peer_group |-> config[peer].peer_group,
                 enabled |-> config[peer].enabled] : peer \in DOMAIN config})

\* Seeded fault: a later fragment of a path replaces the earlier one.
MergeFragmentLast(existing, incoming) == incoming

\* _merge_fragment, of two lists: an entry equal to one of the first is not added again.
MergeFragment(existing, incoming) ==
    LET merged[n \in 0..Len(incoming)] ==
          IF n = 0 THEN existing
          ELSE IF incoming[n] \in ToSet(existing) THEN merged[n - 1]
          ELSE Append(merged[n - 1], incoming[n])
    IN merged[Len(incoming)]

\* _parse_response, for one path.
Collected(fragments) ==
    LET data[n \in 0..Len(fragments)] ==
          IF n = 0 THEN <<>> ELSE MergeFragment(data[n - 1], fragments[n])
    IN data[Len(fragments)]

\* Seeded fault: no address is the empty one.
NormalizeInterfaceEmpty(entry) ==
    [description |-> entry.description,
     ip_address |-> IF entry.addresses = <<>> THEN "" ELSE entry.addresses[1][1],
     prefix_length |-> IF entry.addresses = <<>> THEN Unset ELSE entry.addresses[1][2],
     enabled |-> entry.enabled,
     mtu |-> entry.mtu]

\* _normalize_interface: the first address stands for all.
NormalizeInterface(entry) ==
    [description |-> entry.description,
     ip_address |-> IF entry.addresses = <<>> THEN Unset ELSE entry.addresses[1][1],
     prefix_length |-> IF entry.addresses = <<>> THEN Unset ELSE entry.addresses[1][2],
     enabled |-> entry.enabled,
     mtu |-> entry.mtu]

NormalizeNeighbor(entry) ==
    [peer_asn |-> entry.peer_asn, peer_group |-> entry.peer_group, enabled |-> entry.enabled]

\* Of two entries of one name the later one counts.
ByName(entries) ==
    [name \in {entry.name : entry \in ToSet(entries)} |->
        entries[CHOOSE i \in DOMAIN entries :
                   /\ entries[i].name = name
                   /\ \A j \in i + 1 .. Len(entries) : entries[j].name # name]]

\* normalize_srlinux_state, of the interfaces and of the neighbours.
Interfaces(entries) ==
    [name \in DOMAIN ByName(entries) |-> NormalizeInterface(ByName(entries)[name])]

Neighbors(entries) ==
    [peer \in DOMAIN ByName(entries) |-> NormalizeNeighbor(ByName(entries)[peer])]

-----------------------------------------------------------------------------
(***************************************************************************)
(* The difference                                                          *)
(***************************************************************************)

\* Seeded fault: a default the device reports on its own counts as configured.
InterfaceSpecNoDefaults ==
    [fields |-> {"description", "ip_address", "prefix_length", "enabled", "mtu"},
     value_fields |-> {"description", "ip_address", "prefix_length", "mtu"},
     device_defaults |-> {},
     protected |-> {"mgmt0", "system0"},
     skip_when_none |-> {"mtu"}]

\* ENTITY_FIELD_MAP.
InterfaceSpec ==
    [fields |-> {"description", "ip_address", "prefix_length", "enabled", "mtu"},
     value_fields |-> {"description", "ip_address", "prefix_length", "mtu"},
     device_defaults |-> {<<"mtu", DefaultMtu>>},
     protected |-> {"mgmt0", "system0"},
     skip_when_none |-> {"mtu"}]

BgpSpec ==
    [fields |-> {"peer_asn", "peer_group", "enabled"},
     value_fields |-> {"peer_asn", "peer_group"},
     device_defaults |-> {},
     protected |-> {},
     skip_when_none |-> {}]

Item(entity, field, desired, actual, undesired) ==
    [entity |-> entity, field |-> field, desired |-> desired, actual |-> actual,
     undesired |-> undesired]

\* _diff_entity, for every entity intent has: an absent entity lacks every field.
ForwardItems(spec, wanted, actual) ==
    LET Has(name, field) == IF name \in DOMAIN actual THEN actual[name][field] ELSE Unset
    IN  {Item(c[1], c[2], wanted[c[1]][c[2]], Has(c[1], c[2]), FALSE) :
            c \in {x \in (DOMAIN wanted) \X spec.fields :
                      /\ ~(wanted[x[1]][x[2]] = Unset /\ x[2] \in spec.skip_when_none)
                      /\ wanted[x[1]][x[2]] # Has(x[1], x[2])}}

\* _undesired_entities.
UndesiredItems(spec, wanted, actual) ==
    {Item(c[1], c[2], Unset, actual[c[1]][c[2]], TRUE) :
        c \in {x \in (DOMAIN actual) \X spec.value_fields :
                  /\ x[1] \notin spec.protected \cup DOMAIN wanted
                  /\ actual[x[1]][x[2]] # Unset
                  /\ <<x[2], actual[x[1]][x[2]]>> \notin spec.device_defaults}}

\* diff_desired_vs_actual.
Items(desired, interfaces, neighbors) ==
    UNION {ForwardItems(InterfaceSpec, desired.interfaces, interfaces),
           ForwardItems(BgpSpec, desired.sessions, neighbors),
           UndesiredItems(InterfaceSpec, desired.interfaces, interfaces),
           UndesiredItems(BgpSpec, desired.sessions, neighbors)}

Report(status, items) == [status |-> status, items |-> items]

NoReport == Report("none", {})

\* has_forward_drift, which is what select_remediation repairs a device for.
has_forward_drift == report.status = "drifted" /\ \E item \in report.items : ~item.undesired

-----------------------------------------------------------------------------
(***************************************************************************)
(* The steps                                                               *)
(***************************************************************************)

\* What is on a device is given by its entities, their fields and values.
PortValues(name, port) ==
    {<<name, "description", port.description>>, <<name, "mtu", port.mtu>>}
    \cup UNION {{<<name, "ip_address", a[1]>>, <<name, "prefix_length", a[2]>>} : a \in port.addresses}

NeighborValues(peer, neighbor) ==
    {<<peer, "peer_asn", neighbor.peer_asn>>, <<peer, "peer_group", neighbor.peer_group>>}

Values(config) ==
    UNION ({PortValues(name, config.interface[name]) : name \in DOMAIN config.interface}
           \cup {NeighborValues(peer, config.neighbor[peer]) : peer \in DOMAIN config.neighbor})

\* No deploy or scan is in progress.
Idle == [pc |-> "idle", verifies |-> FALSE, desired |-> Unset, interfaces |-> <<>>]

Unread == [interface |-> <<>>, neighbor |-> <<>>]

\* A device as it was installed: the management interface has its address, the other
\* ports carry nothing.
Init ==
    /\ intent \in Intents
    /\ device = [interface |-> [name \in Ports |->
                    IF name = "mgmt0" THEN [NoPort EXCEPT !.addresses = {CHOOSE a \in Addresses : TRUE}]
                    ELSE [NoPort EXCEPT !.enabled = "disable"]],
                 neighbor |-> <<>>]
    /\ check = Idle
    /\ report = NoReport
    /\ edits = 0
    /\ put = Values(device)
    /\ disturbed = FALSE
    /\ read = Unread

\* The source of truth is edited.
EditIntent ==
    /\ edits < MaxEdits
    /\ intent' \in Intents \ {intent}
    /\ edits' = edits + 1
    /\ UNCHANGED <<device, check, report, put, disturbed, read>>

Edit(config) ==
    /\ edits < MaxEdits /\ config # device
    /\ device' = config
    /\ put' = put \cup Values(config)
    /\ edits' = edits + 1
    /\ disturbed' = TRUE
    /\ UNCHANGED <<intent, check, report, read>>

\* An operator changes one thing about an interface by hand.
EditInterface(name) ==
    \/ \E v \in Or(Descriptions) : Edit([device EXCEPT !.interface[name].description = v])
    \/ \E v \in SUBSET Addresses : Edit([device EXCEPT !.interface[name].addresses = v])
    \/ \E v \in Admin : Edit([device EXCEPT !.interface[name].enabled = v])
    \/ \E v \in Or(Mtus) : Edit([device EXCEPT !.interface[name].mtu = v])

\* An operator adds a neighbour or changes it, or removes one.
EditNeighbor(peer) ==
    \/ \E neighbor \in Neighbor :
          Edit([device EXCEPT !.neighbor =
              [p \in DOMAIN @ \cup {peer} |-> IF p = peer THEN neighbor ELSE @[p]]])
    \/ Edit([device EXCEPT !.neighbor = [p \in DOMAIN @ \ {peer} |-> @[p]]])

Begin(verifies) ==
    check' = [Idle EXCEPT !.pc = "interfaces", !.verifies = verifies, !.desired = intent]

\* A deploy: the desired state is fetched, rendered and set, then verified.
Deploy ==
    /\ check.pc = "idle" /\ Renders(intent)
    /\ device' = Applied(device, intent)
    /\ put' = put \cup Values(device')
    /\ disturbed' = FALSE
    /\ Begin(TRUE)
    /\ report' = NoReport
    /\ read' = Unread
    /\ UNCHANGED <<intent, edits>>

\* A render failure is a failed result: nothing is dialled and nothing is verified.
RenderFails ==
    /\ check.pc = "idle" /\ ~Renders(intent)
    /\ report' = NoReport
    /\ check' = Idle
    /\ read' = Unread
    /\ UNCHANGED <<intent, device, edits, put, disturbed>>

\* A scan: the same comparison without a SET.
Scan ==
    /\ check.pc = "idle"
    /\ Begin(FALSE)
    /\ report' = NoReport
    /\ read' = Unread
    /\ UNCHANGED <<intent, device, edits, put, disturbed>>

\* The first of the two GETs.
GetInterfaces ==
    /\ check.pc = "interfaces"
    /\ \E answer \in InterfaceAnswers(device.interface) :
          check' = [check EXCEPT !.pc = "neighbors", !.interfaces = Collected(answer)]
    /\ read' = [read EXCEPT !.interface = device.interface]
    /\ UNCHANGED <<intent, device, report, edits, put, disturbed>>

\* The second, and the comparison of what both returned.
GetNeighbors ==
    /\ check.pc = "neighbors"
    /\ \E answer \in NeighborAnswers(device.neighbor) :
          LET items == Items(check.desired, Interfaces(check.interfaces),
                             Neighbors(Collected(answer)))
          IN  report' = Report(IF items = {} THEN "clean" ELSE "drifted", items)
    /\ read' = [read EXCEPT !.neighbor = device.neighbor]
    /\ check' = [check EXCEPT !.pc = "idle", !.interfaces = <<>>]
    /\ UNCHANGED <<intent, device, edits, put, disturbed>>

\* Either GET cannot reach the device, or its answer cannot be read.
CollectFails ==
    /\ check.pc # "idle"
    /\ report' = Report("error", {})
    /\ check' = Idle
    /\ read' = Unread
    /\ UNCHANGED <<intent, device, edits, put, disturbed>>

Next ==
    \/ EditIntent
    \/ \E name \in DOMAIN device.interface : EditInterface(name)
    \/ \E peer \in Peers : EditNeighbor(peer)
    \/ Deploy \/ RenderFails \/ Scan \/ GetInterfaces \/ GetNeighbors \/ CollectFails

Spec == Init /\ [][Next]_vars

-----------------------------------------------------------------------------
(***************************************************************************)
(* What is promised                                                        *)
(***************************************************************************)

\* The values an entity may be meant to have, and a report may name.
FieldValues ==
    Or(Descriptions \cup {a[1] : a \in Addresses} \cup {a[2] : a \in Addresses}
       \cup Mtus \cup {DefaultMtu} \cup Asns \cup Groups \cup Admin)

\* Type correctness.
TypeOK ==
    /\ intent \in Intents
    /\ \A name \in DOMAIN device.interface : device.interface[name] \in Port
    /\ \A peer \in DOMAIN device.neighbor : device.neighbor[peer] \in Neighbor
    /\ check.pc \in {"idle", "interfaces", "neighbors"}
    /\ check.desired \in Or(Intents)
    /\ report.status \in {"none", "clean", "drifted", "error"}
    /\ \A item \in report.items :
          item.desired \in FieldValues /\ item.actual \in FieldValues
    /\ edits \in 0..MaxEdits

\* The check has compared.
Compared == check.pc = "idle" /\ report.status \in {"clean", "drifted"}

\* The addresses a port was found to have, or that it has none.
AddressesOf(port) == IF port.addresses = {} THEN {<<Unset, Unset>>} ELSE port.addresses

\* What the device was found to have in a field, one value for each of its addresses.
Found(entity, field) ==
    IF entity \in DOMAIN read.neighbor THEN {read.neighbor[entity][field]}
    ELSE IF entity \notin DOMAIN read.interface THEN {Unset}
    ELSE LET port == read.interface[entity] IN
         CASE field = "ip_address" -> {a[1] : a \in AddressesOf(port)}
           [] field = "prefix_length" -> {a[2] : a \in AddressesOf(port)}
           [] field = "mtu" -> {ReportedMtu(port)}
           [] OTHER -> {port[field]}

\* What intent wants of an entity, an interface or a neighbour.
Wanted ==
    [entity \in DOMAIN check.desired.interfaces \cup DOMAIN check.desired.sessions |->
        IF entity \in DOMAIN check.desired.interfaces THEN check.desired.interfaces[entity]
        ELSE check.desired.sessions[entity]]

\* A report tells what the device had and intent lacked or wanted, however the answers
\* were cut up: each item names a value the device was found to have, a value intent
\* sets that was not found has an item, and so has what somebody put on an entity that
\* intent does not know, the protected interfaces aside.
ReportTellsTheDevice ==
    Compared =>
        /\ \A item \in report.items :
              /\ item.actual \in Found(item.entity, item.field)
              /\ item.actual # item.desired
        /\ \A entity \in DOMAIN Wanted : \A field \in DOMAIN Wanted[entity] :
              Wanted[entity][field] \notin Found(entity, field) \cup {Unset} =>
                  \E item \in report.items :
                      item.entity = entity /\ item.field = field /\ ~item.undesired
        /\ \A value \in Values(read) :
              value[1] \notin DOMAIN Wanted \cup InterfaceSpec.protected =>
                  \/ value[3] \in {Unset, DefaultMtu}
                  \/ \E item \in report.items :
                        item.entity = value[1] /\ item.field = value[2] /\ item.undesired

\* What a deploy leaves behind.  Nobody having edited the device since its SET, its
\* verification finds no value missing or wrong, but for what a merge cannot take away:
\* a value in a field intent leaves unset, or a second address.
DeployConverges ==
    Compared /\ check.verifies /\ ~disturbed =>
        \A item \in {x \in report.items : ~x.undesired} :
            \/ item.desired = Unset
            \/ /\ item.field \in {"ip_address", "prefix_length"}
               /\ Cardinality(read.interface[item.entity].addresses) > 1

\* diff.py:45: no phantom.  What a report calls too much, on an entity of intent or on
\* another, somebody put on the device: it is never a default the device has by itself.
NothingOutOfThinAir ==
    Compared =>
        \A item \in report.items :
            item.desired = Unset => <<item.entity, item.field, item.actual>> \in put

\* specs/009-scheduled-drift-response/spec.md:142: a scheduled repair touches only a
\* device with at least one difference a deploy can fix, a missing or mismatched value
\* intent sets.
RepairCanFix ==
    has_forward_drift =>
        \E item \in report.items : ~item.undesired /\ item.desired # Unset
============================================================================
