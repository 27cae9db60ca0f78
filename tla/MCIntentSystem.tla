--------------------------- MODULE MCIntentSystem ---------------------------
(***************************************************************************)
(* A small instance of IntentSystem for TLC: a VRF, two devices, an        *)
(* interface with its address, and a session with its shadow group.        *)
(***************************************************************************)
EXTENDS IntentSystem

CONSTANT dcfabric

TwoValues == 1..2

leaf == <<"DcimDevice", "leaf1", "">>
spine == <<"DcimDevice", "spine1", "">>
other == <<"DcimDevice", "core1", "">>
port == <<"InterfacePhysical", "e1", "leaf1">>
shadow == <<"RoutingBGPPeerGroup", "underlay@leaf1", "">>
session == <<"RoutingBGPSession", "leaf1-spine1", "">>
v4 == <<"IpamIPAddress", "10.0.0.1/31", "">>
v6 == <<"IpamIPAddress", "fd00::1/127", "">>

SmallIds == {DefaultVrf, leaf, spine, other, port, shadow, session, v4, v6}
TheirDevices == {other}
Asked == {leaf}
WithoutColon == {v4}

SeedItem(id, value, use_case, needs, wants, ips) ==
    [id |-> id, value |-> value, use_case |-> use_case, needs |-> needs, wants |-> wants, ips |-> ips]

\* A version of the data gives every record its value, and the interface its address.
Version(value, address) ==
    [valid |-> TRUE,
     sections |-> <<SeedItem(DefaultVrf, value, Unset, {}, {}, {}),
                    SeedItem(spine, value, dcfabric, {}, {}, {}),
                    SeedItem(leaf, value, dcfabric, {}, {}, {}),
                    SeedItem(port, value, Unset, {leaf}, {}, {address})>>,
     groups |-> {SeedItem(shadow, value, Unset, {leaf, DefaultVrf}, {}, {})},
     sessions |-> <<SeedItem(session, value, Unset, {leaf, DefaultVrf}, {shadow, v4}, {})>>]

\* One that lacks a required field of a device.
Incomplete == [Version(1, v4) EXCEPT !.valid = FALSE]

SmallDeclarations == {Version(1, v4), Version(2, v6), Incomplete}

\* What the theorems about the seed suppose of the data.
ASSUME DataAssumption ==
    \A data \in SmallDeclarations : SelfContained(data) /\ Unambiguous(data)
=============================================================================
