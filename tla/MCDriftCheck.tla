---------------------------- MODULE MCDriftCheck ----------------------------
(***************************************************************************)
(* Small instances of DriftCheck for TLC: one fabric port, the management  *)
(* interface and one BGP neighbour.                                        *)
(***************************************************************************)
EXTENDS DriftCheck

TwoAddresses == {<<"10.0.0.1", "31">>, <<"10.0.0.9", "24">>}

Interface(description, ip_address, prefix_length, enabled, mtu) ==
    [description |-> description, ip_address |-> ip_address, prefix_length |-> prefix_length,
     enabled |-> enabled, mtu |-> mtu]

\* An interface of intent: with and without each attribute, and the address without a
\* prefix length that is not rendered.
IntendedInterfaces ==
    {Interface("uplink", "10.0.0.1", "31", "enable", "9214"),
     Interface("uplink", Unset, Unset, "disable", Unset),
     Interface(Unset, "10.0.0.1", "31", "enable", Unset),
     Interface(Unset, Unset, Unset, "enable", "9214"),
     Interface("uplink", "10.0.0.1", Unset, "enable", Unset)}

IntendedSessions ==
    {[peer_asn |-> "65001", peer_group |-> Unset, enabled |-> "enable"],
     [peer_asn |-> "65001", peer_group |-> "underlay", enabled |-> "disable"]}

\* A function of no or one entry.
Optional(name, values) == {<<>>} \cup [{name} -> values]

SmallIntents ==
    [interfaces : Optional("ethernet-1/1", IntendedInterfaces), sessions : Optional("10.0.0.0", IntendedSessions)]
============================================================================
