SPECIFICATION Spec
CONSTANTS
    Unset = Unset
    Intents <- SmallIntents
    Ports = {"ethernet-1/1", "mgmt0"}
    Descriptions = {"uplink", "by hand"}
    Addresses <- TwoAddresses
    Mtus = {"9214", "9232"}
    Asns = {"65001", "65002"}
    Groups = {"underlay"}
    MaxEdits = 2
INVARIANT RepairCanFix
CHECK_DEADLOCK FALSE
