------------------------------- MODULE MCVlan -------------------------------
(* Small systems on which TLC checks VlanTermination. *)
EXTENDS VlanRefinement

CONSTANTS
  l1, l2, v1, v2,
  Shape         \* which of the systems below

\* "tagged":    v1 on VLAN 10 over l1
\* "untagged":  v1 untagged over l1
\* "mixed":     v1 on VLAN 10 over l1, v2 untagged over l2
\* "any":       v1 on VLAN 10 over l1, and every kind of VLANID to change to
\* "shared":    v1 on VLAN 10 and v2 on VLAN 20, both over l1
MCVlans == IF Shape \in {"mixed", "shared"} THEN {v1, v2} ELSE {v1}
MCLinks == IF Shape = "mixed" THEN {l1, l2} ELSE {l1}

\* The interfaces are named after what they carry; "spare" is a second name for v1.
MCNames == {"erouter0", "spare", "voip0", "untagged0"}

MCVlanIds ==
  CASE Shape = "tagged"   -> {0, 10, 20}
    [] Shape = "any"      -> {-1, 0, 10, 20}
    [] Shape = "shared"   -> {10, 20}
    [] Shape = "untagged" -> {0, 10}
    [] Shape = "mixed"    -> {0, 10}

MCPsmId ==
  [v \in MCVlans |->
     CASE Shape = "untagged" -> 0
       [] v = v2 -> IF Shape = "mixed" THEN 0 ELSE 20
       [] OTHER -> 10]

MCPsmName == [v \in MCVlans |-> IF v = v1 THEN "erouter0" ELSE "voip0"]
MCPsmLower == [v \in MCVlans |-> IF v = v2 /\ Shape = "mixed" THEN l2 ELSE l1]
MCLinkName == [l \in MCLinks |-> IF l = l1 THEN "untagged0" ELSE "voip0"]
MCMarkingLink == MCPsmLower
MCBase == [v \in MCVlans |-> "untagged0"]
MCRollbackName == [v \in MCVlans |-> "spare"]

\* Each entry and each link has a path of its own.
MCPaths == {"vlan1", "vlan2", "link1", "link2"}
MCVlanPath == [v \in MCVlans |-> IF v = v1 THEN "vlan1" ELSE "vlan2"]
MCLinkPath == [l \in MCLinks |-> IF l = l1 THEN "link1" ELSE "link2"]
=============================================================================
