------------------------------ MODULE MCEthLink ------------------------------
(* Small systems on which TLC checks EthLink alone. *)
EXTENDS EthLink

CONSTANTS l1, l2

MCNames == {"untagged0", "voip0"}
MCLinkName == [l \in Links |-> IF l = l1 THEN "untagged0" ELSE "voip0"]
MCPaths == {"link1"}
MCLinkPath == [l \in Links |-> IF l = l1 THEN "link1" ELSE NoPath]
=============================================================================
