----------------------------- MODULE MCParamSets -----------------------------
(* Two small tables on which TLC checks ParamSets. *)
EXTENDS ParamSets

\* 8 addresses in words of 5 bits, and a link on either side of the base address.
MCMacAddrOffSet == [l \in Links |-> IF l = 1 THEN -1 ELSE 3]

MCPrefix == [b \in BaseInterfaces |-> IF b = "ptm0" THEN "ptm" ELSE "eth"]

MCLinkSets ==
  {[param |-> "Enable", value |-> TRUE], [param |-> "X_RDK_Refresh", value |-> TRUE],
   [param |-> "X_RDK_BaseInterface", value |-> "eth1"], [param |-> "Unknown", value |-> 0]}

MCVlanSets ==
  {[param |-> "Enable", value |-> TRUE], [param |-> "Enable", value |-> FALSE],
   [param |-> "LowerLayers", value |-> 2],
   [param |-> "Unknown", value |-> 0]}

\* The links are over "eth0" and "ptm0", and the VLAN entries over any base interface;
\* nothing is enabled, and the first entry has no link in LowerLayers.
MCPsmLink ==
  {[l \in Links |-> [Enable |-> FALSE, MACAddress |-> NoMac,
                     X_RDK_BaseInterface |-> IF l = 1 THEN "eth0" ELSE "ptm0"]]}

MCPsmVlan ==
  {[v \in Vlans |-> [Enable |-> FALSE, Name |-> "v", LowerLayers |-> v - 1,
                     X_RDK_BaseInterface |-> f[v]]] :
     f \in [Vlans -> BaseInterfaces]}
=============================================================================
