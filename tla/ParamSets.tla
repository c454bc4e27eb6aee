------------------------------ MODULE ParamSets ------------------------------
(***************************************************************************)
(* The parameters of Link.{i} and VLANTermination.{i} as clients set and   *)
(* read them (ethernet_dml.c, vlan_dml.c), and what the threads take from  *)
(* them: the address of a device, and the VLAN entry that a refresh of a   *)
(* link stands for.                                                        *)
(*                                                                         *)
(* A SetParameterValues request sets several parameters.  Each handler     *)
(* writes the entry at once.  Validate accepts everything and Commit does  *)
(* nothing; when a handler refuses, the bus rolls back the entries it has  *)
(* touched.  Devices are those of the build without a HAL.                 *)
(***************************************************************************)
EXTENDS MacAddress, Sequences, FiniteSets

CONSTANTS
  Links, Vlans,   \* rows of the two tables: 1..n
  MacAddrOffSet,  \* MacAddrOffSet[l], from PSM: the data model lets clients write it, but
                  \* plugin_main.c registers no EthLink_SetParamIntValue to take the set
  BaseInterfaces, \* names of base interfaces
  Prefix,         \* Prefix[b]: the first three characters of b
  LinkSets,       \* the sets clients ask of a link: [param |-> , value |-> ]
  VlanSets,       \* and of a VLAN entry
  PsmLink, PsmVlan,  \* the tables as they may be read from PSM
  NoMac,          \* the MACAddress of a link before it is computed
  Faults,         \* what may fail, out of {"spawn", "base"}
  MaxSets         \* bound on the number of sets

LinkStrings == {"Alias", "Name", "LowerLayers", "MACAddress", "X_RDK_BaseInterface"}
VlanStored == {"Alias", "Name", "LowerLayers", "X_RDK_BaseInterface",
               "VLANID", "LastChange", "TPID"}

ASSUME ParamAssumption ==
  /\ Links \subseteq Nat \ {0} /\ Vlans \subseteq Nat \ {0}
  /\ MacAddrOffSet \in [Links -> Int]
  /\ NoMac \notin Nat
  /\ Faults \subseteq {"spawn", "base"}
  /\ MaxSets \in Nat

\* The rows have the fields that are worked with, and Enable is a Boolean.
ASSUME RowAssumption ==
  /\ \A t \in PsmLink : /\ DOMAIN t = Links
                         /\ \A l \in Links : {"Enable", "MACAddress"} \subseteq DOMAIN t[l]
  /\ \A t \in PsmVlan : /\ DOMAIN t = Vlans
                         /\ \A v \in Vlans : /\ {"Enable", "Name"} \subseteq DOMAIN t[v]
                                             /\ t[v].Enable \in BOOLEAN
  /\ \A s \in VlanSets : s.param = "Enable" => s.value \in BOOLEAN

\* MACAddress is read-only in the data model (RdkVlanManager.xml 86-90): the bus library
\* refuses a set of it before EthLink_SetParamStringValue, which would store it.
ASSUME ReadOnlyAssumption == \A s \in LinkSets : s.param # "MACAddress"

VARIABLES
  link,      \* link[l]: the parameters of DML_ETHERNET
  vlan,      \* vlan[v]: the parameters of DML_VLAN
  bus,       \* "idle", in a "request", or in one that was "refused"
  touched,   \* the entries set in this request, as <<table, row>>
  sets,      \* number of sets so far
  making,    \* making[l]: a thread is between computing the address and using it
  linkMac,   \* linkMac[l]: the address of the untagged device of l
  vlanMac,   \* vlanMac[v]: the address of the tagged device of v, and its link
  found,     \* found[l]: the VLAN entry the last refresh of l stood for, 0: none
  launched,  \* launched[v]: what the last worker of v runs
  before     \* the tables when the request began, <<>> outside of a request
             \* (launched and before are history, read by the properties only)

tables == <<link, vlan>>
busVars == <<bus, touched, sets>>
deviceVars == <<making, linkMac, vlanMac, found>>
history == <<launched, before>>
vars == <<tables, busVars, deviceVars, history>>

-----------------------------------------------------------------------------
(* A request of the bus *)

\* One handler: it accepts the set and makes the tables as given, or refuses it.  The
\* first of a request has the tables of before in sight.
Handle(table, row, accepted) ==
  /\ bus \in {"idle", "request"} /\ sets < MaxSets
  /\ sets' = sets + 1
  /\ bus' = IF accepted THEN "request" ELSE "refused"
  /\ touched' = touched \cup {<<table, row>>}
  /\ before' = IF bus = "idle" THEN <<link, vlan>> ELSE before
  /\ UNCHANGED deviceVars

\* EthLink_SetParamStringValue, and PriorityTagging of EthLink_SetParamBoolValue.
SetLinkStored(l, s) ==
  /\ s.param \in LinkStrings \cup {"PriorityTagging"}
  /\ Handle("link", l, TRUE)
  /\ link' = [link EXCEPT ![l][s.param] = s.value]
  /\ UNCHANGED <<vlan, launched>>

\* X_RDK_Refresh of a link: an enabled one gets a thread, or the set is refused.
\* Nothing is stored: it reads FALSE.
SetRefresh(l, s) ==
  /\ s.param = "X_RDK_Refresh"
  /\ \/ Handle("link", l, TRUE)
     \/ "spawn" \in Faults /\ s.value /\ link[l].Enable /\ Handle("link", l, FALSE)
  /\ UNCHANGED <<tables, launched>>

\* Enable of a link: EthLink_Enable or EthLink_Disable runs in the bus thread, and what
\* it answers is not looked at.
SetLinkEnable(l, s) ==
  /\ s.param = "Enable"
  /\ Handle("link", l, TRUE)
  /\ link' = [link EXCEPT ![l].Enable = s.value]
  /\ UNCHANGED <<vlan, launched>>

\* The integer, unsigned and string parameters of a VLAN entry.
SetVlanStored(v, s) ==
  /\ s.param \in VlanStored
  /\ Handle("vlan", v, TRUE)
  /\ vlan' = [vlan EXCEPT ![v][s.param] = s.value]
  /\ UNCHANGED <<link, launched>>

\* Enable of a VLAN entry: a change is stored, and then a worker is started for it.
SetVlanEnable(v, s) ==
  /\ s.param = "Enable"
  /\ vlan' = [vlan EXCEPT ![v].Enable = s.value]
  /\ IF s.value = vlan[v].Enable
     THEN Handle("vlan", v, TRUE) /\ UNCHANGED launched
     ELSE \/ /\ Handle("vlan", v, TRUE)
             /\ launched' = [launched EXCEPT ![v] = IF s.value THEN "Enable" ELSE "Disable"]
          \/ /\ "spawn" \in Faults
             /\ Handle("vlan", v, FALSE)
             /\ UNCHANGED launched
  /\ UNCHANGED link

\* "Unsupported parameter": the strcmp chains end in FALSE.
Refuse(table, row, s) ==
  /\ s.param \notin {"Enable"} \cup (IF table = "link"
                                     THEN LinkStrings \cup {"PriorityTagging", "X_RDK_Refresh"}
                                     ELSE VlanStored)
  /\ Handle(table, row, FALSE)
  /\ UNCHANGED <<tables, launched>>

\* Validate answers TRUE, and Commit has nothing left to do.
Commit ==
  /\ bus = "request"
  /\ bus' = "idle" /\ touched' = {} /\ before' = <<>>
  /\ UNCHANGED <<tables, sets, deviceVars, launched>>

\* A mutant of VlanRollback: DML_VLAN_INIT is left out.
VlanRollbackName(v, entry) == [entry EXCEPT !.Name = "vlan"]

\* Vlan_Rollback: DML_VLAN_INIT and the default Name.  The other values stay.
VlanRollback(v, entry) == [entry EXCEPT !.Enable = FALSE, !.Name = "vlan"]

\* The bus rolls back each entry it has touched; EthLink_Rollback does nothing.
Rollback ==
  /\ bus = "refused"
  /\ bus' = "idle" /\ touched' = {} /\ before' = <<>>
  /\ vlan' = [v \in Vlans |-> IF <<"vlan", v>> \in touched THEN VlanRollback(v, vlan[v])
                              ELSE vlan[v]]
  /\ UNCHANGED <<link, sets, deviceVars, launched>>

-----------------------------------------------------------------------------
(* The address of a device.  Both reads of the base address may fail. *)

\* EthLink_GetMacAddr, in the getter of MACAddress or in a thread that is to make the
\* untagged device: the address goes into the entry.
GetMacAddr(l, uses) ==
  /\ uses => link[l].Enable /\ ~making[l]
  /\ link' = [link EXCEPT ![l].MACAddress = LinkMac(MacAddrOffSet[l])]
  /\ making' = [making EXCEPT ![l] = @ \/ uses]
  /\ UNCHANGED <<vlan, busVars, linkMac, vlanMac, found, launched, before>>

\* EthLink_CreateUnTaggedInterface makes the device with the address the entry has by
\* then ...
MakeUntagged(l) ==
  /\ making[l]
  /\ making' = [making EXCEPT ![l] = FALSE]
  /\ linkMac' = [linkMac EXCEPT ![l] = link[l].MACAddress]
  /\ UNCHANGED <<tables, busVars, vlanMac, found, history>>

\* ... and leaves it to the kernel when the base address cannot be read.
MakeWithoutMac(l) ==
  /\ "base" \in Faults /\ ~making[l] /\ link[l].Enable
  /\ linkMac' = [linkMac EXCEPT ![l] = NoMac]
  /\ UNCHANGED <<tables, busVars, making, vlanMac, found, history>>

\* Vlan_GetEthLinkMacOffSet: the link is the row LowerLayers names, if there is one.
LowerLink(v) == vlan[v].LowerLayers

\* Vlan_SetMacAddr: a base address that cannot be read, or a link that is not there,
\* leaves the device with the address of the kernel.
SetMacAddr(v) ==
  /\ launched[v] = "Enable"
  /\ \/ /\ LowerLink(v) \in Links
        /\ vlanMac' = [vlanMac EXCEPT ![v] = [link |-> LowerLink(v),
                                              mac |-> VlanMac(MacAddrOffSet[LowerLink(v)])]]
     \/ /\ "base" \in Faults \/ LowerLink(v) \notin Links
        /\ vlanMac' = [vlanMac EXCEPT ![v] = [link |-> 0, mac |-> NoMac]]
  /\ UNCHANGED <<tables, busVars, making, linkMac, found, history>>

-----------------------------------------------------------------------------
(* EthLink_GetVlanIdAndTPId *)

Alike(l, v) == Prefix[link[l].X_RDK_BaseInterface] = Prefix[vlan[v].X_RDK_BaseInterface]

\* A mutant of VlanOf: after a search in vain, the last entry looked at is taken.
VlanOfLast(l) ==
  LET like == {v \in Vlans : Alike(l, v)}
  IN  IF like = {} THEN Cardinality(Vlans) ELSE CHOOSE v \in like : \A w \in like : v <= w

\* The first entry whose base interface starts like that of l, or 0.
VlanOf(l) ==
  LET like == {v \in Vlans : Alike(l, v)}
  IN  IF like = {} THEN 0 ELSE CHOOSE v \in like : \A w \in like : v <= w

\* A refresh takes VLANId and TPId from that entry, and goes on with 0 without one.
Refresh(l) ==
  /\ link[l].Enable
  /\ found' = [found EXCEPT ![l] = VlanOf(l)]
  /\ UNCHANGED <<tables, busVars, making, linkMac, vlanMac, history>>

-----------------------------------------------------------------------------
Init ==
  /\ link \in PsmLink /\ vlan \in PsmVlan
  /\ bus = "idle" /\ touched = {} /\ sets = 0
  /\ making = [l \in Links |-> FALSE]
  /\ linkMac = [l \in Links |-> NoMac]
  /\ vlanMac = [v \in Vlans |-> [link |-> 0, mac |-> NoMac]]
  /\ found = [l \in Links |-> 0]
  /\ launched = [v \in Vlans |-> "none"]
  /\ before = <<>>

Next ==
  \/ \E l \in Links, s \in LinkSets : \/ SetLinkStored(l, s) \/ SetRefresh(l, s)
                                      \/ SetLinkEnable(l, s) \/ Refuse("link", l, s)
  \/ \E v \in Vlans, s \in VlanSets : \/ SetVlanStored(v, s) \/ SetVlanEnable(v, s)
                                      \/ Refuse("vlan", v, s)
  \/ Commit \/ Rollback
  \/ \E l \in Links : \/ \E uses \in BOOLEAN : GetMacAddr(l, uses)
                      \/ MakeUntagged(l) \/ MakeWithoutMac(l) \/ Refresh(l)
  \/ \E v \in Vlans : SetMacAddr(v)

Spec == Init /\ [][Next]_vars

-----------------------------------------------------------------------------
(* Properties *)

TypeOK ==
  /\ bus \in {"idle", "request", "refused"}
  /\ touched \subseteq ({"link"} \X Links) \cup ({"vlan"} \X Vlans)
  /\ sets \in 0..MaxSets
  /\ making \in [Links -> BOOLEAN]
  /\ found \in [Links -> Vlans \cup {0}]
  /\ launched \in [Vlans -> {"none", "Enable", "Disable"}]

\* The untagged device of a link and a tagged device above it are made with the address
\* that the base and the link's offset give, or with that of the kernel: neither a getter
\* of MACAddress nor a set of another parameter comes between computing the address into
\* the entry and using it (ethernet_apis.c 898, 1241-1298, vlan_apis.c 433-525).
AddressOfOffset ==
  [][\A l \in Links : InRange(MacAddrOffSet[l]) =>
       /\ linkMac'[l] \in {linkMac[l], NoMac, Base + MacAddrOffSet[l]}
       /\ \A v \in Vlans : vlanMac'[v].link = l => vlanMac'[v].mac = Base + MacAddrOffSet[l]]_vars

BaseInterfacesInUse ==
  {link[l].X_RDK_BaseInterface : l \in Links} \cup {vlan[v].X_RDK_BaseInterface : v \in Vlans}

\* Where the first three characters tell the base interfaces apart, a refresh of a link
\* takes VLANId and TPId from an entry over the same base interface, and goes without
\* only if there is none.
RefreshFindsOwn ==
  [][\A l \in Links :
       /\ found'[l] # found[l]
       /\ \A b, c \in BaseInterfacesInUse : Prefix[b] = Prefix[c] => b = c
       => LET above == {v \in Vlans : vlan[v].X_RDK_BaseInterface = link[l].X_RDK_BaseInterface}
          IN  IF found'[l] = 0 THEN above = {} ELSE found'[l] \in above]_vars

\* Between requests, the worker of an entry that reads enabled has been started, and no
\* other after it: an enable that was refused can be asked for again.
EnabledIsLaunched ==
  bus = "idle" => \A v \in Vlans : vlan[v].Enable => launched[v] = "Enable"

-----------------------------------------------------------------------------
(* What a comment of the code says, and the code does not do *)

\* "The CPE MUST NOT apply any of the specified changes without applying all of them"
\* (vlan_dml.c 54): a refused request leaves the tables as they were.
AllOrNone == [][bus = "refused" /\ bus' = "idle" => <<link, vlan>>' = before]_vars

\* A refresh takes VLANId and TPId from an entry over the base interface of the link,
\* whatever the names (ethernet_apis.c 1209 compares three characters).
RefreshFindsOver ==
  [][\A l \in Links : found'[l] \notin {found[l], 0} =>
       vlan[found'[l]].X_RDK_BaseInterface = link[l].X_RDK_BaseInterface]_vars
=============================================================================
