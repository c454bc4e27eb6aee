----------------------------- MODULE ParamProofs -----------------------------
(***************************************************************************)
(* Theorems about MacAddress, for every base address, width and offset,    *)
(* and about ParamSets, for any tables, offsets and requests.              *)
(***************************************************************************)
EXTENDS ParamSets, TLAPS

-----------------------------------------------------------------------------
(* Addresses *)

LEMMA WordSpanBounds == WordSpan \in Nat \ {0} /\ MacSpan <= WordSpan
  <1> DEFINE M == MacSpan
             S == Surplus
  <1>1. M \in Nat \ {0} /\ S \in Nat \ {0}
    BY MacAssumption
  <1>2. M * S \in Nat /\ M * S >= M
    BY <1>1
  <1> QED
    BY <1>1, <1>2 DEF WordSpan

LEMMA SumInRange ==
  ASSUME NEW offset \in Int, InRange(offset)
  PROVE  Sum(offset) = Base + offset
  <1>1. Base + offset \in 0..(WordSpan - 1)
    BY WordSpanBounds, MacAssumption DEF InRange
  <1> QED
    BY <1>1, WordSpanBounds DEF Sum

\* EthLink_GetMacAddr and Vlan_SetMacAddr compute the same address, the base plus the
\* offset, for every offset that stays among the addresses, a negative one included.
THEOREM MacsAgree ==
  ASSUME NEW offset \in Int, InRange(offset)
  PROVE  LinkMac(offset) = Base + offset /\ VlanMac(offset) = Base + offset
  <1>1. Sum(offset) = Base + offset
    BY SumInRange
  <1>2. Base + offset \in Int /\ 0 <= Base + offset /\ Base + offset < MacSpan
    BY MacAssumption DEF InRange
  <1>3. LinkMac(offset) = Base + offset
    BY <1>1, <1>2 DEF LinkMac
  <1>4. VlanMac(offset) = Base + offset
    BY <1>1, <1>2, MacAssumption DEF VlanMac
  <1> QED
    BY <1>3, <1>4

\* Links with different offsets get different addresses, whichever of the two places
\* computes them.
THEOREM MacsDiffer ==
  ASSUME NEW a \in Int, NEW b \in Int, a # b, InRange(a), InRange(b)
  PROVE  LinkMac(a) # LinkMac(b) /\ VlanMac(a) # VlanMac(b) /\ LinkMac(a) # VlanMac(b)
  BY MacsAgree, MacAssumption

LEMMA RemainderUnique ==
  ASSUME NEW m \in Nat \ {0}, NEW q \in Int, NEW r \in 0..(m - 1)
  PROVE  (m * q + r) % m = r
  <1> DEFINE x == m * q + r
             y == x % m
             k == x \div m
  <1>1. m * q \in Int /\ x \in Int
    OBVIOUS
  <1>2. y \in 0..(m - 1) /\ k \in Int /\ x = m * k + y
    BY <1>1
  <1>3. m * (q - k) = y - r
    BY <1>1, <1>2
  <1>4. q - k < 1
    BY <1>2, <1>3
  <1>5. q - k > -1
    BY <1>2, <1>3
  <1>6. q = k
    BY <1>2, <1>4, <1>5
  <1> QED
    BY <1>1, <1>2, <1>6

LEMMA Division ==
  ASSUME NEW w \in Nat \ {0}, NEW x \in Int
  PROVE  \E q \in Int, r \in 0..(w - 1) : x = w * q + r /\ x % w = r
  <1>1. \E q \in Int, r \in 0..(w - 1) : x = w * q + r /\ x \div w = q /\ x % w = r
    OBVIOUS
  <1> QED
    BY <1>1

LEMMA Regroup ==
  ASSUME NEW m \in Int, NEW s \in Int, NEW q \in Int, NEW j \in Int, NEW t \in Int
  PROVE  (m * s) * q + (m * j + t) = m * (s * q + j) + t
  <1>1. (m * s) * q = m * (s * q)
    OBVIOUS
  <1>2. s * q \in Int /\ m * (s * q + j) = m * (s * q) + m * j
    OBVIOUS
  <1>3. m * (s * q) \in Int /\ m * j \in Int
    OBVIOUS
  <1> QED
    BY <1>1, <1>2, <1>3

LEMMA RemainderOfRemainder ==
  ASSUME NEW m \in Nat \ {0}, NEW s \in Nat \ {0}, NEW x \in Int
  PROVE  (x % (m * s)) % m = x % m
  <1>1. m * s \in Nat \ {0}
    OBVIOUS
  <1>2. PICK q \in Int, r \in 0..(m * s - 1) : x = (m * s) * q + r /\ x % (m * s) = r
    BY <1>1, Division
  <1>3. r \in Int
    BY <1>1
  <1>4. PICK j \in Int, t \in 0..(m - 1) : r = m * j + t /\ r % m = t
    BY <1>3, Division
  <1>5. x = m * (s * q + j) + t
    BY <1>2, <1>4, Regroup
  <1>6. s * q + j \in Int
    OBVIOUS
  <1>7. x % m = t
    BY <1>5, <1>6, RemainderUnique
  <1> QED
    BY <1>2, <1>4, <1>7

\* A tagged device's address is base plus offset modulo the number of addresses, also
\* for an offset that leaves them.
THEOREM VlanMacWraps ==
  ASSUME NEW offset \in Int
  PROVE  VlanMac(offset) = (Base + offset) % MacSpan
  <1>1. Base + offset \in Int
    BY MacAssumption
  <1> QED
    BY <1>1, MacAssumption, RemainderOfRemainder DEF VlanMac, Sum, WordSpan

-----------------------------------------------------------------------------
(* Requests of several sets *)

\* Every row keeps its fields.
Rows ==
  /\ DOMAIN link = Links
  /\ \A l \in Links : {"Enable", "MACAddress"} \subseteq DOMAIN link[l]
  /\ DOMAIN vlan = Vlans
  /\ \A v \in Vlans : /\ {"Enable", "Name"} \subseteq DOMAIN vlan[v]
                      /\ vlan[v].Enable \in BOOLEAN
  /\ DOMAIN making = Links /\ DOMAIN linkMac = Links
  /\ DOMAIN vlanMac = Vlans /\ DOMAIN found = Links
  /\ launched \in [Vlans -> {"none", "Enable", "Disable"}]

\* An entry that reads enabled has its worker, or is about to be rolled back.
Launching ==
  \A v \in Vlans : vlan[v].Enable =>
    launched[v] = "Enable" \/ (bus = "refused" /\ <<"vlan", v>> \in touched)

Offset(l) == Base + MacAddrOffSet[l]

\* A thread that is to make an untagged device finds the address it computed; and tagged devices have the address of their link.
Addressed ==
  \A l \in Links : InRange(MacAddrOffSet[l]) =>
    /\ making[l] => link[l].MACAddress = Offset(l)
    /\ \A v \in Vlans : vlanMac[v].link = l => vlanMac[v].mac = Offset(l)

-----------------------------------------------------------------------------

LEMMA RowsInit == Init => Rows
BY RowAssumption DEF Init, Rows

LEMMA RowsStep == Rows /\ [Next]_vars => Rows'
<1> SUFFICES ASSUME Rows, [Next]_vars PROVE Rows'
  OBVIOUS
<1> USE DEF Rows
<1>1. ASSUME NEW l \in Links, NEW s \in LinkSets, SetLinkStored(l, s) PROVE Rows'
  BY <1>1 DEF SetLinkStored, Handle, deviceVars
<1>2. ASSUME NEW l \in Links, NEW s \in LinkSets, SetRefresh(l, s) PROVE Rows'
  BY <1>2 DEF SetRefresh, Handle, deviceVars, tables
<1>3. ASSUME NEW l \in Links, NEW s \in LinkSets, SetLinkEnable(l, s) PROVE Rows'
  BY <1>3 DEF SetLinkEnable, Handle, deviceVars
<1>4. ASSUME NEW v \in Vlans, NEW s \in VlanSets, SetVlanStored(v, s) PROVE Rows'
  BY <1>4 DEF SetVlanStored, VlanStored, Handle, deviceVars
<1>5. ASSUME NEW v \in Vlans, NEW s \in VlanSets, SetVlanEnable(v, s) PROVE Rows'
  <2>1. s.value \in BOOLEAN
    BY <1>5, RowAssumption DEF SetVlanEnable
  <2>2. launched' \in [Vlans -> {"none", "Enable", "Disable"}]
    BY <1>5 DEF SetVlanEnable
  <2>3. UNCHANGED <<link, deviceVars>> /\ vlan' = [vlan EXCEPT ![v].Enable = s.value]
    BY <1>5 DEF SetVlanEnable, Handle
  <2> QED
    BY <2>1, <2>2, <2>3 DEF deviceVars
<1>6. ASSUME NEW table, NEW row, NEW s, Refuse(table, row, s) PROVE Rows'
  BY <1>6 DEF Refuse, Handle, deviceVars, tables
<1>7. CASE Commit
  BY <1>7 DEF Commit, deviceVars, tables
<1>8. CASE Rollback
  BY <1>8 DEF Rollback, VlanRollback, deviceVars
<1>9. ASSUME NEW l \in Links, NEW uses \in BOOLEAN, GetMacAddr(l, uses) PROVE Rows'
  BY <1>9 DEF GetMacAddr
<1>10. ASSUME NEW l \in Links, MakeUntagged(l) \/ MakeWithoutMac(l) PROVE Rows'
  BY <1>10 DEF MakeUntagged, MakeWithoutMac, tables, history
<1>11. ASSUME NEW l \in Links, Refresh(l) PROVE Rows'
  BY <1>11 DEF Refresh, tables, history
<1>12. ASSUME NEW v \in Vlans, SetMacAddr(v) PROVE Rows'
  BY <1>12 DEF SetMacAddr, tables, history
<1>13. CASE UNCHANGED vars
  BY <1>13 DEF vars, tables, deviceVars, history
<1> HIDE DEF Rows
<1> QED
  BY <1>1, <1>2, <1>3, <1>4, <1>5, <1>6, <1>7, <1>8, <1>9, <1>10, <1>11, <1>12, <1>13
  DEF Next

-----------------------------------------------------------------------------
(* Enable and the workers *)

LEMMA LaunchingStep == Rows /\ Launching /\ [Next]_vars => Launching'
<1> SUFFICES ASSUME Rows, Launching, [Next]_vars PROVE Launching'
  OBVIOUS
<1> USE DEF Launching
<1>1. ASSUME NEW table, NEW row, NEW accepted, Handle(table, row, accepted)
      PROVE  /\ bus # "refused" /\ touched \subseteq touched'
             /\ <<table, row>> \in touched' /\ (~accepted => bus' = "refused")
  BY <1>1 DEF Handle
<1>2. ASSUME NEW l \in Links, NEW s \in LinkSets,
             SetLinkStored(l, s) \/ SetRefresh(l, s) \/ SetLinkEnable(l, s)
      PROVE  Launching'
  BY <1>1, <1>2 DEF SetLinkStored, SetRefresh, SetLinkEnable, tables
<1>3. ASSUME NEW v \in Vlans, NEW s \in VlanSets, SetVlanStored(v, s) PROVE Launching'
  BY <1>1, <1>3 DEF SetVlanStored, VlanStored, Rows
<1>4. ASSUME NEW v \in Vlans, NEW s \in VlanSets, SetVlanEnable(v, s) PROVE Launching'
  <2>1. vlan' = [vlan EXCEPT ![v].Enable = s.value]
    BY <1>4 DEF SetVlanEnable
  <2>2. vlan'[v].Enable = s.value /\ \A w \in Vlans \ {v} : vlan'[w] = vlan[w]
    BY <2>1 DEF Rows
  <2>3. CASE s.value = vlan[v].Enable /\ Handle("vlan", v, TRUE) /\ UNCHANGED launched
    BY <1>1, <2>2, <2>3
  <2>4. CASE Handle("vlan", v, TRUE)
             /\ launched' = [launched EXCEPT ![v] = IF s.value THEN "Enable" ELSE "Disable"]
    BY <1>1, <2>2, <2>4 DEF Rows
  <2>5. CASE Handle("vlan", v, FALSE) /\ UNCHANGED launched
    BY <1>1, <2>2, <2>5
  <2> QED
    BY <1>4, <2>3, <2>4, <2>5 DEF SetVlanEnable
<1>5. ASSUME NEW table, NEW row, NEW s, Refuse(table, row, s) PROVE Launching'
  BY <1>1, <1>5 DEF Refuse, tables
<1>6. CASE Commit
  BY <1>6 DEF Commit, tables
<1>7. CASE Rollback
  BY <1>7 DEF Rollback, VlanRollback, Rows
<1>8. ASSUME NEW l \in Links, NEW uses \in BOOLEAN, GetMacAddr(l, uses) PROVE Launching'
  BY <1>8 DEF GetMacAddr, busVars
<1>9. ASSUME NEW l \in Links, MakeUntagged(l) \/ MakeWithoutMac(l) \/ Refresh(l)
      PROVE Launching'
  BY <1>9 DEF MakeUntagged, MakeWithoutMac, Refresh, tables, busVars, history
<1>10. ASSUME NEW v \in Vlans, SetMacAddr(v) PROVE Launching'
  BY <1>10 DEF SetMacAddr, tables, busVars, history
<1>11. CASE UNCHANGED vars
  BY <1>11 DEF vars, tables, busVars, history
<1> HIDE DEF Launching
<1> QED
  BY <1>2, <1>3, <1>4, <1>5, <1>6, <1>7, <1>8, <1>9, <1>10, <1>11 DEF Next

\* Where nothing is enabled from PSM, an entry that reads enabled between requests has
\* had its worker started last (Vlan_SetParamBoolValue, Vlan_Rollback).
THEOREM EnableIsLaunched ==
  ASSUME \A t \in PsmVlan : \A v \in Vlans : t[v].Enable = FALSE
  PROVE  Spec => []EnabledIsLaunched
<1>1. Init => Rows /\ Launching
  BY RowsInit DEF Init, Launching
<1>2. Rows /\ Launching /\ [Next]_vars => Rows' /\ Launching'
  BY RowsStep, LaunchingStep
<1>3. Launching => EnabledIsLaunched
  BY DEF Launching, EnabledIsLaunched
<1> QED
  BY <1>1, <1>2, <1>3, PTL DEF Spec

-----------------------------------------------------------------------------
(* Addresses *)

LEMMA AddressedInit == Init => Addressed
BY ParamAssumption DEF Init, Addressed

LEMMA AddressedStep == Rows /\ Addressed /\ [Next]_vars => Addressed'
<1> SUFFICES ASSUME Rows, Addressed, [Next]_vars PROVE Addressed'
  OBVIOUS
<1> USE DEF Addressed
<1>1. ASSUME NEW l \in Links, NEW s \in LinkSets, SetLinkStored(l, s) PROVE Addressed'
  <2>1. UNCHANGED <<making, vlanMac>>
    BY <1>1 DEF SetLinkStored, Handle, deviceVars
  <2>2. link' = [link EXCEPT ![l][s.param] = s.value]
    BY <1>1 DEF SetLinkStored
  <2>3. \A m \in Links : link'[m].MACAddress = link[m].MACAddress
    BY <2>2, ReadOnlyAssumption DEF Rows
  <2> QED
    BY <2>1, <2>3 DEF Offset
<1>2. ASSUME NEW l \in Links, NEW s \in LinkSets, SetRefresh(l, s) PROVE Addressed'
  BY <1>2 DEF SetRefresh, Handle, deviceVars, tables, Offset
<1>3. ASSUME NEW l \in Links, NEW s \in LinkSets, SetLinkEnable(l, s) PROVE Addressed'
  <2>1. UNCHANGED <<making, vlanMac>>
    BY <1>3 DEF SetLinkEnable, Handle, deviceVars
  <2>2. \A m \in Links : link'[m].MACAddress = link[m].MACAddress
    BY <1>3 DEF SetLinkEnable, Rows
  <2> QED
    BY <2>1, <2>2 DEF Offset
<1>4. ASSUME NEW v \in Vlans, NEW s \in VlanSets, SetVlanStored(v, s) \/ SetVlanEnable(v, s)
      PROVE  Addressed'
  <2> UNCHANGED <<link, making, vlanMac>>
    BY <1>4 DEF SetVlanStored, SetVlanEnable, Handle, deviceVars
  <2> QED
    BY DEF Offset
<1>5. ASSUME NEW table, NEW row, NEW s, Refuse(table, row, s) PROVE Addressed'
  BY <1>5 DEF Refuse, Handle, deviceVars, tables, Offset
<1>6. CASE Commit \/ Rollback
  BY <1>6 DEF Commit, Rollback, deviceVars, tables, Offset
<1>7. ASSUME NEW l \in Links, NEW uses \in BOOLEAN, GetMacAddr(l, uses) PROVE Addressed'
  <2>1. MacAddrOffSet[l] \in Int
    BY ParamAssumption
  <2>2. link'[l].MACAddress = LinkMac(MacAddrOffSet[l])
    BY <1>7 DEF GetMacAddr, Rows
  <2>3. InRange(MacAddrOffSet[l]) => link'[l].MACAddress = Offset(l)
    BY <2>1, <2>2, MacsAgree DEF Offset
  <2>4. \A m \in Links \ {l} : link'[m] = link[m] /\ making'[m] = making[m]
    BY <1>7 DEF GetMacAddr, Rows
  <2>5. UNCHANGED vlanMac
    BY <1>7 DEF GetMacAddr
  <2> QED
    BY <2>3, <2>4, <2>5 DEF Offset
<1>8. ASSUME NEW l \in Links, MakeUntagged(l) PROVE Addressed'
  <2>1. UNCHANGED <<link, vlanMac>> /\ making' = [making EXCEPT ![l] = FALSE]
    BY <1>8 DEF MakeUntagged, tables, history
  <2>2. \A m \in Links : making'[m] => making[m]
    BY <2>1 DEF Rows
  <2> QED
    BY <2>1, <2>2 DEF Offset
<1>9. ASSUME NEW l \in Links, MakeWithoutMac(l) \/ Refresh(l) PROVE Addressed'
  BY <1>9 DEF MakeWithoutMac, Refresh, tables, history, Offset
<1>10. ASSUME NEW v \in Vlans, SetMacAddr(v) PROVE Addressed'
  <2>1. UNCHANGED <<link, making>>
    BY <1>10 DEF SetMacAddr, tables, history
  <2>2. \A w \in Vlans \ {v} : vlanMac'[w] = vlanMac[w]
    BY <1>10 DEF SetMacAddr, Rows
  <2>3. ASSUME NEW l \in Links, InRange(MacAddrOffSet[l]), vlanMac'[v].link = l
        PROVE  vlanMac'[v].mac = Offset(l)
    <3>1. MacAddrOffSet[l] \in Int /\ l # 0
      BY ParamAssumption
    <3>2. vlanMac'[v] = [link |-> LowerLink(v), mac |-> VlanMac(MacAddrOffSet[LowerLink(v)])]
          \/ vlanMac'[v] = [link |-> 0, mac |-> NoMac]
      BY <1>10 DEF SetMacAddr, Rows
    <3> QED
      BY <2>3, <3>1, <3>2, MacsAgree DEF Offset
  <2> QED
    BY <2>1, <2>2, <2>3 DEF Offset
<1>11. CASE UNCHANGED vars
  BY <1>11 DEF vars, tables, deviceVars, history, Offset
<1> HIDE DEF Addressed
<1> QED
  BY <1>1, <1>2, <1>3, <1>4, <1>5, <1>6, <1>7, <1>8, <1>9, <1>10, <1>11 DEF Next

\* The step relation of AddressOfOffset.
AddressStep ==
  \A l \in Links : InRange(MacAddrOffSet[l]) =>
    /\ linkMac'[l] \in {linkMac[l], NoMac, Base + MacAddrOffSet[l]}
    /\ \A v \in Vlans : vlanMac'[v].link = l => vlanMac'[v].mac = Base + MacAddrOffSet[l]

LEMMA AddressStepHolds == Rows /\ Addressed /\ Addressed' /\ [Next]_vars => AddressStep
<1> SUFFICES ASSUME Rows, Addressed, Addressed', [Next]_vars PROVE AddressStep
  OBVIOUS
<1>1. ASSUME NEW l \in Links, InRange(MacAddrOffSet[l])
      PROVE  \A v \in Vlans : vlanMac'[v].link = l => vlanMac'[v].mac = Base + MacAddrOffSet[l]
  BY <1>1 DEF Addressed, Offset
<1>2. \/ UNCHANGED linkMac
      \/ \E l \in Links : MakeUntagged(l) \/ MakeWithoutMac(l)
  BY DEF Next, SetLinkStored, SetRefresh, SetLinkEnable, SetVlanStored, SetVlanEnable,
         Refuse, Handle, Commit, Rollback, GetMacAddr, Refresh, SetMacAddr, vars, deviceVars
<1>3. ASSUME NEW l \in Links, NEW m \in Links, InRange(MacAddrOffSet[l]),
             MakeUntagged(m) \/ MakeWithoutMac(m)
      PROVE  linkMac'[l] \in {linkMac[l], NoMac, Base + MacAddrOffSet[l]}
  BY <1>3 DEF MakeUntagged, MakeWithoutMac, Rows, Addressed, Offset
<1> QED
  BY <1>1, <1>2, <1>3 DEF AddressStep

\* Untagged and tagged devices are made with the base address plus the offset of their
\* link, for every offset that stays among the addresses (EthLink_GetMacAddr,
\* EthLink_CreateUnTaggedInterface, Vlan_SetMacAddr).
THEOREM AddressIsOfOffset == Spec => AddressOfOffset
<1>1. Init => Rows /\ Addressed
  BY RowsInit, AddressedInit
<1>2. Rows /\ Addressed /\ [Next]_vars => Rows' /\ Addressed'
  BY RowsStep, AddressedStep
<1>3. Rows /\ Addressed /\ Addressed' /\ [Next]_vars => AddressStep
  BY AddressStepHolds
<1>4. AddressOfOffset <=> [][AddressStep]_vars
  BY DEF AddressOfOffset, AddressStep
<1> QED
  BY <1>1, <1>2, <1>3, <1>4, PTL DEF Spec

=============================================================================
