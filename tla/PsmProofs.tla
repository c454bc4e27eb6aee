----------------------------- MODULE PsmProofs -----------------------------
(* Theorems about PsmTables, for any number of entries, configurations and missing
   records. *)
EXTENDS PsmTables, SequenceTheorems, TLAPS

Records == [table : {"none", "vlan", "cfg"}, index : Int, field : VlanNames \cup {"none"}]

\* Each field of each entry is its own record or the default.
OwnTable(t) ==
  /\ t \in [1..vlanNumber -> [VlanNames -> Records]]
  /\ \A i \in 1..vlanNumber : \A f \in VlanNames :
       t[i][f] \in {Default, VlanRecord(i, f)}

\* The configurations collected so far are in the region, and in ascending order.
CfgsOfRegion ==
  /\ \A a \in 1..Len(cfgs) : cfgs[a] \in inRegion
  /\ \A a, b \in 1..Len(cfgs) : a < b => cfgs[a] < cfgs[b]
  /\ at = "cfgs" => \A a \in 1..Len(cfgs) : cfgs[a] < index

BeforeCfgs == {"vlanInit", "region", "cfgCount"}
BeforeVlans == BeforeCfgs \cup {"cfgs", "vlanCount"}

\* The inductive invariant, above TypeOK: a table is owned while it is filled, and
\* nothing it refers to changes once it is published.
Owned ==
  /\ at \in BeforeCfgs => cfgs = <<>> /\ index = 1
  /\ at \in BeforeVlans \cup {"vlans"} => VlanTer = NoTable
  /\ at = "vlans" => OwnTable(vlans)
  /\ VlanTer # NoTable => OwnTable(VlanTer)
  /\ CfgsOfRegion
  /\ hub4 => vlanNumber <= Len(cfgs)

-----------------------------------------------------------------------------

LEMMA VlanFieldsNamed ==
  /\ Len(VlanFields) = 8
  /\ \A k \in 1..8 : VlanFields[k] \in VlanNames
BY DEF VlanFields, VlanNames

LEMMA LinkFieldsLength == Len(LinkFields) = 7
BY DEF LinkFields

LEMMA Advances ==
  ASSUME NEW STATE fields, NEW n \in 1..8, Len(fields) = n,
         index \in Nat \ {0}, field \in 1..8,
         Advance(fields)
  PROVE  index' \in Nat \ {0} /\ field' \in 1..8
BY DEF Advance

\* Every variable keeps its type through the filling of both tables (PsmTables).
THEOREM PsmTypeCorrect == Spec => []TypeOK
<1> USE PsmAssumption
<1>1. Init => TypeOK
  BY DEF Init, TypeOK, Labels
<1>2. TypeOK /\ [Next]_vars => TypeOK'
  <2> SUFFICES ASSUME TypeOK, [Next]_vars PROVE TypeOK'
    OBVIOUS
  <2> USE DEF TypeOK, Labels, build, vlanTable, linkTable
  <2>1. CASE VlanInit
    BY <2>1 DEF VlanInit, Goto
  <2>2. CASE GetRegion
    BY <2>2 DEF GetRegion, Goto
  <2>3. CASE ReadCfgCount
    BY <2>3 DEF ReadCfgCount, Goto, Missing
  <2>4. CASE ReadCfgRegion
    <3> DEFINE C == 1..MaxCfgs
    <3>1. index \in C /\ cfgs \in Seq(C)
      BY <2>4 DEF ReadCfgRegion
    <3>2. cfgs' = cfgs \/ cfgs' = Append(cfgs, index)
      BY <2>4 DEF ReadCfgRegion
    <3>3. cfgs' \in Seq(C)
      <4> HIDE DEF C
      <4> QED
        BY <3>1, <3>2, AppendProperties
    <3>4. misses' \in 0..MaxMisses
      BY <2>4 DEF ReadCfgRegion, Missing
    <3> QED
      BY <2>4, <3>1, <3>3, <3>4 DEF ReadCfgRegion
  <2>5. CASE CfgsRead
    BY <2>5 DEF CfgsRead, Goto
  <2>6. CASE ReadVlanCount
    <3>1. Len(cfgs) \in Nat
      OBVIOUS
    <3>2. vlanNumber' \in 0..MaxVlans /\ misses' \in 0..MaxMisses
      BY <2>6, <3>1 DEF ReadVlanCount, Limit, Missing
    <3> QED
      BY <2>6, <3>2 DEF ReadVlanCount, Goto
  <2>7. CASE ReadVlanField
    <3>1. index' \in Nat \ {0} /\ field' \in 1..8
      BY <2>7, VlanFieldsNamed, Advances DEF ReadVlanField
    <3> QED
      BY <2>7, <3>1 DEF ReadVlanField, Missing
  <2>8. CASE PublishVlans
    BY <2>8 DEF PublishVlans, Goto
  <2>9. CASE EthInit
    BY <2>9 DEF EthInit, Goto
  <2>10. CASE ReadLinkCount
    BY <2>10 DEF ReadLinkCount, Goto, Missing
  <2>11. CASE ReadLinkField
    <3>1. index' \in Nat \ {0} /\ field' \in 1..8
      BY <2>11, LinkFieldsLength, Advances DEF ReadLinkField
    <3> QED
      BY <2>11, <3>1 DEF ReadLinkField, Missing
  <2>12. CASE PublishLinks
    BY <2>12 DEF PublishLinks, Goto
  <2>13. CASE UNCHANGED vars
    BY <2>13 DEF vars
  <2> QED
    BY <2>1, <2>2, <2>3, <2>4, <2>5, <2>6, <2>7, <2>8, <2>9, <2>10, <2>11, <2>12,
       <2>13 DEF Next
<1> QED
  BY <1>1, <1>2, PTL DEF Spec

-----------------------------------------------------------------------------

LEMMA RecordsTyped ==
  ASSUME TypeOK, NEW i \in 1..vlanNumber, NEW f \in VlanNames,
         hub4 => vlanNumber <= Len(cfgs)
  PROVE  Default \in Records /\ VlanRecord(i, f) \in Records
<1>1. Default \in Records
  BY DEF Default, Record, Records
<1>2. i \in Int
  BY DEF TypeOK
<1>3. CASE hub4 /\ f \in {"VLANId", "TPId"}
  <2>1. cfgs[i] \in 1..MaxCfgs
    <3>1. i \in 1..Len(cfgs)
      BY <1>3 DEF TypeOK
    <3> DEFINE C == 1..MaxCfgs
    <3>2. cfgs \in Seq(C)
      BY DEF TypeOK
    <3>3. cfgs[i] \in C
      <4> HIDE DEF C
      <4> QED
        BY <3>1, <3>2
    <3> QED
      BY <3>3
  <2>2. cfgs[i] \in Int
    BY <2>1, PsmAssumption
  <2> QED
    BY <1>1, <1>3, <2>2 DEF VlanRecord, Record, Records
<1>4. CASE ~ (hub4 /\ f \in {"VLANId", "TPId"})
  BY <1>1, <1>2, <1>4 DEF VlanRecord, Record, Records
<1> QED
  BY <1>3, <1>4

\* A field read or skipped leaves the table owned.
LEMMA FieldRead ==
  ASSUME TypeOK, Owned, ReadVlanField
  PROVE  OwnTable(vlans)'
<1> DEFINE f == VlanFields[field]
           r == VlanRecord(index, f)
<1>1. OwnTable(vlans)
  BY DEF Owned, ReadVlanField
<1>2. UNCHANGED <<hub4, cfgs, vlanNumber>>
  BY DEF ReadVlanField, build
<1>3. index \in 1..vlanNumber
  BY DEF ReadVlanField, TypeOK
<1>4. f \in VlanNames
  BY VlanFieldsNamed DEF TypeOK
<1>5. vlans' = vlans \/ vlans' = [vlans EXCEPT ![index][f] = r]
  BY DEF ReadVlanField
<1>6. CASE vlans' = vlans
  BY <1>1, <1>2, <1>6 DEF OwnTable, VlanRecord, Owned, ReadVlanField
<1>7. CASE vlans' = [vlans EXCEPT ![index][f] = r]
  <2>1. OwnTable(vlans)
    BY DEF Owned, ReadVlanField
  <2>2. r \in Records
    BY <1>3, <1>4, RecordsTyped DEF Owned
  <2> HIDE DEF f, r
  <2>3. vlans' \in [1..vlanNumber -> [VlanNames -> Records]]
    BY <1>3, <1>4, <1>7, <2>1, <2>2 DEF OwnTable
  <2>4. \A i \in 1..vlanNumber : \A g \in VlanNames :
          vlans'[i][g] = IF i = index /\ g = f THEN r ELSE vlans[i][g]
    BY <1>3, <1>4, <1>7, <2>1 DEF OwnTable
  <2>5. \A i \in 1..vlanNumber : \A g \in VlanNames :
          vlans'[i][g] \in {Default, VlanRecord(i, g)}
    BY <2>1, <2>4 DEF OwnTable, r
  <2> QED
    BY <1>2, <2>3, <2>5 DEF OwnTable, VlanRecord
<1> QED
  BY <1>5, <1>6, <1>7

LEMMA BlankOwned ==
  ASSUME TypeOK, TypeOK', Owned, ReadVlanCount, at' = "vlans"
  PROVE  OwnTable(vlans)'
<1>1. vlans' = Blank(vlanNumber', VlanNames)
  BY DEF ReadVlanCount, Goto
<1>2. Default \in Records
  BY DEF Default, Record, Records
<1> QED
  BY <1>1, <1>2 DEF OwnTable, Blank

\* A configuration is taken once, after those before it, and only if it is in the region.
LEMMA CfgRead ==
  ASSUME TypeOK, Owned, ReadCfgRegion
  PROVE  /\ CfgsOfRegion'
         /\ Len(cfgs') >= Len(cfgs)
<1> USE PsmAssumption
<1> DEFINE C == 1..MaxCfgs
<1>1. index \in C /\ cfgs \in Seq(C) /\ inRegion' = inRegion /\ index' = index + 1
  BY DEF ReadCfgRegion, TypeOK, build
<1>2. CfgsOfRegion /\ at = "cfgs"
  BY DEF Owned, ReadCfgRegion
<1>3. CASE cfgs' = cfgs
  BY <1>1, <1>2, <1>3 DEF CfgsOfRegion
<1>4. CASE cfgs' = Append(cfgs, index) /\ index \in inRegion
  <2>1. /\ Len(cfgs') = Len(cfgs) + 1
        /\ \A a \in 1..Len(cfgs) : cfgs'[a] = cfgs[a]
        /\ cfgs'[Len(cfgs) + 1] = index
    <3> HIDE DEF C
    <3> QED
      BY <1>1, <1>4, AppendProperties
  <2>2. Len(cfgs) \in Nat
    BY <1>1
  <2>3. \A a \in 1..Len(cfgs) : cfgs[a] \in Int /\ cfgs[a] < index
    BY <1>1, <1>2 DEF CfgsOfRegion
  <2>4. \A a \in 1..Len(cfgs') : a \in 1..Len(cfgs) \/ a = Len(cfgs) + 1
    BY <2>1, <2>2
  <2>5. \A a \in 1..Len(cfgs') : cfgs'[a] \in inRegion'
    BY <1>1, <1>2, <1>4, <2>1, <2>4 DEF CfgsOfRegion
  <2>6. \A a \in 1..Len(cfgs') : cfgs'[a] < index'
    <3> SUFFICES ASSUME NEW a \in 1..Len(cfgs') PROVE cfgs'[a] < index'
      OBVIOUS
    <3>1. index \in Int /\ index' = index + 1
      BY <1>1, PsmAssumption
    <3>2. CASE a \in 1..Len(cfgs)
      BY <2>1, <2>3, <3>1, <3>2
    <3>3. CASE a = Len(cfgs) + 1
      BY <2>1, <3>1, <3>3
    <3> QED
      BY <2>4, <3>2, <3>3
  <2>7. \A a, b \in 1..Len(cfgs') : a < b => cfgs'[a] < cfgs'[b]
    <3> SUFFICES ASSUME NEW a \in 1..Len(cfgs'), NEW b \in 1..Len(cfgs'), a < b
                 PROVE  cfgs'[a] < cfgs'[b]
      OBVIOUS
    <3>1. a \in 1..Len(cfgs)
      BY <2>1, <2>2, <2>4
    <3>2. CASE b \in 1..Len(cfgs)
      BY <1>2, <2>1, <3>1, <3>2 DEF CfgsOfRegion
    <3>3. CASE b = Len(cfgs) + 1
      BY <2>1, <2>3, <3>1, <3>3
    <3> QED
      BY <2>4, <3>2, <3>3
  <2> QED
    BY <2>1, <2>2, <2>5, <2>6, <2>7 DEF CfgsOfRegion
<1> QED
  BY <1>1, <1>3, <1>4 DEF ReadCfgRegion

-----------------------------------------------------------------------------

\* Owned is kept by each step: what a published table refers to does not change, and
\* the table being filled is owned (PsmTables).
THEOREM OwnedInvariant == Spec => []Owned
<1>1. Init => Owned
  BY DEF Init, Owned, CfgsOfRegion, BeforeCfgs, BeforeVlans
<1>2. TypeOK /\ TypeOK' /\ Owned /\ [Next]_vars => Owned'
  <2> SUFFICES ASSUME TypeOK, TypeOK', Owned, [Next]_vars PROVE Owned'
    OBVIOUS
  \* A step that leaves all that Owned is about, but perhaps at.
  <2>0. ASSUME UNCHANGED <<build, index, cfgs, vlanTable>>,
               at' \in BeforeCfgs => at \in BeforeCfgs,
               at' = "cfgs" => at \in BeforeCfgs \cup {"cfgs"},
               at' \in BeforeVlans \cup {"vlans"} => at \in BeforeVlans \cup {"vlans"},
               at' = "vlans" => at = "vlans"
        PROVE  Owned'
    <3>1. OwnTable(vlans) => OwnTable(vlans)'
      BY <2>0 DEF OwnTable, VlanRecord, build, vlanTable
    <3>2. OwnTable(VlanTer) => OwnTable(VlanTer)'
      BY <2>0 DEF OwnTable, VlanRecord, build, vlanTable
    <3>3. CfgsOfRegion'
      BY <2>0 DEF Owned, CfgsOfRegion, build
    <3> QED
      BY <2>0, <3>1, <3>2, <3>3 DEF Owned, NoTable, Default, Record, build, vlanTable
  <2>1. CASE VlanInit
    BY <2>0, <2>1 DEF VlanInit, Goto, BeforeCfgs, BeforeVlans
  <2>2. CASE GetRegion
    BY <2>0, <2>2 DEF GetRegion, Goto, BeforeCfgs, BeforeVlans
  <2>3. CASE ReadCfgCount
    BY <2>0, <2>3 DEF ReadCfgCount, Goto, BeforeCfgs, BeforeVlans
  <2>4. CASE ReadCfgRegion
    BY <2>4, CfgRead DEF ReadCfgRegion, Owned, BeforeCfgs, BeforeVlans, build, vlanTable,
       TypeOK
  <2>5. CASE CfgsRead
    BY <2>5 DEF CfgsRead, Goto, Owned, CfgsOfRegion, BeforeCfgs, BeforeVlans, build,
       vlanTable
  <2>6. CASE ReadVlanCount
    BY <2>6, BlankOwned DEF ReadVlanCount, Limit, Goto, Owned, CfgsOfRegion, BeforeCfgs,
       BeforeVlans, build, TypeOK
  <2>7. CASE ReadVlanField
    <3>1. OwnTable(vlans)'
      BY <2>7, FieldRead
    <3>2. CfgsOfRegion'
      BY <2>7 DEF ReadVlanField, Owned, CfgsOfRegion, build
    <3> QED
      BY <2>7, <3>1, <3>2 DEF ReadVlanField, Owned, BeforeCfgs, BeforeVlans, build
  <2>8. CASE PublishVlans
    <3>1. OwnTable(VlanTer)'
      BY <2>8 DEF PublishVlans, Goto, Owned, OwnTable, VlanRecord, build
    <3>2. CfgsOfRegion'
      BY <2>8 DEF PublishVlans, Goto, Owned, CfgsOfRegion, build
    <3> QED
      BY <2>8, <3>1, <3>2 DEF PublishVlans, Goto, Owned, BeforeCfgs, BeforeVlans, build
  <2>9. CASE EthInit
    BY <2>9 DEF EthInit, Goto, Owned, CfgsOfRegion, OwnTable, VlanRecord, BeforeCfgs,
       BeforeVlans, build, vlanTable
  <2>10. CASE ReadLinkCount
    BY <2>0, <2>10 DEF ReadLinkCount, Goto, BeforeCfgs, BeforeVlans
  <2>11. CASE ReadLinkField
    BY <2>11 DEF ReadLinkField, Owned, CfgsOfRegion, OwnTable, VlanRecord, BeforeCfgs,
       BeforeVlans, build, vlanTable
  <2>12. CASE PublishLinks
    BY <2>0, <2>12 DEF PublishLinks, Goto, BeforeCfgs, BeforeVlans
  <2>13. CASE UNCHANGED vars
    BY <2>0, <2>13 DEF vars, vlanTable
  <2> QED
    BY <2>1, <2>2, <2>3, <2>4, <2>5, <2>6, <2>7, <2>8, <2>9, <2>10, <2>11, <2>12,
       <2>13 DEF Next
<1> QED
  BY <1>1, <1>2, PsmTypeCorrect, PTL DEF Spec

\* A published VLAN entry holds its own records or defaults, whatever is missing from
\* the store (vlan_internal.c 211-289, 333-393).
THEOREM FieldsOwn == Spec => []VlanFieldsOwn
<1>1. Owned => VlanFieldsOwn
  BY VlanFieldsNamed DEF Owned, OwnTable, VlanFieldsOwn
<1> QED
  BY <1>1, OwnedInvariant, PTL

\* With _HUB4_PRODUCT_REQ_, VLAN ids come from configurations of the router's region,
\* each from one of its own (vlan_internal.c 162-176, 188-197).
THEOREM IdsFromRegion == Spec => []IdsOfRegion
<1>1. TypeOK /\ Owned => IdsOfRegion
  <2> SUFFICES ASSUME TypeOK, Owned, hub4, VlanTer # NoTable,
                      NEW i \in 1..vlanNumber, VlanTer[i]["VLANId"] # Default
               PROVE  /\ VlanTer[i]["VLANId"].table = "cfg"
                      /\ VlanTer[i]["VLANId"].index \in inRegion
                      /\ \A j \in 1..i - 1 :
                           VlanTer[j]["VLANId"].index # VlanTer[i]["VLANId"].index
    BY DEF IdsOfRegion
  <2>1. OwnTable(VlanTer) /\ vlanNumber <= Len(cfgs) /\ CfgsOfRegion
    BY DEF Owned
  <2>2. Len(cfgs) \in Nat /\ vlanNumber \in Nat
    BY DEF TypeOK
  <2>3. \A j \in 1..vlanNumber :
          VlanTer[j]["VLANId"] \in {Default, Record("cfg", cfgs[j], "VLANId")}
    BY <2>1 DEF OwnTable, VlanRecord, VlanNames
  <2>4. VlanTer[i]["VLANId"] = Record("cfg", cfgs[i], "VLANId")
    BY <2>3
  <2>5. \A j \in 1..Len(cfgs) : cfgs[j] \in inRegion /\ cfgs[j] \in Nat \ {0}
    BY <2>1, PsmAssumption DEF CfgsOfRegion, TypeOK
  <2>6. ASSUME NEW j \in 1..i - 1
        PROVE  VlanTer[j]["VLANId"].index # cfgs[i]
    <3>1. j \in 1..Len(cfgs) /\ i \in 1..Len(cfgs) /\ j < i /\ j \in 1..vlanNumber
      BY <2>1, <2>2
    <3>2. cfgs[j] < cfgs[i] /\ cfgs[j] \in Nat /\ cfgs[i] \in Nat \ {0}
      BY <2>1, <2>5, <3>1 DEF CfgsOfRegion
    <3>3. VlanTer[j]["VLANId"].index \in {0, cfgs[j]}
      BY <2>3, <3>1 DEF Default, Record
    <3> QED
      BY <3>2, <3>3
  <2>7. i \in 1..Len(cfgs)
    BY <2>1, <2>2
  <2> QED
    BY <2>4, <2>5, <2>6, <2>7 DEF Record
<1> QED
  BY <1>1, PsmTypeCorrect, OwnedInvariant, PTL

-----------------------------------------------------------------------------
(* The link table *)

LinkRecords ==
  {Default} \cup {LinkRecord(0, "ifcount")}
            \cup {LinkRecord(i, f) : i \in Nat \ {0}, f \in LinkNames}

\* The place of field k of entry i, and that of the field to read next.
PlaceOf(i, k) == (i - 1) * 7 + k
NextPlace == PlaceOf(index, field)

\* A field holds a record at most as far before it as there were records missing.
NearTable(t) ==
  /\ t \in [1..linkNumber -> [LinkNames -> LinkRecords]]
  /\ \A i \in 1..linkNumber : \A k \in 1..7 :
       t[i][LinkFields[k]] # Default =>
         PlaceOf(i, k) - Place(t[i][LinkFields[k]]) \in 0..misses

\* The inductive invariant: the buffer too holds a record as near before the field to
\* read next.
Near ==
  /\ at # "done" => EthLink = NoTable
  /\ at = "linkCount" => index = 1 /\ field = 1 /\ buf = Default
  /\ at = "links" =>
       /\ field \in 1..7
       /\ buf \in LinkRecords
       /\ buf # Default => NextPlace - 1 - Place(buf) \in 0..misses
       /\ NearTable(links)
  /\ EthLink # NoTable => NearTable(EthLink)

LEMMA LinkFieldsNamed ==
  /\ DOMAIN LinkFields = 1..7
  /\ \A k \in 1..7 : LinkFields[k] \in LinkNames
  /\ \A j, k \in 1..7 : LinkFields[j] = LinkFields[k] => j = k
BY DEF LinkFields, LinkNames

LEMMA PlaceOfRecord ==
  \A i \in Nat \ {0} : \A k \in 1..7 :
    Place(LinkRecord(i, LinkFields[k])) = PlaceOf(i, k)
<1> SUFFICES ASSUME NEW i \in Nat \ {0}, NEW k \in 1..7
             PROVE  Place(LinkRecord(i, LinkFields[k])) = PlaceOf(i, k)
  OBVIOUS
<1> DEFINE c == CHOOSE j \in DOMAIN LinkFields : LinkFields[j] = LinkFields[k]
<1>1. c = k
  <2>1. \E j \in DOMAIN LinkFields : LinkFields[j] = LinkFields[k]
    BY LinkFieldsNamed
  <2>2. c \in DOMAIN LinkFields /\ LinkFields[c] = LinkFields[k]
    BY <2>1
  <2> QED
    BY <2>2, LinkFieldsNamed
<1>2. /\ LinkRecord(i, LinkFields[k]).index = i
      /\ LinkRecord(i, LinkFields[k]).field = LinkFields[k]
  BY DEF LinkRecord, Record
<1>3. Place(LinkRecord(i, LinkFields[k])) = (i - 1) * Len(LinkFields) + c
  BY <1>2 DEF Place
<1> QED
  BY <1>1, <1>3, LinkFieldsLength DEF PlaceOf

\* What is stored in a field is what the buffer holds, or the default.
LEMMA Converts ==
  \A f, r : Convert(f, r) \in {Default, r}
BY DEF Convert

LEMMA PlaceOfCount == Place(LinkRecord(0, "ifcount")) = 0
BY DEF Place, LinkRecord, Record

LEMMA PlaceIsInt == \A r \in LinkRecords : r # Default => Place(r) \in Int
<1> SUFFICES ASSUME NEW r \in LinkRecords, r # Default PROVE Place(r) \in Int
  OBVIOUS
<1>1. CASE r = LinkRecord(0, "ifcount")
  BY <1>1, PlaceOfCount
<1>2. ASSUME NEW i \in Nat \ {0}, NEW f \in LinkNames, r = LinkRecord(i, f)
      PROVE  Place(r) \in Int
  <2>1. PICK k \in 1..7 : f = LinkFields[k]
    <3> DEFINE K == {LinkFields[j] : j \in 1..7}
    <3>1. LinkNames = K
      BY DEF LinkFields, LinkNames
    <3> QED
      BY <3>1
  <2>2. Place(LinkRecord(i, LinkFields[k])) = PlaceOf(i, k)
    BY PlaceOfRecord
  <2>3. Place(r) = PlaceOf(i, k)
    BY <1>2, <2>1, <2>2
  <2> QED
    BY <2>3 DEF PlaceOf
<1> QED
  BY <1>1, <1>2 DEF LinkRecords

\* Reading a field, or finding its record missing, keeps the buffer and the table near.
LEMMA LinkFieldRead ==
  ASSUME TypeOK, Near, ReadLinkField
  PROVE  Near'
<1> DEFINE f == LinkFields[field]
           c == Convert(f, buf')
<1>1. /\ at = "links" /\ at' = "links" /\ index \in 1..linkNumber
      /\ linkNumber' = linkNumber /\ EthLink' = EthLink
      /\ EthLink = NoTable
  BY DEF ReadLinkField, TypeOK, Near
<1>2. /\ index \in Nat \ {0} /\ field \in 1..7 /\ f \in LinkNames
      /\ misses \in Nat
  BY <1>1, LinkFieldsNamed, PsmAssumption DEF Near, TypeOK
<1>3. NextPlace' = NextPlace + 1 /\ field' \in 1..7 /\ NextPlace \in Int
  BY <1>2, LinkFieldsLength DEF ReadLinkField, Advance, NextPlace, PlaceOf
<1>4. /\ misses' \in Nat /\ misses <= misses'
      /\ buf' \in LinkRecords
      /\ buf' # Default => NextPlace - Place(buf') \in 0..misses'
  <2>1. CASE buf' = LinkRecord(index, f) /\ UNCHANGED misses
    <3>1. buf' \in LinkRecords
      BY <1>2, <2>1 DEF LinkRecords
    <3>2. Place(buf') = NextPlace
      BY <1>2, <2>1, PlaceOfRecord DEF NextPlace
    <3> QED
      BY <1>2, <1>3, <2>1, <3>1, <3>2
  <2>2. CASE Missing /\ UNCHANGED buf
    <3>1. misses' = misses + 1
      BY <2>2 DEF Missing
    <3>2. buf \in LinkRecords /\ (buf # Default => NextPlace - 1 - Place(buf) \in 0..misses)
      BY <1>1 DEF Near
    <3>3. buf # Default => Place(buf) \in Int
      BY <3>2, PlaceIsInt
    <3>4. ASSUME buf # Default PROVE NextPlace - Place(buf) \in 0..misses'
      <4>1. NextPlace - 1 - Place(buf) \in 0..misses /\ Place(buf) \in Int
        BY <3>2, <3>3, <3>4
      <4> QED
        BY <1>2, <1>3, <3>1, <4>1
    <3> QED
      BY <1>2, <2>2, <3>1, <3>2, <3>4
  <2> QED
    BY <2>1, <2>2 DEF ReadLinkField
<1>5. links \in [1..linkNumber -> [LinkNames -> LinkRecords]]
  BY <1>1 DEF Near, NearTable
<1>6. c \in {Default, buf'} /\ c \in LinkRecords
  BY <1>4, Converts DEF LinkRecords
<1>7. links' = [links EXCEPT ![index][f] = c]
  BY DEF ReadLinkField
<1> HIDE DEF f, c
<1>8. links' \in [1..linkNumber -> [LinkNames -> LinkRecords]]
  BY <1>1, <1>2, <1>5, <1>6, <1>7
<1>9. \A i \in 1..linkNumber : \A g \in LinkNames :
        links'[i][g] = IF i = index /\ g = f THEN c ELSE links[i][g]
  BY <1>1, <1>2, <1>5, <1>7
<1>10. ASSUME NEW i \in 1..linkNumber, NEW k \in 1..7, links'[i][LinkFields[k]] # Default
       PROVE  PlaceOf(i, k) - Place(links'[i][LinkFields[k]]) \in 0..misses'
  <2>1. LinkFields[k] \in LinkNames
    BY LinkFieldsNamed
  <2>2. CASE i = index /\ LinkFields[k] = f
    <3>1. k = field
      BY <1>2, <2>2, LinkFieldsNamed DEF f
    <3>2. links'[i][LinkFields[k]] = buf' /\ buf' # Default
      BY <1>6, <1>9, <1>10, <2>1, <2>2
    <3> QED
      BY <1>4, <2>2, <3>1, <3>2 DEF NextPlace
  <2>3. CASE ~ (i = index /\ LinkFields[k] = f)
    <3>1. links'[i][LinkFields[k]] = links[i][LinkFields[k]]
      BY <1>9, <2>1, <2>3
    <3>2. PlaceOf(i, k) - Place(links[i][LinkFields[k]]) \in 0..misses
      BY <1>1, <1>10, <3>1 DEF Near, NearTable
    <3> QED
      BY <1>2, <1>4, <3>1, <3>2
  <2> QED
    BY <2>2, <2>3
<1>11. NearTable(links)'
  BY <1>1, <1>8, <1>10 DEF NearTable
<1>12. buf' # Default => NextPlace' - 1 - Place(buf') \in 0..misses'
  <2> SUFFICES ASSUME buf' # Default PROVE NextPlace' - 1 - Place(buf') \in 0..misses'
    OBVIOUS
  <2>1. Place(buf') \in Int
    BY <1>4, PlaceIsInt
  <2>2. NextPlace' - 1 = NextPlace
    BY <1>3
  <2> QED
    BY <1>4, <2>2
<1> QED
  BY <1>1, <1>3, <1>4, <1>11, <1>12 DEF Near

\* Near is kept by each step: the table that is filled and the buffer hold nothing from
\* further back than records are missing (PsmTables).
LEMMA NearInvariant == Spec => []Near
<1>1. Init => Near
  BY DEF Init, Near
<1>2. TypeOK /\ TypeOK' /\ Near /\ [Next]_vars => Near'
  <2> SUFFICES ASSUME TypeOK, TypeOK', Near, [Next]_vars PROVE Near'
    OBVIOUS
  \* A step outside the link table.
  <2>0. ASSUME UNCHANGED linkTable, at # "done",
               at' \notin {"done", "linkCount", "links"}
        PROVE  Near'
    BY <2>0 DEF Near, linkTable, NoTable, Default, Record
  <2>1. CASE VlanInit
    BY <2>0, <2>1 DEF VlanInit, Goto
  <2>2. CASE GetRegion
    BY <2>0, <2>2 DEF GetRegion, Goto
  <2>3. CASE ReadCfgCount
    BY <2>0, <2>3 DEF ReadCfgCount, Goto
  <2>4. CASE ReadCfgRegion
    BY <2>0, <2>4 DEF ReadCfgRegion
  <2>5. CASE CfgsRead
    BY <2>0, <2>5 DEF CfgsRead, Goto
  <2>6. CASE ReadVlanCount
    BY <2>0, <2>6 DEF ReadVlanCount, Goto
  <2>7. CASE ReadVlanField
    BY <2>0, <2>7 DEF ReadVlanField
  <2>8. CASE PublishVlans
    BY <2>0, <2>8 DEF PublishVlans, Goto
  <2>9. CASE EthInit
    BY <2>9 DEF EthInit, Goto, Near, linkTable
  <2>10. CASE ReadLinkCount
    <3>1. /\ at = "linkCount" /\ index = 1 /\ field = 1 /\ buf = Default
          /\ index' = 1 /\ field' = 1 /\ EthLink' = EthLink /\ EthLink = NoTable
          /\ at' \in {"links", "done"}
      BY <2>10 DEF ReadLinkCount, Goto, Near
    <3>2. buf' \in {Default, LinkRecord(0, "ifcount")} /\ misses' \in Nat
      BY <2>10, <3>1, PsmAssumption DEF ReadLinkCount, TypeOK, Missing
    <3>3. NextPlace' - 1 = 0
      BY <3>1 DEF NextPlace, PlaceOf
    <3>4. buf' # Default => NextPlace' - 1 - Place(buf') \in 0..misses'
      BY <3>2, <3>3, PlaceOfCount
    <3>5. at' = "links" => NearTable(links)'
      <4> SUFFICES ASSUME at' = "links" PROVE NearTable(links)'
        OBVIOUS
      <4>1. links' = Blank(linkNumber', LinkNames)
        BY <2>10 DEF ReadLinkCount, Goto
      <4>2. links' \in [1..linkNumber' -> [LinkNames -> LinkRecords]]
        BY <4>1 DEF Blank, LinkRecords
      <4>3. \A i \in 1..linkNumber' : \A k \in 1..7 : links'[i][LinkFields[k]] = Default
        BY <4>1, LinkFieldsNamed DEF Blank
      <4> QED
        BY <4>2, <4>3 DEF NearTable
    <3> QED
      BY <3>1, <3>2, <3>4, <3>5 DEF Near, LinkRecords
  <2>11. CASE ReadLinkField
    BY <2>11, LinkFieldRead
  <2>12. CASE PublishLinks
    <3>1. /\ at = "links" /\ at' = "done" /\ EthLink' = links
          /\ UNCHANGED <<linkNumber, links, misses>>
      BY <2>12 DEF PublishLinks, Goto
    <3> QED
      BY <3>1 DEF Near, NearTable
  <2>13. CASE UNCHANGED vars
    BY <2>13 DEF vars, linkTable, Near, NearTable, NextPlace
  <2> QED
    BY <2>1, <2>2, <2>3, <2>4, <2>5, <2>6, <2>7, <2>8, <2>9, <2>10, <2>11, <2>12,
       <2>13 DEF Next
<1> QED
  BY <1>1, <1>2, PsmTypeCorrect, PTL DEF Spec

\* A published link entry holds, in each field, the default or a record so near before it
\* that every one between them was missing, for any number of links and of missing records
\* (ethernet_internal.c 97-121, 152-216).
THEOREM LinkFieldsAreNear == Spec => []LinkFieldsNear
<1>1. TypeOK /\ Near => LinkFieldsNear
  <2> SUFFICES ASSUME TypeOK, Near, EthLink # NoTable
               PROVE  /\ DOMAIN EthLink = 1..linkNumber
                      /\ \A i \in 1..linkNumber : \A k \in DOMAIN LinkFields :
                           EthLink[i][LinkFields[k]] # Default =>
                             Place(LinkRecord(i, LinkFields[k]))
                               - Place(EthLink[i][LinkFields[k]]) \in 0..misses
    BY DEF LinkFieldsNear
  <2>1. NearTable(EthLink)
    BY DEF Near
  <2>2. \A i \in 1..linkNumber : i \in Nat \ {0}
    BY DEF TypeOK
  <2> QED
    BY <2>1, <2>2, LinkFieldsNamed, PlaceOfRecord DEF NearTable
<1> QED
  BY <1>1, PsmTypeCorrect, NearInvariant, PTL
=============================================================================
