----------------------------- MODULE PsmTables -----------------------------
(***************************************************************************)
(* How the two tables are filled from the persistent store (PSM) when the  *)
(* daemon starts (vlan_internal.c, ethernet_internal.c).                   *)
(*                                                                         *)
(* A table is read record by record into one buffer.  Any record may be    *)
(* missing.  DmlVlanGetPSMRecordValue says so, and the field keeps its     *)
(* default; DmlEthGetPSMRecordValue returns success all the same, and the  *)
(* field is taken from whatever the buffer holds.                          *)
(*                                                                         *)
(* A value is identified with the record it was read from.                 *)
(***************************************************************************)
EXTENDS Integers, Sequences

CONSTANTS
  MaxVlans, MaxLinks,   \* bounds on the counts PSM holds
  MaxCfgs,              \* bound on its VLAN configurations; the code has ten slots
  MaxMisses,            \* bound on the records of a table that are missing
  Faults                \* of {"hal", "sysevent", "memory"}

ASSUME PsmAssumption ==
  /\ MaxVlans \in Nat /\ MaxLinks \in Nat /\ MaxMisses \in Nat
  /\ MaxCfgs \in 0..10
  /\ Faults \subseteq {"hal", "sysevent", "memory"}

VARIABLES
  hub4,        \* built with _HUB4_PRODUCT_REQ_: VLAN ids depend on the region
  inRegion,    \* the configurations whose region is the router's
  at,          \* the next step
  index, field,\* the entry and the field to read, from 1
  misses,      \* number of records of the present table found missing
  buf,         \* acPSMValue
  cfgCount,    \* vlanCfgCount
  cfgs,        \* vlanCfgIndexes, up to vlanRegionCount
  vlanNumber, vlans, VlanTer,   \* ulVlantrInstanceNumber, pVlan and its publication
  linkNumber, links, EthLink    \* ulEthlinkInstanceNumber, pEthCfg, its publication

vlanTable == <<vlanNumber, vlans, VlanTer>>
linkTable == <<linkNumber, links, EthLink>>
build == <<hub4, inRegion>>
vars == <<build, at, index, field, misses, buf, cfgCount, cfgs, vlanTable, linkTable>>

Record(t, i, f) == [table |-> t, index |-> i, field |-> f]

\* What a field, the buffer or a table is before anything is read into it.
Default == Record("none", 0, "none")
NoTable == <<Default>>

\* The fields in the order they are read.
VlanFields ==
  IF hub4
  THEN <<"Enable", "Alias", "Name", "LowerLayers", "BaseInterface", "VLANId", "TPId",
         "Path">>
  ELSE <<"Enable", "Alias", "Name", "LowerLayers", "VLANId", "TPId", "BaseInterface",
         "Path">>

LinkFields ==
  <<"Enable", "Alias", "Name", "LowerLayers", "BaseInterface", "MACAddrOffSet", "Path">>

VlanNames == {"Enable", "Alias", "Name", "LowerLayers", "VLANId", "TPId",
              "BaseInterface", "Path"}
LinkNames == {"Enable", "Alias", "Name", "LowerLayers", "BaseInterface",
              "MACAddrOffSet", "Path"}

Blank(n, names) == [i \in 1..n |-> [f \in names |-> Default]]

\* The record of field f of VLAN entry i.
VlanRecord(i, f) ==
  IF hub4 /\ f \in {"VLANId", "TPId"} THEN Record("cfg", cfgs[i], f)
                                      ELSE Record("vlan", i, f)

LinkRecord(i, f) == Record("link", i, f)

\* What storing r in field f makes of it: only the text "TRUE" is TRUE, and only a
\* number is one.
Convert(f, r) ==
  CASE f = "Enable" -> IF r.field = "Enable" THEN r ELSE Default
    [] f = "MACAddrOffSet" ->
         IF r.field \in {"MACAddrOffSet", "ifcount"} THEN r ELSE Default
    [] OTHER -> r

Init ==
  /\ hub4 \in BOOLEAN
  /\ inRegion \in SUBSET (1..MaxCfgs)
  /\ at = "vlanInit"
  /\ index = 1 /\ field = 1
  /\ misses = 0
  /\ buf = Default
  /\ cfgCount = 0 /\ cfgs = <<>>
  /\ vlanNumber = 0 /\ vlans = NoTable /\ VlanTer = NoTable
  /\ linkNumber = 0 /\ links = NoTable /\ EthLink = NoTable

Goto(a, b) == at = a /\ at' = b

Missing == misses < MaxMisses /\ misses' = misses + 1

\* A mutant of Advance: one field more.
AdvancePastEnd(fields) ==
  IF field <= Len(fields)
  THEN field' = field + 1 /\ UNCHANGED index
  ELSE field' = 1 /\ index' = index + 1

\* The place in a table with the given fields after the one just read.
Advance(fields) ==
  IF field < Len(fields)
  THEN field' = field + 1 /\ UNCHANGED index
  ELSE field' = 1 /\ index' = index + 1

-----------------------------------------------------------------------------
(* VlanInitialize and VlanTerminationInitialize.  Their result, like that of every
   step below, is not looked at by VlanCreate. *)

VlanInit ==
  /\ \/ Goto("vlanInit", IF hub4 THEN "region" ELSE "vlanCount")
     \/ "hal" \in Faults /\ Goto("vlanInit", "ethInit")
  /\ UNCHANGED <<build, index, field, misses, buf, cfgCount, cfgs, vlanTable, linkTable>>

\* platform_hal_GetRouterRegion
GetRegion ==
  /\ \/ Goto("region", "cfgCount")
     \/ "hal" \in Faults /\ Goto("region", "ethInit")
  /\ UNCHANGED <<build, index, field, misses, buf, cfgCount, cfgs, vlanTable, linkTable>>

ReadCfgCount ==
  /\ Goto("cfgCount", "cfgs")
  /\ \/ cfgCount' \in 0..MaxCfgs /\ UNCHANGED misses
     \/ Missing /\ UNCHANGED cfgCount
  /\ UNCHANGED <<build, index, field, buf, cfgs, vlanTable, linkTable>>

\* A mutant of ReadCfgRegion: the region is not compared.
ReadCfgAnyRegion ==
  /\ at = "cfgs" /\ index <= cfgCount
  /\ \/ cfgs' = Append(cfgs, index) /\ UNCHANGED misses
     \/ Missing /\ UNCHANGED cfgs
  /\ index' = index + 1
  /\ UNCHANGED <<build, at, field, buf, cfgCount, vlanTable, linkTable>>

ReadCfgRegion ==
  /\ at = "cfgs" /\ index <= cfgCount
  /\ \/ /\ cfgs' = IF index \in inRegion THEN Append(cfgs, index) ELSE cfgs
        /\ UNCHANGED misses
     \/ Missing /\ UNCHANGED cfgs
  /\ index' = index + 1
  /\ UNCHANGED <<build, at, field, buf, cfgCount, vlanTable, linkTable>>

\* Without a configuration of the region there are no entries.
CfgsRead ==
  /\ index > cfgCount
  /\ Goto("cfgs", IF cfgs = <<>> THEN "ethInit" ELSE "vlanCount")
  /\ index' = 1
  /\ UNCHANGED <<build, field, misses, buf, cfgCount, cfgs, vlanTable, linkTable>>

\* No more entries than configurations of the region.
Limit(n) == IF hub4 /\ n > Len(cfgs) THEN Len(cfgs) ELSE n

\* The number is set whether or not there is memory for the table.
ReadVlanCount ==
  /\ \/ \E n \in 0..MaxVlans : vlanNumber' = Limit(n) /\ UNCHANGED misses
     \/ vlanNumber' = 0 /\ Missing
  /\ \/ Goto("vlanCount", "vlans") /\ vlans' = Blank(vlanNumber', VlanNames)
     \/ "memory" \in Faults /\ Goto("vlanCount", "ethInit") /\ UNCHANGED vlans
  /\ UNCHANGED <<build, index, field, buf, cfgCount, cfgs, VlanTer, linkTable>>

\* A mutant of ReadVlanField: the result of the read is not looked at.
ReadVlanFieldAnyway ==
  /\ at = "vlans" /\ index <= vlanNumber
  /\ LET f == VlanFields[field] IN
       /\ \/ buf' = VlanRecord(index, f) /\ UNCHANGED misses
          \/ Missing /\ UNCHANGED buf
       /\ vlans' = [vlans EXCEPT ![index][f] = buf']
  /\ Advance(VlanFields)
  /\ UNCHANGED <<build, at, cfgCount, cfgs, vlanNumber, VlanTer, linkTable>>

\* The buffer of the default build keeps its last value; that of the other is
\* cleared before each read.
ReadVlanField ==
  /\ at = "vlans" /\ index <= vlanNumber
  /\ LET f == VlanFields[field]
         r == VlanRecord(index, f)
     IN \/ /\ buf' = r
           /\ vlans' = [vlans EXCEPT ![index][f] = r]
           /\ UNCHANGED misses
        \/ /\ Missing
           /\ buf' = IF hub4 THEN Default ELSE buf
           /\ UNCHANGED vlans
  /\ Advance(VlanFields)
  /\ UNCHANGED <<build, at, cfgCount, cfgs, vlanNumber, VlanTer, linkTable>>

PublishVlans ==
  /\ index > vlanNumber
  /\ Goto("vlans", "ethInit")
  /\ VlanTer' = vlans
  /\ UNCHANGED <<build, index, field, misses, buf, cfgCount, cfgs, vlanNumber, vlans,
                 linkTable>>

-----------------------------------------------------------------------------
(* EthernetInitialize and EthLink_Initialize, with a buffer of its own *)

EthInit ==
  /\ \/ Goto("ethInit", "linkCount")
     \/ "sysevent" \in Faults /\ Goto("ethInit", "done")
  /\ index' = 1 /\ field' = 1
  /\ misses' = 0
  /\ buf' = Default
  /\ UNCHANGED <<build, cfgCount, cfgs, vlanTable, linkTable>>

\* The number of a buffer that was never filled is 0.
ReadLinkCount ==
  /\ \/ /\ linkNumber' \in 0..MaxLinks
        /\ buf' = LinkRecord(0, "ifcount")
        /\ UNCHANGED misses
     \/ linkNumber' = 0 /\ Missing /\ UNCHANGED buf
  /\ \/ Goto("linkCount", "links") /\ links' = Blank(linkNumber', LinkNames)
     \/ "memory" \in Faults /\ Goto("linkCount", "done") /\ UNCHANGED links
  /\ UNCHANGED <<build, index, field, cfgCount, cfgs, vlanTable, EthLink>>

\* A mutant of ReadLinkField: what is read does not stay in the buffer.
ReadLinkFieldAside ==
  /\ at = "links" /\ index <= linkNumber
  /\ LET f == LinkFields[field] IN
       \/ /\ links' = [links EXCEPT ![index][f] = LinkRecord(index, f)]
          /\ UNCHANGED <<misses, buf>>
       \/ /\ Missing
          /\ links' = [links EXCEPT ![index][f] = Convert(f, buf)]
          /\ UNCHANGED buf
  /\ Advance(LinkFields)
  /\ UNCHANGED <<build, at, cfgCount, cfgs, vlanTable, linkNumber, EthLink>>

\* A record that is missing leaves the buffer as it is, and the field gets that.
ReadLinkField ==
  /\ at = "links" /\ index <= linkNumber
  /\ LET f == LinkFields[field] IN
       /\ \/ buf' = LinkRecord(index, f) /\ UNCHANGED misses
          \/ Missing /\ UNCHANGED buf
       /\ links' = [links EXCEPT ![index][f] = Convert(f, buf')]
  /\ Advance(LinkFields)
  /\ UNCHANGED <<build, at, cfgCount, cfgs, vlanTable, linkNumber, EthLink>>

PublishLinks ==
  /\ index > linkNumber
  /\ Goto("links", "done")
  /\ EthLink' = links
  /\ UNCHANGED <<build, index, field, misses, buf, cfgCount, cfgs, vlanTable,
                 linkNumber, links>>

-----------------------------------------------------------------------------

Next ==
  \/ VlanInit \/ GetRegion \/ ReadCfgCount \/ ReadCfgRegion \/ CfgsRead
  \/ ReadVlanCount \/ ReadVlanField \/ PublishVlans
  \/ EthInit \/ ReadLinkCount \/ ReadLinkField \/ PublishLinks

Spec == Init /\ [][Next]_vars

-----------------------------------------------------------------------------
(* Properties *)

Labels == {"vlanInit", "region", "cfgCount", "cfgs", "vlanCount", "vlans", "ethInit",
           "linkCount", "links", "done"}

TypeOK ==
  /\ hub4 \in BOOLEAN /\ inRegion \subseteq 1..MaxCfgs
  /\ at \in Labels
  /\ index \in Nat \ {0} /\ field \in 1..8
  /\ misses \in 0..MaxMisses
  /\ cfgCount \in 0..MaxCfgs
  /\ cfgs \in Seq(1..MaxCfgs)
  /\ vlanNumber \in 0..MaxVlans /\ linkNumber \in 0..MaxLinks

\* A published VLAN entry holds, field by field, its own record or the default,
\* whichever records are missing and wherever the build keeps its VLAN ids
\* (vlan_internal.c 211-289, 333-393).
VlanFieldsOwn ==
  VlanTer # NoTable =>
    /\ DOMAIN VlanTer = 1..vlanNumber
    /\ \A i \in 1..vlanNumber : \A k \in 1..8 :
         VlanTer[i][VlanFields[k]] \in {Default, VlanRecord(i, VlanFields[k])}

\* Entries of the region build take their VLAN ids from configurations of the
\* router's region, each from one of its own (vlan_internal.c 162-176, 188-197).
IdsOfRegion ==
  hub4 /\ VlanTer # NoTable =>
    \A i \in 1..vlanNumber :
      LET r == VlanTer[i]["VLANId"] IN
        r # Default =>
          /\ r.table = "cfg" /\ r.index \in inRegion
          /\ \A j \in 1..i - 1 : VlanTer[j]["VLANId"].index # r.index

\* The place of a record in the order EthLink_Initialize reads them.
Place(r) ==
  IF r.index = 0 THEN 0
  ELSE (r.index - 1) * Len(LinkFields)
         + CHOOSE k \in DOMAIN LinkFields : LinkFields[k] = r.field

\* A link entry may hold the value of another field or of another entry, but only of
\* one so near before it that every record between them was missing: with no record
\* missing every field is its own (ethernet_internal.c 97-121, 152-216).
LinkFieldsNear ==
  EthLink # NoTable =>
    /\ DOMAIN EthLink = 1..linkNumber
    /\ \A i \in 1..linkNumber : \A k \in DOMAIN LinkFields :
         LET r == EthLink[i][LinkFields[k]]
             back == Place(LinkRecord(i, LinkFields[k])) - Place(r)
         IN r # Default => back \in 0..misses
=============================================================================
