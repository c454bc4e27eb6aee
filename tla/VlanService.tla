----------------------------- MODULE VlanService -----------------------------
(***************************************************************************)
(* What the VLANTermination table promises its client: every change of     *)
(* Enable is carried out once, in one indivisible step per change and in   *)
(* any order, and nothing else touches the interface of an entry.  What    *)
(* can be seen of an entry is whether its interface exists.                *)
(***************************************************************************)
EXTENDS Naturals

CONSTANTS
  Vlans,      \* the entries
  MaxPending  \* bound on the changes of an entry to one value that wait at once

VARIABLES
  enable,    \* enable[v]: the Enable parameter
  pending,   \* pending[v][b]: accepted changes to b not yet carried out
  present    \* present[v]: the interface of v exists

serviceVars == <<enable, pending, present>>

ServiceInit ==
  /\ enable \in [Vlans -> BOOLEAN]
  /\ pending = [v \in Vlans |-> [b \in BOOLEAN |-> 0]]
  /\ present \in [Vlans -> BOOLEAN]

Change(v, b) ==
  /\ enable[v] # b
  /\ enable' = [enable EXCEPT ![v] = b]
  /\ pending[v][b] < MaxPending
  /\ pending' = [pending EXCEPT ![v][b] = @ + 1]
  /\ UNCHANGED present

CarryOut(v, b) ==
  /\ pending[v][b] > 0
  /\ pending' = [pending EXCEPT ![v][b] = @ - 1]
  /\ present' = [present EXCEPT ![v] = b]
  /\ UNCHANGED enable

ServiceNext == \E v \in Vlans, b \in BOOLEAN : Change(v, b) \/ CarryOut(v, b)

ServiceSafety == ServiceInit /\ [][ServiceNext]_serviceVars

\* An accepted change is carried out.
ServiceFairness == \A v \in Vlans, b \in BOOLEAN : WF_serviceVars(CarryOut(v, b))

ServiceSpec == ServiceSafety /\ ServiceFairness
=============================================================================
