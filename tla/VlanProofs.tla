----------------------------- MODULE VlanProofs -----------------------------
(***************************************************************************)
(* What holds of VlanTermination for every number of entries, links,       *)
(* threads and requests, and whatever fails on the way; then of EthLink,   *)
(* whose tables it works with.                                             *)
(***************************************************************************)
EXTENDS VlanTermination, TLAPS

-----------------------------------------------------------------------------
(* Devices and reports stay what they are *)

DevType == dev \in [Names -> Devices]
WanType == wan \in [Paths -> {"none", "Up", "Down"}]

LEMMA SomeDevices == /\ NoDevice \in Devices /\ Untagged \in Devices /\ Bridge \in Devices
                     /\ \A id \in VlanIds : Tagged(id) \in Devices
  BY DEF Devices

LEMMA CommandType ==
  ASSUME NEW n, NEW d \in Devices, DevType, Command(n, d)
  PROVE  DevType'
  BY DEF Command, DevType

LEMMA CreateDeviceType ==
  ASSUME NEW n, NEW d \in Devices, DevType, CreateDevice(n, d)
  PROVE  DevType'
  BY CommandType DEF CreateDevice, DevType

LEMMA DeleteDeviceType ==
  ASSUME NEW n, DevType, DeleteDevice(n)
  PROVE  DevType'
  BY CommandType, SomeDevices DEF DeleteDevice

LEMMA NotifyType ==
  ASSUME NEW p, NEW st \in {"Up", "Down"}, WanType, Notify(p, st)
  PROVE  WanType'
  BY DEF Notify, WanType

LEMMA StatusReadsType ==
  ASSUME NEW n PROVE StatusReads(n) \subseteq {"Up", "Down", "Error"}
  BY DEF StatusReads

-----------------------------------------------------------------------------
(* Where threads are *)

\* The labels of EthLink_SetParamBoolValue, and those of a refresh thread.
RefreshLabels == {"RefreshMarking", "PollRefresh", "SendRefreshUp"}
CallLabels == EthLabels \ RefreshLabels

\* A turn of a polling loop stays within its labels and its budget.
LEMMA PollTurnMoves ==
  ASSUME NEW p \in Procs, NEW l, NEW st, NEW up, NEW done, ThreadTypeOK,
         PollTurn(p, l, st, up, done)
  PROVE  /\ polls' \in [Procs -> 0..(MaxPoll - 1)]
         /\ pc[p] = l
         /\ \E m \in {l, up, done} : pc' = [pc EXCEPT ![p] = m]
  <1> USE EthLinkAssumption DEF ThreadTypeOK, Goto
  <1>1. CASE st = "Up"
    BY <1>1 DEF PollTurn
  <1>2. CASE st # "Up" /\ polls[p] + 1 < MaxPoll
    BY <1>2 DEF PollTurn
  <1>3. CASE st # "Up" /\ ~(polls[p] + 1 < MaxPoll)
    BY <1>3 DEF PollTurn
  <1> QED BY <1>1, <1>2, <1>3

\* A step of a thread in a link moves it to the next label of what it is in, or back
\* to where that was called from.
MovesInLink(p) ==
  /\ UNCHANGED <<link, ret, requests>>
  /\ \/ /\ pc[p] \in CallLabels
        /\ \E m \in CallLabels \cup {ret[p]} : pc' = [pc EXCEPT ![p] = m]
     \/ /\ pc[p] \in RefreshLabels
        /\ \E m \in RefreshLabels \cup {"idle"} : pc' = [pc EXCEPT ![p] = m]

LEMMA EthStepMoves ==
  ASSUME NEW p \in Procs, ThreadTypeOK, EthStep(p)
  PROVE  MovesInLink(p)
  <1> USE DEF MovesInLink, Goto, Return, CallLabels, RefreshLabels, EthLabels,
              threadVars
  <1>1. CASE CheckOn(p) BY <1>1 DEF CheckOn
  <1>2. CASE On(p) BY <1>2 DEF On
  <1>3. CASE AddMarking(p) BY <1>3 DEF AddMarking
  <1>4. CASE CheckUntagged(p) BY <1>4 DEF CheckUntagged
  <1>5. CASE DeleteOld(p) BY <1>5 DEF DeleteOld
  <1>6. CASE GetMarkingFails(p) BY <1>6 DEF GetMarkingFails, MarkingPoint
  <1>7. CASE CreateUntagged(p) BY <1>7 DEF CreateUntagged
  <1>8. CASE PollUntagged(p)
    <2>1. PICK st \in LinkStatusReads(link[p]) :
            IF st = "Error"
            THEN Return(p, "PollUntagged") /\ polls' = [polls EXCEPT ![p] = 0]
            ELSE PollTurn(p, "PollUntagged", st, "SendLinkUp", "LinkUp")
      BY <1>8 DEF PollUntagged
    <2>2. UNCHANGED <<link, ret, requests>> BY <1>8 DEF PollUntagged
    <2>3. CASE st = "Error" BY <2>1, <2>2, <2>3
    <2>4. CASE st # "Error"
      <3>1. PollTurn(p, "PollUntagged", st, "SendLinkUp", "LinkUp") BY <2>1, <2>4
      <3> QED BY <2>2, <3>1, PollTurnMoves
    <2> QED BY <2>3, <2>4
  <1>9. CASE SendLinkUp(p) BY <1>9 DEF SendLinkUp
  <1>10. CASE LinkUp(p) BY <1>10 DEF LinkUp
  <1>11. CASE CheckOff(p) BY <1>11 DEF CheckOff
  <1>12. CASE Off(p) BY <1>12 DEF Off
  <1>13. CASE DeleteMarking(p) BY <1>13 DEF DeleteMarking
  <1>14. CASE RemoveUntagged(p) BY <1>14 DEF RemoveUntagged
  <1>15. CASE LinkDown(p) BY <1>15 DEF LinkDown
  <1>16. CASE RefreshMarking(p) BY <1>16 DEF RefreshMarking
  <1>17. CASE PollRefresh(p)
    <2>1. PICK st \in LinkStatusReads(link[p]) :
            IF st = "Error"
            THEN Goto(p, "PollRefresh", "idle") /\ polls' = [polls EXCEPT ![p] = 0]
            ELSE PollTurn(p, "PollRefresh", st, "SendRefreshUp", "idle")
      BY <1>17 DEF PollRefresh
    <2>2. UNCHANGED <<link, ret, requests>> BY <1>17 DEF PollRefresh
    <2>3. CASE st = "Error" BY <2>1, <2>2, <2>3
    <2>4. CASE st # "Error"
      <3>1. PollTurn(p, "PollRefresh", st, "SendRefreshUp", "idle") BY <2>1, <2>4
      <3> QED BY <2>2, <3>1, PollTurnMoves
    <2> QED BY <2>3, <2>4
  <1>18. CASE SendRefreshUp(p) BY <1>18 DEF SendRefreshUp
  <1> QED BY <1>1, <1>2, <1>3, <1>4, <1>5, <1>6, <1>7, <1>8, <1>9, <1>10, <1>11,
             <1>12, <1>13, <1>14, <1>15, <1>16, <1>17, <1>18 DEF EthStep

\* What the procedures keep besides their types: the bus thread is only ever in a link
\* and returns to idle; a thread that is not refreshing has an entry exactly while it
\* runs, and returns from a link to its worker.
LabelsOK ==
  /\ ret[Bus] = "idle" /\ pc[Bus] \in {"idle"} \cup CallLabels
  /\ \A t \in Threads : vlan[t] # NoVlan <=> pc[t] \notin {"idle"} \cup RefreshLabels
  /\ \A t \in Threads : pc[t] \in CallLabels => ret[t] # "idle"

\* The inductive invariant.
IInv == TypeOK /\ LabelsOK /\ MutualExclusion

\* The three things a worker does: it takes the mutex, goes on, or gives it up.
TakesMutex(t) ==
  /\ pc[t] \in LockLabels /\ mutex = NoThread
  /\ mutex' = t
  /\ \E m \in WorkLabels : pc' = [pc EXCEPT ![t] = m]
  /\ UNCHANGED <<vlan, ret, link>>

GoesOn(t) ==
  /\ pc[t] \in WorkLabels
  /\ UNCHANGED <<vlan, mutex>>
  /\ \/ /\ \E m \in WorkLabels : pc' = [pc EXCEPT ![t] = m]
        /\ UNCHANGED <<ret, link>>
     \/ /\ \E m \in CallLabels : pc' = [pc EXCEPT ![t] = m]
        /\ \E r \in {"DeleteTagged", "EnableDone", "ClearTagging"} :
             ret' = [ret EXCEPT ![t] = r]
        /\ \E k \in Links : link' = [link EXCEPT ![t] = k]

GivesUpMutex(t) ==
  /\ pc[t] \in WorkLabels
  /\ mutex' = NoThread
  /\ pc' = [pc EXCEPT ![t] = "idle"]
  /\ vlan' = [vlan EXCEPT ![t] = NoVlan]
  /\ ret' = [ret EXCEPT ![t] = "idle"]
  /\ link' = [link EXCEPT ![t] = NoLink]

LEMMA WorkerHasVlan ==
  ASSUME NEW t \in Threads, ThreadTypeOK, VlanTypeOK, LabelsOK,
         pc[t] \in LockLabels \cup WorkLabels
  PROVE  vlan[t] \in Vlans
  BY DEF VlanTypeOK, LabelsOK, LockLabels, WorkLabels, RefreshLabels

LEMMA EnableWithLabel ==
  ASSUME NEW id \in Int PROVE EnableWith(id) \in {"TagLink", "EnableBridge", "UntagLink"}
  BY DEF EnableWith, Kind

LEMMA WorkerStepMoves ==
  ASSUME NEW t \in Threads, ThreadTypeOK, VlanTypeOK, LabelsOK, WorkerStep(t)
  PROVE  TakesMutex(t) \/ GoesOn(t) \/ GivesUpMutex(t)
  <1>a. t \in Procs BY DEF Procs
  <1>b. vlanLower \in [Vlans -> Links \cup {NoLink}] BY DEF VlanTypeOK
  <1> USE DEF Goto, LockLabels, WorkLabels, vlanVars, vlanFields, history
  <1>1. CASE EnableLock(t)
    <2>1. vlan[t] \in Vlans
      BY <1>1, WorkerHasVlan DEF EnableLock, Lock
    <2>2. vlanId[vlan[t]] \in Int
      BY <2>1, PlatformAssumption DEF VlanTypeOK
    <2>3. EnableWith(vlanId[vlan[t]]) \in WorkLabels
      BY <2>2, EnableWithLabel
    <2> QED BY <1>1, <2>3 DEF EnableLock, Lock, TakesMutex
  <1>2. CASE TagLink(t)
    <2>1. vlan[t] \in Vlans
      BY <1>2, WorkerHasVlan DEF TagLink, EnableEthLink, SetEthLink
    <2> QED
      BY <1>2, <2>1, <1>b DEF TagLink, EnableEthLink, SetEthLink, GoesOn, CallLabels, EthLabels,
                        RefreshLabels
  <1>3. CASE UntagLink(t)
    <2>1. vlan[t] \in Vlans
      BY <1>3, WorkerHasVlan DEF UntagLink, EnableEthLink, SetEthLink
    <2> QED
      BY <1>3, <2>1, <1>b DEF UntagLink, EnableEthLink, SetEthLink, GoesOn, CallLabels, EthLabels,
                        RefreshLabels
  <1>4. CASE DeleteTagged(t) BY <1>4 DEF DeleteTagged, GoesOn
  <1>5. CASE CreateTagged(t) BY <1>5 DEF CreateTagged, GoesOn
  <1>6. CASE EnableBridge(t) BY <1>6 DEF EnableBridge, GoesOn
  <1>7. CASE PollVlan(t)
    <2>1. PICK st : PollTurn(t, "PollVlan", st, "SendVlanUp", "EnableDone")
      BY <1>7 DEF PollVlan
    <2>2. UNCHANGED <<vlan, mutex, ret, link>> BY <1>7 DEF PollVlan
    <2> QED BY <1>a, <2>1, <2>2, PollTurnMoves DEF GoesOn
  <1>8. CASE SendVlanUp(t) BY <1>8 DEF SendVlanUp, GoesOn
  <1>9. CASE EnableDone(t) BY <1>9 DEF EnableDone, Finish, GivesUpMutex
  <1>10. CASE DisableLock(t) BY <1>10 DEF DisableLock, Lock, TakesMutex
  <1>11. CASE DisableLink(t)
    <2>1. vlan[t] \in Vlans
      BY <1>11, WorkerHasVlan DEF DisableLink, SetEthLink
    <2> QED
      BY <1>11, <2>1, <1>b DEF DisableLink, SetEthLink, GoesOn, CallLabels, EthLabels,
                         RefreshLabels
  <1>12. CASE ClearTagging(t) BY <1>12 DEF ClearTagging, GoesOn
  <1>13. CASE RemoveVlan(t) BY <1>13 DEF RemoveVlan, GoesOn
  <1>14. CASE DisableDone(t) BY <1>14 DEF DisableDone, Finish, GivesUpMutex
  <1> QED BY <1>1, <1>2, <1>3, <1>4, <1>5, <1>6, <1>7, <1>8, <1>9, <1>10, <1>11,
             <1>12, <1>13, <1>14 DEF WorkerStep

-----------------------------------------------------------------------------
(* Type correctness, step by step *)

LEMMA EthStepType ==
  ASSUME NEW p \in Procs, TypeOK, EthStep(p)
  PROVE  PlatformTypeOK' /\ EthFieldsTypeOK' /\ polls' \in [Procs -> 0..(MaxPoll - 1)]
  <1> USE DEF TypeOK, EthFieldsTypeOK, ThreadTypeOK, platformVars, ethFields
  <1>d. DevType /\ WanType BY DEF PlatformTypeOK, DevType, WanType
  <1>s. SUFFICES /\ DevType' /\ WanType'
                 /\ EthFieldsTypeOK' /\ polls' \in [Procs -> 0..(MaxPoll - 1)]
    BY DEF PlatformTypeOK, DevType, WanType
  <1> USE DEF Return
  <1>1. CASE CheckOn(p) BY <1>1, <1>d DEF CheckOn, DevType, WanType
  <1>2. CASE On(p) BY <1>2, <1>d DEF On, DevType, WanType
  <1>3. CASE AddMarking(p)
    BY <1>3, <1>d DEF AddMarking, LoadMarking, CreateMarkingTable, DevType, WanType
  <1>4. CASE CheckUntagged(p) BY <1>4, <1>d DEF CheckUntagged, DevType, WanType
  <1>5. CASE DeleteOld(p)
    <2>1. DevType' BY <1>5, <1>d, DeleteDeviceType DEF DeleteOld
    <2> QED BY <1>5, <1>d, <2>1 DEF DeleteOld, WanType
  <1>6. CASE GetMarkingFails(p) BY <1>6, <1>d DEF GetMarkingFails, DevType, WanType
  <1>7. CASE CreateUntagged(p)
    <2>1. DevType' BY <1>7, <1>d, CreateDeviceType, SomeDevices DEF CreateUntagged
    <2> QED BY <1>7, <1>d, <2>1 DEF CreateUntagged, WanType
  <1>8. CASE PollUntagged(p)
    <2>1. PICK st \in LinkStatusReads(link[p]) :
            IF st = "Error"
            THEN Return(p, "PollUntagged") /\ polls' = [polls EXCEPT ![p] = 0]
            ELSE PollTurn(p, "PollUntagged", st, "SendLinkUp", "LinkUp")
      BY <1>8 DEF PollUntagged
    <2>2. polls' \in [Procs -> 0..(MaxPoll - 1)]
      BY <2>1, PollTurnMoves, EthLinkAssumption
    <2> QED BY <1>8, <1>d, <2>2 DEF PollUntagged, DevType, WanType
  <1>9. CASE SendLinkUp(p)
    <2>1. WanType' BY <1>9, <1>d, NotifyType DEF SendLinkUp
    <2> QED BY <1>9, <1>d, <2>1 DEF SendLinkUp, DevType
  <1>10. CASE LinkUp(p) BY <1>10, <1>d DEF LinkUp, DevType, WanType
  <1>11. CASE CheckOff(p) BY <1>11, <1>d DEF CheckOff, DevType, WanType
  <1>12. CASE Off(p) BY <1>12, <1>d DEF Off, DevType, WanType
  <1>13. CASE DeleteMarking(p) BY <1>13, <1>d DEF DeleteMarking, DevType, WanType
  <1>14. CASE RemoveUntagged(p)
    <2>1. DevType' BY <1>14, <1>d, DeleteDeviceType DEF RemoveUntagged, DevType
    <2> QED BY <1>14, <1>d, <2>1 DEF RemoveUntagged, WanType
  <1>15. CASE LinkDown(p)
    <2>1. WanType' BY <1>15, <1>d, NotifyType DEF LinkDown
    <2> QED BY <1>15, <1>d, <2>1 DEF LinkDown, DevType
  <1>16. CASE RefreshMarking(p)
    BY <1>16, <1>d DEF RefreshMarking, LoadMarking, CreateMarkingTable, DevType, WanType
  <1>17. CASE PollRefresh(p)
    <2>1. PICK st \in LinkStatusReads(link[p]) :
            IF st = "Error"
            THEN Goto(p, "PollRefresh", "idle") /\ polls' = [polls EXCEPT ![p] = 0]
            ELSE PollTurn(p, "PollRefresh", st, "SendRefreshUp", "idle")
      BY <1>17 DEF PollRefresh
    <2>2. polls' \in [Procs -> 0..(MaxPoll - 1)]
      BY <2>1, PollTurnMoves, EthLinkAssumption
    <2> QED BY <1>17, <1>d, <2>2 DEF PollRefresh, DevType, WanType
  <1>18. CASE SendRefreshUp(p)
    <2>1. WanType' BY <1>18, <1>d, NotifyType DEF SendRefreshUp
    <2> QED BY <1>18, <1>d, <2>1 DEF SendRefreshUp, DevType
  <1> QED BY <1>1, <1>2, <1>3, <1>4, <1>5, <1>6, <1>7, <1>8, <1>9, <1>10, <1>11,
             <1>12, <1>13, <1>14, <1>15, <1>16, <1>17, <1>18 DEF EthStep

LEMMA WorkerStepType ==
  ASSUME NEW t \in Threads, TypeOK, LabelsOK, WorkerStep(t)
  PROVE  /\ PlatformTypeOK' /\ EthFieldsTypeOK' /\ VlanTypeOK'
         /\ polls' \in [Procs -> 0..(MaxPoll - 1)]
  <1>t. t \in Procs BY DEF Procs
  <1>v. pc[t] \in LockLabels \cup WorkLabels => vlan[t] \in Vlans
    BY WorkerHasVlan DEF TypeOK
  <1>d. DevType /\ WanType BY DEF TypeOK, PlatformTypeOK, DevType, WanType
  <1>s. SUFFICES /\ DevType' /\ WanType' /\ EthFieldsTypeOK' /\ VlanTypeOK'
                 /\ polls' \in [Procs -> 0..(MaxPoll - 1)]
    BY DEF PlatformTypeOK, DevType, WanType
  <1> USE DEF TypeOK, EthFieldsTypeOK, ThreadTypeOK, VlanTypeOK, platformVars, ethFields,
              vlanVars, vlanFields, history, Goto
  <1>1. CASE EnableLock(t) BY <1>1, <1>d DEF EnableLock, Lock, Exists, DevType, WanType
  <1>2. CASE TagLink(t)
    BY <1>2, <1>d DEF TagLink, EnableEthLink, SetEthLink, DevType, WanType
  <1>3. CASE UntagLink(t)
    BY <1>3, <1>d DEF UntagLink, EnableEthLink, SetEthLink, DevType, WanType
  <1>4. CASE DeleteTagged(t)
    <2>1. DevType' BY <1>4, <1>d, DeleteDeviceType DEF DeleteTagged, DevType
    <2> QED BY <1>4, <1>d, <2>1 DEF DeleteTagged, WanType
  <1>5. CASE CreateTagged(t)
    <2>1. vlan[t] \in Vlans BY <1>5, <1>v DEF CreateTagged, WorkLabels
    <2>2. Tagged(vlanId[vlan[t]]) \in Devices BY <2>1, SomeDevices
    <2>3. DevType' BY <1>5, <1>d, <2>2, CreateDeviceType DEF CreateTagged, DevType
    <2> QED BY <1>5, <1>d, <2>3 DEF CreateTagged, WanType
  <1>6. CASE EnableBridge(t)
    <2>1. DevType' BY <1>6, <1>d, CreateDeviceType, SomeDevices DEF EnableBridge, DevType
    <2> QED BY <1>6, <1>d, <2>1 DEF EnableBridge, WanType
  <1>7. CASE PollVlan(t)
    <2>1. PICK st : PollTurn(t, "PollVlan", st, "SendVlanUp", "EnableDone")
      BY <1>7 DEF PollVlan
    <2>2. polls' \in [Procs -> 0..(MaxPoll - 1)] BY <1>t, <2>1, PollTurnMoves
    <2> QED BY <1>7, <1>d, <2>2 DEF PollVlan, DevType, WanType
  <1>8. CASE SendVlanUp(t)
    <2>1. WanType' BY <1>8, <1>d, NotifyType DEF SendVlanUp
    <2> QED BY <1>8, <1>d, <2>1 DEF SendVlanUp, DevType
  <1>9. CASE EnableDone(t) BY <1>9, <1>d DEF EnableDone, Finish, DevType, WanType
  <1>10. CASE DisableLock(t) BY <1>10, <1>d DEF DisableLock, Lock, Exists, DevType, WanType
  <1>11. CASE DisableLink(t) BY <1>11, <1>d DEF DisableLink, SetEthLink, DevType, WanType
  <1>12. CASE ClearTagging(t) BY <1>12, <1>d DEF ClearTagging, DevType, WanType
  <1>13. CASE RemoveVlan(t)
    <2> DEFINE name == vlanName[vlan[t]]
    <2>1. DeleteDevice(name) \/ UNCHANGED dev
      <3>1. CASE Kind(vlanId[vlan[t]]) = "tagged" BY <1>13, <3>1 DEF RemoveVlan
      <3>2. CASE Kind(vlanId[vlan[t]]) = "bridge" BY <1>13, <3>2 DEF RemoveVlan
      <3>3. CASE Kind(vlanId[vlan[t]]) \notin {"tagged", "bridge"}
        BY <1>13, <3>3 DEF RemoveVlan
      <3> QED BY <3>1, <3>2, <3>3
    <2>2. DevType' BY <1>d, <2>1, DeleteDeviceType DEF DevType
    <2> QED BY <1>13, <1>d, <2>2 DEF RemoveVlan, WanType
  <1>14. CASE DisableDone(t)
    <2>1. WanType' BY <1>14, <1>d, NotifyType DEF DisableDone
    <2> QED BY <1>14, <1>d, <2>1 DEF DisableDone, Finish, DevType
  <1> QED BY <1>1, <1>2, <1>3, <1>4, <1>5, <1>6, <1>7, <1>8, <1>9, <1>10, <1>11,
             <1>12, <1>13, <1>14 DEF WorkerStep

-----------------------------------------------------------------------------
(* The mutex *)

\* Types, labels and mutual exclusion are inductive together: a step needs a worker to
\* have an entry to be well typed, and its label to be right to keep the mutex.
LEMMA EthStepKeepsIInv ==
  ASSUME NEW p \in Procs, IInv, EthStep(p), UNCHANGED vlanVars
  PROVE  IInv'
  <1>1. MovesInLink(p) BY EthStepMoves DEF IInv, TypeOK
  <1>2. UNCHANGED <<vlan, mutex>> BY DEF vlanVars
  <1>3. ThreadTypeOK'
    <2>1. polls' \in [Procs -> 0..(MaxPoll - 1)] BY EthStepType DEF IInv
    <2> QED
      BY <1>1, <2>1 DEF IInv, TypeOK, ThreadTypeOK, MovesInLink, CallLabels, RefreshLabels,
                        EthLabels, WorkLabels
  <1>4. VlanTypeOK' BY DEF IInv, TypeOK, VlanTypeOK, vlanVars, vlanFields, history
  <1>5. LabelsOK'
    BY <1>1, <1>2, EthLinkAssumption
       DEF IInv, TypeOK, ThreadTypeOK, LabelsOK, MovesInLink, CallLabels, RefreshLabels,
           EthLabels, Procs
  <1>6. MutualExclusion'
    BY <1>1, <1>2, EthLinkAssumption
       DEF IInv, TypeOK, ThreadTypeOK, LabelsOK, MutualExclusion, InCritical, MovesInLink,
           CallLabels, RefreshLabels, EthLabels, LockLabels, Procs
  <1> QED BY <1>3, <1>4, <1>5, <1>6, EthStepType DEF IInv, TypeOK

LEMMA WorkerStepKeepsIInv ==
  ASSUME NEW t \in Threads, IInv, WorkerStep(t)
  PROVE  IInv'
  <1>1. TakesMutex(t) \/ GoesOn(t) \/ GivesUpMutex(t)
    BY WorkerStepMoves DEF IInv, TypeOK
  <1>2. /\ PlatformTypeOK' /\ EthFieldsTypeOK' /\ VlanTypeOK'
        /\ polls' \in [Procs -> 0..(MaxPoll - 1)]
    BY WorkerStepType DEF IInv
  <1> SUFFICES ThreadTypeOK' /\ LabelsOK' /\ MutualExclusion'
    BY <1>2 DEF IInv, TypeOK
  <1> USE EthLinkAssumption, VlanAssumption
      DEF IInv, TypeOK, ThreadTypeOK, LabelsOK, MutualExclusion, InCritical, CallLabels,
          RefreshLabels, EthLabels, LockLabels, WorkLabels, Procs, VlanTypeOK
  <1>3. CASE TakesMutex(t) BY <1>2, <1>3 DEF TakesMutex
  <1>4. CASE GoesOn(t)
    <2>1. CASE /\ \E m \in WorkLabels : pc' = [pc EXCEPT ![t] = m]
               /\ UNCHANGED <<ret, link>>
      BY <1>2, <1>4, <2>1 DEF GoesOn
    <2>2. CASE /\ \E m \in CallLabels : pc' = [pc EXCEPT ![t] = m]
               /\ \E r \in {"DeleteTagged", "EnableDone", "ClearTagging"} :
                    ret' = [ret EXCEPT ![t] = r]
               /\ \E k \in Links : link' = [link EXCEPT ![t] = k]
      <3>1. ThreadTypeOK' BY <1>2, <2>2
      <3>2. LabelsOK' BY <1>4, <2>2 DEF GoesOn
      <3>3. MutualExclusion' BY <1>4, <2>2 DEF GoesOn
      <3> QED BY <3>1, <3>2, <3>3
    <2> QED BY <1>4, <2>1, <2>2 DEF GoesOn
  <1>5. CASE GivesUpMutex(t) BY <1>2, <1>5 DEF GivesUpMutex
  <1> QED BY <1>1, <1>3, <1>4, <1>5

LEMMA EthRequestKeepsIInv ==
  ASSUME IInv, EthRequest, UNCHANGED vlanVars
  PROVE  IInv'
  <1> USE EthLinkAssumption
      DEF IInv, TypeOK, PlatformTypeOK, EthFieldsTypeOK, ThreadTypeOK, VlanTypeOK, LabelsOK,
          MutualExclusion, InCritical, CallLabels, RefreshLabels, EthLabels, LockLabels,
          Procs, Serve, Goto, platformVars, ethFields, threadVars, vlanVars, vlanFields,
          history
  <1>1. ASSUME NEW l \in Links, NEW b \in BOOLEAN, SetLinkEnable(l, b) PROVE IInv'
    BY <1>1 DEF SetLinkEnable
  <1>2. ASSUME NEW l \in Links, NEW b \in BOOLEAN, SetPriorityTagging(l, b) PROVE IInv'
    BY <1>2 DEF SetPriorityTagging
  <1>3. ASSUME NEW l \in Links, NEW t \in Threads, SetRefresh(l, t) PROVE IInv'
    BY <1>3 DEF SetRefresh
  <1>4. ASSUME NEW l \in Links, GetLinkStatus(l) PROVE IInv'
    BY <1>4, StatusReadsType DEF GetLinkStatus, LinkStatusReads
  <1> HIDE DEF IInv, Serve
  <1> QED BY <1>1, <1>2, <1>3, <1>4 DEF EthRequest

LEMMA VlanRequestKeepsIInv ==
  ASSUME IInv, VlanRequest
  PROVE  IInv'
  <1> USE EthLinkAssumption, VlanAssumption
      DEF IInv, TypeOK, PlatformTypeOK, EthFieldsTypeOK, ThreadTypeOK, VlanTypeOK, LabelsOK,
          MutualExclusion, InCritical, CallLabels, RefreshLabels, EthLabels, LockLabels,
          Procs, Serve, Goto, platformVars, ethFields, threadVars, vlanFields, history
  <1>1. ASSUME NEW v \in Vlans, NEW b \in BOOLEAN, SetVlanEnable(v, b) PROVE IInv'
    <2>1. CASE UNCHANGED <<pc, vlan>>
      BY <1>1, <2>1 DEF SetVlanEnable, Answer
    <2>2. ASSUME NEW t \in Threads,
                 Goto(t, "idle", IF b THEN "EnableLock" ELSE "DisableLock"),
                 vlan' = [vlan EXCEPT ![t] = v]
          PROVE  IInv'
      BY <1>1, <2>2 DEF SetVlanEnable, Answer
    <2> QED BY <1>1, <2>1, <2>2 DEF SetVlanEnable
  <1>2. ASSUME NEW v \in Vlans, NEW id \in VlanIds, SetVlanId(v, id) PROVE IInv'
    BY <1>2 DEF SetVlanId
  <1>3. ASSUME NEW v \in Vlans, NEW n \in Names, SetVlanName(v, n) PROVE IInv'
    BY <1>3 DEF SetVlanName
  <1>4. ASSUME NEW v \in Vlans, NEW l \in Links \cup {NoLink}, SetLowerLayers(v, l)
        PROVE  IInv'
    BY <1>4 DEF SetLowerLayers
  <1>5. ASSUME NEW v \in Vlans, GetVlanStatus(v) PROVE IInv'
    BY <1>5, StatusReadsType DEF GetVlanStatus
  <1>6. ASSUME NEW v \in Vlans, Rollback(v) PROVE IInv'
    BY <1>6 DEF Rollback
  <1> HIDE DEF IInv
  <1> QED BY <1>1, <1>2, <1>3, <1>4, <1>5, <1>6 DEF VlanRequest

LEMMA StartTypes ==
  /\ EthStart.Enable \in [Links -> BOOLEAN]
  /\ EthStart.PriorityTagging \in [Links -> BOOLEAN]
  /\ EthStart.Status \in [Links -> {"Up", "Down", "Error"}]
  /\ EthStart.Marking \in [Links -> {"none", "table", "lost"}]
  /\ VlanStart.Enable \in [Vlans -> BOOLEAN]
  /\ VlanStart.Status \in [Vlans -> {"Up", "Down", "Error", "Unset"}]
  BY DEF EthStart, VlanStart

LEMMA RestartKeepsIInv ==
  ASSUME IInv, Restart
  PROVE  IInv'
  <1> USE StartTypes, EthLinkAssumption, VlanAssumption DEF Restart
  <1>1. PlatformTypeOK' BY DEF IInv, TypeOK, PlatformTypeOK, platformVars
  <1>2. EthFieldsTypeOK' BY DEF IInv, TypeOK, EthFieldsTypeOK
  <1>3. ThreadTypeOK' BY DEF ThreadTypeOK
  <1>4. VlanTypeOK' BY DEF IInv, TypeOK, VlanTypeOK
  <1>5. LabelsOK' BY DEF LabelsOK, Procs, CallLabels, EthLabels, RefreshLabels
  <1>6. MutualExclusion' BY DEF MutualExclusion, InCritical
  <1> QED BY <1>1, <1>2, <1>3, <1>4, <1>5, <1>6 DEF IInv, TypeOK

LEMMA InitIInv == Init => IInv
  <1> SUFFICES ASSUME Init PROVE IInv
    OBVIOUS
  <1> USE StartTypes, EthLinkAssumption, VlanAssumption, SomeDevices DEF Init, EthInit
  <1>1. PlatformTypeOK BY DEF PlatformInit, PlatformTypeOK
  <1>2. EthFieldsTypeOK BY DEF EthFieldsTypeOK
  <1>3. ThreadTypeOK BY DEF ThreadTypeOK
  <1>4. VlanTypeOK BY DEF VlanTypeOK
  <1>5. LabelsOK BY DEF LabelsOK, Procs, CallLabels, EthLabels, RefreshLabels
  <1>6. MutualExclusion BY DEF MutualExclusion, InCritical
  <1> QED BY <1>1, <1>2, <1>3, <1>4, <1>5, <1>6 DEF IInv, TypeOK

LEMMA StepKeepsIInv == IInv /\ [Next]_vars => IInv'
  <1> SUFFICES ASSUME IInv, [Next]_vars PROVE IInv'
    OBVIOUS
  <1>1. CASE EthPart
    BY <1>1, EthRequestKeepsIInv, EthStepKeepsIInv DEF EthPart
  <1>2. CASE VlanRequest BY <1>2, VlanRequestKeepsIInv
  <1>3. CASE \E t \in Threads : WorkerStep(t) BY <1>3, WorkerStepKeepsIInv
  <1>4. CASE Restart BY <1>4, RestartKeepsIInv
  <1>5. CASE UNCHANGED vars
    BY <1>5
       DEF vars, ethVars, platformVars, ethFields, threadVars, vlanVars, vlanFields, history,
           IInv, TypeOK, PlatformTypeOK, EthFieldsTypeOK, ThreadTypeOK, VlanTypeOK, LabelsOK,
           MutualExclusion, InCritical
  <1> QED BY <1>1, <1>2, <1>3, <1>4, <1>5 DEF Next

\* Every variable keeps its type, through every fault, restart and overlap of requests
\* (vlan_apis.c, ethernet_apis.c, vlan_dml.c, ethernet_dml.c).
THEOREM TypeCorrect == Spec => []TypeOK
  <1>1. IInv => TypeOK BY DEF IInv
  <1> QED BY InitIInv, StepKeepsIInv, <1>1, PTL DEF Spec

\* Exactly the holder of vlan_access_mutex is between the lock and the unlock of
\* Vlan_Enable or Vlan_Disable (vlan_apis.c 362-427, 626-730), wherever in the links or
\* in its own steps it is.
THEOREM MutexExcludes == Spec => []MutualExclusion
  <1>1. IInv => MutualExclusion BY DEF IInv
  <1> QED BY InitIInv, StepKeepsIInv, <1>1, PTL DEF Spec

-----------------------------------------------------------------------------
(* The device of a tagged entry *)

\* The systems the theorems below are about: every entry is tagged, has a device name
\* of its own that it keeps, and commands to devices work.  The HAL build also needs
\* the markings of a link and a socket.
TaggedSystem ==
  /\ \A id \in VlanIds : 1 <= id /\ id <= 4094
  /\ \A v, w \in Vlans : PsmName[v] = PsmName[w] => v = w
  /\ \A v \in Vlans, l \in Links : PsmName[v] # LinkName[l]
  /\ {"vlanName", "rollback"} \cap Requests = {}
  /\ "device" \notin Faults
  /\ Hal = "json" => /\ "memory" \notin Faults /\ "socket" \notin Faults
                     /\ \A v \in Vlans : MarkingLink[v] \in Links

\* The part of its procedure a worker is in, also while it is in a link.
Phase(t) == IF pc[t] \in CallLabels THEN ret[t] ELSE pc[t]

Enabling == {"TagLink", "DeleteTagged", "CreateTagged", "PollVlan", "SendVlanUp",
             "EnableDone"}
Disabling == {"DisableLink", "ClearTagging", "RemoveVlan", "DisableDone"}

\* A thread in a link has one.
LinkSet == \A p \in Procs : pc[p] \in EthLabels => link[p] \in Links

\* Without a "memory" fault no marking table is lost.
NoneLost == "memory" \notin Faults => \A l \in Links : ethMarking[l] # "lost"

\* The holder of the mutex is in the procedure the history says.
PhaseOK ==
  \A t \in Threads : mutex = t =>
    /\ pc[t] \in CallLabels => ret[t] \in {"DeleteTagged", "ClearTagging"}
    /\ \/ Phase(t) \in Enabling /\ lastRun[vlan[t]] = "Enable"
       \/ Phase(t) \in Disabling /\ lastRun[vlan[t]] = "Disable"

Present(v) == Exists(PsmName[v])

\* The device of an entry is as its last worker left it, or, while a worker has the
\* mutex, as far as that one has got.
Settled ==
  \A v \in Vlans : (mutex = NoThread \/ vlan[mutex] # v) =>
    /\ lastRun[v] = "Enable" => Present(v)
    /\ lastRun[v] = "Disable" => ~Present(v)

Progress ==
  \A t \in Threads : mutex = t =>
    /\ pc[t] \in {"PollVlan", "SendVlanUp", "EnableDone"} => Present(vlan[t])
    /\ pc[t] = "DisableDone" => ~Present(vlan[t])

DeviceInv ==
  /\ vlanName = PsmName /\ LinkSet /\ NoneLost /\ PhaseOK /\ Settled /\ Progress

LEMMA TaggedIds ==
  ASSUME TaggedSystem, NEW id \in VlanIds
  PROVE  Kind(id) = "tagged" /\ CreatableId(id) /\ id \in Int /\ id > 0
  BY PlatformAssumption DEF TaggedSystem, Kind, CreatableId

\* A command touches only the device it names.
LEMMA OtherDevices ==
  ASSUME NEW n, NEW d, NEW m \in Names, m # n, DevType,
         Command(n, d) \/ CreateDevice(n, d) \/ DeleteDevice(n)
  PROVE  dev'[m] = dev[m]
  BY DEF DevType, Command, CreateDevice, DeleteDevice

\* A thread in a link leaves the devices of entries alone, and loses no marking table.
LEMMA EthStepDevices ==
  ASSUME TaggedSystem, IInv, LinkSet, NoneLost, NEW p \in Procs, EthStep(p)
  PROVE  NoneLost' /\ \A v \in Vlans : dev'[PsmName[v]] = dev[PsmName[v]]
  <1>1. DevType /\ \A v \in Vlans : PsmName[v] \in Names
    BY VlanAssumption DEF IInv, TypeOK, PlatformTypeOK, DevType
  <1>2. pc[p] \in EthLabels => \A v \in Vlans : PsmName[v] # LinkName[link[p]]
    BY DEF LinkSet, TaggedSystem
  <1>3. ethMarking \in [Links -> {"none", "table", "lost"}]
    BY DEF IInv, TypeOK, EthFieldsTypeOK
  <1> USE <1>1, <1>2, <1>3, OtherDevices
      DEF NoneLost, platformVars, ethFields, EthLabels, Goto, Return
  <1>a. CASE CheckOn(p) \/ On(p) \/ CheckUntagged(p) BY <1>a DEF CheckOn, On, CheckUntagged
  <1>b. CASE AddMarking(p) \/ RefreshMarking(p)
    BY <1>b DEF AddMarking, RefreshMarking, LoadMarking, CreateMarkingTable
  <1>c. CASE DeleteOld(p) BY <1>c DEF DeleteOld
  <1>d. CASE GetMarkingFails(p) BY <1>d DEF GetMarkingFails
  <1>e. CASE CreateUntagged(p) BY <1>e DEF CreateUntagged
  <1>f. CASE PollUntagged(p) \/ PollRefresh(p) BY <1>f DEF PollUntagged, PollRefresh
  <1>g. CASE SendLinkUp(p) \/ LinkUp(p) \/ SendRefreshUp(p)
    BY <1>g DEF SendLinkUp, LinkUp, SendRefreshUp
  <1>h. CASE CheckOff(p) \/ Off(p) \/ DeleteMarking(p) \/ LinkDown(p)
    BY <1>h DEF CheckOff, Off, DeleteMarking, LinkDown
  <1>i. CASE RemoveUntagged(p) BY <1>i DEF RemoveUntagged
  <1> QED BY <1>a, <1>b, <1>c, <1>d, <1>e, <1>f, <1>g, <1>h, <1>i DEF EthStep

\* So a step in a link only moves its thread, within the phase of its worker.
LEMMA EthStepKeepsDeviceInv ==
  ASSUME TaggedSystem, IInv, DeviceInv, NEW p \in Procs, EthStep(p), UNCHANGED vlanVars
  PROVE  DeviceInv'
  <1>1. MovesInLink(p) BY EthStepMoves DEF IInv, TypeOK
  <1>2. NoneLost' /\ \A v \in Vlans : dev'[PsmName[v]] = dev[PsmName[v]]
    BY EthStepDevices DEF DeviceInv
  <1>3. UNCHANGED <<vlanName, vlan, mutex, lastRun>>
    BY DEF vlanVars, vlanFields, history
  <1>4. pc \in [Procs -> {"idle"} \cup EthLabels \cup LockLabels \cup WorkLabels]
    BY DEF IInv, TypeOK, ThreadTypeOK
  <1>5. \A v \in Vlans : Present(v)' <=> Present(v) BY <1>2 DEF Present, Exists
  <1>6. LinkSet'
    BY <1>1, <1>4 DEF DeviceInv, LinkSet, MovesInLink, CallLabels, RefreshLabels, EthLabels,
                      IInv, TypeOK, ThreadTypeOK
  <1>7. \A t \in Threads : mutex = t => vlan[t] \in Vlans /\ pc[t] \notin RefreshLabels
    BY DEF IInv, TypeOK, VlanTypeOK, LabelsOK, MutualExclusion, InCritical
  <1>8. PhaseOK'
    BY <1>1, <1>3, <1>4, <1>7
       DEF DeviceInv, PhaseOK, Phase, MovesInLink, CallLabels, RefreshLabels, EthLabels,
           Enabling, Disabling, Procs
  <1>9. Settled' BY <1>3, <1>5 DEF DeviceInv, Settled
  <1>10. Progress'
    BY <1>1, <1>3, <1>4, <1>5, <1>7
       DEF DeviceInv, PhaseOK, Progress, MovesInLink, CallLabels, RefreshLabels, EthLabels,
           Procs
  <1> QED BY <1>2, <1>3, <1>6, <1>8, <1>9, <1>10 DEF DeviceInv

\* What is known of a worker in a step of its own.
LEMMA HolderFacts ==
  ASSUME IInv, NEW t \in Threads, pc[t] \in WorkLabels
  PROVE  /\ mutex = t /\ vlan[t] \in Vlans /\ t \in Procs
         /\ \A u \in Threads : u # t => mutex # u
         /\ Phase(t) = pc[t]
  <1>1. vlan[t] # NoVlan
    BY DEF IInv, LabelsOK, RefreshLabels, WorkLabels
  <1>2. mutex = t
    BY <1>1 DEF IInv, MutualExclusion, InCritical, LockLabels, WorkLabels
  <1>3. vlan[t] \in Vlans BY <1>1 DEF IInv, TypeOK, VlanTypeOK
  <1>4. Phase(t) = pc[t] BY DEF Phase, CallLabels, EthLabels, WorkLabels
  <1> QED BY <1>2, <1>3, <1>4 DEF Procs

\* A worker in the mutex moves on to label m of its procedure.
Advances(t, m) ==
  /\ pc' = [pc EXCEPT ![t] = m]
  /\ UNCHANGED <<vlanName, ethMarking, lastRun, mutex, vlan, ret, link>>

LEMMA AdvanceKeepsDeviceInv ==
  ASSUME TaggedSystem, IInv, DeviceInv, NEW t \in Threads, NEW m \in WorkLabels,
         pc[t] \in WorkLabels, Advances(t, m),
         pc[t] \in Enabling <=> m \in Enabling,
         m \in Enabling \cup Disabling,
         \A v \in Vlans : v # vlan[t] => (Present(v)' <=> Present(v)),
         m \in {"PollVlan", "SendVlanUp", "EnableDone"} => Present(vlan[t])',
         m = "DisableDone" => ~Present(vlan[t])'
  PROVE  DeviceInv'
  <1>1. /\ mutex = t /\ vlan[t] \in Vlans /\ t \in Procs
        /\ \A u \in Threads : u # t => mutex # u
        /\ Phase(t) = pc[t]
    BY HolderFacts
  <1>2. pc \in [Procs -> {"idle"} \cup EthLabels \cup LockLabels \cup WorkLabels]
    BY DEF IInv, TypeOK, ThreadTypeOK
  <1>3. LinkSet'
    BY <1>1, <1>2 DEF DeviceInv, LinkSet, Advances, EthLabels, WorkLabels
  <1>4. NoneLost' BY DEF DeviceInv, NoneLost, Advances
  <1>5. \/ pc[t] \in Enabling /\ lastRun[vlan[t]] = "Enable"
        \/ pc[t] \in Disabling /\ lastRun[vlan[t]] = "Disable"
    BY <1>1 DEF DeviceInv, PhaseOK
  <1>6. pc'[t] = m /\ m \notin CallLabels
    BY <1>1, <1>2 DEF Advances, CallLabels, EthLabels, WorkLabels
  <1>7. PhaseOK'
    <2>1. Phase(t)' = m BY <1>6 DEF Phase
    <2>2. \/ m \in Enabling /\ lastRun[vlan[t]] = "Enable"
          \/ m \in Disabling /\ lastRun[vlan[t]] = "Disable"
      BY <1>5 DEF Enabling, Disabling
    <2> QED BY <1>1, <1>6, <2>1, <2>2 DEF PhaseOK, Advances
  <1>8. Settled' BY <1>1, VlanAssumption DEF DeviceInv, Settled, Advances
  <1>9. Progress' BY <1>1, <1>6 DEF Progress, Advances
  <1>10. vlanName' = PsmName BY DEF DeviceInv, Advances
  <1> QED BY <1>3, <1>4, <1>7, <1>8, <1>9, <1>10 DEF DeviceInv

\* A worker enters its procedure: the devices are as they were settled.
LEMMA LockKeepsDeviceInv ==
  ASSUME TaggedSystem, IInv, DeviceInv, NEW t \in Threads,
         EnableLock(t) \/ DisableLock(t)
  PROVE  DeviceInv'
  <1>1. /\ pc[t] \in LockLabels /\ mutex = NoThread /\ mutex' = t /\ t \in Procs
        /\ UNCHANGED <<dev, vlanName, ethMarking, vlan, ret, link>>
    BY DEF EnableLock, DisableLock, Lock, Goto, LockLabels, Procs, platformVars, ethFields,
           vlanFields
  <1>2. vlan[t] \in Vlans BY <1>1, WorkerHasVlan DEF IInv, TypeOK
  <1>3. pc \in [Procs -> {"idle"} \cup EthLabels \cup LockLabels \cup WorkLabels]
    BY DEF IInv, TypeOK, ThreadTypeOK
  <1>4. vlanId[vlan[t]] \in VlanIds
    BY <1>2 DEF IInv, TypeOK, VlanTypeOK
  <1>5. lastRun \in [Vlans -> {"none", "Enable", "Disable"}]
    BY DEF IInv, TypeOK, VlanTypeOK
  <1>6. \/ /\ pc' = [pc EXCEPT ![t] = "TagLink"]
           /\ lastRun' = [lastRun EXCEPT ![vlan[t]] = "Enable"]
        \/ /\ pc' = [pc EXCEPT ![t] = "DisableLink"]
           /\ lastRun' = [lastRun EXCEPT ![vlan[t]] = "Disable"]
    <2>1. ASSUME NEW id \in VlanIds PROVE EnableWith(id) = "TagLink" /\ id # -1
      BY TaggedIds DEF EnableWith, Kind
    <2>2. EnableWith(vlanId[vlan[t]]) = "TagLink" /\ vlanId[vlan[t]] # -1
      BY <1>4, <2>1
    <2> QED BY <2>2 DEF EnableLock, DisableLock, Lock, Goto
  <1>7. \A v \in Vlans : Present(v)' <=> Present(v) BY <1>1 DEF Present, Exists
  <1>8. LinkSet' BY <1>1, <1>3, <1>6 DEF DeviceInv, LinkSet, EthLabels
  <1>9. PhaseOK'
    BY <1>1, <1>2, <1>3, <1>5, <1>6
       DEF PhaseOK, Phase, Enabling, Disabling, CallLabels, EthLabels
  <1>10. Settled'
    BY <1>1, <1>2, <1>5, <1>6, <1>7, VlanAssumption DEF DeviceInv, Settled
  <1>11. Progress' BY <1>1, <1>3, <1>6 DEF Progress
  <1> QED BY <1>1, <1>8, <1>9, <1>10, <1>11 DEF DeviceInv, NoneLost

\* A worker goes into its link.
LEMMA CallKeepsDeviceInv ==
  ASSUME TaggedSystem, IInv, DeviceInv, NEW t \in Threads, NEW m \in {"CheckOn", "CheckOff"},
         NEW k \in Links, NEW r \in {"DeleteTagged", "ClearTagging"}, pc[t] \in WorkLabels,
         pc[t] \in Enabling <=> r = "DeleteTagged",
         pc' = [pc EXCEPT ![t] = m], link' = [link EXCEPT ![t] = k],
         ret' = [ret EXCEPT ![t] = r],
         UNCHANGED <<dev, vlanName, ethMarking, lastRun, mutex, vlan>>
  PROVE  DeviceInv'
  <1>1. /\ mutex = t /\ vlan[t] \in Vlans /\ t \in Procs
        /\ \A u \in Threads : u # t => mutex # u
        /\ Phase(t) = pc[t]
    BY HolderFacts
  <1>2. /\ pc \in [Procs -> {"idle"} \cup EthLabels \cup LockLabels \cup WorkLabels]
        /\ link \in [Procs -> Links \cup {NoLink}]
        /\ ret \in [Procs -> {"idle", "DeleteTagged", "EnableDone", "ClearTagging"}]
    BY DEF IInv, TypeOK, ThreadTypeOK
  <1>3. \A v \in Vlans : Present(v)' <=> Present(v) BY DEF Present, Exists
  <1>4. LinkSet' BY <1>1, <1>2 DEF DeviceInv, LinkSet
  <1>5. PhaseOK'
    <2>1. \/ pc[t] \in Enabling /\ lastRun[vlan[t]] = "Enable"
          \/ pc[t] \in Disabling /\ lastRun[vlan[t]] = "Disable"
      BY <1>1 DEF DeviceInv, PhaseOK
    <2>2. pc'[t] \in CallLabels /\ ret'[t] = r
      BY <1>1, <1>2 DEF CallLabels, EthLabels, RefreshLabels
    <2>3. Phase(t)' = r BY <2>2 DEF Phase
    <2> QED BY <1>1, <2>1, <2>2, <2>3 DEF PhaseOK, Enabling, Disabling
  <1>6. Settled' BY <1>3 DEF DeviceInv, Settled
  <1>7. Progress' BY <1>1, <1>2 DEF Progress
  <1> QED BY <1>4, <1>5, <1>6, <1>7 DEF DeviceInv, NoneLost

LEMMA WorkerStepKeepsDeviceInv ==
  ASSUME TaggedSystem, IInv, DeviceInv, NEW t \in Threads, WorkerStep(t)
  PROVE  DeviceInv'
  <1>1. pc[t] \in WorkLabels =>
          /\ mutex = t /\ vlan[t] \in Vlans /\ t \in Procs
          /\ \A u \in Threads : u # t => mutex # u
          /\ Phase(t) = pc[t]
    BY HolderFacts
  <1>2. DevType /\ vlanName = PsmName /\ PsmName \in [Vlans -> Names]
    BY VlanAssumption DEF IInv, TypeOK, PlatformTypeOK, DevType, DeviceInv
  <1>3. pc[t] \in WorkLabels =>
          \/ pc[t] \in Enabling /\ lastRun[vlan[t]] = "Enable"
          \/ pc[t] \in Disabling /\ lastRun[vlan[t]] = "Disable"
    BY <1>1 DEF DeviceInv, PhaseOK
  <1>4. \A v, w \in Vlans : v # w => PsmName[v] # PsmName[w]
    BY DEF TaggedSystem
  <1>5. vlanLower \in [Vlans -> Links \cup {NoLink}] BY DEF IInv, TypeOK, VlanTypeOK
  <1>6. vlan[t] \in Vlans => Kind(vlanId[vlan[t]]) = "tagged" /\ CreatableId(vlanId[vlan[t]])
    BY TaggedIds DEF IInv, TypeOK, VlanTypeOK
  <1>7. dev' = dev => \A v \in Vlans : Present(v)' <=> Present(v)
    BY DEF Present, Exists
  <1>8. ASSUME pc[t] \in WorkLabels,
               UNCHANGED dev \/ Command(PsmName[vlan[t]], Tagged(vlanId[vlan[t]]))
                 \/ CreateDevice(PsmName[vlan[t]], Tagged(vlanId[vlan[t]]))
                 \/ DeleteDevice(PsmName[vlan[t]])
        PROVE  \A v \in Vlans : v # vlan[t] => (Present(v)' <=> Present(v))
    <2> TAKE v \in Vlans
    <2> HAVE v # vlan[t]
    <2>1. PsmName[v] \in Names /\ PsmName[v] # PsmName[vlan[t]]
      BY <1>1, <1>2, <1>4, <1>8
    <2>2. dev'[PsmName[v]] = dev[PsmName[v]] BY <1>2, <1>8, <2>1, OtherDevices
    <2> QED BY <2>2 DEF Present, Exists
  <1> USE DEF Goto, WorkLabels, Enabling, Disabling
  <1>a. CASE EnableLock(t) \/ DisableLock(t) BY <1>a, LockKeepsDeviceInv
  <1>b. CASE TagLink(t)
    <2>1. pc[t] = "TagLink" BY <1>b DEF TagLink, EnableEthLink, SetEthLink
    <2>2. vlanLower[vlan[t]] \in Links \cup {NoLink} BY <1>1, <1>5, <2>1
    <2>3. UNCHANGED <<dev, vlanName, ethMarking, lastRun, mutex, vlan>>
      BY <1>b DEF TagLink, EnableEthLink, platformVars, vlanVars, vlanFields, history
    <2>4. CASE vlanLower[vlan[t]] = NoLink
      <3>1. Advances(t, "DeleteTagged")
        BY <1>b, <2>3, <2>4 DEF TagLink, EnableEthLink, SetEthLink, Advances
      <3> QED BY <1>7, <2>1, <2>3, <3>1, AdvanceKeepsDeviceInv
    <2>5. CASE vlanLower[vlan[t]] \in Links
      <3>1. /\ pc' = [pc EXCEPT ![t] = "CheckOn"]
            /\ link' = [link EXCEPT ![t] = vlanLower[vlan[t]]]
            /\ ret' = [ret EXCEPT ![t] = "DeleteTagged"]
        BY <1>b, <2>5, EthLinkAssumption DEF TagLink, EnableEthLink, SetEthLink
      <3> QED BY <2>1, <2>3, <2>5, <3>1, CallKeepsDeviceInv
    <2> QED BY <2>2, <2>4, <2>5
  <1>c. CASE UntagLink(t) \/ EnableBridge(t)
    <2>1. pc[t] \in {"UntagLink", "EnableBridge"}
      BY <1>c DEF UntagLink, EnableEthLink, SetEthLink, EnableBridge
    <2> QED BY <1>3, <2>1
  <1>d. CASE DeleteTagged(t)
    <2>1. pc[t] = "DeleteTagged" BY <1>d DEF DeleteTagged
    <2>2. Advances(t, "CreateTagged")
      BY <1>d DEF DeleteTagged, Advances, ethFields, vlanVars, vlanFields, history
    <2>3. UNCHANGED dev \/ DeleteDevice(PsmName[vlan[t]]) BY <1>d, <1>2 DEF DeleteTagged
    <2>4. \A v \in Vlans : v # vlan[t] => (Present(v)' <=> Present(v)) BY <1>8, <2>1, <2>3
    <2> QED BY <2>1, <2>2, <2>4, AdvanceKeepsDeviceInv
  <1>e. CASE CreateTagged(t)
    <2>1. pc[t] = "CreateTagged" BY <1>e DEF CreateTagged
    <2>2. Advances(t, "PollVlan")
      BY <1>e DEF CreateTagged, Advances, ethFields, history
    <2>3. CreateDevice(PsmName[vlan[t]], Tagged(vlanId[vlan[t]]))
      <3>1. Hal = "json" => /\ MarkingLink[vlan[t]] \in Links
                            /\ ~MarkingMayFail(MarkingLink[vlan[t]])
        BY <1>1, <2>1 DEF TaggedSystem, DeviceInv, NoneLost, MarkingMayFail
      <3>2. Hal = "json" => MarkingLink[vlan[t]] # NoLink BY <3>1, EthLinkAssumption
      <3> QED BY <1>e, <1>2, <3>1, <3>2 DEF CreateTagged
    <2>4. Present(vlan[t])'
      <3>1. Tagged(vlanId[vlan[t]]) # NoDevice /\ CreatableId(Tagged(vlanId[vlan[t]]).vid)
        BY <1>1, <1>6, <2>1 DEF Tagged, NoDevice
      <3>2. PsmName[vlan[t]] \in Names BY <1>1, <1>2, <2>1
      <3>3. dev' = dev \/ dev' = [dev EXCEPT ![PsmName[vlan[t]]] = Tagged(vlanId[vlan[t]])]
        BY <2>3 DEF CreateDevice, Command
      <3>4. CASE Exists(PsmName[vlan[t]])
        BY <1>2, <2>2, <2>3, <3>4 DEF CreateDevice, Advances, Present, Exists
      <3>5. CASE ~Exists(PsmName[vlan[t]])
        <4>1. dev' = [dev EXCEPT ![PsmName[vlan[t]]] = Tagged(vlanId[vlan[t]])]
          BY <2>3, <3>1, <3>5 DEF CreateDevice, Command, TaggedSystem
        <4> QED BY <1>2, <2>2, <3>1, <3>2, <4>1 DEF Advances, DevType, Present, Exists
      <3> QED BY <3>4, <3>5
    <2>5. \A v \in Vlans : v # vlan[t] => (Present(v)' <=> Present(v)) BY <1>8, <2>1, <2>3
    <2> QED BY <2>1, <2>2, <2>4, <2>5, AdvanceKeepsDeviceInv
  <1>f. CASE PollVlan(t)
    <2>1. PICK st : PollTurn(t, "PollVlan", st, "SendVlanUp", "EnableDone")
      BY <1>f DEF PollVlan
    <2>2. pc[t] = "PollVlan" BY <1>f DEF PollVlan
    <2>3. PICK m \in {"PollVlan", "SendVlanUp", "EnableDone"} : pc' = [pc EXCEPT ![t] = m]
      BY <1>1, <2>1, <2>2, PollTurnMoves DEF IInv, TypeOK
    <2>4. Advances(t, m) /\ UNCHANGED dev
      BY <1>f, <2>3
         DEF PollVlan, Advances, platformVars, ethFields, vlanVars, vlanFields, history
    <2>5. Present(vlan[t]) BY <1>1, <2>2 DEF DeviceInv, Progress
    <2>6. Present(vlan[t])' BY <1>1, <1>7, <2>2, <2>4, <2>5 DEF Advances
    <2> QED BY <1>1, <1>7, <2>2, <2>4, <2>6, AdvanceKeepsDeviceInv
  <1>g. CASE SendVlanUp(t)
    <2>1. pc[t] = "SendVlanUp" BY <1>g DEF SendVlanUp
    <2>2. Advances(t, "EnableDone") /\ UNCHANGED dev
      BY <1>g DEF SendVlanUp, Advances, ethFields, vlanVars, vlanFields, history
    <2>3. Present(vlan[t]) BY <1>1, <2>1 DEF DeviceInv, Progress
    <2>4. Present(vlan[t])' BY <1>1, <1>7, <2>1, <2>2, <2>3 DEF Advances
    <2> QED BY <1>1, <1>7, <2>1, <2>2, <2>4, AdvanceKeepsDeviceInv
  <1>h. CASE DisableLink(t)
    <2>1. pc[t] = "DisableLink" BY <1>h DEF DisableLink, SetEthLink
    <2>2. vlanLower[vlan[t]] \in Links \cup {NoLink} BY <1>1, <1>5, <2>1
    <2>3. UNCHANGED <<dev, vlanName, ethMarking, lastRun, mutex, vlan>>
      BY <1>h DEF DisableLink, platformVars, ethFields, vlanVars, vlanFields, history
    <2>4. CASE vlanLower[vlan[t]] = NoLink
      <3>1. Advances(t, "RemoveVlan")
        BY <1>h, <2>3, <2>4 DEF DisableLink, SetEthLink, Advances
      <3> QED BY <1>7, <2>1, <2>3, <3>1, AdvanceKeepsDeviceInv
    <2>5. CASE vlanLower[vlan[t]] \in Links
      <3>1. /\ pc' = [pc EXCEPT ![t] = "CheckOff"]
            /\ link' = [link EXCEPT ![t] = vlanLower[vlan[t]]]
            /\ ret' = [ret EXCEPT ![t] = "ClearTagging"]
        BY <1>h, <2>5, EthLinkAssumption DEF DisableLink, SetEthLink
      <3> QED BY <2>1, <2>3, <2>5, <3>1, CallKeepsDeviceInv
    <2> QED BY <2>2, <2>4, <2>5
  <1>i. CASE ClearTagging(t)
    <2>1. pc[t] = "ClearTagging" BY <1>i DEF ClearTagging
    <2>2. Advances(t, "RemoveVlan") /\ UNCHANGED dev
      BY <1>i DEF ClearTagging, Advances, platformVars, vlanVars, vlanFields, history
    <2> QED BY <1>7, <2>1, <2>2, AdvanceKeepsDeviceInv
  <1>j. CASE RemoveVlan(t)
    <2>1. pc[t] = "RemoveVlan" BY <1>j DEF RemoveVlan
    <2>2. Advances(t, "DisableDone")
      BY <1>j DEF RemoveVlan, Advances, ethFields, vlanVars, vlanFields, history
    <2>3. \E st \in StatusReads(PsmName[vlan[t]]) :
            IF Hal = "json" /\ st = "Error" THEN UNCHANGED dev
                                            ELSE DeleteDevice(PsmName[vlan[t]])
      BY <1>j, <1>1, <1>2, <1>6, <2>1 DEF RemoveVlan
    <2>4. DeleteDevice(PsmName[vlan[t]])
      BY <2>3 DEF StatusReads, TaggedSystem
    <2>5. ~Present(vlan[t])'
      BY <1>1, <1>2, <2>1, <2>2, <2>4
         DEF Advances, DeleteDevice, Command, TaggedSystem, DevType, Present, Exists
    <2>6. \A v \in Vlans : v # vlan[t] => (Present(v)' <=> Present(v)) BY <1>8, <2>1, <2>4
    <2> QED BY <2>1, <2>2, <2>5, <2>6, AdvanceKeepsDeviceInv
  <1>k. CASE EnableDone(t) \/ DisableDone(t)
    <2>1. pc[t] \in {"EnableDone", "DisableDone"} BY <1>k DEF EnableDone, DisableDone, Finish
    <2>2. /\ GivesUpMutex(t)
          /\ UNCHANGED <<dev, vlanName, ethMarking, lastRun>>
      BY <1>k, <2>1
         DEF EnableDone, DisableDone, Finish, GivesUpMutex, platformVars, ethFields, history
    <2>3. /\ pc \in [Procs -> {"idle"} \cup EthLabels \cup LockLabels \cup WorkLabels]
          /\ vlan \in [Threads -> Vlans \cup {NoVlan}]
          /\ link \in [Procs -> Links \cup {NoLink}]
      BY DEF IInv, TypeOK, ThreadTypeOK, VlanTypeOK
    <2>4. LinkSet'
      BY <1>1, <2>1, <2>2, <2>3 DEF DeviceInv, LinkSet, GivesUpMutex, EthLabels
    <2>5. PhaseOK' /\ Progress'
      BY <2>2, VlanAssumption DEF GivesUpMutex, PhaseOK, Progress
    <2>6. Settled'
      <3>1. /\ lastRun[vlan[t]] = "Enable" => Present(vlan[t])
            /\ lastRun[vlan[t]] = "Disable" => ~Present(vlan[t])
        BY <1>1, <1>3, <2>1 DEF DeviceInv, Progress
      <3> QED BY <1>1, <1>7, <2>1, <2>2, <3>1 DEF DeviceInv, Settled
    <2> QED BY <2>2, <2>4, <2>5, <2>6 DEF DeviceInv, NoneLost
  <1> QED BY <1>a, <1>b, <1>c, <1>d, <1>e, <1>f, <1>g, <1>h, <1>i, <1>j, <1>k
          DEF WorkerStep

LEMMA RequestKeepsDeviceInv ==
  ASSUME TaggedSystem, IInv, DeviceInv, VlanRequest \/ (EthRequest /\ UNCHANGED vlanVars)
  PROVE  DeviceInv'
  <1>1. /\ pc \in [Procs -> {"idle"} \cup EthLabels \cup LockLabels \cup WorkLabels]
        /\ link \in [Procs -> Links \cup {NoLink}]
        /\ ret \in [Procs -> {"idle", "DeleteTagged", "EnableDone", "ClearTagging"}]
        /\ vlan \in [Threads -> Vlans \cup {NoVlan}]
    BY DEF IInv, TypeOK, ThreadTypeOK, VlanTypeOK
  <1>2. \A t \in Threads : pc[t] = "idle" => mutex # t
    BY DEF IInv, LabelsOK, MutualExclusion, InCritical
  <1>3. mutex \in Threads \cup {NoThread} BY DEF IInv, TypeOK, VlanTypeOK
  \* A request changes the threads only by starting one that is idle.
  <1>4. ASSUME UNCHANGED <<dev, vlanName, ethMarking, lastRun, mutex>>,
               NEW p \in Procs, pc[p] = "idle",
               \/ UNCHANGED <<pc, link, ret, vlan>>
               \/ /\ \E m \in {"EnableLock", "DisableLock"} : pc' = [pc EXCEPT ![p] = m]
                  /\ \E v \in Vlans : vlan' = [vlan EXCEPT ![p] = v]
                  /\ UNCHANGED <<link, ret>>
               \/ /\ \E m \in {"CheckOn", "CheckOff", "RefreshMarking"} :
                       pc' = [pc EXCEPT ![p] = m]
                  /\ \E l \in Links : link' = [link EXCEPT ![p] = l]
                  /\ UNCHANGED vlan
                  /\ \A q \in Procs : q # p => ret'[q] = ret[q]
        PROVE  DeviceInv'
    <2>1. \A t \in Threads : mutex = t => t # p
      BY <1>2, <1>4
    <2>2. \A t \in Threads : mutex = t =>
            pc'[t] = pc[t] /\ ret'[t] = ret[t] /\ vlan'[t] = vlan[t]
      BY <1>1, <1>4, <2>1 DEF Procs
    <2>3. LinkSet'
      BY <1>1, <1>4 DEF DeviceInv, LinkSet, EthLabels
    <2>4. \A v \in Vlans : Present(v)' <=> Present(v) BY <1>4 DEF Present, Exists
    <2>5. PhaseOK' BY <1>4, <2>2 DEF DeviceInv, PhaseOK, Phase
    <2>6. Settled' BY <1>3, <1>4, <2>2, <2>4 DEF DeviceInv, Settled
    <2>7. Progress'
      <3>1. \A t \in Threads : mutex = t => Present(vlan[t])' = Present(vlan[t])
        BY <1>4, <2>2 DEF Present, Exists
      <3> QED BY <1>4, <2>2, <3>1 DEF DeviceInv, Progress
    <2> QED BY <1>4, <2>3, <2>5, <2>6, <2>7 DEF DeviceInv, NoneLost
  <1> USE DEF Serve, Procs, platformVars, ethFields, threadVars, vlanFields, history, Goto
  <1>a. ASSUME NEW l \in Links, NEW b \in BOOLEAN, SetLinkEnable(l, b), UNCHANGED vlanVars
        PROVE  DeviceInv'
    <2>1. /\ pc[Bus] = "idle" /\ UNCHANGED <<dev, vlanName, ethMarking, lastRun, mutex, vlan>>
          /\ \E m \in {"CheckOn", "CheckOff"} : pc' = [pc EXCEPT ![Bus] = m]
          /\ link' = [link EXCEPT ![Bus] = l]
          /\ \A q \in Procs : q # Bus => ret'[q] = ret[q]
      BY <1>1, <1>a DEF SetLinkEnable, vlanVars
    <2> QED BY <1>4, <2>1
  <1>b. ASSUME NEW l \in Links, NEW t \in Threads, SetRefresh(l, t), UNCHANGED vlanVars
        PROVE  DeviceInv'
    <2>1. /\ pc[t] = "idle" /\ UNCHANGED <<dev, vlanName, ethMarking, lastRun, mutex, vlan, ret>>
          /\ pc' = [pc EXCEPT ![t] = "RefreshMarking"]
          /\ link' = [link EXCEPT ![t] = l]
      BY <1>b DEF SetRefresh, vlanVars
    <2> QED BY <1>4, <2>1
  <1>c. ASSUME NEW l \in Links, NEW b \in BOOLEAN,
               SetPriorityTagging(l, b) \/ GetLinkStatus(l), UNCHANGED vlanVars
        PROVE  DeviceInv'
    <2>1. /\ pc[Bus] = "idle"
          /\ UNCHANGED <<dev, vlanName, ethMarking, lastRun, mutex, vlan, pc, link, ret>>
      BY <1>c DEF SetPriorityTagging, GetLinkStatus, vlanVars
    <2> QED BY <1>4, <2>1
  <1>d. ASSUME NEW v \in Vlans, NEW b \in BOOLEAN, SetVlanEnable(v, b)
        PROVE  DeviceInv'
    <2>1. pc[Bus] = "idle" /\ UNCHANGED <<dev, vlanName, ethMarking, lastRun, mutex, link, ret>>
      BY <1>d DEF SetVlanEnable
    <2>2. CASE UNCHANGED <<pc, vlan>> BY <1>4, <2>1, <2>2
    <2>3. ASSUME NEW t \in Threads, pc[t] = "idle",
                 pc' = [pc EXCEPT ![t] = IF b THEN "EnableLock" ELSE "DisableLock"],
                 vlan' = [vlan EXCEPT ![t] = v]
          PROVE  DeviceInv'
      BY <1>4, <2>1, <2>3
    <2> QED BY <1>d, <2>2, <2>3 DEF SetVlanEnable
  <1>e. ASSUME NEW v \in Vlans, NEW id, NEW l, NEW n,
               \/ SetVlanId(v, id) \/ SetLowerLayers(v, l) \/ GetVlanStatus(v)
               \/ SetVlanName(v, n) \/ Rollback(v)
        PROVE  DeviceInv'
    <2>1. ~SetVlanName(v, n) /\ ~Rollback(v)
      BY DEF SetVlanName, Rollback, TaggedSystem
    <2>2. /\ pc[Bus] = "idle"
          /\ UNCHANGED <<dev, vlanName, ethMarking, lastRun, mutex, vlan, pc, link, ret>>
      BY <1>e, <2>1 DEF SetVlanId, SetLowerLayers, GetVlanStatus
    <2> QED BY <1>4, <2>2
  <1> QED BY <1>a, <1>b, <1>c, <1>d, <1>e DEF EthRequest, VlanRequest

LEMMA RestartKeepsDeviceInv ==
  ASSUME Restart
  PROVE  DeviceInv'
  <1>1. LinkSet' BY DEF Restart, LinkSet, EthLabels
  <1>2. NoneLost' BY DEF Restart, NoneLost, EthStart
  <1>3. PhaseOK' /\ Progress' BY VlanAssumption DEF Restart, PhaseOK, Progress
  <1>4. Settled' BY DEF Restart, Settled
  <1> QED BY <1>1, <1>2, <1>3, <1>4 DEF Restart, DeviceInv

LEMMA InitDeviceInv == Init => DeviceInv
  <1> SUFFICES ASSUME Init PROVE DeviceInv
    OBVIOUS
  <1>1. LinkSet BY DEF Init, EthInit, LinkSet, EthLabels
  <1>2. NoneLost BY DEF Init, EthInit, NoneLost, EthStart
  <1>3. PhaseOK /\ Progress BY VlanAssumption DEF Init, PhaseOK, Progress
  <1>4. Settled BY DEF Init, Settled
  <1> QED BY <1>1, <1>2, <1>3, <1>4 DEF Init, DeviceInv

LEMMA StepKeepsDeviceInv ==
  ASSUME TaggedSystem
  PROVE  IInv /\ DeviceInv /\ [Next]_vars => DeviceInv'
  <1> SUFFICES ASSUME IInv, DeviceInv, [Next]_vars PROVE DeviceInv'
    OBVIOUS
  <1>1. CASE EthPart
    BY <1>1, RequestKeepsDeviceInv, EthStepKeepsDeviceInv DEF EthPart
  <1>2. CASE VlanRequest BY <1>2, RequestKeepsDeviceInv
  <1>3. CASE \E t \in Threads : WorkerStep(t) BY <1>3, WorkerStepKeepsDeviceInv
  <1>4. CASE Restart BY <1>4, RestartKeepsDeviceInv
  <1>5. CASE UNCHANGED vars
    BY <1>5
       DEF vars, ethVars, platformVars, ethFields, threadVars, vlanVars, vlanFields, history,
           DeviceInv, LinkSet, NoneLost, PhaseOK, Phase, Settled, Progress, Present, Exists
  <1> QED BY <1>1, <1>2, <1>3, <1>4, <1>5 DEF Next

\* In a tagged system the last worker of an entry to get the mutex decides whether its
\* device is there, for any number of overlapping toggles, entries, refresh threads,
\* restarts and requests to the links (vlan_apis.c 348-430, 611-733).
THEOREM LastWorkerDecides ==
  ASSUME TaggedSystem
  PROVE  Spec => []LastWorkerWins
  <1>1. IInv /\ DeviceInv => LastWorkerWins
    <2> SUFFICES ASSUME IInv, DeviceInv, NEW v \in Vlans, NoWorker(v)
                 PROVE  /\ lastRun[v] = "Enable" => HasDevice(v)
                        /\ lastRun[v] = "Disable" => ~HasDevice(v)
      BY DEF LastWorkerWins
    <2>1. mutex = NoThread \/ vlan[mutex] # v
      BY DEF IInv, TypeOK, VlanTypeOK, NoWorker
    <2>2. vlanId[v] \in VlanIds BY DEF IInv, TypeOK, VlanTypeOK
    <2>3. HasDevice(v) <=> Present(v)
      BY <2>2, TaggedIds DEF HasDevice, Present, DeviceInv
    <2> QED BY <2>1, <2>3 DEF DeviceInv, Settled
  <1>2. IInv /\ DeviceInv /\ [Next]_vars => (IInv /\ DeviceInv)'
    BY StepKeepsIInv, StepKeepsDeviceInv
  <1>3. Init => IInv /\ DeviceInv BY InitIInv, InitDeviceInv
  <1> QED BY <1>1, <1>2, <1>3, PTL DEF Spec

\* In a tagged system a worker reports Up only while the device whose status it read, in
\* an earlier step, is still there (vlan_apis.c 664-681).
THEOREM UpIsCurrent ==
  ASSUME TaggedSystem
  PROVE  Spec => UpIsNotStale
  <1>1. IInv /\ DeviceInv =>
          \A t \in Threads : pc[t] = "SendVlanUp" => Exists(vlanName[vlan[t]])
    BY HolderFacts DEF WorkLabels, DeviceInv, Progress, Present
  <1>2. IInv /\ DeviceInv /\ [Next]_vars => (IInv /\ DeviceInv)'
    BY StepKeepsIInv, StepKeepsDeviceInv
  <1>3. Init => IInv /\ DeviceInv BY InitIInv, InitDeviceInv
  <1>4. IInv /\ DeviceInv /\ [Next]_vars =>
          [\A t \in Threads : pc[t] = "SendVlanUp" /\ pc'[t] = "EnableDone"
             => Exists(vlanName[vlan[t]])]_vars
    BY <1>1
  <1> QED BY <1>2, <1>3, <1>4, PTL DEF Spec, UpIsNotStale

-----------------------------------------------------------------------------
(* The Link table on its own, with the bus thread the only one to set Enable: for any
   links, threads, requests and polls. *)


\* What LinkFollowsEnable asks for: interface commands and sockets work, links have
\* interfaces of their own, and PriorityTagging is written while a link is disabled.
\* Allocations and messages may fail.
EthSystem ==
  /\ Faults \cap {"device", "socket"} = {}
  /\ QuietWrites
  /\ \A k, l \in Links : LinkName[k] = LinkName[l] => k = l

\* And that two links are not reported under one path.
OwnReports ==
  \A k, l \in Links : LinkPath[k] = LinkPath[l] => k = l \/ LinkPath[k] = NoPath

EnableLabels == {"CheckOn", "On", "AddMarking", "CheckUntagged", "DeleteOld",
                 "CreateUntagged", "PollUntagged", "SendLinkUp", "LinkUp"}

DisableLabels == {"CheckOff", "Off", "DeleteMarking", "RemoveUntagged", "LinkDown"}

\* Only the bus thread sets Enable; the others refresh.
EthTypeOK ==
  /\ PlatformTypeOK
  /\ EthFieldsTypeOK
  /\ pc \in [Procs -> {"idle"} \cup EnableLabels \cup DisableLabels \cup RefreshLabels]
  /\ link \in [Procs -> Links \cup {NoLink}]
  /\ ret = [p \in Procs |-> "idle"]
  /\ pc[Bus] \notin RefreshLabels
  /\ \A t \in Threads : pc[t] \in {"idle"} \cup RefreshLabels
  /\ \A p \in Procs : pc[p] # "idle" => link[p] \in Links

\* A link nobody is working on.
LinkSettled(l) ==
  /\ Exists(LinkName[l]) => ethEnable[l] /\ ~ethPriorityTagging[l]
  /\ ethStatus[l] = "Up" => Exists(LinkName[l])

\* There is no interface, and none is claimed.
Bare(l) == ~Exists(LinkName[l]) /\ ethStatus[l] # "Up"

\* The link the bus thread is working on, at label m of it.
Working(l, m) ==
  /\ m \in {"CheckOn", "CheckOff"} => LinkSettled(l)
  /\ m = "On" => ~ethEnable[l] /\ Bare(l)
  /\ m \in {"AddMarking", "CheckUntagged"} => ethEnable[l] /\ Bare(l)
  /\ m \in {"DeleteOld", "CreateUntagged"} =>
       ethEnable[l] /\ ~ethPriorityTagging[l] /\ Bare(l)
  /\ m \in {"PollUntagged", "SendLinkUp", "LinkUp"} =>
       ethEnable[l] /\ ~ethPriorityTagging[l] /\ Exists(LinkName[l])
  /\ m = "Off" => ethEnable[l] /\ LinkSettled(l)
  /\ m \in {"DeleteMarking", "RemoveUntagged"} =>
       /\ ~ethEnable[l]
       /\ Exists(LinkName[l]) => ~ethPriorityTagging[l]
       /\ ethStatus[l] = "Up" => Exists(LinkName[l])
  /\ m = "LinkDown" => ~ethEnable[l] /\ ~Exists(LinkName[l])

EthInv ==
  \A l \in Links : IF pc[Bus] # "idle" /\ link[Bus] = l
                   THEN Working(l, pc[Bus])
                   ELSE LinkSettled(l)

-----------------------------------------------------------------------------
(* Types *)

LEMMA EthTypeInit == EthInit => EthTypeOK
<1> SUFFICES ASSUME EthInit PROVE EthTypeOK
  OBVIOUS
<1>1. PlatformTypeOK
  BY DEF EthInit, PlatformInit, PlatformTypeOK, Devices
<1>2. EthFieldsTypeOK
  BY DEF EthInit, EthStart, EthFieldsTypeOK
<1> QED
  BY <1>1, <1>2 DEF EthInit, EthTypeOK, Procs, RefreshLabels

LEMMA StatusIsRead ==
  ASSUME NEW n, NEW st \in StatusReads(n)
  PROVE  st \in {"Up", "Down", "Error"}
BY DEF StatusReads

LEMMA LinkCommandType ==
  ASSUME PlatformTypeOK, NEW n \in Names, NEW d \in Devices, Command(n, d)
  PROVE  dev' \in [Names -> Devices]
BY DEF Command, PlatformTypeOK

LEMMA LinkNotifyType ==
  ASSUME PlatformTypeOK, NEW path \in Paths \cup {NoPath}, NEW st \in {"Up", "Down"},
         Notify(path, st)
  PROVE  wan' \in [Paths -> {"none", "Up", "Down"}]
BY DEF Notify, PlatformTypeOK

\* A detached thread only refreshes: it leaves the devices, the configuration and the
\* stored status alone.
LEMMA ThreadsRefresh ==
  ASSUME EthTypeOK, NEW t \in Threads, EthStep(t)
  PROVE  /\ RefreshMarking(t) \/ PollRefresh(t) \/ SendRefreshUp(t)
         /\ UNCHANGED <<dev, ethEnable, ethPriorityTagging, ethStatus, link, ret, requests>>
<1>1. pc[t] \in {"idle"} \cup RefreshLabels
  BY DEF EthTypeOK
<1>2. RefreshMarking(t) \/ PollRefresh(t) \/ SendRefreshUp(t)
  <2>1. ~(CheckOn(t) \/ On(t) \/ AddMarking(t) \/ CheckUntagged(t))
    BY <1>1 DEF RefreshLabels, CheckOn, On, AddMarking, CheckUntagged, Goto
  <2>2. ~(DeleteOld(t) \/ GetMarkingFails(t) \/ CreateUntagged(t))
    BY <1>1 DEF RefreshLabels, DeleteOld, GetMarkingFails, CreateUntagged, Goto, Return,
                MarkingPoint
  <2>3. ~(PollUntagged(t) \/ SendLinkUp(t) \/ LinkUp(t))
    BY <1>1 DEF RefreshLabels, PollUntagged, SendLinkUp, LinkUp, Goto, Return
  <2>4. ~(CheckOff(t) \/ Off(t) \/ DeleteMarking(t) \/ RemoveUntagged(t) \/ LinkDown(t))
    BY <1>1 DEF RefreshLabels, CheckOff, Off, DeleteMarking, RemoveUntagged, LinkDown, Goto,
                Return
  <2> QED
    BY <2>1, <2>2, <2>3, <2>4 DEF EthStep
<1> QED
  BY <1>2 DEF RefreshMarking, PollRefresh, SendRefreshUp, platformVars, ethFields

\* The bus thread does everything else.
LEMMA BusServes ==
  ASSUME EthTypeOK, EthStep(Bus)
  PROVE  ~(RefreshMarking(Bus) \/ PollRefresh(Bus) \/ SendRefreshUp(Bus))
BY DEF EthTypeOK, RefreshLabels, RefreshMarking, PollRefresh, SendRefreshUp, Goto

LEMMA MarkingType ==
  ASSUME EthFieldsTypeOK, NEW l \in Links, LoadMarking(l)
  PROVE  ethMarking' \in [Links -> {"none", "table", "lost"}]
BY DEF LoadMarking, CreateMarkingTable, EthFieldsTypeOK

LEMMA EthTypeOfStep ==
  ASSUME EthTypeOK, NEW p \in Procs, EthStep(p)
  PROVE  EthTypeOK'
<1> DEFINE l == link[p]
<1>p. p = Bus \/ p \in Threads
  BY DEF Procs
<1>t. ASSUME p \in Threads PROVE EthTypeOK'
  <2>1. /\ RefreshMarking(p) \/ PollRefresh(p) \/ SendRefreshUp(p)
        /\ UNCHANGED <<dev, ethEnable, ethPriorityTagging, ethStatus, link, ret, requests>>
    BY <1>t, ThreadsRefresh
  <2>2. pc[p] # "idle" /\ l \in Links
    BY <2>1 DEF RefreshMarking, PollRefresh, SendRefreshUp, Goto, EthTypeOK
  <2>3. \E m \in {"idle"} \cup RefreshLabels : pc' = [pc EXCEPT ![p] = m]
    BY <2>1 DEF RefreshMarking, PollRefresh, SendRefreshUp, Goto, PollTurn, RefreshLabels
  <2>4. /\ pc' \in [Procs -> {"idle"} \cup EnableLabels \cup DisableLabels \cup RefreshLabels]
        /\ pc'[Bus] \notin RefreshLabels
        /\ \A t \in Threads : pc'[t] \in {"idle"} \cup RefreshLabels
        /\ \A q \in Procs : pc'[q] # "idle" => link'[q] \in Links
    BY <1>t, <2>1, <2>2, <2>3, EthLinkAssumption DEF EthTypeOK, Procs
  <2>5. PlatformTypeOK'
    <3>1. LinkPath[l] \in Paths \cup {NoPath}
      BY <2>2, EthLinkAssumption
    <3>2. wan' \in [Paths -> {"none", "Up", "Down"}]
      BY <2>1, <3>1, LinkNotifyType DEF EthTypeOK, PlatformTypeOK, RefreshMarking, PollRefresh,
            SendRefreshUp, platformVars
    <3> QED
      BY <2>1, <3>2 DEF EthTypeOK, PlatformTypeOK
  <2>6. EthFieldsTypeOK'
    <3>1. ethMarking' \in [Links -> {"none", "table", "lost"}]
      BY <2>1, <2>2, MarkingType DEF EthTypeOK, EthFieldsTypeOK, RefreshMarking, PollRefresh,
            SendRefreshUp, ethFields
    <3> QED
      BY <2>1, <3>1 DEF EthTypeOK, EthFieldsTypeOK
  <2> QED
    BY <2>1, <2>4, <2>5, <2>6 DEF EthTypeOK
<1>b. ASSUME p = Bus PROVE EthTypeOK'
  <2>0. ~(RefreshMarking(p) \/ PollRefresh(p) \/ SendRefreshUp(p))
    BY <1>b, BusServes
  <2>1. link' = link /\ ret' = ret /\ requests' = requests
    BY <2>0 DEF EthStep, CheckOn, On, AddMarking, CheckUntagged, DeleteOld, GetMarkingFails,
          CreateUntagged, PollUntagged, SendLinkUp, LinkUp, CheckOff, Off, DeleteMarking,
          RemoveUntagged, LinkDown
  <2>2. ret[p] = "idle"
    BY DEF EthTypeOK
  <2>3. pc[p] # "idle" /\ l \in Links
    BY <2>0, <2>2, <1>b DEF EthStep, CheckOn, On, AddMarking, CheckUntagged, DeleteOld,
          GetMarkingFails, CreateUntagged, PollUntagged, SendLinkUp, LinkUp, CheckOff, Off,
          DeleteMarking, RemoveUntagged, LinkDown, Goto, Return, MarkingPoint, EthTypeOK
  <2>4. \E m \in {"idle"} \cup EnableLabels \cup DisableLabels : pc' = [pc EXCEPT ![p] = m]
    <3>1. CASE CheckOn(p) \/ On(p) \/ AddMarking(p) \/ CheckUntagged(p)
      BY <3>1, <2>2 DEF CheckOn, On, AddMarking, CheckUntagged, Goto, Return, EnableLabels
    <3>2. CASE DeleteOld(p) \/ GetMarkingFails(p) \/ CreateUntagged(p)
      BY <3>2, <2>2 DEF DeleteOld, GetMarkingFails, CreateUntagged, Goto, Return, EnableLabels
    <3>3. CASE PollUntagged(p) \/ SendLinkUp(p) \/ LinkUp(p)
      BY <3>3, <2>2 DEF PollUntagged, SendLinkUp, LinkUp, PollTurn, Goto, Return, EnableLabels
    <3>4. CASE CheckOff(p) \/ Off(p) \/ DeleteMarking(p) \/ RemoveUntagged(p) \/ LinkDown(p)
      BY <3>4, <2>2 DEF CheckOff, Off, DeleteMarking, RemoveUntagged, LinkDown, Goto, Return,
            DisableLabels
    <3> QED
      BY <2>0, <3>1, <3>2, <3>3, <3>4 DEF EthStep
  <2>5. /\ pc' \in [Procs -> {"idle"} \cup EnableLabels \cup DisableLabels \cup RefreshLabels]
        /\ pc'[Bus] \notin RefreshLabels
        /\ \A t \in Threads : pc'[t] \in {"idle"} \cup RefreshLabels
        /\ \A q \in Procs : pc'[q] # "idle" => link'[q] \in Links
    <3>1. ({"idle"} \cup EnableLabels \cup DisableLabels) \cap RefreshLabels = {}
      BY DEF EnableLabels, DisableLabels, RefreshLabels
    <3> QED
      BY <1>b, <2>1, <2>3, <2>4, <3>1, EthLinkAssumption DEF EthTypeOK, Procs
  <2>6. LinkPath[l] \in Paths \cup {NoPath} /\ LinkName[l] \in Names
    BY <2>3, EthLinkAssumption
  <2>7. dev' \in [Names -> Devices]
    <3>1. NoDevice \in Devices /\ Untagged \in Devices
      BY DEF Devices
    <3>2. CASE DeleteOld(p) \/ CreateUntagged(p) \/ RemoveUntagged(p)
      BY <3>1, <3>2, <2>6, LinkCommandType DEF DeleteOld, CreateUntagged, RemoveUntagged,
            CreateDevice, DeleteDevice, EthTypeOK, PlatformTypeOK
    <3>3. CASE dev' = dev
      BY <3>3 DEF EthTypeOK, PlatformTypeOK
    <3> QED
      BY <2>0, <3>2, <3>3 DEF EthStep, CheckOn, On, AddMarking, CheckUntagged,
            GetMarkingFails, PollUntagged, SendLinkUp, LinkUp, CheckOff, Off,
            DeleteMarking, LinkDown, platformVars
  <2>8. wan' \in [Paths -> {"none", "Up", "Down"}]
    <3>1. CASE SendLinkUp(p) \/ LinkDown(p)
      BY <3>1, <2>6, LinkNotifyType DEF SendLinkUp, LinkDown, EthTypeOK
    <3>2. CASE wan' = wan
      BY <3>2 DEF EthTypeOK, PlatformTypeOK
    <3> QED
      BY <2>0, <3>1, <3>2 DEF EthStep, CheckOn, On, AddMarking, CheckUntagged, DeleteOld,
            GetMarkingFails, CreateUntagged, PollUntagged, LinkUp, CheckOff, Off,
            DeleteMarking, RemoveUntagged, platformVars
  <2>9. EthFieldsTypeOK'
    <3> USE DEF EthTypeOK, EthFieldsTypeOK
    <3>1. CASE AddMarking(p)
      BY <3>1, <2>3, MarkingType DEF AddMarking
    <3>2. CASE On(p) \/ Off(p) \/ DeleteMarking(p)
      BY <3>2, <2>3 DEF On, Off, DeleteMarking
    <3>3. CASE GetMarkingFails(p) \/ LinkUp(p) \/ LinkDown(p)
      BY <3>3, <2>3 DEF GetMarkingFails, LinkUp, LinkDown
    <3>4. CASE UNCHANGED ethFields
      BY <3>4, <2>1 DEF ethFields
    <3> QED
      BY <2>0, <3>1, <3>2, <3>3, <3>4 DEF EthStep, CheckOn, CheckUntagged, DeleteOld,
            CreateUntagged, PollUntagged, SendLinkUp, CheckOff, RemoveUntagged
  <2> QED
    BY <2>1, <2>5, <2>7, <2>8, <2>9 DEF EthTypeOK, PlatformTypeOK
<1> QED
  BY <1>p, <1>t, <1>b

LEMMA EthTypeStep == EthTypeOK /\ [EthNext]_ethVars => EthTypeOK'
<1> SUFFICES ASSUME EthTypeOK, [EthNext]_ethVars PROVE EthTypeOK'
  OBVIOUS
<1> USE DEF EthTypeOK, PlatformTypeOK, EthFieldsTypeOK, platformVars, ethFields, threadVars
<1>1. ASSUME NEW l \in Links, NEW b \in BOOLEAN, SetLinkEnable(l, b) PROVE EthTypeOK'
  <2>1. /\ UNCHANGED <<platformVars, ethFields, polls>>
        /\ requests' = requests + 1
        /\ link' = [link EXCEPT ![Bus] = l]
        /\ ret' = [ret EXCEPT ![Bus] = "idle"]
    BY <1>1 DEF SetLinkEnable, Serve
  <2>2. PICK m \in {"CheckOn", "CheckOff"} : pc' = [pc EXCEPT ![Bus] = m]
    BY <1>1 DEF SetLinkEnable
  <2>3. m \in EnableLabels \cup DisableLabels /\ m \notin RefreshLabels
    BY DEF EnableLabels, DisableLabels, RefreshLabels
  <2>4. Bus \in Procs /\ Bus \notin Threads /\ Threads \subseteq Procs
    BY EthLinkAssumption DEF Procs
  <2>5. PlatformTypeOK' /\ EthFieldsTypeOK'
    BY <2>1
  <2> QED
    BY <2>1, <2>2, <2>3, <2>4, <2>5
<1>2. ASSUME NEW l \in Links, NEW b \in BOOLEAN, SetPriorityTagging(l, b) PROVE EthTypeOK'
  BY <1>2 DEF SetPriorityTagging, Serve
<1>3. ASSUME NEW l \in Links, NEW t \in Threads, SetRefresh(l, t) PROVE EthTypeOK'
  BY <1>3, EthLinkAssumption DEF SetRefresh, Serve, Goto, Procs, RefreshLabels
<1>4. ASSUME NEW l \in Links, GetLinkStatus(l) PROVE EthTypeOK'
  BY <1>4, StatusIsRead DEF GetLinkStatus, Serve, LinkStatusReads
<1>5. ASSUME NEW p \in Procs, EthStep(p) PROVE EthTypeOK'
  BY <1>5, EthTypeOfStep
<1>6. CASE UNCHANGED ethVars
  BY <1>6 DEF ethVars
<1> QED
  BY <1>1, <1>2, <1>3, <1>4, <1>5, <1>6 DEF EthNext, EthRequest
-----------------------------------------------------------------------------
(* The interface follows Enable *)

LEMMA KindsDiffer == Untagged # NoDevice /\ CreatableId(Untagged.vid)
BY DEF Untagged, NoDevice, CreatableId

\* Status reads that work are true of the moment: Up is read of an interface only.
LEMMA UpIsThere ==
  ASSUME EthSystem, NEW l \in Links, NEW st \in LinkStatusReads(l)
  PROVE  st # "Error" /\ (st = "Up" => Exists(LinkName[l]))
BY DEF EthSystem, LinkStatusReads, StatusReads

LEMMA EthInvInit == EthInit => EthInv
<1> SUFFICES ASSUME EthInit PROVE EthInv
  OBVIOUS
<1>1. \A l \in Links : LinkSettled(l)
  BY EthLinkAssumption DEF EthInit, EthStart, PlatformInit, LinkSettled, Exists
<1>2. pc[Bus] = "idle"
  BY DEF EthInit, Procs
<1> QED
  BY <1>1, <1>2 DEF EthInv

\* A step of the bus thread on link l that changes nothing of the others has only to
\* account for l at the label m where it ends.
LEMMA BusMoves ==
  ASSUME EthSystem, EthInv, NEW l \in Links, l = link[Bus], pc[Bus] # "idle",
         link' = link,
         \A n \in Names : n # LinkName[l] => dev'[n] = dev[n],
         \A k \in Links : k # l =>
           /\ ethEnable'[k] = ethEnable[k]
           /\ ethPriorityTagging'[k] = ethPriorityTagging[k]
           /\ ethStatus'[k] = ethStatus[k],
         NEW m, pc'[Bus] = m,
         IF m = "idle" THEN LinkSettled(l)' ELSE Working(l, m)'
  PROVE  EthInv'
<1> SUFFICES ASSUME NEW k \in Links
             PROVE  IF m # "idle" /\ l = k THEN Working(k, m)' ELSE LinkSettled(k)'
  BY DEF EthInv
<1>1. CASE k = l
  BY <1>1
<1>2. CASE k # l
  <2>1. LinkSettled(k)
    BY <1>2 DEF EthInv
  <2>2. LinkName[k] \in Names /\ LinkName[k] # LinkName[l]
    BY <1>2, EthLinkAssumption DEF EthSystem
  <2> QED
    BY <1>2, <2>1, <2>2 DEF LinkSettled, Exists
<1> QED
  BY <1>1, <1>2

LEMMA EthInvBusStep ==
  ASSUME EthSystem, EthTypeOK, EthInv, EthStep(Bus)
  PROVE  EthInv'
<1>0. ~(RefreshMarking(Bus) \/ PollRefresh(Bus) \/ SendRefreshUp(Bus))
  BY BusServes
<1>r. ret[Bus] = "idle" /\ Bus \in Procs
  BY DEF EthTypeOK, Procs
<1>l. link[Bus] \in Links /\ pc[Bus] # "idle" /\ link' = link
  <2>1. pc[Bus] # "idle"
    BY <1>0 DEF EthStep, CheckOn, On, AddMarking, CheckUntagged, DeleteOld,
          GetMarkingFails, CreateUntagged, PollUntagged, SendLinkUp, LinkUp, CheckOff, Off,
          DeleteMarking, RemoveUntagged, LinkDown, Goto, Return, MarkingPoint
  <2>2. link' = link
    BY <1>0 DEF EthStep, CheckOn, On, AddMarking, CheckUntagged, DeleteOld, GetMarkingFails,
          CreateUntagged, PollUntagged, SendLinkUp, LinkUp, CheckOff, Off, DeleteMarking,
          RemoveUntagged, LinkDown
  <2> QED
    BY <1>r, <2>1, <2>2 DEF EthTypeOK
<1> PICK l \in Links : l = link[Bus]
  BY <1>l
<1>w. Working(l, pc[Bus])
  BY <1>l DEF EthInv
<1>n. LinkName[l] \in Names
  BY EthLinkAssumption
<1> DEFINE N == LinkName[l]
<1>t. /\ dev \in [Names -> Devices]
      /\ ethEnable \in [Links -> BOOLEAN]
      /\ ethPriorityTagging \in [Links -> BOOLEAN]
      /\ ethStatus \in [Links -> {"Up", "Down", "Error"}]
      /\ pc \in [Procs -> {"idle"} \cup EnableLabels \cup DisableLabels \cup RefreshLabels]
  BY DEF EthTypeOK, PlatformTypeOK, EthFieldsTypeOK
<1> DEFINE Kept == UNCHANGED <<dev, ethEnable, ethPriorityTagging, ethStatus>>
<1>k. ASSUME Kept, NEW m, pc'[Bus] = m, IF m = "idle" THEN LinkSettled(l) ELSE Working(l, m)
      PROVE  EthInv'
  <2>1. IF m = "idle" THEN LinkSettled(l)' ELSE Working(l, m)'
    BY <1>k DEF LinkSettled, Working, Bare, Exists
  <2> QED
    BY <1>l, <1>k, <2>1, BusMoves
<1>1. CASE CheckOn(Bus)
  <2>1. Kept /\ pc[Bus] = "CheckOn" /\ LinkSettled(l)
    BY <1>1, <1>w DEF CheckOn, Working, platformVars, ethFields
  <2>2. CASE ethEnable[l]
    BY <1>1, <1>r, <1>k, <1>t, <2>1, <2>2 DEF CheckOn, Return, Goto
  <2>3. CASE ~ethEnable[l]
    <3>1. pc'[Bus] = "On"
      BY <1>1, <1>r, <1>t, <2>3 DEF CheckOn, Goto
    <3>2. Working(l, "On")
      BY <2>1, <2>3 DEF Working, LinkSettled, Bare
    <3> QED
      BY <1>k, <2>1, <3>1, <3>2
  <2> QED
    BY <2>2, <2>3
<1>2. CASE On(Bus)
  <2>1. pc[Bus] = "On" /\ pc'[Bus] = "AddMarking"
    BY <1>2, <1>r, <1>t DEF On, Goto
  <2>2. /\ UNCHANGED <<dev, ethPriorityTagging, ethStatus>>
        /\ ethEnable' = [ethEnable EXCEPT ![l] = TRUE]
    BY <1>2 DEF On, platformVars
  <2>3. Working(l, "AddMarking")'
    BY <1>w, <1>t, <2>1, <2>2 DEF Working, Bare, Exists
  <2> QED
    BY <1>l, <1>t, <2>1, <2>2, <2>3, BusMoves
<1>3. CASE AddMarking(Bus)
  <2>1. pc[Bus] = "AddMarking" /\ pc'[Bus] = "CheckUntagged" /\ Kept
    BY <1>3, <1>r, <1>t DEF AddMarking, Goto, platformVars
  <2>2. Working(l, "CheckUntagged")
    BY <1>w, <2>1 DEF Working
  <2> QED
    BY <1>k, <2>1, <2>2
<1>4. CASE CheckUntagged(Bus)
  <2>1. pc[Bus] = "CheckUntagged" /\ Kept
    BY <1>4 DEF CheckUntagged, platformVars, ethFields
  <2>2. ethEnable[l] /\ Bare(l)
    BY <1>w, <2>1 DEF Working
  <2>3. CASE ethPriorityTagging[l]
    <3>1. pc'[Bus] = "idle"
      BY <1>4, <1>r, <1>t, <2>3 DEF CheckUntagged, Goto, Return
    <3>2. LinkSettled(l)
      BY <2>2 DEF LinkSettled, Bare
    <3> QED
      BY <1>k, <2>1, <3>1, <3>2
  <2>4. CASE ~ethPriorityTagging[l]
    <3>1. pc'[Bus] = "DeleteOld"
      BY <1>4, <1>r, <1>t, <2>4, UpIsThere DEF CheckUntagged, Goto, Return
    <3>2. Working(l, "DeleteOld")
      BY <2>2, <2>4 DEF Working
    <3> QED
      BY <1>k, <2>1, <3>1, <3>2
  <2> QED
    BY <2>3, <2>4
<1>5. CASE DeleteOld(Bus)
  <2>1. pc[Bus] = "DeleteOld" /\ pc'[Bus] = "CreateUntagged"
    BY <1>5, <1>r, <1>t DEF DeleteOld, Goto
  <2>2. /\ UNCHANGED <<ethEnable, ethPriorityTagging, ethStatus>>
        /\ dev' = [dev EXCEPT ![N] = NoDevice]
    BY <1>5 DEF DeleteOld, ethFields, DeleteDevice, Command, EthSystem
  <2>3. Working(l, "CreateUntagged")'
    BY <1>w, <1>n, <1>t, <2>1, <2>2 DEF Working, Bare, Exists
  <2> QED
    BY <1>l, <1>t, <2>1, <2>2, <2>3, BusMoves
<1>6. CASE GetMarkingFails(Bus)
  <2>1. pc[Bus] \in {"DeleteOld", "CreateUntagged"} /\ pc'[Bus] = "idle"
    BY <1>6, <1>r, <1>t DEF GetMarkingFails, Return, Goto, MarkingPoint
  <2>2. /\ UNCHANGED <<dev, ethEnable, ethPriorityTagging>>
        /\ ethStatus' = [ethStatus EXCEPT ![l] = "Error"]
    BY <1>6 DEF GetMarkingFails, platformVars
  <2>3. LinkSettled(l)'
    BY <1>w, <1>t, <2>1, <2>2 DEF Working, Bare, LinkSettled, Exists
  <2> QED
    BY <1>l, <1>t, <2>1, <2>2, <2>3, BusMoves
<1>7. CASE CreateUntagged(Bus)
  <2>1. pc[Bus] = "CreateUntagged" /\ pc'[Bus] = "PollUntagged"
    BY <1>7, <1>r, <1>t DEF CreateUntagged, Goto
  <2>2. ~Exists(N)
    BY <1>w, <2>1 DEF Working, Bare
  <2>3. /\ UNCHANGED <<ethEnable, ethPriorityTagging, ethStatus>>
        /\ dev' = [dev EXCEPT ![N] = Untagged]
    BY <1>7, <2>2, KindsDiffer
    DEF CreateUntagged, ethFields, CreateDevice, Command, EthSystem
  <2>4. Working(l, "PollUntagged")'
    BY <1>w, <1>n, <1>t, <2>1, <2>3, KindsDiffer DEF Working, Exists
  <2> QED
    BY <1>l, <1>t, <2>1, <2>3, <2>4, BusMoves
<1>8. CASE PollUntagged(Bus)
  <2>1. pc[Bus] = "PollUntagged" /\ Kept
    BY <1>8 DEF PollUntagged, platformVars, ethFields
  <2>2. PICK m \in {"PollUntagged", "SendLinkUp", "LinkUp"} : pc'[Bus] = m
    BY <1>8, <1>r, <1>t, UpIsThere DEF PollUntagged, PollTurn, Goto
  <2>3. Working(l, m)
    BY <1>w, <2>1 DEF Working
  <2> QED
    BY <1>k, <2>1, <2>2, <2>3
<1>9. CASE SendLinkUp(Bus)
  <2>1. pc[Bus] = "SendLinkUp" /\ pc'[Bus] = "LinkUp" /\ Kept
    BY <1>9, <1>r, <1>t DEF SendLinkUp, Goto, ethFields
  <2>2. Working(l, "LinkUp")
    BY <1>w, <2>1 DEF Working
  <2> QED
    BY <1>k, <2>1, <2>2
<1>10. CASE LinkUp(Bus)
  <2>1. pc[Bus] = "LinkUp" /\ pc'[Bus] = "idle"
    BY <1>10, <1>r, <1>t DEF LinkUp, Return, Goto
  <2>2. /\ UNCHANGED <<dev, ethEnable, ethPriorityTagging>>
        /\ ethStatus' = [ethStatus EXCEPT ![l] = "Up"]
    BY <1>10 DEF LinkUp, platformVars
  <2>3. LinkSettled(l)'
    BY <1>w, <1>t, <2>1, <2>2 DEF Working, LinkSettled, Exists
  <2> QED
    BY <1>l, <1>t, <2>1, <2>2, <2>3, BusMoves
<1>11. CASE CheckOff(Bus)
  <2>1. Kept /\ pc[Bus] = "CheckOff" /\ LinkSettled(l)
    BY <1>11, <1>w DEF CheckOff, Working, platformVars, ethFields
  <2>2. CASE ethEnable[l]
    <3>1. pc'[Bus] = "Off"
      BY <1>11, <1>r, <1>t, <2>2 DEF CheckOff, Goto
    <3>2. Working(l, "Off")
      BY <2>1, <2>2 DEF Working
    <3> QED
      BY <1>k, <2>1, <3>1, <3>2
  <2>3. CASE ~ethEnable[l]
    BY <1>11, <1>r, <1>k, <1>t, <2>1, <2>3 DEF CheckOff, Return, Goto
  <2> QED
    BY <2>2, <2>3
<1>12. CASE Off(Bus)
  <2>1. pc[Bus] = "Off" /\ pc'[Bus] = "DeleteMarking"
    BY <1>12, <1>r, <1>t DEF Off, Goto
  <2>2. /\ UNCHANGED <<dev, ethPriorityTagging, ethStatus>>
        /\ ethEnable' = [ethEnable EXCEPT ![l] = FALSE]
    BY <1>12 DEF Off, platformVars
  <2>3. Working(l, "DeleteMarking")'
    BY <1>w, <1>t, <2>1, <2>2 DEF Working, LinkSettled, Exists
  <2> QED
    BY <1>l, <1>t, <2>1, <2>2, <2>3, BusMoves
<1>13. CASE DeleteMarking(Bus)
  <2>1. pc[Bus] = "DeleteMarking" /\ pc'[Bus] = "RemoveUntagged" /\ Kept
    BY <1>13, <1>r, <1>t DEF DeleteMarking, Goto, platformVars
  <2>2. Working(l, "RemoveUntagged")
    BY <1>w, <2>1 DEF Working
  <2> QED
    BY <1>k, <2>1, <2>2
<1>14. CASE RemoveUntagged(Bus)
  <2>1. pc[Bus] = "RemoveUntagged" /\ UNCHANGED <<ethEnable, ethPriorityTagging, ethStatus>>
    BY <1>14 DEF RemoveUntagged, ethFields
  <2>2. CASE ethPriorityTagging[l]
    <3>1. pc'[Bus] = "idle" /\ dev' = dev
      BY <1>14, <1>r, <1>t, <2>2 DEF RemoveUntagged, Goto, Return
    <3>2. LinkSettled(l)
      BY <1>w, <2>1, <2>2 DEF Working, LinkSettled
    <3> QED
      BY <1>k, <2>1, <3>1, <3>2
  <2>3. CASE ~ethPriorityTagging[l]
    <3>1. pc'[Bus] = "LinkDown" /\ dev' = [dev EXCEPT ![N] = NoDevice]
      BY <1>14, <1>r, <1>t, <2>3, UpIsThere
      DEF RemoveUntagged, Goto, Return, DeleteDevice, Command, EthSystem
    <3>2. Working(l, "LinkDown")'
      BY <1>w, <1>n, <1>t, <2>1, <3>1 DEF Working, Exists
    <3> QED
      BY <1>l, <1>t, <2>1, <3>1, <3>2, BusMoves
  <2> QED
    BY <2>2, <2>3
<1>15. CASE LinkDown(Bus)
  <2>1. pc[Bus] = "LinkDown" /\ pc'[Bus] = "idle"
    BY <1>15, <1>r, <1>t DEF LinkDown, Return, Goto
  <2>2. /\ UNCHANGED <<dev, ethEnable, ethPriorityTagging>>
        /\ ethStatus' = [ethStatus EXCEPT ![l] = "Down"]
    BY <1>15 DEF LinkDown
  <2>3. LinkSettled(l)'
    BY <1>w, <1>t, <2>1, <2>2 DEF Working, LinkSettled, Exists
  <2> QED
    BY <1>l, <1>t, <2>1, <2>2, <2>3, BusMoves
<1> QED
  BY <1>0, <1>1, <1>2, <1>3, <1>4, <1>5, <1>6, <1>7, <1>8, <1>9, <1>10, <1>11, <1>12,
     <1>13, <1>14, <1>15 DEF EthStep

LEMMA EthInvStep ==
  ASSUME EthSystem
  PROVE  EthTypeOK /\ EthInv /\ [EthNext]_ethVars => EthInv'
<1> SUFFICES ASSUME EthTypeOK, EthInv, [EthNext]_ethVars PROVE EthInv'
  OBVIOUS
<1> DEFINE Kept == UNCHANGED <<dev, ethEnable, ethPriorityTagging, ethStatus>>
<1>k. ASSUME Kept, pc'[Bus] = pc[Bus], link'[Bus] = link[Bus] PROVE EthInv'
  BY <1>k DEF EthInv, Working, LinkSettled, Bare, Exists
<1>p. Bus \in Procs /\ Bus \notin Threads
  BY EthLinkAssumption DEF Procs
<1>1. ASSUME NEW l \in Links, NEW b \in BOOLEAN, SetLinkEnable(l, b) PROVE EthInv'
  <2>1. Kept /\ pc[Bus] = "idle" /\ link'[Bus] = l
    BY <1>1, <1>p DEF SetLinkEnable, Serve, platformVars, ethFields, EthTypeOK
  <2>2. PICK m \in {"CheckOn", "CheckOff"} : pc'[Bus] = m
    BY <1>1, <1>p DEF SetLinkEnable, EthTypeOK
  <2>3. \A k \in Links : LinkSettled(k)
    BY <2>1 DEF EthInv
  <2>4. \A k \in Links : LinkSettled(k)'
    BY <2>1, <2>3 DEF LinkSettled, Exists
  <2>5. Working(l, m)'
    BY <2>2, <2>4 DEF Working
  <2> QED
    BY <2>1, <2>2, <2>4, <2>5 DEF EthInv
<1>2. ASSUME NEW l \in Links, NEW b \in BOOLEAN, SetPriorityTagging(l, b) PROVE EthInv'
  <2>1. /\ pc[Bus] = "idle" /\ pc' = pc /\ UNCHANGED <<dev, ethEnable, ethStatus>>
        /\ ethPriorityTagging' = [ethPriorityTagging EXCEPT ![l] = b]
        /\ ~ethEnable[l]
    BY <1>2 DEF SetPriorityTagging, Serve, platformVars, threadVars, EthSystem
  <2>2. \A k \in Links : LinkSettled(k)
    BY <2>1 DEF EthInv
  <2>3. \A k \in Links : LinkSettled(k)'
    BY <2>1, <2>2 DEF LinkSettled, Exists, EthTypeOK, EthFieldsTypeOK
  <2> QED
    BY <2>1, <2>3 DEF EthInv
<1>3. ASSUME NEW l \in Links, NEW t \in Threads, SetRefresh(l, t) PROVE EthInv'
  BY <1>3, <1>k, <1>p
  DEF SetRefresh, Serve, Goto, platformVars, ethFields, EthTypeOK
<1>4. ASSUME NEW l \in Links, GetLinkStatus(l) PROVE EthInv'
  <2>1. pc[Bus] = "idle" /\ pc' = pc /\ UNCHANGED <<dev, ethEnable, ethPriorityTagging>>
    BY <1>4 DEF GetLinkStatus, Serve, platformVars, threadVars
  <2>2. PICK st \in LinkStatusReads(l) : ethStatus' = [ethStatus EXCEPT ![l] = st]
    BY <1>4 DEF GetLinkStatus
  <2>3. \A k \in Links : LinkSettled(k)
    BY <2>1 DEF EthInv
  <2>4. \A k \in Links : LinkSettled(k)'
    BY <2>1, <2>2, <2>3, UpIsThere DEF LinkSettled, Exists, EthTypeOK, EthFieldsTypeOK
  <2> QED
    BY <2>1, <2>4 DEF EthInv
<1>5. ASSUME NEW p \in Procs, EthStep(p) PROVE EthInv'
  <2>1. CASE p = Bus
    BY <1>5, <2>1, EthInvBusStep
  <2>2. CASE p \in Threads
    <3>1. /\ RefreshMarking(p) \/ PollRefresh(p) \/ SendRefreshUp(p)
          /\ Kept /\ link' = link
      BY <1>5, <2>2, ThreadsRefresh
    <3>2. \E m : pc' = [pc EXCEPT ![p] = m]
      BY <3>1 DEF RefreshMarking, PollRefresh, SendRefreshUp, Goto, PollTurn
    <3> QED
      BY <1>k, <1>p, <2>2, <3>1, <3>2 DEF EthTypeOK
  <2> QED
    BY <2>1, <2>2 DEF Procs
<1>6. CASE UNCHANGED ethVars
  BY <1>6, <1>k DEF ethVars, platformVars, ethFields, threadVars
<1> QED
  BY <1>1, <1>2, <1>3, <1>4, <1>5, <1>6 DEF EthNext, EthRequest

\* Between requests an interface is there only for an enabled link without priority
\* tagging, and Status is Up only if it is there, whatever allocations and messages fail
\* and however many refreshes run meanwhile (ethernet_apis.c 293-342, 387-423).
THEOREM InterfaceFollowsEnable ==
  ASSUME EthSystem
  PROVE  EthSpec => []LinkFollowsEnable
<1>1. EthInit => EthTypeOK /\ EthInv
  BY EthTypeInit, EthInvInit
<1>2. EthTypeOK /\ EthInv /\ [EthNext]_ethVars => (EthTypeOK /\ EthInv)'
  BY EthTypeStep, EthInvStep
<1>3. EthInv => LinkFollowsEnable
  BY DEF EthInv, LinkFollowsEnable, LinkSettled
<1> QED
  BY <1>1, <1>2, <1>3, PTL DEF EthSpec
-----------------------------------------------------------------------------
(* What WanManager is told *)

\* Under one path only one link is reported.
LEMMA PathOfLink ==
  ASSUME OwnReports, NEW k \in Links, NEW l \in Links, NEW st,
         LinkPath[k] # NoPath, LinkPath[k] \in Paths, Notify(LinkPath[l], st),
         wan \in [Paths -> {"none", "Up", "Down"}], wan'[LinkPath[k]] # wan[LinkPath[k]]
  PROVE  k = l /\ wan'[LinkPath[k]] = st
BY DEF OwnReports, Notify

\* Down is told once the interface is gone, and Up while it is there and enabled, but for
\* the report of a refresh thread, whatever allocations and messages fail
\* (ethernet_apis.c 330, 416, 1047).
THEOREM ToldWhatIs ==
  ASSUME EthSystem, OwnReports
  PROVE  EthSpec => ReportsAreTrue
<1> DEFINE True(l) ==
      LET path == LinkPath[l] IN
      (path # NoPath /\ wan'[path] # wan[path]) =>
        IF wan'[path] = "Down" THEN ~Exists(LinkName[l]) /\ ~ethEnable[l]
        ELSE \/ Exists(LinkName[l]) /\ ethEnable[l]
             \/ \E t \in Threads : pc[t] = "SendRefreshUp" /\ pc'[t] = "idle"
<1>1. ASSUME EthTypeOK, EthInv, [EthNext]_ethVars, NEW k \in Links PROVE True(k)
  <2> SUFFICES ASSUME LinkPath[k] # NoPath, wan'[LinkPath[k]] # wan[LinkPath[k]]
               PROVE  True(k)
    OBVIOUS
  <2>1. wan \in [Paths -> {"none", "Up", "Down"}] /\ LinkPath[k] \in Paths
    BY <1>1, EthLinkAssumption DEF EthTypeOK, PlatformTypeOK
  <2>2. PICK p \in Procs : SendLinkUp(p) \/ LinkDown(p) \/ SendRefreshUp(p)
    <3>1. ~UNCHANGED ethVars /\ ~EthRequest
      BY DEF ethVars, EthRequest, SetLinkEnable, SetPriorityTagging, SetRefresh,
             GetLinkStatus, platformVars
    <3>2. PICK p \in Procs : EthStep(p)
      BY <1>1, <3>1 DEF EthNext
    <3>3. SendLinkUp(p) \/ LinkDown(p) \/ SendRefreshUp(p)
      BY <3>2 DEF EthStep, CheckOn, On, AddMarking, CheckUntagged, DeleteOld,
            GetMarkingFails, CreateUntagged, PollUntagged, LinkUp, CheckOff, Off,
            DeleteMarking, RemoveUntagged, RefreshMarking, PollRefresh, platformVars
    <3> QED
      BY <3>3
  <2>3. pc[p] # "idle" /\ link[p] \in Links
    BY <1>1, <2>2 DEF EthTypeOK, SendLinkUp, LinkDown, SendRefreshUp, Goto, Return
  <2> PICK l \in Links : l = link[p]
    BY <2>3
  <2>4. CASE SendLinkUp(p) \/ LinkDown(p)
    <3>1. p = Bus
      BY <1>1, <2>4, ThreadsRefresh
      DEF Procs, EthTypeOK, RefreshLabels, SendLinkUp, LinkDown, Goto, Return
    <3>2. Working(l, pc[Bus])
      BY <1>1, <2>3, <3>1 DEF EthInv
    <3>3. CASE SendLinkUp(p)
      <4>1. ethEnable[l] /\ Exists(LinkName[l])
        BY <3>1, <3>2, <3>3 DEF SendLinkUp, Goto, Working
      <4>2. k = l /\ wan'[LinkPath[k]] = "Up"
        BY <2>1, <3>3, PathOfLink DEF SendLinkUp
      <4> QED
        BY <4>1, <4>2
    <3>4. CASE LinkDown(p)
      <4>1. ~ethEnable[l] /\ ~Exists(LinkName[l])
        BY <3>1, <3>2, <3>4 DEF LinkDown, Goto, Return, Working
      <4>2. k = l /\ wan'[LinkPath[k]] = "Down"
        BY <2>1, <3>4, PathOfLink DEF LinkDown
      <4> QED
        BY <4>1, <4>2
    <3> QED
      BY <2>4, <3>3, <3>4
  <2>5. CASE SendRefreshUp(p)
    <3>1. p \in Threads /\ pc[p] = "SendRefreshUp" /\ pc'[p] = "idle"
      BY <1>1, <2>5 DEF EthTypeOK, RefreshLabels, Procs, SendRefreshUp, Goto
    <3>2. wan'[LinkPath[k]] = "Up"
      BY <2>1, <2>5, PathOfLink DEF SendRefreshUp
    <3> QED
      BY <3>1, <3>2
  <2> QED
    BY <2>2, <2>4, <2>5
<1>2. EthInit => EthTypeOK /\ EthInv
  BY EthTypeInit, EthInvInit
<1>3. EthTypeOK /\ EthInv /\ [EthNext]_ethVars => (EthTypeOK /\ EthInv)'
  BY EthTypeStep, EthInvStep
<1>4. EthTypeOK /\ EthInv /\ [EthNext]_ethVars => \A l \in Links : True(l)
  BY <1>1
<1> QED
  BY <1>2, <1>3, <1>4, PTL DEF EthSpec, ReportsAreTrue
=============================================================================
