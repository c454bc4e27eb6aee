---------------------------- MODULE ServiceProofs ----------------------------
(***************************************************************************)
(* What the client of a tagged entry can rely on: the service promised by  *)
(* VlanService, the id it asked for, the reports WanManager gets, and that *)
(* nothing is left behind.  All of it for every number of entries, links,  *)
(* threads and requests.                                                   *)
(***************************************************************************)
EXTENDS VlanRefinement, VlanProofs, FiniteSetTheorems

-----------------------------------------------------------------------------
(* What a step of each kind does to an entry *)

\* A worker takes the mutex and enters its procedure.
Locks(t) ==
  /\ mutex = NoThread /\ mutex' = t
  /\ UNCHANGED <<dev, wan, vlan>>
  /\ prior' = [prior EXCEPT ![vlan[t]] = Present(vlan[t])]
  /\ \/ /\ pc[t] = "EnableLock"
        /\ pc' = [pc EXCEPT ![t] = "TagLink"]
        /\ lastRun' = [lastRun EXCEPT ![vlan[t]] = "Enable"]
     \/ /\ pc[t] = "DisableLock"
        /\ pc' = [pc EXCEPT ![t] = "DisableLink"]
        /\ lastRun' = [lastRun EXCEPT ![vlan[t]] = "Disable"]

\* It goes on to label m, with the mutex.
Works(t, m) ==
  /\ mutex = t /\ pc[t] \in WorkLabels
  /\ pc' = [pc EXCEPT ![t] = m]
  /\ UNCHANGED <<mutex, vlan, lastRun, prior>>
  /\ m \in {"PollVlan", "SendVlanUp", "EnableDone"} =>
       pc[t] \in {"CreateTagged", "PollVlan", "SendVlanUp"}
  /\ m = "CheckOn" => link'[t] \in Links /\ ethPriorityTagging'[link'[t]]

\* It gives the mutex up, its device made or deleted.
Unlocks(t) ==
  /\ mutex = t /\ mutex' = NoThread
  /\ pc' = [pc EXCEPT ![t] = "idle"]
  /\ vlan' = [vlan EXCEPT ![t] = NoVlan]
  /\ UNCHANGED <<dev, lastRun, prior>>
  /\ \/ /\ pc[t] = "EnableDone"
        /\ lastRun[vlan[t]] = "Enable" /\ Present(vlan[t])
        /\ UNCHANGED wan
     \/ /\ pc[t] = "DisableDone"
        /\ lastRun[vlan[t]] = "Disable" /\ ~Present(vlan[t])
        /\ Notify(VlanPath[vlan[t]], "Down")

\* Where a worker goes on to by itself, and where it may be moved within a link.
WorkTargets == {"CheckOn", "CheckOff", "DeleteTagged", "CreateTagged", "PollVlan",
                "SendVlanUp", "EnableDone", "ClearTagging", "RemoveVlan", "DisableDone"}

LinkTargets == CallLabels \cup {"DeleteTagged", "ClearTagging"}

LEMMA WorkerStepInTagged ==
  ASSUME TaggedSystem, IInv, DeviceInv, NEW t \in Threads, WorkerStep(t)
  PROVE  /\ vlan[t] \in Vlans
         /\ UNCHANGED <<vlanEnable, vlanId, vlanName, vlanLower, crashes>>
         /\ \A n \in Names : n # PsmName[vlan[t]] => dev'[n] = dev[n]
         /\ \A v \in Vlans : v # vlan[t] => dev'[PsmName[v]] = dev[PsmName[v]]
         /\ \/ Locks(t) \/ Unlocks(t)
            \/ \E m \in WorkTargets : Works(t, m)
  <1>t. t \in Procs BY DEF Procs
  <1>v. /\ pc[t] \in LockLabels \cup WorkLabels
        /\ vlan[t] \in Vlans
    <2>1. pc[t] \in LockLabels \cup WorkLabels
      BY DEF WorkerStep, EnableLock, DisableLock, Lock, TagLink, UntagLink, EnableEthLink,
             SetEthLink, DeleteTagged, CreateTagged, EnableBridge, PollVlan, SendVlanUp,
             EnableDone, DisableDone, Finish, DisableLink, ClearTagging, RemoveVlan, Goto,
             LockLabels, WorkLabels
    <2> QED BY <2>1, WorkerHasVlan DEF IInv, TypeOK
  <1>1. pc[t] \in WorkLabels => mutex = t /\ Phase(t) = pc[t]
    BY HolderFacts
  <1>2. DevType /\ vlanName = PsmName /\ PsmName \in [Vlans -> Names]
    BY VlanAssumption DEF IInv, TypeOK, PlatformTypeOK, DevType, DeviceInv
  <1>3. pc[t] \in WorkLabels =>
          \/ pc[t] \in Enabling /\ lastRun[vlan[t]] = "Enable"
          \/ pc[t] \in Disabling /\ lastRun[vlan[t]] = "Disable"
    BY <1>1 DEF DeviceInv, PhaseOK
  <1>4. \A v \in Vlans : v # vlan[t] => PsmName[v] \in Names /\ PsmName[v] # PsmName[vlan[t]]
    BY <1>2, <1>v DEF TaggedSystem
  <1>5. Kind(vlanId[vlan[t]]) = "tagged" /\ vlanId[vlan[t]] # -1
    <2>1. vlanId[vlan[t]] \in VlanIds BY <1>v DEF IInv, TypeOK, VlanTypeOK
    <2> QED BY <2>1, TaggedIds
  <1>6. EnableWith(vlanId[vlan[t]]) = "TagLink" BY <1>5 DEF EnableWith
  <1>7. ASSUME \/ UNCHANGED dev
               \/ CreateDevice(PsmName[vlan[t]], Tagged(vlanId[vlan[t]]))
               \/ DeleteDevice(PsmName[vlan[t]])
        PROVE  /\ \A n \in Names : n # PsmName[vlan[t]] => dev'[n] = dev[n]
               /\ \A v \in Vlans : v # vlan[t] => dev'[PsmName[v]] = dev[PsmName[v]]
    BY <1>2, <1>4, <1>7, OtherDevices
  <1>8. vlanLower \in [Vlans -> Links \cup {NoLink}] BY DEF IInv, TypeOK, VlanTypeOK
  <1> USE DEF Goto, platformVars, vlanVars, vlanFields, history
  <1>a. CASE EnableLock(t) \/ DisableLock(t)
    <2>1. Locks(t)
      BY <1>2, <1>5, <1>6, <1>a
         DEF EnableLock, DisableLock, Lock, Locks, Present
    <2> QED BY <1>v, <1>a, <2>1 DEF EnableLock, DisableLock, Locks
  <1>b. CASE TagLink(t)
    <2>1. Works(t, "DeleteTagged") \/ Works(t, "CheckOn")
      <3>1. /\ link \in [Procs -> Links \cup {NoLink}]
            /\ ethPriorityTagging \in [Links -> BOOLEAN]
        BY DEF IInv, TypeOK, ThreadTypeOK, EthFieldsTypeOK
      <3> QED
        BY <1>t, <1>1, <1>v, <1>8, <1>b, <3>1, EthLinkAssumption
           DEF TagLink, EnableEthLink, SetEthLink, Works, WorkLabels
    <2> QED
      BY <1>v, <1>b, <2>1
         DEF TagLink, EnableEthLink, WorkTargets
  <1>c. CASE UntagLink(t) \/ EnableBridge(t)
    <2>1. pc[t] \in {"UntagLink", "EnableBridge"}
      BY <1>c DEF UntagLink, EnableEthLink, SetEthLink, EnableBridge
    <2> QED BY <1>3, <2>1 DEF Enabling, Disabling, WorkLabels
  <1>d. CASE DeleteTagged(t)
    <2>1. Works(t, "CreateTagged")
      BY <1>1, <1>d DEF DeleteTagged, Works, WorkLabels
    <2>2. UNCHANGED dev \/ DeleteDevice(PsmName[vlan[t]])
      BY <1>2, <1>d DEF DeleteTagged
    <2> QED BY <1>v, <1>7, <1>d, <2>1, <2>2 DEF DeleteTagged, WorkTargets
  <1>e. CASE CreateTagged(t)
    <2>1. Works(t, "PollVlan")
      BY <1>1, <1>e DEF CreateTagged, Works, WorkLabels
    <2>2. UNCHANGED dev \/ CreateDevice(PsmName[vlan[t]], Tagged(vlanId[vlan[t]]))
      BY <1>2, <1>e DEF CreateTagged
    <2> QED BY <1>v, <1>7, <1>e, <2>1, <2>2 DEF CreateTagged, WorkTargets
  <1>f. CASE PollVlan(t)
    <2>1. PICK st : PollTurn(t, "PollVlan", st, "SendVlanUp", "EnableDone")
      BY <1>f DEF PollVlan
    <2>2. pc[t] = "PollVlan" BY <1>f DEF PollVlan
    <2>3. PICK m \in {"PollVlan", "SendVlanUp", "EnableDone"} : pc' = [pc EXCEPT ![t] = m]
      BY <1>t, <2>1, <2>2, PollTurnMoves DEF IInv, TypeOK
    <2>4. Works(t, m) BY <1>1, <1>f, <2>2, <2>3 DEF PollVlan, Works, WorkLabels
    <2> QED BY <1>v, <1>f, <2>4 DEF PollVlan, WorkTargets
  <1>g. CASE SendVlanUp(t)
    <2>1. Works(t, "EnableDone")
      BY <1>1, <1>g DEF SendVlanUp, Works, WorkLabels
    <2> QED BY <1>v, <1>g, <2>1 DEF SendVlanUp, WorkTargets
  <1>h. CASE DisableLink(t)
    <2>1. Works(t, "RemoveVlan") \/ Works(t, "CheckOff")
      BY <1>1, <1>v, <1>8, <1>h, EthLinkAssumption
         DEF DisableLink, SetEthLink, Works, WorkLabels
    <2> QED
      BY <1>v, <1>h, <2>1 DEF DisableLink, WorkTargets
  <1>i. CASE ClearTagging(t)
    <2>1. Works(t, "RemoveVlan")
      BY <1>1, <1>i DEF ClearTagging, Works, WorkLabels
    <2> QED BY <1>v, <1>i, <2>1 DEF ClearTagging, WorkTargets
  <1>j. CASE RemoveVlan(t)
    <2>1. Works(t, "DisableDone")
      BY <1>1, <1>j DEF RemoveVlan, Works, WorkLabels
    <2>2. UNCHANGED dev \/ DeleteDevice(PsmName[vlan[t]])
      BY <1>2, <1>5, <1>j DEF RemoveVlan
    <2> QED BY <1>v, <1>7, <1>j, <2>1, <2>2 DEF RemoveVlan, WorkTargets
  <1>k. CASE EnableDone(t) \/ DisableDone(t)
    <2>1. pc[t] \in {"EnableDone", "DisableDone"} BY <1>k DEF EnableDone, DisableDone, Finish
    <2>2. /\ pc[t] = "EnableDone" => lastRun[vlan[t]] = "Enable"
          /\ pc[t] = "DisableDone" => lastRun[vlan[t]] = "Disable"
      BY <1>3, <2>1 DEF Enabling, Disabling, WorkLabels
    <2>3. /\ pc[t] = "EnableDone" => Present(vlan[t])
          /\ pc[t] = "DisableDone" => ~Present(vlan[t])
      BY <1>1, <2>1 DEF DeviceInv, Progress, WorkLabels
    <2>4. Unlocks(t)
      BY <1>1, <1>k, <2>1, <2>2, <2>3 DEF EnableDone, DisableDone, Finish, Unlocks, WorkLabels
    <2> QED BY <1>v, <1>k, <2>4 DEF EnableDone, DisableDone, Unlocks
  <1> QED BY <1>a, <1>b, <1>c, <1>d, <1>e, <1>f, <1>g, <1>h, <1>i, <1>j, <1>k
          DEF WorkerStep

\* A thread in a link moves neither to nor from a lock, and the holder of the mutex
\* comes back only to the step after its call.
LEMMA LinkStepInTagged ==
  ASSUME TaggedSystem, IInv, DeviceInv, NEW p \in Procs, EthStep(p), UNCHANGED vlanVars
  PROVE  /\ \A v \in Vlans : dev'[PsmName[v]] = dev[PsmName[v]]
         /\ \A t \in Threads : \/ pc'[t] = pc[t]
                               \/ /\ pc[t] \in EthLabels /\ pc'[t] \notin LockLabels
                                  /\ mutex = t => pc'[t] \in LinkTargets
  <1>1. MovesInLink(p) BY EthStepMoves DEF IInv, TypeOK
  <1>2. /\ pc \in [Procs -> {"idle"} \cup EthLabels \cup LockLabels \cup WorkLabels]
        /\ ret \in [Procs -> {"idle", "DeleteTagged", "EnableDone", "ClearTagging"}]
    BY DEF IInv, TypeOK, ThreadTypeOK
  <1>3. \A t \in Threads : mutex = t => pc[t] \notin RefreshLabels
    BY DEF IInv, TypeOK, VlanTypeOK, LabelsOK, MutualExclusion, InCritical
  <1>4. \A t \in Threads : mutex = t /\ pc[t] \in CallLabels =>
          ret[t] \in {"DeleteTagged", "ClearTagging"}
    BY DEF DeviceInv, PhaseOK
  <1>5. ASSUME NEW t \in Threads, pc'[t] # pc[t]
        PROVE  /\ pc[t] \in EthLabels /\ pc'[t] \notin LockLabels
               /\ mutex = t => pc'[t] \in LinkTargets
    <2>1. t = p BY <1>1, <1>2, <1>5 DEF MovesInLink, Procs
    <2> QED
      BY <1>1, <1>2, <1>3, <1>4, <2>1
         DEF MovesInLink, LinkTargets, CallLabels, RefreshLabels, EthLabels, LockLabels
  <1> QED BY <1>5, EthStepDevices DEF DeviceInv

\* A request leaves devices, reports and the holder of the mutex alone.  Only a change of
\* Enable touches an entry's workers, and only a quiet entry is written to.
Starts(t, v, b) ==
  /\ pc[t] = "idle" /\ pc' = [pc EXCEPT ![t] = IF b THEN "EnableLock" ELSE "DisableLock"]
  /\ vlan' = [vlan EXCEPT ![t] = v]
  /\ b # vlanEnable[v]
  /\ vlanEnable' = [vlanEnable EXCEPT ![v] = b]
  /\ UNCHANGED vlanId

Quiet ==
  /\ UNCHANGED <<vlan, vlanEnable>>
  /\ \A t \in Threads : \/ pc'[t] = pc[t]
                        \/ mutex # t /\ pc[t] \notin LockLabels /\ pc'[t] \notin LockLabels
  /\ \/ UNCHANGED vlanId
     \/ \E v \in Vlans, id \in VlanIds : MayWrite(v) /\ vlanId' = [vlanId EXCEPT ![v] = id]

LEMMA RequestInTagged ==
  ASSUME TaggedSystem, IInv, VlanRequest \/ (EthRequest /\ UNCHANGED vlanVars)
  PROVE  /\ UNCHANGED <<dev, wan, vlanName, mutex, lastRun, prior, crashes>>
         /\ \/ Quiet
            \/ \E t \in Threads, v \in Vlans, b \in BOOLEAN : Starts(t, v, b)
            \/ /\ "spawn" \in Faults /\ UNCHANGED <<vlan, vlanId, pc>>
               /\ \E v \in Vlans, b \in BOOLEAN : vlanEnable' = [vlanEnable EXCEPT ![v] = b]
  <1>1. /\ pc \in [Procs -> {"idle"} \cup EthLabels \cup LockLabels \cup WorkLabels]
        /\ vlan \in [Threads -> Vlans \cup {NoVlan}]
        /\ vlanEnable \in [Vlans -> BOOLEAN]
    BY DEF IInv, TypeOK, ThreadTypeOK, VlanTypeOK
  <1>2. \A t \in Threads : pc[t] = "idle" => mutex # t
    BY DEF IInv, LabelsOK, MutualExclusion, InCritical
  <1> USE EthLinkAssumption
      DEF Serve, Procs, platformVars, ethFields, threadVars, vlanVars, vlanFields, history,
          Goto, LockLabels
  <1>a. ASSUME NEW l \in Links, NEW b \in BOOLEAN, SetLinkEnable(l, b), UNCHANGED vlanVars
        PROVE  UNCHANGED <<dev, wan>> /\ Quiet
    BY <1>1, <1>a DEF SetLinkEnable, Quiet
  <1>b. ASSUME NEW l \in Links, NEW t \in Threads, SetRefresh(l, t), UNCHANGED vlanVars
        PROVE  UNCHANGED <<dev, wan>> /\ Quiet
    BY <1>1, <1>2, <1>b DEF SetRefresh, Quiet
  <1>c. ASSUME NEW l \in Links, NEW b \in BOOLEAN,
               SetPriorityTagging(l, b) \/ GetLinkStatus(l), UNCHANGED vlanVars
        PROVE  UNCHANGED <<dev, wan>> /\ Quiet
    BY <1>c DEF SetPriorityTagging, GetLinkStatus, Quiet
  <1>d. ASSUME NEW v \in Vlans, NEW b \in BOOLEAN, SetVlanEnable(v, b)
        PROVE  /\ UNCHANGED <<dev, wan, vlanName, mutex, lastRun, prior, crashes>>
               /\ \/ Quiet \/ \E t \in Threads : Starts(t, v, b)
                  \/ /\ "spawn" \in Faults /\ UNCHANGED <<vlan, vlanId, pc>>
                     /\ vlanEnable' = [vlanEnable EXCEPT ![v] = b]
    <2>1. UNCHANGED <<dev, wan, vlanName, mutex, lastRun, prior, crashes, vlanId>>
      BY <1>d DEF SetVlanEnable
    <2>2. vlanEnable' = [vlanEnable EXCEPT ![v] = b] BY <1>d DEF SetVlanEnable
    <2>3. CASE b = vlanEnable[v] /\ UNCHANGED <<pc, vlan>>
      <3>1. vlanEnable' = vlanEnable BY <1>1, <2>2, <2>3
      <3> QED BY <2>1, <2>3, <3>1 DEF Quiet
    <2>4. CASE b # vlanEnable[v]
               /\ \E t \in Threads :
                    /\ Goto(t, "idle", IF b THEN "EnableLock" ELSE "DisableLock")
                    /\ vlan' = [vlan EXCEPT ![t] = v]
      BY <2>1, <2>2, <2>4 DEF Starts
    <2>5. CASE "spawn" \in Faults /\ UNCHANGED <<pc, vlan>>
      BY <2>1, <2>2, <2>5
    <2> QED BY <1>d, <2>1, <2>3, <2>4, <2>5 DEF SetVlanEnable
  <1>e. ASSUME NEW v \in Vlans, NEW id \in VlanIds, NEW l, NEW n,
               \/ SetVlanId(v, id) \/ SetLowerLayers(v, l) \/ GetVlanStatus(v)
               \/ SetVlanName(v, n) \/ Rollback(v)
        PROVE  UNCHANGED <<dev, wan, vlanName, mutex, lastRun, prior, crashes>> /\ Quiet
    <2>1. ~SetVlanName(v, n) /\ ~Rollback(v)
      BY DEF SetVlanName, Rollback, TaggedSystem
    <2> QED BY <1>e, <2>1 DEF SetVlanId, SetLowerLayers, GetVlanStatus, Quiet
  <1>f. ASSUME NEW v \in Vlans PROVE \E id : id \in VlanIds
    BY <1>f, VlanAssumption
  <1> QED BY <1>a, <1>b, <1>c, <1>d, <1>e, <1>f DEF EthRequest, VlanRequest

-----------------------------------------------------------------------------
(* The service *)

\* No worker fails to start and the daemon does not die: each lets a change go that the
\* service would owe.
ServiceSystem ==
  TaggedSystem /\ MaxCrashes = 0 /\ "spawn" \notin Faults /\ IsFiniteSet(Threads)

ServiceUnchanged == UNCHANGED <<vlanEnable, PendingChanges, InterfacePresent>>

\* The workers of every entry are the same, and so is every interface.
LEMMA SameView ==
  ASSUME \A v \in Vlans, b \in BOOLEAN : WorkersFor(v, b)' = WorkersFor(v, b),
         \A v \in Vlans : InterfacePresent'[v] = InterfacePresent[v],
         vlanEnable' = vlanEnable
  PROVE  ServiceUnchanged
  <1>1. PendingChanges' = PendingChanges
    BY DEF PendingChanges
  <1>2. InterfacePresent' = InterfacePresent
    BY DEF InterfacePresent
  <1> QED BY <1>1, <1>2 DEF ServiceUnchanged

LEMMA WorkersFinite ==
  ASSUME IsFiniteSet(Threads)
  PROVE  \A v, b : /\ IsFiniteSet(WorkersFor(v, b))
                   /\ Cardinality(WorkersFor(v, b)) \in Nat
  <1>1. \A v, b : WorkersFor(v, b) \subseteq Threads
    BY DEF WorkersFor
  <1> QED BY <1>1, FS_Subset, FS_CardinalityType

\* A step that moves no thread to or from a lock, and gives the mutex to nobody, is not
\* seen by the client.
LEMMA HiddenStep ==
  ASSUME TaggedSystem, IInv, DeviceInv,
         UNCHANGED <<vlanEnable, vlanName, vlan, mutex, lastRun, prior>>,
         \A t \in Threads : \/ pc'[t] = pc[t] \/ mutex = t
                            \/ pc[t] \notin LockLabels /\ pc'[t] \notin LockLabels,
         \A v \in Vlans : \/ dev'[PsmName[v]] = dev[PsmName[v]]
                          \/ \E t \in Threads : mutex = t /\ vlan[t] = v
  PROVE  ServiceUnchanged
  <1>1. \A v \in Vlans, b \in BOOLEAN : WorkersFor(v, b)' = WorkersFor(v, b)
    BY DEF WorkersFor, LockLabels
  <1>2. ASSUME NEW v \in Vlans
        PROVE  InterfacePresent'[v] = InterfacePresent[v]
    <2>1. vlanName[v] = PsmName[v] /\ vlanName'[v] = PsmName[v]
      BY DEF DeviceInv
    <2>2. CASE \E t \in Threads : mutex = t /\ vlan[t] = v
      BY <2>2 DEF InterfacePresent
    <2>3. CASE ~ \E t \in Threads : mutex = t /\ vlan[t] = v
      BY <2>1, <2>3 DEF InterfacePresent, Exists
    <2> QED BY <2>2, <2>3
  <1> QED BY <1>1, <1>2, SameView

\* A worker that takes the mutex is pending as before, and its interface counts as it is.
LEMMA LockHidden ==
  ASSUME TaggedSystem, IInv, DeviceInv, NEW t \in Threads, vlan[t] \in Vlans, Locks(t),
         UNCHANGED <<vlanEnable, vlanName>>
  PROVE  ServiceUnchanged
  <1>1. /\ mutex = NoThread /\ mutex' = t /\ UNCHANGED <<dev, vlan>>
        /\ \A u \in Threads : mutex # u
        /\ \A u \in Threads : u # t => mutex' # u /\ pc'[u] = pc[u]
    <2>1. mutex = NoThread /\ mutex' = t /\ UNCHANGED <<dev, vlan>>
      BY DEF Locks
    <2>2. pc' = [pc EXCEPT ![t] = "TagLink"] \/ pc' = [pc EXCEPT ![t] = "DisableLink"]
      BY DEF Locks
    <2>3. \A u \in Threads : u # t => pc'[u] = pc[u]
      BY <2>2 DEF IInv, TypeOK, ThreadTypeOK, Procs
    <2> QED BY <2>1, <2>3, VlanAssumption
  <1>2. lastRun \in [Vlans -> {"none", "Enable", "Disable"}] /\ prior \in [Vlans -> BOOLEAN]
    BY DEF IInv, TypeOK, VlanTypeOK
  <1>3. ASSUME NEW v \in Vlans, NEW b \in BOOLEAN, NEW u \in Threads
        PROVE  u \in WorkersFor(v, b)' <=> u \in WorkersFor(v, b)
    <2>1. CASE u # t
      BY <1>1, <2>1 DEF WorkersFor
    <2>2. CASE u = t
      <3>1. t \in WorkersFor(v, b) <=>
              vlan[t] = v /\ pc[t] = (IF b THEN "EnableLock" ELSE "DisableLock")
        BY <1>1 DEF WorkersFor
      <3>2. t \in WorkersFor(v, b)' <=>
              vlan[t] = v /\ lastRun'[v] = (IF b THEN "Enable" ELSE "Disable")
        BY <1>1 DEF WorkersFor
      <3> QED BY <1>2, <2>2, <3>1, <3>2 DEF Locks
    <2> QED BY <2>1, <2>2
  <1>4. \A v \in Vlans, b \in BOOLEAN : WorkersFor(v, b)' = WorkersFor(v, b)
    <2>1. \A v \in Vlans, b \in BOOLEAN :
            WorkersFor(v, b) \subseteq Threads /\ WorkersFor(v, b)' \subseteq Threads
      BY DEF WorkersFor
    <2> QED BY <1>3, <2>1
  <1>5. ASSUME NEW v \in Vlans
        PROVE  InterfacePresent'[v] = InterfacePresent[v]
    <2>1. InterfacePresent[v] = Exists(vlanName[v])
      BY <1>1 DEF InterfacePresent
    <2>2. CASE v = vlan[t]
      <3>1. InterfacePresent'[v] = prior'[v]
        BY <1>1, <2>2 DEF InterfacePresent
      <3>2. prior'[v] = Present(v)
        BY <1>2, <2>2 DEF Locks
      <3> QED BY <2>1, <3>1, <3>2 DEF Present, DeviceInv
    <2>3. CASE v # vlan[t]
      <3>1. InterfacePresent'[v] = Exists(vlanName[v])'
        BY <1>1, <2>3 DEF InterfacePresent
      <3> QED BY <1>1, <2>1, <3>1 DEF Exists
    <2> QED BY <2>2, <2>3
  <1> QED BY <1>4, <1>5, SameView

\* A worker that gives up the mutex carries out its change.
LEMMA UnlockCarriesOut ==
  ASSUME ServiceSystem, IInv, DeviceInv, NEW t \in Threads, vlan[t] \in Vlans, Unlocks(t),
         UNCHANGED <<vlanEnable, vlanName>>
  PROVE  \E b \in BOOLEAN : Service!CarryOut(vlan[t], b)
  <1> DEFINE w == vlan[t]
             b == lastRun[w] = "Enable"
  <1>1. /\ mutex = t /\ mutex' = NoThread /\ UNCHANGED <<dev, lastRun>>
        /\ \A u \in Threads : mutex' # u
        /\ \A u \in Threads : u # t => mutex # u /\ pc'[u] = pc[u] /\ vlan'[u] = vlan[u]
        /\ vlan'[t] = NoVlan
    BY VlanAssumption DEF Unlocks, IInv, TypeOK, ThreadTypeOK, VlanTypeOK
  <1>2. lastRun[w] = IF b THEN "Enable" ELSE "Disable"
    BY DEF Unlocks
  <1>3. Exists(PsmName[w]) <=> b
    BY DEF Unlocks, Present
  <1>4. vlanName = PsmName
    BY DEF DeviceInv
  <1>5. t \in WorkersFor(w, b)
    BY <1>1, <1>2 DEF WorkersFor
  <1>6. \A c \in BOOLEAN : t \in WorkersFor(w, c) => c = b
    BY <1>1 DEF WorkersFor
  <1>7. \A v \in Vlans, c \in BOOLEAN : WorkersFor(v, c)' = WorkersFor(v, c) \ {t}
    <2>1. ASSUME NEW v \in Vlans, NEW c \in BOOLEAN, NEW u \in Threads
          PROVE  u \in WorkersFor(v, c)' <=> u \in WorkersFor(v, c) /\ u # t
      BY <1>1, VlanAssumption DEF WorkersFor
    <2>2. \A v \in Vlans, c \in BOOLEAN :
            WorkersFor(v, c) \subseteq Threads /\ WorkersFor(v, c)' \subseteq Threads
      BY DEF WorkersFor
    <2> QED BY <2>1, <2>2
  <1> HIDE DEF b
  <1>b. b \in BOOLEAN BY DEF b
  <1>8. \A v \in Vlans, c \in BOOLEAN :
          WorkersFor(v, c)' =
            IF v = w /\ c = b THEN WorkersFor(w, b) \ {t} ELSE WorkersFor(v, c)
    <2>1. \A v \in Vlans, c \in BOOLEAN : t \in WorkersFor(v, c) => v = w /\ c = b
      BY <1>6 DEF WorkersFor
    <2> QED BY <1>7, <2>1
  <1>9. /\ Cardinality(WorkersFor(w, b) \ {t}) = Cardinality(WorkersFor(w, b)) - 1
        /\ Cardinality(WorkersFor(w, b)) > 0
    <2>1. IsFiniteSet(WorkersFor(w, b)) /\ Cardinality(WorkersFor(w, b)) \in Nat
      BY WorkersFinite DEF ServiceSystem
    <2>2. Cardinality(WorkersFor(w, b) \ {t}) = Cardinality(WorkersFor(w, b)) - 1
      BY <1>5, <2>1, FS_RemoveElement
    <2>3. IsFiniteSet(WorkersFor(w, b) \ {t})
      BY <2>1, FS_RemoveElement
    <2>4. Cardinality(WorkersFor(w, b) \ {t}) \in Nat
      BY <2>3, FS_CardinalityType
    <2> QED BY <2>1, <2>2, <2>4
  <1>10. PendingChanges' = [PendingChanges EXCEPT ![w][b] = @ - 1]
    <2>1. ASSUME NEW v \in Vlans, NEW c \in BOOLEAN
          PROVE  Cardinality(WorkersFor(v, c))' =
                   IF v = w /\ c = b THEN Cardinality(WorkersFor(w, b)) - 1
                   ELSE Cardinality(WorkersFor(v, c))
      <3>1. Cardinality(WorkersFor(v, c))' = Cardinality(WorkersFor(v, c)')
        OBVIOUS
      <3> QED BY <1>8, <1>9, <3>1
    <2> QED BY <2>1, <1>b DEF PendingChanges
  <1>11. InterfacePresent' = [InterfacePresent EXCEPT ![w] = b]
    <2>1. ASSUME NEW v \in Vlans
          PROVE  InterfacePresent'[v] = IF v = w THEN b ELSE InterfacePresent[v]
      <3>1. InterfacePresent'[v] = Exists(vlanName[v])'
        BY <1>1 DEF InterfacePresent
      <3>2. InterfacePresent'[v] = Exists(PsmName[v])
        BY <1>1, <1>4, <3>1 DEF Exists
      <3>3. CASE v = w
        BY <1>3, <1>b, <3>2, <3>3 DEF Exists
      <3>4. CASE v # w
        <4>1. InterfacePresent[v] = Exists(vlanName[v])
          BY <1>1, <3>4 DEF InterfacePresent
        <4> QED BY <1>4, <3>2, <3>4, <4>1
      <3> QED BY <3>3, <3>4
    <2>2. \A v \in Vlans : InterfacePresent'[v] = [InterfacePresent EXCEPT ![w] = b][v]
      BY <2>1 DEF InterfacePresent
    <2> QED BY <2>2 DEF InterfacePresent
  <1>12. PendingChanges[w][b] > 0
    BY <1>9, <1>b DEF PendingChanges
  <1>13. Service!CarryOut(w, b)
    BY <1>10, <1>11, <1>12 DEF Service!CarryOut
  <1> QED BY <1>13, <1>b

\* Starting a worker makes its change pending.
LEMMA StartIsChange ==
  ASSUME ServiceSystem, IInv, DeviceInv, NEW t \in Threads, NEW w \in Vlans,
         NEW b \in BOOLEAN, Starts(t, w, b),
         UNCHANGED <<dev, vlanName, mutex, lastRun, prior>>
  PROVE  Service!Change(w, b)
  <1>1. /\ pc[t] = "idle" /\ vlan[t] = NoVlan /\ mutex # t
        /\ pc'[t] = IF b THEN "EnableLock" ELSE "DisableLock"
        /\ vlan'[t] = w
        /\ \A u \in Threads : u # t => pc'[u] = pc[u] /\ vlan'[u] = vlan[u]
    <2>1. pc[t] = "idle" /\ vlan[t] = NoVlan /\ mutex # t
      BY DEF Starts, IInv, LabelsOK, MutualExclusion, InCritical
    <2>2. t \in Procs /\ pc \in [Procs -> {"idle"} \cup EthLabels \cup LockLabels \cup WorkLabels]
          /\ vlan \in [Threads -> Vlans \cup {NoVlan}]
      BY DEF IInv, TypeOK, ThreadTypeOK, VlanTypeOK, Procs
    <2> QED BY <2>1, <2>2 DEF Starts
  <1>2. \A v \in Vlans, c \in BOOLEAN : t \notin WorkersFor(v, c)
    BY <1>1, VlanAssumption DEF WorkersFor
  <1>3. \A v \in Vlans, c \in BOOLEAN :
          WorkersFor(v, c)' = IF v = w /\ c = b THEN WorkersFor(w, b) \cup {t}
                              ELSE WorkersFor(v, c)
    <2>1. ASSUME NEW v \in Vlans, NEW c \in BOOLEAN, NEW u \in Threads
          PROVE  u \in WorkersFor(v, c)' <=> u \in WorkersFor(v, c) \/ (u = t /\ v = w /\ c = b)
      <3>1. CASE u = t
        <4>1. u \in WorkersFor(v, c)' <=>
                w = v /\ pc'[t] = (IF c THEN "EnableLock" ELSE "DisableLock")
          BY <1>1, <3>1 DEF WorkersFor
        <4> QED BY <1>1, <1>2, <3>1, <4>1
      <3>2. CASE u # t
        BY <1>1, <3>2 DEF WorkersFor
      <3> QED BY <3>1, <3>2
    <2>2. \A v \in Vlans, c \in BOOLEAN :
            WorkersFor(v, c) \subseteq Threads /\ WorkersFor(v, c)' \subseteq Threads
      BY DEF WorkersFor
    <2> QED BY <2>1, <2>2
  <1>4. /\ Cardinality(WorkersFor(w, b) \cup {t}) = Cardinality(WorkersFor(w, b)) + 1
        /\ Cardinality(WorkersFor(w, b)) < Cardinality(Threads)
    <2>1. IsFiniteSet(WorkersFor(w, b)) /\ IsFiniteSet(Threads)
      BY WorkersFinite DEF ServiceSystem
    <2>2. WorkersFor(w, b) \in SUBSET (Threads \ {t})
      BY <1>2 DEF WorkersFor
    <2>3. IsFiniteSet(Threads \ {t}) /\ Cardinality(Threads \ {t}) = Cardinality(Threads) - 1
      BY <2>1, FS_RemoveElement
    <2>4. Cardinality(WorkersFor(w, b)) <= Cardinality(Threads \ {t})
      BY <2>2, <2>3, FS_Subset
    <2>5. Cardinality(WorkersFor(w, b)) \in Nat /\ Cardinality(Threads) \in Nat
      BY <2>1, FS_CardinalityType
    <2>6. Cardinality(WorkersFor(w, b) \cup {t}) = Cardinality(WorkersFor(w, b)) + 1
      BY <1>2, <2>1, FS_AddElement
    <2> QED BY <2>3, <2>4, <2>5, <2>6
  <1>5. PendingChanges' = [PendingChanges EXCEPT ![w][b] = @ + 1]
    <2>1. ASSUME NEW v \in Vlans, NEW c \in BOOLEAN
          PROVE  Cardinality(WorkersFor(v, c))' =
                   IF v = w /\ c = b THEN Cardinality(WorkersFor(w, b)) + 1
                   ELSE Cardinality(WorkersFor(v, c))
      <3>1. Cardinality(WorkersFor(v, c))' = Cardinality(WorkersFor(v, c)')
        OBVIOUS
      <3> QED BY <1>3, <1>4, <3>1
    <2> QED BY <2>1 DEF PendingChanges
  <1>6. InterfacePresent' = InterfacePresent
    <2>1. ASSUME NEW v \in Vlans
          PROVE  InterfacePresent'[v] = InterfacePresent[v]
      <3>1. \A u \in Threads : mutex = u => vlan'[u] = vlan[u]
        BY <1>1
      <3>2. (\E u \in Threads : mutex = u /\ vlan[u] = v)'
              <=> \E u \in Threads : mutex = u /\ vlan[u] = v
        BY <3>1
      <3> QED BY <3>2 DEF InterfacePresent, Exists
    <2> QED BY <2>1 DEF InterfacePresent
  <1>7. PendingChanges[w][b] < Cardinality(Threads)
    BY <1>4 DEF PendingChanges
  <1>8. vlanEnable[w] # b /\ vlanEnable' = [vlanEnable EXCEPT ![w] = b]
    BY DEF Starts
  <1> QED BY <1>5, <1>6, <1>7, <1>8 DEF Service!Change

\* Every step of the daemon is one of the service, or hidden.
LEMMA StepIsService ==
  ASSUME ServiceSystem
  PROVE  IInv /\ DeviceInv /\ [Next]_vars => [Service!ServiceNext]_(Service!serviceVars)
  <1> SUFFICES ASSUME IInv, DeviceInv, [Next]_vars
               PROVE  Service!ServiceNext \/ ServiceUnchanged
    BY DEF ServiceUnchanged, Service!serviceVars
  <1> USE DEF ServiceSystem
  <1>1. CASE VlanRequest \/ (EthRequest /\ UNCHANGED vlanVars)
    <2>1. UNCHANGED <<dev, vlanName, mutex, lastRun, prior>>
      BY <1>1, RequestInTagged
    <2>2. CASE Quiet
      <3>1. UNCHANGED <<vlan, vlanEnable>>
        BY <2>2 DEF Quiet
      <3>2. \A t \in Threads : \/ pc'[t] = pc[t] \/ mutex = t
                               \/ pc[t] \notin LockLabels /\ pc'[t] \notin LockLabels
        BY <2>2 DEF Quiet
      <3> QED BY <2>1, <3>1, <3>2, HiddenStep
    <2>3. ASSUME NEW t \in Threads, NEW v \in Vlans, NEW b \in BOOLEAN, Starts(t, v, b)
          PROVE  Service!ServiceNext
      BY <2>1, <2>3, StartIsChange DEF Service!ServiceNext
    <2> QED BY <1>1, <2>2, <2>3, RequestInTagged
  <1>2. ASSUME NEW p \in Procs, EthStep(p), UNCHANGED vlanVars
        PROVE  ServiceUnchanged
    <2>1. UNCHANGED <<vlanEnable, vlanName, vlan, mutex, lastRun, prior>>
      BY <1>2 DEF vlanVars, vlanFields, history
    <2>2. \A t \in Threads : \/ pc'[t] = pc[t]
                             \/ pc[t] \notin LockLabels /\ pc'[t] \notin LockLabels
      BY <1>2, LinkStepInTagged DEF EthLabels, LockLabels
    <2>3. \A v \in Vlans : dev'[PsmName[v]] = dev[PsmName[v]]
      BY <1>2, LinkStepInTagged
    <2> QED BY <2>1, <2>2, <2>3, HiddenStep
  <1>3. ASSUME NEW t \in Threads, WorkerStep(t)
        PROVE  Service!ServiceNext \/ ServiceUnchanged
    <2>1. /\ vlan[t] \in Vlans /\ UNCHANGED <<vlanEnable, vlanName>>
          /\ \A v \in Vlans : v # vlan[t] => dev'[PsmName[v]] = dev[PsmName[v]]
      BY <1>3, WorkerStepInTagged
    <2>2. CASE Locks(t)
      BY <2>1, <2>2, LockHidden
    <2>3. CASE Unlocks(t)
      BY <2>1, <2>3, UnlockCarriesOut DEF Service!ServiceNext
    <2>4. ASSUME NEW m, Works(t, m)
          PROVE  ServiceUnchanged
      <3>1. mutex = t /\ UNCHANGED <<vlan, mutex, lastRun, prior>>
        BY <2>4 DEF Works
      <3>2. \A u \in Threads : pc'[u] = pc[u] \/ mutex = u
        BY <2>4 DEF Works, IInv, TypeOK, ThreadTypeOK, Procs
      <3> QED BY <2>1, <3>1, <3>2, HiddenStep
    <2> QED BY <1>3, <2>2, <2>3, <2>4, WorkerStepInTagged
  <1>4. ~Restart
    BY DEF Restart, IInv, TypeOK, VlanTypeOK
  <1>5. CASE UNCHANGED vars
    BY <1>5, HiddenStep DEF vars, ethVars, platformVars, threadVars, vlanVars, vlanFields,
                            history
  <1> QED BY <1>1, <1>2, <1>3, <1>4, <1>5 DEF Next, EthPart

LEMMA InitIsService ==
  ASSUME ServiceSystem, Init
  PROVE  Service!ServiceInit
  <1>1. vlanEnable \in [Vlans -> BOOLEAN]
    BY StartTypes DEF Init
  <1>2. PendingChanges = [v \in Vlans |-> [b \in BOOLEAN |-> 0]]
    <2>1. \A v \in Vlans, b \in BOOLEAN : WorkersFor(v, b) = {}
      BY VlanAssumption DEF Init, WorkersFor
    <2>2. Cardinality({}) = 0
      BY FS_EmptySet
    <2> QED BY <2>1, <2>2 DEF PendingChanges
  <1>3. InterfacePresent \in [Vlans -> BOOLEAN]
    BY VlanAssumption DEF Init, InterfacePresent, Exists
  <1> QED BY <1>1, <1>2, <1>3 DEF Service!ServiceInit

\* Where no worker fails to start and the daemon does not die, tagged entries implement
\* the service: every step of the bus thread, the workers, the refresh threads and the
\* links is a change asked for, a change carried out in one piece, or nothing the client
\* sees (vlan_dml.c 496-522, vlan_apis.c 348-430 and 611-733).
THEOREM TaggedImplementsService ==
  ASSUME ServiceSystem
  PROVE  Spec => ImplementsService
  <1>1. IInv /\ DeviceInv /\ [Next]_vars => (IInv /\ DeviceInv)'
    BY StepKeepsIInv, StepKeepsDeviceInv DEF ServiceSystem
  <1>2. Init => IInv /\ DeviceInv
    BY InitIInv, InitDeviceInv
  <1>3. IInv /\ DeviceInv /\ [Next]_vars => [Service!ServiceNext]_(Service!serviceVars)
    BY StepIsService
  <1>4. Init => Service!ServiceInit
    BY InitIsService
  <1> QED
    BY <1>1, <1>2, <1>3, <1>4, PTL DEF Spec, ImplementsService, Service!ServiceSafety

-----------------------------------------------------------------------------
(* The id that was asked for *)

\* The configuration of an entry is written only while it is disabled and idle, and no
\* worker fails to start, or to read a status before it deletes.
QuietSystem == TaggedSystem /\ QuietWrites /\ {"spawn", "socket"} \cap Faults = {}

Current(v) == dev[PsmName[v]] = Tagged(vlanId[v])

\* The inductive invariant: an entry that is enabled, and quiet after an enable, has the
\* device of its id; a worker has deleted the old device before it makes the new one, and
\* has then made it with the id the entry still has.
CurrentInv ==
  /\ \A v \in Vlans : NoWorker(v) /\ vlanEnable[v] /\ lastRun[v] = "Enable" => Current(v)
  /\ \A t \in Threads : mutex = t =>
       /\ pc[t] = "CreateTagged" => ~Present(vlan[t])
       /\ pc[t] \in {"PollVlan", "SendVlanUp", "EnableDone"} => Current(vlan[t])

LEMMA HolderVlan ==
  ASSUME IInv, NEW t \in Threads, mutex = t
  PROVE  vlan[t] \in Vlans
  BY DEF IInv, TypeOK, VlanTypeOK, MutualExclusion, InCritical

\* What a worker's own steps make of its device.
LEMMA WorkMakesCurrent ==
  ASSUME QuietSystem, IInv, DeviceInv, CurrentInv, NEW t \in Threads, WorkerStep(t),
         NEW m \in WorkTargets, Works(t, m)
  PROVE  /\ m = "CreateTagged" => ~Present(vlan[t])'
         /\ m \in {"PollVlan", "SendVlanUp", "EnableDone"} => Current(vlan[t])'
  <1> USE DEF QuietSystem
  <1>1. /\ mutex = t /\ pc[t] \in WorkLabels /\ pc'[t] = m /\ vlan' = vlan
        /\ t \in Procs
    BY DEF Works, IInv, TypeOK, ThreadTypeOK, Procs
  <1>2. /\ vlan[t] \in Vlans /\ UNCHANGED vlanId /\ vlanName = PsmName
        /\ PsmName[vlan[t]] \in Names /\ DevType
        /\ vlanId[vlan[t]] \in VlanIds
    BY WorkerStepInTagged, VlanAssumption
       DEF DeviceInv, IInv, TypeOK, PlatformTypeOK, VlanTypeOK, DevType
  <1>3. /\ Kind(vlanId[vlan[t]]) = "tagged" /\ CreatableId(vlanId[vlan[t]])
        /\ Tagged(vlanId[vlan[t]]) # NoDevice
    BY <1>2, TaggedIds DEF Tagged, NoDevice
  <1>4. CASE m = "CreateTagged"
    <2>1. DeleteTagged(t)
      <3>1. ~PollVlan(t)
        <4> SUFFICES ASSUME PollVlan(t) PROVE FALSE
          OBVIOUS
        <4>1. PICK st : PollTurn(t, "PollVlan", st, "SendVlanUp", "EnableDone")
          BY DEF PollVlan
        <4>2. PICK k \in {"PollVlan", "SendVlanUp", "EnableDone"} : pc' = [pc EXCEPT ![t] = k]
          BY <1>1, <4>1, PollTurnMoves DEF IInv, TypeOK
        <4> QED BY <1>1, <1>4, <4>2 DEF IInv, TypeOK, ThreadTypeOK
      <3>2. ~(TagLink(t) \/ UntagLink(t) \/ DisableLink(t))
        BY <1>1, <1>4 DEF TagLink, UntagLink, DisableLink, EnableEthLink, SetEthLink, Goto, IInv,
                          TypeOK, ThreadTypeOK
      <3>3. ~(EnableLock(t) \/ DisableLock(t))
        BY <1>1 DEF EnableLock, DisableLock, Lock, Goto, WorkLabels
      <3>4. ~(\/ CreateTagged(t) \/ EnableBridge(t) \/ SendVlanUp(t) \/ EnableDone(t)
              \/ DisableDone(t) \/ ClearTagging(t) \/ RemoveVlan(t))
        BY <1>1, <1>4
           DEF CreateTagged, EnableBridge, SendVlanUp, EnableDone, DisableDone, Finish,
               ClearTagging, RemoveVlan, Goto, IInv, TypeOK, ThreadTypeOK
      <3> QED BY <3>1, <3>2, <3>3, <3>4 DEF WorkerStep
    <2>2. DeleteDevice(PsmName[vlan[t]])
      BY <1>2, <2>1 DEF DeleteTagged, StatusReads
    <2>3. dev' = [dev EXCEPT ![PsmName[vlan[t]]] = NoDevice]
      BY <2>2 DEF DeleteDevice, Command, TaggedSystem
    <2> QED BY <1>1, <1>2, <1>4, <2>3 DEF Present, Exists, DevType
  <1>5. CASE m \in {"PollVlan", "SendVlanUp", "EnableDone"}
    <2>1. CASE pc[t] = "CreateTagged"
      <3>1. CreateTagged(t)
        BY <1>1, <2>1
           DEF WorkerStep, EnableLock, DisableLock, Lock, TagLink, UntagLink, EnableEthLink,
               SetEthLink, DeleteTagged, EnableBridge, PollVlan, SendVlanUp,
               EnableDone, DisableDone, Finish, DisableLink, ClearTagging, RemoveVlan, Goto
      <3>2. Hal = "json" => /\ MarkingLink[vlan[t]] \in Links
                            /\ ~MarkingMayFail(MarkingLink[vlan[t]])
        BY <1>2 DEF TaggedSystem, DeviceInv, NoneLost, MarkingMayFail
      <3>3. Hal = "json" => MarkingLink[vlan[t]] # NoLink BY <3>2, EthLinkAssumption
      <3>4. CreateDevice(PsmName[vlan[t]], Tagged(vlanId[vlan[t]]))
        BY <1>2, <3>1, <3>2, <3>3 DEF CreateTagged
      <3>5. ~Exists(PsmName[vlan[t]])
        BY <1>1, <2>1 DEF CurrentInv, Present
      <3>6. CreatableId(Tagged(vlanId[vlan[t]]).vid)
        BY <1>3 DEF Tagged
      <3>7. dev' = [dev EXCEPT ![PsmName[vlan[t]]] = Tagged(vlanId[vlan[t]])]
        BY <3>4, <3>5, <3>6 DEF CreateDevice, Command, TaggedSystem
      <3> QED BY <1>1, <1>2, <1>5, <3>7 DEF Current, DevType
    <2>2. CASE pc[t] \in {"PollVlan", "SendVlanUp"}
      <3>1. UNCHANGED dev
        BY <1>1, <2>2
           DEF WorkerStep, EnableLock, DisableLock, Lock, TagLink, UntagLink, EnableEthLink,
               SetEthLink, DeleteTagged, CreateTagged, EnableBridge, PollVlan, SendVlanUp,
               EnableDone, DisableDone, Finish, DisableLink, ClearTagging, RemoveVlan, Goto,
               platformVars
      <3> QED BY <1>1, <1>2, <1>5, <2>2, <3>1 DEF CurrentInv, Current
    <2> QED BY <1>5, <2>1, <2>2 DEF Works
  <1> QED BY <1>4, <1>5

LEMMA StepKeepsCurrentInv ==
  ASSUME QuietSystem
  PROVE  IInv /\ DeviceInv /\ CurrentInv /\ [Next]_vars => CurrentInv'
  <1> SUFFICES ASSUME IInv, DeviceInv, CurrentInv, [Next]_vars PROVE CurrentInv'
    OBVIOUS
  <1>q. TaggedSystem /\ QuietWrites /\ "spawn" \notin Faults
    BY DEF QuietSystem
  <1>h. \A t \in Threads : mutex = t => vlan[t] \in Vlans
    BY HolderVlan
  \* A step outside the workers, which writes to quiet entries and starts workers at most.
  <1>0. ASSUME \A v \in Vlans : dev'[PsmName[v]] = dev[PsmName[v]],
               UNCHANGED <<mutex, lastRun>>,
               \A t \in Threads : mutex = t =>
                 /\ vlan'[t] = vlan[t]
                 /\ pc'[t] = pc[t] \/ pc'[t] \in LinkTargets,
               \A v \in Vlans : \/ vlanId'[v] = vlanId[v]
                                \/ ~vlanEnable'[v] /\ NoWorker(v),
               \A v \in Vlans : NoWorker(v)' /\ vlanEnable'[v] =>
                 NoWorker(v) /\ vlanEnable[v]
        PROVE  CurrentInv'
    <2>1. ASSUME NEW v \in Vlans, NoWorker(v)', vlanEnable'[v], lastRun'[v] = "Enable"
          PROVE  Current(v)'
      <3>1. NoWorker(v) /\ vlanEnable[v] /\ lastRun[v] = "Enable" /\ vlanId'[v] = vlanId[v]
        BY <1>0, <2>1
      <3>2. Current(v)
        BY <3>1 DEF CurrentInv
      <3> QED BY <1>0, <3>1, <3>2 DEF Current
    <2>2. ASSUME NEW t \in Threads, mutex' = t
          PROVE  /\ pc'[t] = "CreateTagged" => ~Present(vlan[t])'
                 /\ pc'[t] \in {"PollVlan", "SendVlanUp", "EnableDone"} => Current(vlan[t])'
      <3>1. mutex = t /\ vlan'[t] = vlan[t] /\ vlan[t] \in Vlans
        BY <1>0, <1>h, <2>2
      <3>2. vlanId'[vlan[t]] = vlanId[vlan[t]]
        BY <1>0, <3>1 DEF NoWorker
      <3>3. pc'[t] \in {"CreateTagged", "PollVlan", "SendVlanUp", "EnableDone"} =>
              pc'[t] = pc[t]
        BY <1>0, <3>1 DEF LinkTargets, CallLabels, EthLabels, RefreshLabels
      <3>4. dev'[PsmName[vlan[t]]] = dev[PsmName[vlan[t]]]
        BY <1>0, <3>1
      <3> QED BY <3>1, <3>2, <3>3, <3>4 DEF CurrentInv, Current, Present, Exists
    <2> QED BY <2>1, <2>2 DEF CurrentInv
  <1>1. CASE VlanRequest \/ (EthRequest /\ UNCHANGED vlanVars)
    <2>1. UNCHANGED <<dev, mutex, lastRun>>
      BY <1>q, <1>1, RequestInTagged
    <2>2. CASE Quiet
      <3>1. UNCHANGED <<vlan, vlanEnable>>
        BY <2>2 DEF Quiet
      <3>2. \A t \in Threads : mutex = t => pc'[t] = pc[t]
        BY <2>2 DEF Quiet
      <3>3. \A v \in Vlans : vlanId'[v] = vlanId[v] \/ (~vlanEnable'[v] /\ NoWorker(v))
        <4>1. CASE UNCHANGED vlanId BY <4>1
        <4>2. ASSUME NEW w \in Vlans, NEW id \in VlanIds, MayWrite(w),
                     vlanId' = [vlanId EXCEPT ![w] = id]
              PROVE  \A v \in Vlans : vlanId'[v] = vlanId[v] \/ (~vlanEnable'[v] /\ NoWorker(v))
          BY <1>q, <3>1, <4>2 DEF MayWrite, IInv, TypeOK, VlanTypeOK
        <4> QED BY <2>2, <4>1, <4>2 DEF Quiet
      <3>4. \A v \in Vlans : NoWorker(v)' <=> NoWorker(v)
        BY <3>1 DEF NoWorker
      <3> QED BY <1>0, <2>1, <3>1, <3>2, <3>3, <3>4
    <2>3. ASSUME NEW t \in Threads, NEW w \in Vlans, NEW b \in BOOLEAN, Starts(t, w, b)
          PROVE  CurrentInv'
      <3>1. /\ mutex # t /\ vlan[t] = NoVlan /\ vlan'[t] = w /\ UNCHANGED vlanId
            /\ \A u \in Threads : u # t => vlan'[u] = vlan[u] /\ pc'[u] = pc[u]
            /\ \A v \in Vlans : v # w => vlanEnable'[v] = vlanEnable[v]
        BY <2>3 DEF Starts, IInv, LabelsOK, MutualExclusion, InCritical, TypeOK, ThreadTypeOK,
                    VlanTypeOK, Procs
      <3>2. \A v \in Vlans : NoWorker(v)' => NoWorker(v) /\ v # w
        BY <3>1, VlanAssumption DEF NoWorker
      <3> QED BY <1>0, <2>1, <3>1, <3>2
    <2> QED BY <1>q, <1>1, <2>2, <2>3, RequestInTagged
  <1>2. ASSUME NEW p \in Procs, EthStep(p), UNCHANGED vlanVars
        PROVE  CurrentInv'
    <2>1. UNCHANGED <<vlanEnable, vlanId, vlan, mutex, lastRun>>
      BY <1>2 DEF vlanVars, vlanFields, history
    <2>2. \A v \in Vlans : NoWorker(v)' <=> NoWorker(v)
      BY <2>1 DEF NoWorker
    <2> QED BY <1>0, <1>2, <1>q, <2>1, <2>2, LinkStepInTagged
  <1>3. ASSUME NEW t \in Threads, WorkerStep(t)
        PROVE  CurrentInv'
    <2>1. /\ vlan[t] \in Vlans /\ UNCHANGED <<vlanEnable, vlanId>>
          /\ \A v \in Vlans : v # vlan[t] => dev'[PsmName[v]] = dev[PsmName[v]]
      BY <1>3, <1>q, WorkerStepInTagged
    <2>2. CASE Locks(t)
      <3>1. /\ UNCHANGED <<dev, vlan>> /\ mutex' = t /\ pc'[t] \in {"TagLink", "DisableLink"}
            /\ \A v \in Vlans : v # vlan[t] => lastRun'[v] = lastRun[v]
        BY <2>2 DEF Locks, IInv, TypeOK, ThreadTypeOK, VlanTypeOK, Procs
      <3>2. \A v \in Vlans : NoWorker(v)' => NoWorker(v) /\ v # vlan[t]
        BY <3>1 DEF NoWorker
      <3> QED BY <2>1, <3>1, <3>2 DEF CurrentInv, Current
    <2>3. CASE Unlocks(t)
      <3>1. /\ UNCHANGED <<dev, lastRun>> /\ mutex = t /\ mutex' = NoThread
            /\ \A u \in Threads : u # t => vlan'[u] = vlan[u]
            /\ \/ pc[t] = "EnableDone"
               \/ lastRun[vlan[t]] = "Disable"
        BY <2>3 DEF Unlocks, IInv, TypeOK, VlanTypeOK
      <3>2. \A v \in Vlans : NoWorker(v)' => NoWorker(v) \/ v = vlan[t]
        BY <3>1 DEF NoWorker
      <3>3. ASSUME NEW v \in Vlans, NoWorker(v)', vlanEnable'[v], lastRun'[v] = "Enable"
            PROVE  Current(v)
        BY <2>1, <3>1, <3>2, <3>3 DEF CurrentInv
      <3>4. \A v \in Vlans : Current(v)' <=> Current(v)
        BY <2>1, <3>1 DEF Current
      <3> QED BY <3>1, <3>3, <3>4, VlanAssumption DEF CurrentInv
    <2>4. ASSUME NEW m \in WorkTargets, Works(t, m)
          PROVE  CurrentInv'
      <3>1. mutex = t /\ pc'[t] = m /\ UNCHANGED <<vlan, mutex, lastRun>>
        BY <2>4 DEF Works, IInv, TypeOK, ThreadTypeOK, Procs
      <3>2. /\ m = "CreateTagged" => ~Present(vlan[t])'
            /\ m \in {"PollVlan", "SendVlanUp", "EnableDone"} => Current(vlan[t])'
        BY <1>3, <2>4, WorkMakesCurrent
      <3>3. \A v \in Vlans : NoWorker(v)' => NoWorker(v) /\ v # vlan[t]
        BY <3>1 DEF NoWorker
      <3> QED BY <2>1, <3>1, <3>2, <3>3 DEF CurrentInv, Current
    <2> QED BY <1>3, <1>q, <2>2, <2>3, <2>4, WorkerStepInTagged
  <1>4. CASE Restart
    BY <1>4, VlanAssumption DEF Restart, CurrentInv
  <1>5. CASE UNCHANGED vars
    BY <1>5 DEF vars, ethVars, platformVars, threadVars, vlanVars, vlanFields, history,
                CurrentInv, NoWorker, Current, Present, Exists
  <1> QED BY <1>1, <1>2, <1>3, <1>4, <1>5 DEF Next, EthPart

\* An enabled tagged entry with no worker left has a device of the id it has now, however
\* often it was toggled and its id changed in between, restarts included; with writes only
\* while the entry is disabled and idle (vlan_apis.c 628-686, vlan_dml.c 568-572).
THEOREM CurrentIdIsInstalled ==
  ASSUME QuietSystem
  PROVE  Spec => []CurrentIdInstalled
  <1>1. DeviceInv /\ CurrentInv => CurrentIdInstalled
    BY DEF DeviceInv, CurrentInv, CurrentIdInstalled, Current
  <1>2. IInv /\ DeviceInv /\ CurrentInv /\ [Next]_vars => (IInv /\ DeviceInv /\ CurrentInv)'
    BY StepKeepsIInv, StepKeepsDeviceInv, StepKeepsCurrentInv DEF QuietSystem
  <1>3. Init => IInv /\ DeviceInv /\ CurrentInv
    <2>1. Init => CurrentInv
      BY VlanAssumption DEF Init, CurrentInv
    <2> QED BY <2>1, InitIInv, InitDeviceInv
  <1> QED BY <1>1, <1>2, <1>3, PTL DEF Spec

-----------------------------------------------------------------------------
(* What WanManager is told *)

\* Messages to WanManager arrive, and an entry has no path in common with another entry or
\* with a link, but for the empty one.
ReportSystem ==
  /\ TaggedSystem /\ "bus" \notin Faults
  /\ \A v, w \in Vlans : VlanPath[v] = VlanPath[w] /\ VlanPath[v] # NoPath => v = w
  /\ \A v \in Vlans, l \in Links : VlanPath[v] = LinkPath[l] => VlanPath[v] = NoPath

\* The inductive invariant: but for the worker that has the mutex, a disable was reported.
Told ==
  \A v \in Vlans :
    (mutex = NoThread \/ vlan[mutex] # v) /\ lastRun[v] = "Disable" /\ VlanPath[v] # NoPath
      => wan[VlanPath[v]] = "Down"

\* A report changes the path it is for.
LEMMA NotifyOther ==
  ASSUME NEW p, NEW st, NEW q \in Paths, q # p, WanType, Notify(p, st)
  PROVE  wan'[q] = wan[q]
  BY DEF Notify, WanType

LEMMA LinkStepReports ==
  ASSUME IInv, LinkSet, NEW p \in Procs, EthStep(p)
  PROVE  \/ UNCHANGED wan
         \/ link[p] \in Links /\ \E st \in {"Up", "Down"} : Notify(LinkPath[link[p]], st)
  <1> USE DEF platformVars, LinkSet, EthLabels, Goto, Return
  <1>1. CASE CheckOn(p) \/ On(p) \/ AddMarking(p) \/ CheckUntagged(p) \/ DeleteOld(p)
             \/ GetMarkingFails(p) \/ CreateUntagged(p) \/ PollUntagged(p) \/ LinkUp(p)
    BY <1>1 DEF CheckOn, On, AddMarking, CheckUntagged, DeleteOld, GetMarkingFails,
                CreateUntagged, PollUntagged, LinkUp
  <1>2. CASE CheckOff(p) \/ Off(p) \/ DeleteMarking(p) \/ RemoveUntagged(p)
             \/ RefreshMarking(p) \/ PollRefresh(p)
    BY <1>2 DEF CheckOff, Off, DeleteMarking, RemoveUntagged, RefreshMarking, PollRefresh
  <1>3. CASE SendLinkUp(p) \/ SendRefreshUp(p)
    BY <1>3 DEF SendLinkUp, SendRefreshUp
  <1>4. CASE LinkDown(p)
    BY <1>4 DEF LinkDown
  <1> QED BY <1>1, <1>2, <1>3, <1>4 DEF EthStep

LEMMA WorkerStepReports ==
  ASSUME NEW t \in Threads, WorkerStep(t)
  PROVE  UNCHANGED wan \/ \E st \in {"Up", "Down"} : Notify(VlanPath[vlan[t]], st)
  <1> USE DEF platformVars
  <1>1. CASE EnableLock(t) \/ TagLink(t) \/ UntagLink(t) \/ DeleteTagged(t) \/ CreateTagged(t)
             \/ EnableBridge(t) \/ PollVlan(t)
    BY <1>1 DEF EnableLock, TagLink, UntagLink, EnableEthLink, DeleteTagged, CreateTagged,
                EnableBridge, PollVlan
  <1>2. CASE SendVlanUp(t) \/ DisableDone(t)
    BY <1>2 DEF SendVlanUp, DisableDone
  <1>3. CASE EnableDone(t) \/ DisableLock(t) \/ DisableLink(t) \/ ClearTagging(t)
             \/ RemoveVlan(t)
    BY <1>3 DEF EnableDone, DisableLock, DisableLink, ClearTagging, RemoveVlan
  <1> QED BY <1>1, <1>2, <1>3 DEF WorkerStep

LEMMA StepKeepsTold ==
  ASSUME ReportSystem
  PROVE  IInv /\ DeviceInv /\ Told /\ [Next]_vars => Told'
  <1> SUFFICES ASSUME IInv, DeviceInv, Told, [Next]_vars PROVE Told'
    OBVIOUS
  <1>q. TaggedSystem
    BY DEF ReportSystem
  <1>w. WanType /\ \A v \in Vlans : VlanPath[v] # NoPath => VlanPath[v] \in Paths
    BY VlanAssumption DEF IInv, TypeOK, PlatformTypeOK, WanType
  <1>m. mutex \in Threads \cup {NoThread}
    BY DEF IInv, TypeOK, VlanTypeOK
  <1>1. CASE VlanRequest \/ (EthRequest /\ UNCHANGED vlanVars)
    <2>1. UNCHANGED <<wan, mutex, lastRun>>
      BY <1>q, <1>1, RequestInTagged
    <2>2. \A t \in Threads : mutex = t => vlan'[t] = vlan[t]
      <3>1. CASE UNCHANGED vlan BY <3>1
      <3>2. ASSUME NEW t \in Threads, NEW w \in Vlans, NEW b \in BOOLEAN, Starts(t, w, b)
            PROVE  \A u \in Threads : mutex = u => vlan'[u] = vlan[u]
        BY <3>2 DEF Starts, IInv, LabelsOK, MutualExclusion, InCritical, TypeOK, VlanTypeOK
      <3> QED BY <1>q, <1>1, <3>1, <3>2, RequestInTagged DEF Quiet
    <2> QED BY <1>m, <2>1, <2>2 DEF Told
  <1>2. ASSUME NEW p \in Procs, EthStep(p), UNCHANGED vlanVars
        PROVE  Told'
    <2>1. UNCHANGED <<vlan, mutex, lastRun>>
      BY <1>2 DEF vlanVars, vlanFields, history
    <2>2. ASSUME NEW v \in Vlans, VlanPath[v] # NoPath
          PROVE  wan'[VlanPath[v]] = wan[VlanPath[v]]
      <3>1. CASE UNCHANGED wan BY <3>1
      <3>2. ASSUME NEW st, link[p] \in Links, Notify(LinkPath[link[p]], st)
            PROVE  wan'[VlanPath[v]] = wan[VlanPath[v]]
        BY <1>w, <2>2, <3>2, NotifyOther DEF ReportSystem
      <3> QED BY <1>2, <3>1, <3>2, LinkStepReports DEF DeviceInv
    <2> QED BY <2>1, <2>2 DEF Told
  <1>3. ASSUME NEW t \in Threads, WorkerStep(t)
        PROVE  Told'
    <2>1. vlan[t] \in Vlans
      BY <1>3, <1>q, WorkerStepInTagged
    <2>2. ASSUME NEW v \in Vlans, v # vlan[t], VlanPath[v] # NoPath
          PROVE  wan'[VlanPath[v]] = wan[VlanPath[v]]
      <3>1. CASE UNCHANGED wan BY <3>1
      <3>2. ASSUME NEW st, Notify(VlanPath[vlan[t]], st)
            PROVE  wan'[VlanPath[v]] = wan[VlanPath[v]]
        BY <1>w, <2>1, <2>2, <3>2, NotifyOther DEF ReportSystem
      <3> QED BY <1>3, <3>1, <3>2, WorkerStepReports
    <2>3. CASE Locks(t)
      <3>1. /\ vlan' = vlan /\ mutex' = t /\ mutex = NoThread
            /\ \A v \in Vlans : v # vlan[t] => lastRun'[v] = lastRun[v]
        BY <2>3 DEF Locks, IInv, TypeOK, VlanTypeOK
      <3> QED BY <2>2, <3>1, VlanAssumption DEF Told
    <2>4. CASE Unlocks(t)
      <3>1. mutex = t /\ mutex' = NoThread /\ lastRun' = lastRun
        BY <2>4 DEF Unlocks
      <3>2. lastRun[vlan[t]] = "Disable" /\ VlanPath[vlan[t]] # NoPath =>
              wan'[VlanPath[vlan[t]]] = "Down"
        <4> SUFFICES ASSUME lastRun[vlan[t]] = "Disable", VlanPath[vlan[t]] # NoPath
                     PROVE  wan'[VlanPath[vlan[t]]] = "Down"
          OBVIOUS
        <4>1. Notify(VlanPath[vlan[t]], "Down")
          BY <2>4 DEF Unlocks
        <4> QED BY <1>w, <2>1, <4>1 DEF Notify, WanType, ReportSystem
      <3> QED BY <2>2, <3>1, <3>2 DEF Told
    <2>5. ASSUME NEW m, Works(t, m)
          PROVE  Told'
      <3>1. mutex = t /\ UNCHANGED <<vlan, mutex, lastRun>>
        BY <2>5 DEF Works
      <3> QED BY <2>2, <3>1, VlanAssumption DEF Told
    <2> QED BY <1>3, <1>q, <2>3, <2>4, <2>5, WorkerStepInTagged
  <1>4. CASE Restart
    BY <1>4 DEF Restart, Told
  <1>5. CASE UNCHANGED vars
    BY <1>5 DEF vars, ethVars, platformVars, vlanVars, history, Told
  <1> QED BY <1>1, <1>2, <1>3, <1>4, <1>5 DEF Next, EthPart

\* What WanManager was last told of a tagged entry agrees with its device once its workers
\* are gone: Down after a disable, Up only for a device that is there, whatever the order
\* its workers, those of other entries and the refresh threads reported in (vlan_apis.c
\* 424, 673).
THEOREM ReportsAgree ==
  ASSUME ReportSystem
  PROVE  Spec => []ReportAgrees
  <1>1. IInv /\ DeviceInv /\ Told => ReportAgrees
    <2> SUFFICES ASSUME IInv, DeviceInv, Told, NEW v \in Vlans, NoWorker(v),
                        lastRun[v] # "none", VlanPath[v] # NoPath
                 PROVE  /\ lastRun[v] = "Disable" => wan[VlanPath[v]] = "Down"
                        /\ wan[VlanPath[v]] = "Up" => HasDevice(v)
      BY DEF ReportAgrees
    <2>1. mutex = NoThread \/ vlan[mutex] # v
      BY DEF IInv, TypeOK, VlanTypeOK, NoWorker
    <2>2. vlanId[v] \in VlanIds /\ lastRun[v] \in {"Enable", "Disable"}
      BY DEF IInv, TypeOK, VlanTypeOK
    <2>3. HasDevice(v) <=> Present(v)
      BY <2>2, TaggedIds DEF HasDevice, Present, DeviceInv, ReportSystem
    <2> QED BY <2>1, <2>2, <2>3 DEF DeviceInv, Settled, Told
  <1>2. IInv /\ DeviceInv /\ Told /\ [Next]_vars => (IInv /\ DeviceInv /\ Told)'
    BY StepKeepsIInv, StepKeepsDeviceInv, StepKeepsTold DEF ReportSystem
  <1>3. Init => IInv /\ DeviceInv /\ Told
    <2>1. Init => Told
      BY DEF Init, Told
    <2> QED BY <2>1, InitIInv, InitDeviceInv
  <1> QED BY <1>1, <1>2, <1>3, PTL DEF Spec

-----------------------------------------------------------------------------
(* Nothing is left behind *)

\* Only workers set a link's Enable, and so only with priority tagging.
OrphanSystem == TaggedSystem /\ {"linkEnable", "priorityTagging"} \cap Requests = {}

TagFirst == {"CheckOn", "On", "AddMarking", "CheckUntagged"}
Makes == {"DeleteOld", "CreateUntagged", "PollUntagged", "SendLinkUp", "LinkUp"}

\* The inductive invariant: a link is enabled by the holder of the mutex, with priority
\* tagging, so that it makes no interface; every device is an entry's; and an entry no
\* worker has run for has none.
OrphanInv ==
  /\ \A p \in Procs :
       /\ pc[p] \notin Makes
       /\ pc[p] \in TagFirst =>
            p \in Threads /\ mutex = p /\ link[p] \in Links /\ ethPriorityTagging[link[p]]
  /\ \A n \in Names : Exists(n) => \E v \in Vlans : n = PsmName[v]
  /\ crashes = 0 => \A v \in Vlans : lastRun[v] = "none" => ~Present(v)

\* A thread in a link makes no device.
LEMMA LinkMakesNothing ==
  ASSUME OrphanSystem, IInv, DeviceInv, OrphanInv, NEW p \in Procs, EthStep(p)
  PROVE  /\ \A n \in Names : Exists(n)' => Exists(n)
         /\ UNCHANGED <<ethPriorityTagging, link>>
         /\ \E m : /\ pc' = [pc EXCEPT ![p] = m]
                   /\ m \notin Makes
                   /\ m \in TagFirst => pc[p] \in TagFirst
  <1>1. /\ ret \in [Procs -> {"idle", "DeleteTagged", "EnableDone", "ClearTagging"}]
        /\ pc[p] \notin Makes /\ DevType
        /\ pc[p] \in TagFirst => ethPriorityTagging[link[p]]
    BY DEF IInv, TypeOK, ThreadTypeOK, OrphanInv, PlatformTypeOK, DevType
  <1>2. ret[p] \notin Makes \cup TagFirst
    BY <1>1 DEF Makes, TagFirst
  <1> USE DEF Makes, TagFirst, Goto, Return, platformVars, ethFields, Exists
  <1>a. CASE CheckOn(p) \/ On(p) \/ AddMarking(p)
    BY <1>1, <1>2, <1>a DEF CheckOn, On, AddMarking
  <1>b. CASE CheckUntagged(p)
    BY <1>1, <1>2, <1>b DEF CheckUntagged
  <1>c. CASE DeleteOld(p) \/ GetMarkingFails(p) \/ CreateUntagged(p) \/ PollUntagged(p)
             \/ SendLinkUp(p) \/ LinkUp(p)
    BY <1>1, <1>c DEF DeleteOld, GetMarkingFails, MarkingPoint, CreateUntagged, PollUntagged,
                      SendLinkUp, LinkUp
  <1>d. CASE CheckOff(p) \/ Off(p) \/ DeleteMarking(p) \/ LinkDown(p)
    BY <1>1, <1>2, <1>d DEF CheckOff, Off, DeleteMarking, LinkDown
  <1>e. CASE RemoveUntagged(p)
    <2>1. UNCHANGED dev \/ DeleteDevice(LinkName[link[p]])
      BY <1>e DEF RemoveUntagged
    <2>2. \A n \in Names : Exists(n)' => Exists(n)
      BY <1>1, <2>1 DEF DeleteDevice, Command, DevType
    <2> QED BY <1>1, <1>2, <1>e, <2>2 DEF RemoveUntagged
  <1>f. CASE RefreshMarking(p) \/ SendRefreshUp(p)
    BY <1>1, <1>f DEF RefreshMarking, SendRefreshUp
  <1>g. CASE PollRefresh(p)
    <2>1. PICK st \in LinkStatusReads(link[p]) :
            IF st = "Error"
            THEN Goto(p, "PollRefresh", "idle") /\ polls' = [polls EXCEPT ![p] = 0]
            ELSE PollTurn(p, "PollRefresh", st, "SendRefreshUp", "idle")
      BY <1>g DEF PollRefresh
    <2>2. \E m \in {"PollRefresh", "SendRefreshUp", "idle"} : pc' = [pc EXCEPT ![p] = m]
      <3>1. CASE st = "Error" BY <2>1, <3>1
      <3>2. CASE st # "Error"
        BY <2>1, <3>2, PollTurnMoves DEF IInv, TypeOK
      <3> QED BY <3>1, <3>2
    <2> QED BY <1>g, <2>2 DEF PollRefresh
  <1> QED BY <1>a, <1>b, <1>c, <1>d, <1>e, <1>f, <1>g DEF EthStep

LEMMA StepKeepsOrphanInv ==
  ASSUME OrphanSystem
  PROVE  IInv /\ DeviceInv /\ OrphanInv /\ [Next]_vars => OrphanInv'
  <1> SUFFICES ASSUME IInv, DeviceInv, OrphanInv, [Next]_vars PROVE OrphanInv'
    OBVIOUS
  <1>q. TaggedSystem
    BY DEF OrphanSystem
  <1>p. /\ pc \in [Procs -> {"idle"} \cup EthLabels \cup LockLabels \cup WorkLabels]
        /\ link \in [Procs -> Links \cup {NoLink}]
        /\ \A t \in Threads : t \in Procs
    BY DEF IInv, TypeOK, ThreadTypeOK, Procs
  <1>1. CASE VlanRequest \/ (EthRequest /\ UNCHANGED vlanVars)
    <2>1. UNCHANGED <<dev, mutex, lastRun, crashes>>
      BY <1>q, <1>1, RequestInTagged
    <2>2. /\ UNCHANGED ethPriorityTagging
          /\ \A p \in Procs :
               \/ pc'[p] = pc[p] /\ link'[p] = link[p]
               \/ pc'[p] \in {"RefreshMarking", "EnableLock", "DisableLock"}
      <3> USE DEF Serve, ethFields, threadVars, Goto, OrphanSystem
      <3>1. ASSUME NEW l \in Links, NEW b \in BOOLEAN
            PROVE  ~SetLinkEnable(l, b) /\ ~SetPriorityTagging(l, b)
        BY DEF SetLinkEnable, SetPriorityTagging
      <3>2. CASE \E l \in Links, t \in Threads : SetRefresh(l, t)
        BY <1>p, <3>2 DEF SetRefresh
      <3>3. CASE \E l \in Links : GetLinkStatus(l)
        BY <3>3 DEF GetLinkStatus
      <3>4. CASE \E v \in Vlans, b \in BOOLEAN : SetVlanEnable(v, b)
        BY <1>p, <3>4 DEF SetVlanEnable
      <3>5. CASE \E v \in Vlans : \/ \E id \in VlanIds : SetVlanId(v, id)
                                  \/ \E n \in Names : SetVlanName(v, n)
                                  \/ \E l \in Links \cup {NoLink} : SetLowerLayers(v, l)
                                  \/ GetVlanStatus(v) \/ Rollback(v)
        BY <3>5 DEF SetVlanId, SetVlanName, SetLowerLayers, GetVlanStatus, Rollback
      <3> QED BY <1>1, <3>1, <3>2, <3>3, <3>4, <3>5 DEF EthRequest, VlanRequest
    <2> QED BY <2>1, <2>2 DEF OrphanInv, TagFirst, Makes, Present, Exists
  <1>2. ASSUME NEW p \in Procs, EthStep(p), UNCHANGED vlanVars
        PROVE  OrphanInv'
    <2>1. UNCHANGED <<mutex, lastRun, crashes>>
      BY <1>2 DEF vlanVars, history
    <2>2. /\ \A n \in Names : Exists(n)' => Exists(n)
          /\ UNCHANGED <<ethPriorityTagging, link>>
          /\ \E m : /\ pc' = [pc EXCEPT ![p] = m]
                    /\ m \notin Makes
                    /\ m \in TagFirst => pc[p] \in TagFirst
      BY <1>2, LinkMakesNothing
    <2>3. \A v \in Vlans : Present(v)' => Present(v)
      BY <2>2, VlanAssumption DEF Present
    <2>4. \A q \in Procs :
            /\ pc'[q] \notin Makes
            /\ pc'[q] \in TagFirst => pc[q] \in TagFirst
      BY <1>p, <2>2 DEF OrphanInv
    <2> QED BY <2>1, <2>2, <2>3, <2>4 DEF OrphanInv
  <1>3. ASSUME NEW t \in Threads, WorkerStep(t)
        PROVE  OrphanInv'
    <2>1. /\ vlan[t] \in Vlans /\ UNCHANGED crashes
          /\ \A n \in Names : n # PsmName[vlan[t]] => dev'[n] = dev[n]
          /\ \A v \in Vlans : v # vlan[t] => dev'[PsmName[v]] = dev[PsmName[v]]
      BY <1>3, <1>q, WorkerStepInTagged
    <2>2. \A n \in Names : Exists(n)' => \E v \in Vlans : n = PsmName[v]
      BY <2>1 DEF OrphanInv, Exists
    <2>3. \A p \in Procs : pc[p] \in TagFirst => p = t /\ mutex = t
      <3>1. mutex = NoThread \/ mutex = t
        BY <1>3, <1>q, WorkerStepInTagged DEF Locks, Unlocks, Works
      <3> QED BY <3>1, VlanAssumption DEF OrphanInv
    <2>4. /\ lastRun'[vlan[t]] # "none"
          /\ \A v \in Vlans : v # vlan[t] => lastRun'[v] = lastRun[v]
      <3>1. CASE Locks(t)
        BY <2>1, <3>1 DEF Locks, IInv, TypeOK, VlanTypeOK
      <3>2. ASSUME mutex = t, lastRun' = lastRun
            PROVE  lastRun'[vlan[t]] # "none"
        BY <3>2 DEF DeviceInv, PhaseOK
      <3> QED BY <1>3, <1>q, <3>1, <3>2, WorkerStepInTagged DEF Unlocks, Works
    <2>5. crashes' = 0 => \A v \in Vlans : lastRun'[v] = "none" => ~Present(v)'
      BY <2>1, <2>4 DEF OrphanInv, Present, Exists
    <2>6. \A p \in Procs : p # t => pc'[p] = pc[p]
      BY <1>3, <1>q, <1>p, WorkerStepInTagged DEF Locks, Unlocks, Works
    <2>7. /\ pc'[t] \notin Makes
          /\ pc'[t] \in TagFirst =>
               mutex' = t /\ link'[t] \in Links /\ ethPriorityTagging'[link'[t]]
      <3>1. CASE Locks(t)
        BY <1>p, <3>1 DEF Locks, TagFirst, Makes
      <3>2. CASE Unlocks(t)
        BY <1>p, <3>2 DEF Unlocks, TagFirst, Makes
      <3>3. ASSUME NEW m \in WorkTargets, Works(t, m)
            PROVE  /\ pc'[t] \notin Makes
                   /\ pc'[t] \in TagFirst =>
                        mutex' = t /\ link'[t] \in Links /\ ethPriorityTagging'[link'[t]]
        BY <1>p, <3>3 DEF Works, WorkTargets, TagFirst, Makes
      <3> QED BY <1>3, <1>q, <3>1, <3>2, <3>3, WorkerStepInTagged
    <2>8. \A p \in Procs :
            /\ pc'[p] \notin Makes
            /\ pc'[p] \in TagFirst =>
                 /\ p \in Threads /\ mutex' = p
                 /\ link'[p] \in Links /\ ethPriorityTagging'[link'[p]]
      BY <2>3, <2>6, <2>7 DEF OrphanInv
    <2> QED BY <2>2, <2>5, <2>8 DEF OrphanInv
  <1>4. CASE Restart
    <2>1. crashes' # 0 /\ UNCHANGED dev /\ \A p \in Procs : pc'[p] = "idle"
      BY <1>4 DEF Restart, platformVars, IInv, TypeOK, VlanTypeOK
    <2> QED BY <2>1 DEF OrphanInv, Exists, Makes, TagFirst
  <1>5. CASE UNCHANGED vars
    BY <1>5 DEF vars, ethVars, platformVars, ethFields, threadVars, vlanVars, history,
                OrphanInv, Present, Exists
  <1> QED BY <1>1, <1>2, <1>3, <1>4, <1>5 DEF Next, EthPart

\* What holds over restarts too: when no thread runs, every device bears the name of an
\* entry, and that entry's last worker since the daemon started, if there was one, enabled
\* it: what a daemon that died left behind goes with the first disable of its entry.
OwnedOverRestarts ==
  (\A p \in Procs : pc[p] = "idle") =>
    \A n \in Names : Exists(n) =>
      \E v \in Vlans : n = vlanName[v] /\ lastRun[v] # "Disable"

\* Until the daemon first dies, when no thread runs, every device is that of an entry
\* whose last worker enabled it (NoOrphan); and after any number of restarts it is that of
\* an entry that no worker of this daemon has disabled last; for any overlap of toggles,
\* writes and refresh threads, where only workers enable links (vlan_apis.c 348-430,
\* 611-733, ethernet_apis.c 293-342).
THEOREM NothingOrphaned ==
  ASSUME OrphanSystem
  PROVE  Spec => [](NoOrphan /\ OwnedOverRestarts)
  <1>1. ASSUME IInv, DeviceInv, OrphanInv, \A p \in Procs : pc[p] = "idle",
               NEW n \in Names, Exists(n)
        PROVE  \E v \in Vlans : /\ n = vlanName[v] /\ Kind(vlanId[v]) # "untagged"
                                /\ lastRun[v] \in {"none", "Enable"}
                                /\ crashes = 0 => lastRun[v] = "Enable"
    <2>1. PICK v \in Vlans : n = PsmName[v]
      BY <1>1 DEF OrphanInv
    <2>2. mutex = NoThread
      BY <1>1 DEF IInv, TypeOK, VlanTypeOK, LabelsOK, MutualExclusion, InCritical, Procs
    <2>3. lastRun[v] \in {"none", "Enable", "Disable"} /\ vlanId[v] \in VlanIds
      BY <1>1 DEF IInv, TypeOK, VlanTypeOK
    <2>4. lastRun[v] # "Disable" /\ (crashes = 0 => lastRun[v] # "none")
      BY <1>1, <2>1, <2>2 DEF OrphanInv, DeviceInv, Settled, Present
    <2>5. n = vlanName[v] /\ Kind(vlanId[v]) # "untagged"
      BY <1>1, <2>1, <2>3, TaggedIds DEF DeviceInv, OrphanSystem
    <2> QED BY <2>3, <2>4, <2>5
  <1>2. IInv /\ DeviceInv /\ OrphanInv => NoOrphan /\ OwnedOverRestarts
    BY <1>1 DEF NoOrphan, OwnedOverRestarts
  <1>3. IInv /\ DeviceInv /\ OrphanInv /\ [Next]_vars => (IInv /\ DeviceInv /\ OrphanInv)'
    BY StepKeepsIInv, StepKeepsDeviceInv, StepKeepsOrphanInv DEF OrphanSystem
  <1>4. Init => IInv /\ DeviceInv /\ OrphanInv
    <2>1. Init => OrphanInv
      BY VlanAssumption
         DEF Init, EthInit, PlatformInit, OrphanInv, Exists, Present, Makes, TagFirst
    <2> QED BY <2>1, InitIInv, InitDeviceInv
  <1> QED BY <1>2, <1>3, <1>4, PTL DEF Spec
=============================================================================
