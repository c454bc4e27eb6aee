--------------------------- MODULE VlanTermination ---------------------------
(***************************************************************************)
(* The table Device.X_RDK_Ethernet.VLANTermination.{i} of the VLAN manager *)
(* (vlan_dml.c, vlan_apis.c) together with the links below it (EthLink).   *)
(*                                                                         *)
(* Setting Enable on the bus starts a detached thread that runs            *)
(* Vlan_Enable or Vlan_Disable, here called a worker.  Workers serialise   *)
(* on vlan_access_mutex, which says nothing of the order they get it in.   *)
(* The other parameters are written by the bus thread straight into the    *)
(* entry that a worker is reading, without the mutex.                      *)
(***************************************************************************)
EXTENDS EthLink

CONSTANTS
  Vlans,        \* entries of the VLANTermination table
  NoVlan,       \* no entry
  NoThread,     \* nobody holds the mutex
  PsmEnable,    \* the entries whose Enable is stored as TRUE in PSM
  PsmId, PsmName, PsmLower,  \* VLANId, Name, LowerLayers as stored in PSM
  BaseInterface,\* BaseInterface[v]: the device v is built on
  VlanPath,     \* VlanPath[v]: where the status of v is reported
  MarkingLink,  \* MarkingLink[v]: the first link whose Alias starts with that of
                \* v, where the HAL build takes its markings, or NoLink
  RollbackName, \* RollbackName[v]: "vlan<InstanceNumber>"
  MaxCrashes    \* bound on the number of restarts of the daemon

ASSUME VlanAssumption ==
  /\ NoVlan \notin Vlans
  /\ NoThread \notin Threads
  /\ PsmEnable \subseteq Vlans
  /\ PsmId \in [Vlans -> VlanIds]
  /\ PsmName \in [Vlans -> Names]
  /\ PsmLower \in [Vlans -> Links \cup {NoLink}]
  /\ BaseInterface \in [Vlans -> Names]
  /\ VlanPath \in [Vlans -> Paths \cup {NoPath}]
  /\ MarkingLink \in [Vlans -> Links \cup {NoLink}]
  /\ RollbackName \in [Vlans -> Names]
  /\ MaxCrashes \in Nat

VARIABLES
  vlanEnable, vlanStatus, vlanId, vlanName, vlanLower,  \* fields of DML_VLAN
  mutex,        \* the worker that holds vlan_access_mutex, or NoThread
  vlan,         \* vlan[t]: the entry worker t runs for, or NoVlan
  crashes,      \* number of restarts so far
  \* History, read by properties only:
  lastRun,      \* lastRun[v]: what the last worker of v to get the mutex does
  prior,        \* prior[v]: whether the device of v existed at that moment
  acked         \* acked[v]: the last value for which a set of Enable answered TRUE

vlanFields == <<vlanEnable, vlanStatus, vlanId, vlanName, vlanLower>>
history == <<lastRun, prior, acked>>
vlanVars == <<vlanFields, mutex, vlan, crashes, history>>
vars == <<ethVars, vlanVars>>

LockLabels == {"EnableLock", "DisableLock"}

WorkLabels == {"TagLink", "DeleteTagged", "CreateTagged", "EnableBridge",
               "PollVlan", "SendVlanUp", "UntagLink", "EnableDone",
               "DisableLink", "ClearTagging", "RemoveVlan", "DisableDone"}

Kind(id) == IF id > 0 THEN "tagged" ELSE IF id = -1 THEN "bridge" ELSE "untagged"

ThreadTypeOK ==
  /\ pc \in [Procs -> {"idle"} \cup EthLabels \cup LockLabels \cup WorkLabels]
  /\ link \in [Procs -> Links \cup {NoLink}]
  /\ ret \in [Procs -> {"idle", "DeleteTagged", "EnableDone", "ClearTagging"}]
  /\ polls \in [Procs -> 0..(MaxPoll - 1)]

VlanTypeOK ==
  /\ vlanEnable \in [Vlans -> BOOLEAN]
  /\ vlanStatus \in [Vlans -> {"Up", "Down", "Error", "Unset"}]
  /\ vlanId \in [Vlans -> VlanIds]
  /\ vlanName \in [Vlans -> Names]
  /\ vlanLower \in [Vlans -> Links \cup {NoLink}]
  /\ mutex \in Threads \cup {NoThread}
  /\ vlan \in [Threads -> Vlans \cup {NoVlan}]
  /\ crashes \in Nat
  /\ lastRun \in [Vlans -> {"none", "Enable", "Disable"}]
  /\ prior \in [Vlans -> BOOLEAN]
  /\ acked \in [Vlans -> {"none", "TRUE", "FALSE"}]

\* Every variable keeps its type; a worker and a refresh thread never run out of the
\* labels of their procedures, and no polling loop exceeds its budget.
TypeOK == PlatformTypeOK /\ EthFieldsTypeOK /\ ThreadTypeOK /\ VlanTypeOK

\* VlanTerminationInitialize: the entries are zeroed and filled from PSM, and no
\* worker is started for one that is enabled.  A Status of 0 is none of the
\* values of vlan_link_status_e.
VlanStart ==
  [Enable |-> [v \in Vlans |-> v \in PsmEnable],
   Status |-> [v \in Vlans |-> "Unset"]]

Init ==
  /\ EthInit
  /\ vlanEnable = VlanStart.Enable
  /\ vlanStatus = VlanStart.Status
  /\ vlanId = PsmId
  /\ vlanName = PsmName
  /\ vlanLower = PsmLower
  /\ mutex = NoThread
  /\ vlan = [t \in Threads |-> NoVlan]
  /\ crashes = 0
  /\ lastRun = [v \in Vlans |-> "none"]
  /\ prior = [v \in Vlans |-> FALSE]
  /\ acked = [v \in Vlans |-> "none"]

-----------------------------------------------------------------------------
(* What both workers do *)

\* A mutant of Lock: the mutex is not waited for.
LockAnyway(t, l, m, run) ==
  /\ Goto(t, l, m)
  /\ mutex' = t
  /\ lastRun' = [lastRun EXCEPT ![vlan[t]] = run]
  /\ prior' = [prior EXCEPT ![vlan[t]] = Exists(vlanName[vlan[t]])]

\* pthread_mutex_lock, by a worker at label l that goes on to label m.
Lock(t, l, m, run) ==
  /\ Goto(t, l, m)
  /\ mutex = NoThread
  /\ mutex' = t
  /\ lastRun' = [lastRun EXCEPT ![vlan[t]] = run]
  /\ prior' = [prior EXCEPT ![vlan[t]] = Exists(vlanName[vlan[t]])]

\* A mutant of Finish: the mutex is not released.
FinishLocked(t, l, st) ==
  /\ Goto(t, l, "idle")
  /\ UNCHANGED mutex
  /\ vlanStatus' = [vlanStatus EXCEPT ![vlan[t]] = st]
  /\ vlan' = [vlan EXCEPT ![t] = NoVlan]
  /\ link' = [link EXCEPT ![t] = NoLink]
  /\ ret' = [ret EXCEPT ![t] = "idle"]

\* Status := st, pthread_mutex_unlock and pthread_exit.
Finish(t, l, st) ==
  /\ Goto(t, l, "idle")
  /\ mutex' = NoThread
  /\ vlanStatus' = [vlanStatus EXCEPT ![vlan[t]] = st]
  /\ vlan' = [vlan EXCEPT ![t] = NoVlan]
  /\ link' = [link EXCEPT ![t] = NoLink]
  /\ ret' = [ret EXCEPT ![t] = "idle"]

\* Vlan_SetEthLink from label l: without a link in LowerLayers it fails, which is
\* only logged; otherwise the link's Enable is set at label set, back at label m.
\* Before enabling, PriorityTagging is set to tag.
SetEthLink(t, l, set, m) ==
  /\ pc[t] = l
  /\ LET k == vlanLower[vlan[t]] IN
     IF k = NoLink
     THEN Goto(t, l, m) /\ UNCHANGED <<link, ret>>
     ELSE /\ Goto(t, l, set)
          /\ link' = [link EXCEPT ![t] = k]
          /\ ret' = [ret EXCEPT ![t] = m]

EnableEthLink(t, l, tag, m) ==
  /\ SetEthLink(t, l, "CheckOn", m)
  /\ LET k == vlanLower[vlan[t]] IN
     ethPriorityTagging' = IF k = NoLink THEN ethPriorityTagging
                           ELSE [ethPriorityTagging EXCEPT ![k] = tag]
  /\ UNCHANGED <<platformVars, ethEnable, ethStatus, ethMarking, polls, requests,
                 vlanVars>>

-----------------------------------------------------------------------------
(* Vlan_Enable *)

EnableWith(id) ==
  CASE Kind(id) = "tagged" -> "TagLink"
    [] Kind(id) = "bridge" -> "EnableBridge"
    [] Kind(id) = "untagged" -> "UntagLink"

EnableLock(t) ==
  /\ Lock(t, "EnableLock", EnableWith(vlanId[vlan[t]]), "Enable")
  /\ UNCHANGED <<platformVars, ethFields, link, ret, polls, requests, vlanFields,
                 vlan, crashes, acked>>

TagLink(t) == EnableEthLink(t, "TagLink", TRUE, "DeleteTagged")

UntagLink(t) == EnableEthLink(t, "UntagLink", FALSE, "EnableDone")

\* A mutant of DeleteTagged: the device is created over the old one.
KeepOld(t) ==
  /\ Goto(t, "DeleteTagged", "CreateTagged")
  /\ UNCHANGED <<platformVars, ethFields, link, ret, polls, requests, vlanVars>>

\* The status never reads as NotPresent, so the deletion is skipped only when
\* there is no socket.
DeleteTagged(t) ==
  /\ Goto(t, "DeleteTagged", "CreateTagged")
  /\ \E st \in StatusReads(vlanName[vlan[t]]) :
       IF st = "Error" THEN UNCHANGED dev ELSE DeleteDevice(vlanName[vlan[t]])
  /\ UNCHANGED <<wan, ethFields, link, ret, polls, requests, vlanVars>>

\* Vlan_SetMacAddr fails when the base address cannot be read, or there is no link
\* to take the offset from (Vlan_GetEthLinkMacOffSet).
SetMacAddrMayFail(v) == "mac" \in Faults \/ vlanLower[v] = NoLink

\* Vlan_CreateTaggedInterface.  The HAL build needs the markings first; the other
\* creates the device and then fails if it cannot compute its MAC address.
CreateTagged(t) ==
  LET v == vlan[t]
      k == MarkingLink[v]
      Create == CreateDevice(vlanName[v], Tagged(vlanId[v]))
      Fail == vlanStatus' = [vlanStatus EXCEPT ![v] = "Error"]
  IN
  /\ Goto(t, "CreateTagged", "PollVlan")
  /\ \/ /\ Hal = "json" => k # NoLink /\ ethMarking[k] # "lost"
        /\ Hal = "ip" => vlanLower[v] # NoLink
        /\ Create
        /\ UNCHANGED vlanStatus
     \/ /\ Hal = "json"
        /\ IF k = NoLink THEN TRUE ELSE MarkingMayFail(k)
        /\ UNCHANGED dev
        /\ Fail
     \/ /\ Hal = "ip" /\ SetMacAddrMayFail(v)
        /\ Create
        /\ Fail
  /\ UNCHANGED <<wan, ethFields, link, ret, polls, requests, vlanEnable, vlanId,
                 vlanName, vlanLower, mutex, vlan, crashes, history>>

\* VLANId -1: "ip link show || brctl addbr", unless the base is the bridge.
EnableBridge(t) ==
  LET v == vlan[t] IN
  /\ Goto(t, "EnableBridge", "PollVlan")
  /\ IF BaseInterface[v] = vlanName[v] THEN UNCHANGED dev
                                       ELSE CreateDevice(vlanName[v], Bridge)
  /\ UNCHANGED <<wan, ethFields, link, ret, polls, requests, vlanVars>>

PollVlan(t) ==
  /\ pc[t] = "PollVlan"
  /\ \E st \in StatusReads(vlanName[vlan[t]]) :
       PollTurn(t, "PollVlan", st, "SendVlanUp", "EnableDone")
  /\ UNCHANGED <<platformVars, ethFields, link, ret, requests, vlanVars>>

SendVlanUp(t) ==
  /\ Goto(t, "SendVlanUp", "EnableDone")
  /\ Notify(VlanPath[vlan[t]], "Up")
  /\ UNCHANGED <<dev, ethFields, link, ret, polls, requests, vlanVars>>

\* Status is Up whatever the steps before came to.
EnableDone(t) ==
  /\ Finish(t, "EnableDone", "Up")
  /\ UNCHANGED <<platformVars, ethFields, polls, requests, vlanEnable, vlanId,
                 vlanName, vlanLower, crashes, history>>

-----------------------------------------------------------------------------
(* Vlan_Disable *)

DisableLock(t) ==
  /\ Lock(t, "DisableLock",
          IF vlanId[vlan[t]] # -1 THEN "DisableLink" ELSE "RemoveVlan", "Disable")
  /\ UNCHANGED <<platformVars, ethFields, link, ret, polls, requests, vlanFields,
                 vlan, crashes, acked>>

\* Vlan_SetEthLink(FALSE, FALSE): PriorityTagging is cleared after the link has
\* been disabled, so that EthLink_Disable still sees how it was enabled.
DisableLink(t) ==
  /\ SetEthLink(t, "DisableLink", "CheckOff",
                IF vlanLower[vlan[t]] = NoLink THEN "RemoveVlan" ELSE "ClearTagging")
  /\ UNCHANGED <<platformVars, ethFields, polls, requests, vlanVars>>

ClearTagging(t) ==
  /\ Goto(t, "ClearTagging", "RemoveVlan")
  /\ ethPriorityTagging' = [ethPriorityTagging EXCEPT ![link[t]] = FALSE]
  /\ UNCHANGED <<platformVars, ethEnable, ethStatus, ethMarking, link, ret, polls,
                 requests, vlanVars>>

\* A mutant of RemoveVlan: only a device that is up is deleted.
RemoveIfUp(t) ==
  LET v == vlan[t] IN
  /\ Goto(t, "RemoveVlan", "DisableDone")
  /\ \E st \in StatusReads(vlanName[v]) :
       IF st = "Up" THEN DeleteDevice(vlanName[v]) ELSE UNCHANGED dev
  /\ UNCHANGED <<wan, ethFields, link, ret, polls, requests, vlanVars>>

\* VLANId is read again: a tagged device is deleted (by the HAL build only when
\* its status can be read), a bridge too unless the base is the bridge.
RemoveVlan(t) ==
  LET v == vlan[t] IN
  /\ Goto(t, "RemoveVlan", "DisableDone")
  /\ CASE Kind(vlanId[v]) = "tagged" ->
            \E st \in StatusReads(vlanName[v]) :
              IF Hal = "json" /\ st = "Error" THEN UNCHANGED dev
                                              ELSE DeleteDevice(vlanName[v])
       [] Kind(vlanId[v]) = "bridge" ->
            IF BaseInterface[v] = vlanName[v] \/ dev[vlanName[v]] # Bridge
            THEN UNCHANGED dev ELSE DeleteDevice(vlanName[v])
       [] OTHER -> UNCHANGED dev
  /\ UNCHANGED <<wan, ethFields, link, ret, polls, requests, vlanVars>>

\* A mutant of DisableDone: WanManager is not told.
DisableSilently(t) ==
  /\ Finish(t, "DisableDone", "Down")
  /\ UNCHANGED <<platformVars, ethFields, polls, requests, vlanEnable, vlanId,
                 vlanName, vlanLower, crashes, history>>

DisableDone(t) ==
  /\ Finish(t, "DisableDone", "Down")
  /\ Notify(VlanPath[vlan[t]], "Down")
  /\ UNCHANGED <<dev, ethFields, polls, requests, vlanEnable, vlanId, vlanName,
                 vlanLower, crashes, history>>

-----------------------------------------------------------------------------
(* Requests of the bus thread *)

\* A value equal to the stored one answers TRUE and does nothing.  Another one is
\* stored first; then a worker is started, or pthread_create fails and the set
\* answers FALSE with the value left in place.
Answer(v, b) == acked' = [acked EXCEPT ![v] = IF b THEN "TRUE" ELSE "FALSE"]

SetVlanEnable(v, b) ==
  /\ Serve("vlanEnable")
  /\ vlanEnable' = [vlanEnable EXCEPT ![v] = b]
  /\ \/ /\ b = vlanEnable[v]
        /\ Answer(v, b)
        /\ UNCHANGED <<pc, vlan>>
     \/ /\ b # vlanEnable[v]
        /\ \E t \in Threads :
             /\ Goto(t, "idle", IF b THEN "EnableLock" ELSE "DisableLock")
             /\ vlan' = [vlan EXCEPT ![t] = v]
        /\ Answer(v, b)
     \/ /\ b # vlanEnable[v] /\ "spawn" \in Faults
        /\ UNCHANGED <<pc, vlan, acked>>
  /\ UNCHANGED <<platformVars, ethFields, link, ret, polls, vlanStatus, vlanId,
                 vlanName, vlanLower, mutex, crashes, lastRun, prior>>

NoWorker(v) == \A t \in Threads : vlan[t] # v

MayWrite(v) == QuietWrites => ~vlanEnable[v] /\ NoWorker(v)

SetVlanId(v, id) ==
  /\ Serve("vlanId")
  /\ MayWrite(v)
  /\ vlanId' = [vlanId EXCEPT ![v] = id]
  /\ UNCHANGED <<platformVars, ethFields, threadVars, vlanEnable, vlanStatus,
                 vlanName, vlanLower, mutex, vlan, crashes, history>>

SetVlanName(v, n) ==
  /\ Serve("vlanName")
  /\ MayWrite(v)
  /\ vlanName' = [vlanName EXCEPT ![v] = n]
  /\ UNCHANGED <<platformVars, ethFields, threadVars, vlanEnable, vlanStatus,
                 vlanId, vlanLower, mutex, vlan, crashes, history>>

SetLowerLayers(v, l) ==
  /\ Serve("vlanLower")
  /\ MayWrite(v)
  /\ vlanLower' = [vlanLower EXCEPT ![v] = l]
  /\ UNCHANGED <<platformVars, ethFields, threadVars, vlanEnable, vlanStatus,
                 vlanId, vlanName, mutex, vlan, crashes, history>>

\* Vlan_GetStatus, on a get of Status.
GetVlanStatus(v) ==
  /\ Serve("vlanStatus")
  /\ \E st \in StatusReads(vlanName[v]) : vlanStatus' = [vlanStatus EXCEPT ![v] = st]
  /\ UNCHANGED <<platformVars, ethFields, threadVars, vlanEnable, vlanId, vlanName,
                 vlanLower, mutex, vlan, crashes, history>>

\* Vlan_Rollback: DML_VLAN_INIT and a default Name; no worker is told.
Rollback(v) ==
  /\ Serve("rollback")
  /\ vlanEnable' = [vlanEnable EXCEPT ![v] = FALSE]
  /\ vlanStatus' = [vlanStatus EXCEPT ![v] = "Down"]
  /\ vlanName' = [vlanName EXCEPT ![v] = RollbackName[v]]
  /\ UNCHANGED <<platformVars, ethFields, threadVars, vlanId, vlanLower, mutex,
                 vlan, crashes, history>>

\* The daemon dies and is started again: its memory and threads are gone, the
\* devices and what WanManager was told stay.
Restart ==
  /\ crashes < MaxCrashes
  /\ crashes' = crashes + 1
  /\ ethEnable' = EthStart.Enable
  /\ ethPriorityTagging' = EthStart.PriorityTagging
  /\ ethStatus' = EthStart.Status
  /\ ethMarking' = EthStart.Marking
  /\ pc' = [p \in Procs |-> "idle"]
  /\ link' = [p \in Procs |-> NoLink]
  /\ ret' = [p \in Procs |-> "idle"]
  /\ polls' = [p \in Procs |-> 0]
  /\ vlanEnable' = VlanStart.Enable
  /\ vlanStatus' = VlanStart.Status
  /\ vlanId' = PsmId
  /\ vlanName' = PsmName
  /\ vlanLower' = PsmLower
  /\ mutex' = NoThread
  /\ vlan' = [t \in Threads |-> NoVlan]
  /\ lastRun' = [v \in Vlans |-> "none"]
  /\ prior' = [v \in Vlans |-> FALSE]
  /\ acked' = [v \in Vlans |-> "none"]
  /\ UNCHANGED <<platformVars, requests>>

VlanRequest ==
  \/ \E v \in Vlans, b \in BOOLEAN : SetVlanEnable(v, b)
  \/ \E v \in Vlans, id \in VlanIds : SetVlanId(v, id)
  \/ \E v \in Vlans, n \in Names : SetVlanName(v, n)
  \/ \E v \in Vlans, l \in Links \cup {NoLink} : SetLowerLayers(v, l)
  \/ \E v \in Vlans : GetVlanStatus(v) \/ Rollback(v)

WorkerStep(t) ==
  \/ EnableLock(t) \/ TagLink(t) \/ UntagLink(t) \/ DeleteTagged(t)
  \/ CreateTagged(t) \/ EnableBridge(t) \/ PollVlan(t) \/ SendVlanUp(t)
  \/ EnableDone(t)
  \/ DisableLock(t) \/ DisableLink(t) \/ ClearTagging(t) \/ RemoveVlan(t)
  \/ DisableDone(t)

EthPart == (EthRequest \/ \E p \in Procs : EthStep(p)) /\ UNCHANGED vlanVars

Next == EthPart \/ VlanRequest \/ (\E t \in Threads : WorkerStep(t)) \/ Restart

\* The operating system schedules every thread; nobody has to send a request.
Fairness ==
  /\ \A p \in Procs : WF_vars(EthStep(p) /\ UNCHANGED vlanVars)
  /\ \A t \in Threads : WF_vars(WorkerStep(t))

Spec == Init /\ [][Next]_vars

FairSpec == Spec /\ Fairness

-----------------------------------------------------------------------------
(* Properties *)

\* A worker between pthread_mutex_lock and pthread_mutex_unlock, wherever its pc
\* is: in its own steps or inside EthLink_SetParamBoolValue.
InCritical(t) == vlan[t] # NoVlan /\ pc[t] \notin LockLabels

\* vlan_access_mutex does its work: exactly its holder is between the lock and the
\* unlock of Vlan_Enable or Vlan_Disable (vlan_apis.c 362-427, 626-730).
MutualExclusion == \A t \in Threads : InCritical(t) <=> mutex = t

\* The device that stands for an enabled entry: its own, or for an untagged one
\* that of the link it sends SetEthLink to.
HasDevice(v) ==
  IF Kind(vlanId[v]) # "untagged" THEN Exists(vlanName[v])
  ELSE vlanLower[v] # NoLink /\ Exists(LinkName[vlanLower[v]])

\* Whatever the overlap of toggles, of workers of other entries, of requests to the
\* links and of refresh threads: once no worker of v is left, its device is what
\* the last worker to get the mutex was to make it, there or not there.
LastWorkerWins ==
  \A v \in Vlans : NoWorker(v) =>
    /\ lastRun[v] = "Enable" => HasDevice(v)
    /\ lastRun[v] = "Disable" => ~HasDevice(v)

\* An enabled tagged entry ends up on the VLANID it has, also when a device of the
\* same name is left from before a restart or an earlier configuration: the old
\* device is deleted first, since "ip link add" would keep it.
CurrentIdInstalled ==
  \A v \in Vlans :
    (NoWorker(v) /\ vlanEnable[v] /\ lastRun[v] = "Enable" /\ vlanId[v] > 0)
      => dev[vlanName[v]] = Tagged(vlanId[v])

\* What WanManager was told about the path of v agrees with the device once no
\* worker of v is left: Down after a disable, and Up only for a device that is
\* there.  (After a restart WanManager may still have what the last daemon said.)
ReportAgrees ==
  \A v \in Vlans : (crashes = 0 /\ NoWorker(v) /\ lastRun[v] # "none" /\ VlanPath[v] # NoPath) =>
    /\ lastRun[v] = "Disable" => wan[VlanPath[v]] = "Down"
    /\ wan[VlanPath[v]] = "Up" => HasDevice(v)

\* Disabling and reconfiguring leaves nothing behind: when no thread runs, every
\* device belongs to an entry whose last worker enabled it.  (What a daemon that
\* died had made is nobody's: only a later enable of the same name replaces it.)
NoOrphan ==
  (crashes = 0 /\ \A p \in Procs : pc[p] = "idle") =>
    \A n \in Names : Exists(n) =>
      \E v \in Vlans : /\ lastRun[v] = "Enable"
                       /\ IF Kind(vlanId[v]) # "untagged" THEN n = vlanName[v]
                          ELSE \E l \in Links : l = vlanLower[v] /\ n = LinkName[l]

\* A worker tells WanManager that v is Up only while the device it saw running is
\* still there, although it read the status in an earlier step.
UpIsNotStale ==
  [][\A t \in Threads : pc[t] = "SendVlanUp" /\ pc'[t] = "EnableDone"
        => Exists(vlanName[vlan[t]])]_vars

\* Every worker that is started ends: the mutex is always released, and the polling
\* loops give up.
WorkersEnd ==
  \A t \in Threads : vlan[t] # NoVlan ~> vlan[t] = NoVlan

-----------------------------------------------------------------------------
(* What comments of the code say, and the code does not do *)

Quiescent == \A p \in Procs : pc[p] = "idle"

\* "On successful receipt of a SetParameterValues RPC, the CPE MUST apply the
\* changes" (vlan_dml.c 48): when all is quiet the interface of an entry is there
\* exactly if Enable, which every set has answered TRUE to, says so.
EnableApplied == Quiescent => \A v \in Vlans : vlanEnable[v] <=> HasDevice(v)

\* "Delete Created Tagged Vlan Interface" (vlan_apis.c 373): after a disable no
\* interface is left under the name of the entry.
CreatedIsDeleted ==
  \A v \in Vlans : NoWorker(v) /\ lastRun[v] = "Disable" => ~Exists(vlanName[v])

\* "return: TRUE if succeeded" (vlan_dml.c 478): once a set of Enable to TRUE has
\* answered TRUE, and no worker is left, Vlan_Enable has been run.
AnsweredIsDone ==
  \A v \in Vlans : NoWorker(v) /\ acked[v] = "TRUE" => lastRun[v] = "Enable"

\* "Rollback_XXX(); -- Remove the update at backup" (vlan_dml.c 73): a rolled back
\* entry is disabled, and when all is quiet it has no interface.
RolledBackIsRemoved ==
  Quiescent => \A v \in Vlans : ~vlanEnable[v] => ~Exists(PsmName[v])

\* "Set EthLink to False. it will take care UnTagged Created Vlan Interface"
\* (vlan_apis.c 366): when all is quiet, a link that is not enabled has no
\* interface left.
UntaggedIsRemoved ==
  Quiescent => \A l \in Links : ~ethEnable[l] => ~Exists(LinkName[l])
=============================================================================
