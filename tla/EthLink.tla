------------------------------- MODULE EthLink -------------------------------
(***************************************************************************)
(* The table Device.X_RDK_Ethernet.Link.{i} of the VLAN manager            *)
(* (ethernet_dml.c, ethernet_apis.c).                                      *)
(*                                                                         *)
(* The bus thread serves requests one at a time.  Setting Enable runs      *)
(* EthLink_Enable or EthLink_Disable in the caller: the bus thread, or a   *)
(* VLAN worker that went through Vlan_SetEthLink.  Setting X_RDK_Refresh   *)
(* starts a detached thread.  None of them takes a lock, so the procedures *)
(* are modelled step by step: an action ends where another thread can see  *)
(* or change what this one goes on to use.                                 *)
(***************************************************************************)
EXTENDS Platform, FiniteSets

CONSTANTS
  Links,        \* entries of the Link table
  NoLink,       \* no entry
  Bus,          \* the thread that serves data-model requests
  Threads,      \* detached threads: bounds how many run at once
  LinkName,     \* LinkName[l]: the untagged interface of l
  LinkPath,     \* LinkPath[l]: where the status of l is reported
  LinkPsmEnable,\* the links whose Enable is stored as TRUE in PSM
  WanMarkings,  \* the links for which WanManager lists Marking rows
  Requests,     \* the kinds of request the bus delivers
  QuietWrites,  \* TRUE: the client writes the configuration of an entry only
                \* while it is disabled and no worker runs for it
  MaxRequests,  \* bound on the number of requests
  MaxPoll       \* status reads before a poll gives up: 10 in the code

ASSUME EthLinkAssumption ==
  /\ NoLink \notin Links
  /\ Bus \notin Threads
  /\ LinkName \in [Links -> Names]
  /\ LinkPath \in [Links -> Paths \cup {NoPath}]
  /\ LinkPsmEnable \subseteq Links
  /\ WanMarkings \subseteq Links
  /\ QuietWrites \in BOOLEAN
  /\ MaxRequests \in Nat
  /\ MaxPoll \in Nat \ {0}

VARIABLES
  ethEnable, ethPriorityTagging, ethStatus,  \* fields of DML_ETHERNET
  ethMarking,   \* ethMarking[l]: "none", "table", or "lost" when
                \* NumberofMarkingEntries > 0 counts rows of a NULL table
  pc,           \* pc[p]: where thread p is; "idle" when it serves or runs nothing
  link,         \* link[p]: the entry p works on
  ret,          \* ret[p]: where p goes on after setting the link's Enable
  polls,        \* polls[p]: iIterator of the polling loop p is in
  requests      \* number of requests served so far

ethFields == <<ethEnable, ethPriorityTagging, ethStatus, ethMarking>>
threadVars == <<pc, link, ret, polls>>
ethVars == <<platformVars, ethFields, threadVars, requests>>

Procs == Threads \cup {Bus}

EthLabels == {"CheckOn", "On", "AddMarking", "CheckUntagged", "DeleteOld",
              "CreateUntagged", "PollUntagged", "SendLinkUp", "LinkUp",
              "CheckOff", "Off", "DeleteMarking", "RemoveUntagged", "LinkDown",
              "RefreshMarking", "PollRefresh", "SendRefreshUp"}

\* A thread p at label l moves to label m.
Goto(p, l, m) ==
  /\ pc[p] = l
  /\ pc' = [pc EXCEPT ![p] = m]

\* p returns from EthLink_SetParamBoolValue.
Return(p, l) == Goto(p, l, ret[p])

EthFieldsTypeOK ==
  /\ ethEnable \in [Links -> BOOLEAN]
  /\ ethPriorityTagging \in [Links -> BOOLEAN]
  /\ ethStatus \in [Links -> {"Up", "Down", "Error"}]
  /\ ethMarking \in [Links -> {"none", "table", "lost"}]
  /\ requests \in Nat

\* DML_ETHERNET_INIT and the Enable read from PSM (EthLink_Initialize).
EthStart ==
  [Enable          |-> [l \in Links |-> l \in LinkPsmEnable],
   PriorityTagging |-> [l \in Links |-> FALSE],
   Status          |-> [l \in Links |-> "Down"],
   Marking         |-> [l \in Links |-> "none"]]

EthInit ==
  /\ PlatformInit
  /\ ethEnable = EthStart.Enable
  /\ ethPriorityTagging = EthStart.PriorityTagging
  /\ ethStatus = EthStart.Status
  /\ ethMarking = EthStart.Marking
  /\ pc = [p \in Procs |-> "idle"]
  /\ link = [p \in Procs |-> NoLink]
  /\ ret = [p \in Procs |-> "idle"]
  /\ polls = [p \in Procs |-> 0]
  /\ requests = 0

\* EthLink_GetUnTaggedVlanInterfaceStatus.
LinkStatusReads(l) == StatusReads(LinkName[l])

-----------------------------------------------------------------------------
(* EthLink_SetParamBoolValue(l, "Enable", TRUE) and EthLink_Enable *)

\* The caller enters with link[p], ret[p] set and pc[p] at CheckOn or CheckOff.

\* "Check whether enable param changed or not": equal means nothing to do.
CheckOn(p) ==
  /\ pc[p] = "CheckOn"
  /\ IF ethEnable[link[p]] THEN Return(p, "CheckOn") ELSE Goto(p, "CheckOn", "On")
  /\ UNCHANGED <<platformVars, ethFields, link, ret, polls, requests>>

On(p) ==
  /\ Goto(p, "On", "AddMarking")
  /\ ethEnable' = [ethEnable EXCEPT ![link[p]] = TRUE]
  /\ UNCHANGED <<platformVars, ethPriorityTagging, ethStatus, ethMarking,
                 link, ret, polls, requests>>

\* EthLink_CreateMarkingTable: the old table is freed and the count set before
\* the new one is allocated.
CreateMarkingTable(l) ==
  \E m \in {"table"} \cup (IF "memory" \in Faults THEN {"lost"} ELSE {}) :
    ethMarking' = [ethMarking EXCEPT ![l] = m]

\* EthLink_AddMarking: with no rows, no answer or no memory for the rows the old
\* table stays.  A failure is only logged.
LoadMarking(l) ==
  \/ l \in WanMarkings /\ CreateMarkingTable(l)
  \/ /\ l \notin WanMarkings \/ {"bus", "memory"} \cap Faults # {}
     /\ UNCHANGED ethMarking

AddMarking(p) ==
  /\ Goto(p, "AddMarking", "CheckUntagged")
  /\ LoadMarking(link[p])
  /\ UNCHANGED <<platformVars, ethEnable, ethPriorityTagging, ethStatus,
                 link, ret, polls, requests>>

\* Only a link without priority tagging has an interface of its own; its status
\* never reads as NotPresent, so whatever has its name is about to be deleted.
CheckUntagged(p) ==
  /\ pc[p] = "CheckUntagged"
  /\ IF ethPriorityTagging[link[p]]
     THEN Return(p, "CheckUntagged")
     ELSE \E st \in LinkStatusReads(link[p]) :
            IF st = "Error" THEN Return(p, "CheckUntagged")
                            ELSE Goto(p, "CheckUntagged", "DeleteOld")
  /\ UNCHANGED <<platformVars, ethFields, link, ret, polls, requests>>

\* EthLink_GetMarking copies the table of the link: it fails on a table that was
\* lost, and on any table when there is no memory for the copy.
MarkingMayFail(l) ==
  ethMarking[l] = "lost" \/ (ethMarking[l] = "table" /\ "memory" \in Faults)

\* The HAL build reads the markings after deleting the old interface, the other
\* before.
MarkingPoint == IF Hal = "json" THEN "CreateUntagged" ELSE "DeleteOld"

GetMarkingFails(p) ==
  /\ Return(p, MarkingPoint)
  /\ MarkingMayFail(link[p])
  /\ ethStatus' = [ethStatus EXCEPT ![link[p]] = "Error"]
  /\ UNCHANGED <<platformVars, ethEnable, ethPriorityTagging, ethMarking,
                 link, ret, polls, requests>>

DeleteOld(p) ==
  /\ Goto(p, "DeleteOld", "CreateUntagged")
  /\ MarkingPoint = "DeleteOld" => ethMarking[link[p]] # "lost"
  /\ DeleteDevice(LinkName[link[p]])
  /\ UNCHANGED <<wan, ethFields, link, ret, polls, requests>>

CreateUntagged(p) ==
  /\ Goto(p, "CreateUntagged", "PollUntagged")
  /\ MarkingPoint = "CreateUntagged" => ethMarking[link[p]] # "lost"
  /\ CreateDevice(LinkName[link[p]], Untagged)
  /\ UNCHANGED <<wan, ethFields, link, ret, polls, requests>>

\* Mutants of PollTurn: a loop that reads once more than it has iterations, and one
\* whose iterator wraps instead of ending it.
PollOnceMore(p, l, st, up, done) ==
  IF st = "Up"
  THEN Goto(p, l, up) /\ polls' = [polls EXCEPT ![p] = 0]
  ELSE IF polls[p] + 1 <= MaxPoll
       THEN Goto(p, l, l) /\ polls' = [polls EXCEPT ![p] = @ + 1]
       ELSE Goto(p, l, done) /\ polls' = [polls EXCEPT ![p] = 0]

PollForever(p, l, st, up, done) ==
  IF st = "Up"
  THEN Goto(p, l, up) /\ polls' = [polls EXCEPT ![p] = 0]
  ELSE Goto(p, l, l) /\ polls' = [polls EXCEPT ![p] = (@ + 1) % MaxPoll]

\* One turn of a polling loop of p at label l: up is reported at label up, and
\* after MaxPoll reads the loop ends at label done.
PollTurn(p, l, st, up, done) ==
  IF st = "Up"
  THEN Goto(p, l, up) /\ polls' = [polls EXCEPT ![p] = 0]
  ELSE IF polls[p] + 1 < MaxPoll
       THEN Goto(p, l, l) /\ polls' = [polls EXCEPT ![p] = @ + 1]
       ELSE Goto(p, l, done) /\ polls' = [polls EXCEPT ![p] = 0]

PollUntagged(p) ==
  /\ pc[p] = "PollUntagged"
  /\ \E st \in LinkStatusReads(link[p]) :
       IF st = "Error"
       THEN Return(p, "PollUntagged") /\ polls' = [polls EXCEPT ![p] = 0]
       ELSE PollTurn(p, "PollUntagged", st, "SendLinkUp", "LinkUp")
  /\ UNCHANGED <<platformVars, ethFields, link, ret, requests>>

SendLinkUp(p) ==
  /\ Goto(p, "SendLinkUp", "LinkUp")
  /\ Notify(LinkPath[link[p]], "Up")
  /\ UNCHANGED <<dev, ethFields, link, ret, polls, requests>>

\* Status is Up even when the loop gave up.
LinkUp(p) ==
  /\ Return(p, "LinkUp")
  /\ ethStatus' = [ethStatus EXCEPT ![link[p]] = "Up"]
  /\ UNCHANGED <<platformVars, ethEnable, ethPriorityTagging, ethMarking,
                 link, ret, polls, requests>>

-----------------------------------------------------------------------------
(* EthLink_SetParamBoolValue(l, "Enable", FALSE) and EthLink_Disable *)

CheckOff(p) ==
  /\ pc[p] = "CheckOff"
  /\ IF ethEnable[link[p]] THEN Goto(p, "CheckOff", "Off") ELSE Return(p, "CheckOff")
  /\ UNCHANGED <<platformVars, ethFields, link, ret, polls, requests>>

Off(p) ==
  /\ Goto(p, "Off", "DeleteMarking")
  /\ ethEnable' = [ethEnable EXCEPT ![link[p]] = FALSE]
  /\ UNCHANGED <<platformVars, ethPriorityTagging, ethStatus, ethMarking,
                 link, ret, polls, requests>>

DeleteMarking(p) ==
  /\ Goto(p, "DeleteMarking", "RemoveUntagged")
  /\ ethMarking' = [ethMarking EXCEPT ![link[p]] = "none"]
  /\ UNCHANGED <<platformVars, ethEnable, ethPriorityTagging, ethStatus,
                 link, ret, polls, requests>>

\* A mutant of RemoveUntagged: the interface is reported Down and never deleted.
KeepUntagged(p) ==
  /\ Goto(p, "RemoveUntagged", "LinkDown")
  /\ UNCHANGED <<platformVars, ethFields, link, ret, polls, requests>>

\* With priority tagging, or without a status, the interface is left alone and
\* nothing is reported.
RemoveUntagged(p) ==
  LET name == LinkName[link[p]] IN
  /\ pc[p] = "RemoveUntagged"
  /\ IF ethPriorityTagging[link[p]]
     THEN Return(p, "RemoveUntagged") /\ UNCHANGED dev
     ELSE \E st \in LinkStatusReads(link[p]) :
            IF st = "Error"
            THEN Return(p, "RemoveUntagged") /\ UNCHANGED dev
            ELSE Goto(p, "RemoveUntagged", "LinkDown") /\ DeleteDevice(name)
  /\ UNCHANGED <<wan, ethFields, link, ret, polls, requests>>

LinkDown(p) ==
  /\ Return(p, "LinkDown")
  /\ ethStatus' = [ethStatus EXCEPT ![link[p]] = "Down"]
  /\ Notify(LinkPath[link[p]], "Down")
  /\ UNCHANGED <<dev, ethEnable, ethPriorityTagging, ethMarking,
                 link, ret, polls, requests>>

-----------------------------------------------------------------------------
(* EthLink_RefreshHandleThread and EthLink_TriggerVlanRefresh: the table is
   read again and the priorities of the interface set from it (which is not
   part of a device here), then the interface is reported when it runs. *)

\* The HAL build does not survive a refresh that cannot copy the table (MarkingTable
\* shows why): such a step is not taken, as if the daemon died before it.
RefreshMarking(p) ==
  /\ Goto(p, "RefreshMarking", "PollRefresh")
  /\ LoadMarking(link[p])
  /\ Hal = "json" => ethMarking'[link[p]] # "lost"
  /\ UNCHANGED <<platformVars, ethEnable, ethPriorityTagging, ethStatus,
                 link, ret, polls, requests>>

PollRefresh(p) ==
  /\ pc[p] = "PollRefresh"
  /\ \E st \in LinkStatusReads(link[p]) :
       IF st = "Error"
       THEN Goto(p, "PollRefresh", "idle") /\ polls' = [polls EXCEPT ![p] = 0]
       ELSE PollTurn(p, "PollRefresh", st, "SendRefreshUp", "idle")
  /\ UNCHANGED <<platformVars, ethFields, link, ret, requests>>

SendRefreshUp(p) ==
  /\ Goto(p, "SendRefreshUp", "idle")
  /\ Notify(LinkPath[link[p]], "Up")
  /\ UNCHANGED <<dev, ethFields, link, ret, polls, requests>>

-----------------------------------------------------------------------------
(* Requests of the bus thread *)

Serve(kind) ==
  /\ kind \in Requests
  /\ pc[Bus] = "idle"
  /\ requests < MaxRequests
  /\ requests' = requests + 1

\* The set returns TRUE whatever EthLink_Enable or EthLink_Disable returns.
SetLinkEnable(l, b) ==
  /\ Serve("linkEnable")
  /\ pc' = [pc EXCEPT ![Bus] = IF b THEN "CheckOn" ELSE "CheckOff"]
  /\ link' = [link EXCEPT ![Bus] = l]
  /\ ret' = [ret EXCEPT ![Bus] = "idle"]
  /\ UNCHANGED <<platformVars, ethFields, polls>>

SetPriorityTagging(l, b) ==
  /\ Serve("priorityTagging")
  /\ QuietWrites => ~ethEnable[l]
  /\ ethPriorityTagging' = [ethPriorityTagging EXCEPT ![l] = b]
  /\ UNCHANGED <<platformVars, ethEnable, ethStatus, ethMarking, threadVars>>

\* X_RDK_Refresh set to TRUE: a link that is not enabled, or a thread that
\* cannot be created, leaves everything as it is.
SetRefresh(l, t) ==
  /\ Serve("refresh")
  /\ ethEnable[l]
  /\ Goto(t, "idle", "RefreshMarking")
  /\ link' = [link EXCEPT ![t] = l]
  /\ UNCHANGED <<platformVars, ethFields, ret, polls>>

\* EthLink_GetParamUlongValue("Status") refreshes the stored status.
GetLinkStatus(l) ==
  /\ Serve("linkStatus")
  /\ \E st \in LinkStatusReads(l) : ethStatus' = [ethStatus EXCEPT ![l] = st]
  /\ UNCHANGED <<platformVars, ethEnable, ethPriorityTagging, ethMarking, threadVars>>

EthRequest ==
  \/ \E l \in Links, b \in BOOLEAN : SetLinkEnable(l, b) \/ SetPriorityTagging(l, b)
  \/ \E l \in Links, t \in Threads : SetRefresh(l, t)
  \/ \E l \in Links : GetLinkStatus(l)

EthStep(p) ==
  \/ CheckOn(p) \/ On(p) \/ AddMarking(p) \/ CheckUntagged(p) \/ DeleteOld(p)
  \/ GetMarkingFails(p) \/ CreateUntagged(p) \/ PollUntagged(p) \/ SendLinkUp(p)
  \/ LinkUp(p)
  \/ CheckOff(p) \/ Off(p) \/ DeleteMarking(p) \/ RemoveUntagged(p) \/ LinkDown(p)
  \/ RefreshMarking(p) \/ PollRefresh(p) \/ SendRefreshUp(p)

EthNext == EthRequest \/ \E p \in Procs : EthStep(p)

EthSpec == EthInit /\ [][EthNext]_ethVars /\ \A p \in Procs : WF_ethVars(EthStep(p))

-----------------------------------------------------------------------------
(* Properties of the Link table on its own *)

\* With the bus thread the only one to set Enable, and the interface commands
\* working, between requests an interface is there only for an enabled link without
\* priority tagging, and Status is Up only if it is there: a failed enable leaves
\* nothing behind, re-enabling replaces, and refresh threads bring nothing back
\* (ethernet_apis.c 293-342, 387-423).
LinkFollowsEnable ==
  pc[Bus] = "idle" =>
    \A l \in Links :
      /\ Exists(LinkName[l]) => ethEnable[l] /\ ~ethPriorityTagging[l]
      /\ ethStatus[l] = "Up" => Exists(LinkName[l])

\* What the steps of an enable or a disable tell WanManager of a link is true when they
\* tell it: Down once its interface is gone, and Up while it is there and enabled, although
\* the status was read in an earlier step.  Only a refresh thread may report an interface
\* that has gone meanwhile (ethernet_apis.c 330, 416, 1047).
ReportsAreTrue ==
  [][\A l \in Links :
       LET path == LinkPath[l] IN
       (path # NoPath /\ wan'[path] # wan[path]) =>
         IF wan'[path] = "Down" THEN ~Exists(LinkName[l]) /\ ~ethEnable[l]
         ELSE \/ Exists(LinkName[l]) /\ ethEnable[l]
              \/ \E t \in Threads : pc[t] = "SendRefreshUp" /\ pc'[t] = "idle"]_ethVars

\* The bus thread always comes back for the next request, whatever fails on the
\* way: it waits for no lock, and polls a bounded number of times.
BusReturns == pc[Bus] # "idle" ~> pc[Bus] = "idle"

\* "Notify Vlan Status to WAN Manager" (ethernet_apis.c 417, 1046): when no thread
\* runs, a link that is disabled and whose interface is gone is not Up there.
StatusNotified ==
  (\A p \in Procs : pc[p] = "idle") =>
    \A l \in Links : ~ethEnable[l] /\ ~Exists(LinkName[l]) /\ LinkPath[l] # NoPath
                       => wan[LinkPath[l]] # "Up"
=============================================================================
