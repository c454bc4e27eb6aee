--------------------------- MODULE VlanRefinement ---------------------------
(***************************************************************************)
(* VlanTermination implements VlanService.  A change is pending from the   *)
(* creation of its worker to the unlock; until then the interface counts   *)
(* as it was when that worker took the mutex.                              *)
(***************************************************************************)
EXTENDS VlanTermination

\* The workers of v that are to make Enable b; one that has the mutex is known by
\* the history, one that waits by its pc.
WorkersFor(v, b) ==
  {t \in Threads : /\ vlan[t] = v
                   /\ IF mutex = t
                      THEN lastRun[v] = (IF b THEN "Enable" ELSE "Disable")
                      ELSE pc[t] = (IF b THEN "EnableLock" ELSE "DisableLock")}

PendingChanges == [v \in Vlans |-> [b \in BOOLEAN |-> Cardinality(WorkersFor(v, b))]]

InterfacePresent ==
  [v \in Vlans |->
     IF \E t \in Threads : mutex = t /\ vlan[t] = v THEN prior[v]
     ELSE Exists(vlanName[v])]

Service == INSTANCE VlanService
             WITH MaxPending <- Cardinality(Threads),
                  enable  <- vlanEnable,
                  pending <- PendingChanges,
                  present <- InterfacePresent

\* Without faults, restarts and writes to the configuration of an enabled entry,
\* every step of the threads is one of the service or changes nothing the client
\* can see (vlan_dml.c 496-522, vlan_apis.c 348-430 and 611-733).
ImplementsService == Service!ServiceSafety

\* And every accepted change is carried out.
ChangesCarriedOut == Service!ServiceFairness
=============================================================================
