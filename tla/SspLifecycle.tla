---------------------------- MODULE SspLifecycle ----------------------------
(***************************************************************************)
(* The life of the process: how main() starts the component, how the       *)
(* plug-in builds its objects, and how the component is cancelled          *)
(* (ssp_main.c, ssp_action.c, ssp_messagebus_interface.c, plugin_main.c,   *)
(* plugin_main_apis.c).                                                    *)
(*                                                                         *)
(* Two threads run this code: main, which starts everything and then       *)
(* sleeps, or reads commands when it has a console; and the thread of the  *)
(* message bus, which may cancel the component, ask for its health, make   *)
(* it rebuild its objects or unload them.  Nothing excludes one from the   *)
(* other: the bus may cancel what main is still making.                    *)
(***************************************************************************)
EXTENDS Integers

CONSTANTS
  Main, Bus,
  Consoles,       \* the values of "-c was given" to consider
  Faults,         \* of {"fork", "pid", "bus", "memory", "plugin", "register", "cdm"}
  MaxCommands     \* bound on the commands typed and the calls from the bus

ASSUME SspAssumption ==
  /\ Main # Bus
  /\ Consoles \subseteq BOOLEAN
  /\ Faults \subseteq {"fork", "pid", "bus", "memory", "plugin", "register", "cdm"}
  /\ MaxCommands \in Nat

VARIABLES
  pc,           \* pc[p]: where the thread is; "bad" after a SIGSEGV
  after,        \* after[p]: where it goes on after a procedure
  console,      \* ~bRunAsDaemon
  exit,         \* the exit status of the process, -1 while it runs
  connected,    \* CCSP_Message_Bus_Init gave a bus_handle, with callbacks
  ptr,          \* ptr[x]: what the global pointer x points to
  health,       \* Health of the component
  registered,   \* the component registry knows the component
  manager,      \* g_pBEManager and the objects in it
  ready,        \* sd_notify has said READY=1
  recalled,     \* history: the bus has cancelled a component
  overlapped,   \* history: both threads were in the middle at once
  commands      \* number of commands and calls so far

component == <<ptr, health, registered>>
flags == <<ready, recalled>>
vars ==
  <<pc, after, console, exit, connected, component, manager, flags, overlapped, commands>>

Procs == {Main, Bus}

\* g_pComponent_COMMON_vlanmanager, pSsdCcdIf, pDslhLcbIf, pDslhCpeController
Pointers == {"component", "ccdIf", "lcbIf", "controller"}

NoManager == [made |-> FALSE, hVLAN |-> FALSE, hEth |-> FALSE]

Labels ==
  {"idle", "bad", "Daemonize", "WritePid", "MessageBusEngage", "CreateComponent",
   "CreateCcdIf", "CreateLcbIf", "CreateController", "FreeLcbIf", "ResetLcbIf", "FreeCcdIf",
   "ResetCcdIf", "FreeComponent", "ResetComponent", "Engage", "VlanManagerInit",
   "BackEndManagerCreate", "VlanCreate", "EthernetCreate", "Register", "SetGreen",
   "CdmInit", "Notify", "GetHealth", "MemoryCheck", "CancelTest", "Unregister",
   "CancelController", "CancelFree", "ClearComponent", "ClearCcdIf", "ClearController",
   "CdmTerm", "DelMutex"}

\* In ssp_create, and in ssp_cancel from the first free to the last reset.
Creating ==
  {"CreateCcdIf", "CreateLcbIf", "CreateController", "FreeLcbIf", "ResetLcbIf", "FreeCcdIf",
   "ResetCcdIf", "FreeComponent", "ResetComponent"}
Cancelling == {"CancelFree", "ClearComponent", "ClearCcdIf", "ClearController"}
Midway == Creating \cup Cancelling

TypeOK ==
  /\ pc \in [Procs -> Labels] /\ after \in [Procs -> Labels]
  /\ console \in BOOLEAN /\ connected \in BOOLEAN
  /\ registered \in BOOLEAN /\ ready \in BOOLEAN
  /\ recalled \in BOOLEAN /\ overlapped \in BOOLEAN
  /\ exit \in -1..1
  /\ ptr \in [Pointers -> {"null", "live", "freed"}]
  /\ health \in {"none", "Red", "Yellow", "Green"}
  /\ manager \in [made : BOOLEAN, hVLAN : BOOLEAN, hEth : BOOLEAN]
  /\ commands \in 0..MaxCommands

Init ==
  /\ pc = [p \in Procs |-> IF p = Main THEN "Daemonize" ELSE "idle"]
  /\ after = [p \in Procs |-> IF p = Main THEN "CdmInit" ELSE "idle"]
  /\ console \in Consoles
  /\ exit = -1
  /\ connected = FALSE
  /\ ptr = [x \in Pointers |-> "null"]
  /\ health = "none"
  /\ registered = FALSE
  /\ manager = NoManager
  /\ ready = FALSE
  /\ recalled = FALSE /\ overlapped = FALSE
  /\ commands = 0

Goto(p, l, m) ==
  /\ exit = -1
  /\ pc[p] = l
  /\ pc' = [pc EXCEPT ![p] = m]
  /\ overlapped' = (overlapped \/ \A q \in Procs : pc'[q] \in Midway)
  /\ UNCHANGED exit

\* exit(), or the return of main().
Stop(p, l, status) ==
  /\ exit = -1
  /\ pc[p] = l
  /\ exit' = status
  /\ UNCHANGED <<pc, overlapped>>

\* A SIGSEGV at l: sig_handler prints the stack and calls exit(0).
Crash(p, l) ==
  /\ exit = -1
  /\ pc[p] = l
  /\ pc' = [pc EXCEPT ![p] = "bad"]
  /\ exit' = 0
  /\ UNCHANGED overlapped

May(fault) == fault \in Faults

-----------------------------------------------------------------------------
(* main() up to its first command *)

Daemonize ==
  /\ \/ Goto(Main, "Daemonize", "WritePid")
     \/ ~console /\ May("fork") /\ Stop(Main, "Daemonize", 0)
  /\ UNCHANGED <<after, console, connected, component, manager, flags, commands>>

WritePid ==
  /\ \/ Goto(Main, "WritePid", "MessageBusEngage")
     \/ May("pid") /\ Stop(Main, "WritePid", 1)
  /\ UNCHANGED <<after, console, connected, component, manager, flags, commands>>

-----------------------------------------------------------------------------
(* cmd_dispatch('e'): ssp_Mbi_MessageBusEngage, ssp_create and ssp_engage; the
   results of all three are dropped *)

MessageBusEngage ==
  /\ Goto(Main, "MessageBusEngage", "CreateComponent")
  /\ \/ connected' = TRUE
     \/ May("bus") /\ UNCHANGED connected
  /\ UNCHANGED <<after, console, component, manager, flags, commands>>

Set(x, v) == ptr' = [ptr EXCEPT ![x] = v]

CreateComponent ==
  /\ \/ /\ Goto(Main, "CreateComponent", "CreateCcdIf")
        /\ Set("component", "live")
        /\ health' = "Red"
     \/ /\ May("memory")
        /\ Goto(Main, "CreateComponent", "Engage")
        /\ Set("component", "null")
        /\ UNCHANGED health
  /\ UNCHANGED <<after, console, connected, registered, manager, flags, commands>>

\* Freeing what was freed before is an error; freeing NULL does nothing.
FreeAt(p, l, m, xs) ==
  IF \A x \in xs : ptr[x] # "freed"
  THEN /\ Goto(p, l, m)
       /\ ptr' = [x \in Pointers |-> IF x \in xs /\ ptr[x] = "live" THEN "freed" ELSE ptr[x]]
  ELSE Crash(p, l) /\ UNCHANGED ptr

CreateCcdIf ==
  /\ \/ /\ Goto(Main, "CreateCcdIf", "CreateLcbIf")
        /\ IF ptr["ccdIf"] = "null" THEN Set("ccdIf", "live") ELSE UNCHANGED ptr
     \/ /\ May("memory") /\ ptr["ccdIf"] = "null"
        /\ Goto(Main, "CreateCcdIf", "FreeComponent") /\ UNCHANGED ptr
  /\ UNCHANGED <<after, console, connected, health, registered, manager, flags, commands>>

CreateLcbIf ==
  /\ \/ /\ Goto(Main, "CreateLcbIf", "CreateController")
        /\ IF ptr["lcbIf"] = "null" THEN Set("lcbIf", "live") ELSE UNCHANGED ptr
     \/ /\ May("memory") /\ ptr["lcbIf"] = "null"
        /\ Goto(Main, "CreateLcbIf", "FreeCcdIf") /\ UNCHANGED ptr
  /\ UNCHANGED <<after, console, connected, health, registered, manager, flags, commands>>

\* A mutant of CreateController: a failure leaves what was made so far.
CreateControllerHalf ==
  /\ Goto(Main, "CreateController", "Engage")
  /\ \/ Set("controller", "live")
     \/ May("memory") /\ Set("controller", "null")
  /\ UNCHANGED <<after, console, connected, health, registered, manager, flags, commands>>

\* The pointer to a controller that cannot be made is NULL.
CreateController ==
  /\ \/ Goto(Main, "CreateController", "Engage") /\ Set("controller", "live")
     \/ /\ May("memory")
        /\ Goto(Main, "CreateController", "FreeLcbIf") /\ Set("controller", "null")
  /\ UNCHANGED <<after, console, connected, health, registered, manager, flags, commands>>

\* What cannot be made is an error: what was made so far is freed and reset, the last
\* one first.
Undo ==
  /\ \/ FreeAt(Main, "FreeLcbIf", "ResetLcbIf", {"lcbIf"})
     \/ Goto(Main, "ResetLcbIf", "FreeCcdIf") /\ Set("lcbIf", "null")
     \/ FreeAt(Main, "FreeCcdIf", "ResetCcdIf", {"ccdIf"})
     \/ Goto(Main, "ResetCcdIf", "FreeComponent") /\ Set("ccdIf", "null")
     \/ FreeAt(Main, "FreeComponent", "ResetComponent", {"component"})
     \/ Goto(Main, "ResetComponent", "Engage") /\ Set("component", "null")
  /\ UNCHANGED <<after, console, connected, health, registered, manager, flags, commands>>

\* A mutant of Engage: without a component it returns an error, which is dropped.
EngageIfCreated ==
  /\ IF ptr["component"] = "live"
     THEN Goto(Main, "Engage", "VlanManagerInit") /\ health' = "Yellow"
     ELSE Goto(Main, "Engage", after[Main]) /\ UNCHANGED health
  /\ UNCHANGED <<after, console, connected, ptr, registered, manager, flags, commands>>

\* The component, and after it the controller, is used without a test.
Engage ==
  /\ IF ptr["component"] = "live" /\ ptr["controller"] = "live"
     THEN Goto(Main, "Engage", "VlanManagerInit") /\ health' = "Yellow"
     ELSE Crash(Main, "Engage") /\ UNCHANGED health
  /\ UNCHANGED <<after, console, connected, ptr, registered, manager, flags, commands>>

\* A mutant of Register: the answer is not looked at.
RegisterGreen ==
  /\ Goto(Main, "Register", "SetGreen")
  /\ registered' \in {TRUE} \cup (IF May("register") THEN {registered} ELSE {})
  /\ UNCHANGED <<after, console, connected, ptr, health, manager, flags, commands>>

\* RegisterCcspDataModel2, the last call of ssp_engage.
Register ==
  /\ IF ptr["controller"] = "live"
     THEN \/ Goto(Main, "Register", "SetGreen") /\ registered' = TRUE
          \/ /\ May("register")
             /\ Goto(Main, "Register", after[Main])
             /\ UNCHANGED registered
     ELSE Crash(Main, "Register") /\ UNCHANGED registered
  /\ UNCHANGED <<after, console, connected, ptr, health, manager, flags, commands>>

SetGreen ==
  /\ IF ptr["component"] = "live"
     THEN Goto(Main, "SetGreen", after[Main]) /\ health' = "Green"
     ELSE Crash(Main, "SetGreen") /\ UNCHANGED health
  /\ UNCHANGED <<after, console, connected, ptr, registered, manager, flags, commands>>

-----------------------------------------------------------------------------
(* VlanManager_Init, called by the controller while it is engaged, and
   COSA_MemoryCheck, which builds the objects again *)

\* A function the plug-in needs may be missing in the library: nothing is built.
VlanManagerInit ==
  /\ \/ Goto(Main, "VlanManagerInit", "BackEndManagerCreate")
     \/ May("plugin") /\ Goto(Main, "VlanManagerInit", "Register")
  /\ UNCHANGED <<after, console, connected, component, manager, flags, commands>>

\* Where the builder of the objects goes on.
Built(p) == IF p = Main THEN "Register" ELSE "idle"

BackEndManagerCreate(p) ==
  /\ \/ /\ Goto(p, "BackEndManagerCreate", "VlanCreate")
        /\ manager' = [NoManager EXCEPT !.made = TRUE]
     \/ /\ May("memory")
        /\ Goto(p, "BackEndManagerCreate", Built(p))
        /\ manager' = NoManager
  /\ UNCHANGED <<after, console, connected, component, flags, commands>>

\* Without the first object the second is not made.  Neither looks at the result of
\* its own Initialize.
VlanCreate(p) ==
  /\ \/ /\ Goto(p, "VlanCreate", "EthernetCreate")
        /\ manager' = [manager EXCEPT !.hVLAN = TRUE]
     \/ /\ May("memory")
        /\ Goto(p, "VlanCreate", Built(p))
        /\ UNCHANGED manager
  /\ UNCHANGED <<after, console, connected, component, flags, commands>>

EthernetCreate(p) ==
  /\ Goto(p, "EthernetCreate", Built(p))
  /\ \/ manager' = [manager EXCEPT !.hEth = TRUE]
     \/ May("memory") /\ UNCHANGED manager
  /\ UNCHANGED <<after, console, connected, component, flags, commands>>

-----------------------------------------------------------------------------
(* The rest of main() *)

CdmInit ==
  /\ \/ Goto(Main, "CdmInit", "Notify")
     \/ May("cdm") /\ Stop(Main, "CdmInit", 1)
  /\ UNCHANGED <<after, console, connected, component, manager, flags, commands>>

\* "READY=1", and then the loop that sleeps or reads commands.
Notify ==
  /\ Goto(Main, "Notify", "idle")
  /\ ready' = TRUE
  /\ UNCHANGED <<after, console, connected, component, manager, recalled, commands>>

\* A thread is given something to do.
Begin(p, l, m) ==
  /\ exit = -1 /\ pc[p] = "idle"
  /\ commands < MaxCommands
  /\ commands' = commands + 1
  /\ pc' = [pc EXCEPT ![p] = l]
  /\ after' = [after EXCEPT ![p] = m]
  /\ UNCHANGED <<exit, overlapped>>

\* The commands 'e', 'c' and 'q'; 'm' and 't' only print.
Command ==
  /\ console
  /\ \/ Begin(Main, "MessageBusEngage", "idle")
     \/ Begin(Main, "CancelTest", "idle")
     \/ Begin(Main, "CdmTerm", "DelMutex")
  /\ UNCHANGED <<console, connected, component, manager, flags>>

CdmTerm ==
  /\ \/ Goto(Main, "CdmTerm", "CancelTest")
     \/ May("cdm") /\ Stop(Main, "CdmTerm", 1)
  /\ UNCHANGED <<after, console, connected, component, manager, flags, commands>>

DelMutex ==
  /\ Stop(Main, "DelMutex", 0)
  /\ UNCHANGED <<after, console, connected, component, manager, flags, commands>>

\* SIGTERM, SIGINT and the like, from when sig_handler is installed.
Signal ==
  /\ pc[Main] \notin {"Daemonize", "WritePid"}
  /\ Stop(Main, pc[Main], 0)
  /\ UNCHANGED <<after, console, connected, component, manager, flags, commands>>

-----------------------------------------------------------------------------
(* ssp_cancel, on either thread *)

CancelTest(p) ==
  /\ Goto(p, "CancelTest", IF ptr["component"] = "null" THEN after[p] ELSE "Unregister")
  /\ recalled' = (recalled \/ (p = Bus /\ ptr["component"] # "null"))
  /\ UNCHANGED <<after, console, connected, component, manager, ready, commands>>

Unregister(p) ==
  /\ Goto(p, "Unregister", "CancelController")
  /\ registered' = FALSE
  /\ UNCHANGED <<after, console, connected, ptr, health, manager, flags, commands>>

\* The controller is cancelled and freed.
CancelController(p) ==
  /\ IF ptr["controller"] = "live"
     THEN Goto(p, "CancelController", "CancelFree") /\ Set("controller", "freed")
     ELSE Crash(p, "CancelController") /\ UNCHANGED ptr
  /\ UNCHANGED <<after, console, connected, health, registered, manager, flags, commands>>

CancelFree(p) ==
  /\ FreeAt(p, "CancelFree", "ClearComponent", {"ccdIf", "component"})
  /\ UNCHANGED <<after, console, connected, health, registered, manager, flags, commands>>

\* A mutant of CancelClear: the component is not reset.
CancelClearHalf(p) ==
  /\ \/ Goto(p, "ClearComponent", "ClearCcdIf") /\ UNCHANGED ptr
     \/ Goto(p, "ClearCcdIf", "ClearController") /\ Set("ccdIf", "null")
     \/ Goto(p, "ClearController", after[p]) /\ Set("controller", "null")
  /\ UNCHANGED <<after, console, connected, health, registered, manager, flags, commands>>

\* Three assignments.  pDslhLcbIf stays, for the next ssp_create to find.
CancelClear(p) ==
  /\ \/ Goto(p, "ClearComponent", "ClearCcdIf") /\ Set("component", "null")
     \/ Goto(p, "ClearCcdIf", "ClearController") /\ Set("ccdIf", "null")
     \/ Goto(p, "ClearController", after[p]) /\ Set("controller", "null")
  /\ UNCHANGED <<after, console, connected, health, registered, manager, flags, commands>>

-----------------------------------------------------------------------------
(* Calls on the thread of the message bus *)

\* ssp_Mbi_Finalize, or ssp_Mbi_FreeResources with a high priority.
Finalize ==
  /\ connected
  /\ Begin(Bus, "CancelTest", "idle")
  /\ UNCHANGED <<console, connected, component, manager, flags>>

\* The library calls COSA_MemoryCheck for a plug-in it has loaded.
StartMemoryCheck ==
  /\ registered
  /\ Begin(Bus, "MemoryCheck", "idle")
  /\ UNCHANGED <<console, connected, component, manager, flags>>

\* BackEndManagerRemove frees the VLAN object and the manager.  The tables stay
\* allocated, for workers that still hold entries of them.
MemoryCheck ==
  /\ IF manager.made
     THEN Goto(Bus, "MemoryCheck", "BackEndManagerCreate") /\ manager' = NoManager
     ELSE Crash(Bus, "MemoryCheck") /\ UNCHANGED manager
  /\ UNCHANGED <<after, console, connected, component, flags, commands>>

\* VlanManager_Unload: nothing to remove is an error that is not passed on.
Unload ==
  /\ registered
  /\ Begin(Bus, "idle", "idle")
  /\ manager' = NoManager
  /\ UNCHANGED <<console, connected, component, flags>>

\* ssp_CcdIfGetComponentHealth and the other functions of pSsdCcdIf are called for a
\* registered component, and use it without a test.
StartGetHealth ==
  /\ registered
  /\ Begin(Bus, "GetHealth", "idle")
  /\ UNCHANGED <<console, connected, component, manager, flags>>

GetHealth ==
  /\ IF ptr["component"] = "live" /\ ptr["ccdIf"] = "live"
     THEN Goto(Bus, "GetHealth", "idle")
     ELSE Crash(Bus, "GetHealth")
  /\ UNCHANGED <<after, console, connected, component, manager, flags, commands>>

-----------------------------------------------------------------------------

Next ==
  \/ Daemonize \/ WritePid
  \/ MessageBusEngage \/ CreateComponent \/ CreateCcdIf \/ CreateLcbIf
  \/ CreateController \/ Undo \/ Engage \/ VlanManagerInit \/ Register \/ SetGreen
  \/ \E p \in Procs : BackEndManagerCreate(p) \/ VlanCreate(p) \/ EthernetCreate(p)
  \/ CdmInit \/ Notify \/ Command \/ CdmTerm \/ DelMutex \/ Signal
  \/ \E p \in Procs :
       \/ CancelTest(p) \/ Unregister(p) \/ CancelController(p)
       \/ CancelFree(p) \/ CancelClear(p)
  \/ Finalize \/ StartMemoryCheck \/ MemoryCheck \/ Unload \/ StartGetHealth \/ GetHealth

Spec == Init /\ [][Next]_vars

-----------------------------------------------------------------------------
(* Properties *)

\* Wherever ssp_create gave up, and however often the component was cancelled and created
\* again: as long as no ssp_create ran into an ssp_cancel of the other thread, a component
\* that is there when neither is in the middle has its interfaces and its controller
\* (ssp_action.c 83-179, 230-269).
ComponentIsWhole ==
  ~ overlapped /\ (\A p \in Procs : pc[p] \notin Midway) /\ ptr["component"] # "null" =>
    \A x \in Pointers : ptr[x] = "live"

\* Between a free and the reset of the pointer.
Dangling == Cancelling \cup {"ResetLcbIf", "ResetCcdIf", "ResetComponent"}

\* Creating and cancelling by command, by the bus and at the end, in any order, at the same
\* time and more than once, leaves no pointer to freed memory behind: who frees twice or
\* uses what was freed does so while the other thread is between a free and its reset; any
\* other crash is one of a NULL pointer (ssp_action.c 167-173, 240-243, 260-266).
NoUseAfterFree ==
  \A p \in Procs : pc[p] = "bad" /\ (\E x \in Pointers : ptr[x] = "freed") =>
    \E q \in Procs \ {p} : pc[q] \in Dangling

\* While the process runs, a component that says Green is in the registry, or one of the
\* threads is about to free it (ssp_action.c 213-224, 257-264).
GreenIsRegistered ==
  exit = -1 /\ ptr["component"] = "live" /\ health = "Green" =>
    registered \/ \E p \in Procs : pc[p] \in {"CancelController", "CancelFree"}

\* systemd is told READY without a component and a controller only if the bus has cancelled
\* them in the meantime: a failed ssp_create, whose result main() drops, does not get that
\* far, and a call of the bus before there was a component does no harm (ssp_main.c 105-106,
\* 303-322).
ReadyHasComponent ==
  [][ready' /\ ~ready =>
       recalled \/ (ptr["component"] = "live" /\ ptr["controller"] = "live")]_vars
=============================================================================
