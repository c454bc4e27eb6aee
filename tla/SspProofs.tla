------------------------------ MODULE SspProofs ------------------------------
(* Theorems about SspLifecycle, for any faults, any number of commands and any
   interleaving of main with the thread of the bus. *)
EXTENDS SspLifecycle, TLAPS

Cells == {"null", "live", "freed"}
Building == {"BackEndManagerCreate", "VlanCreate", "EthernetCreate"}

\* Where what a pointer points to is freed and the pointer not reset yet.
Window ==
  [component  |-> {"ClearComponent", "ResetComponent"},
   ccdIf      |-> {"ClearComponent", "ClearCcdIf", "ResetCcdIf"},
   lcbIf      |-> {"ResetLcbIf"},
   controller |-> Cancelling]

Types ==
  /\ pc \in [Procs -> Labels]
  /\ after \in [Procs -> {"CdmInit", "idle", "DelMutex"}]
  /\ after[Bus] = "idle"
  /\ ptr \in [Pointers -> Cells]
  /\ pc[Bus] \notin Creating

\* While the process runs, whoever freed something is about to reset the pointer.
InTime ==
  exit = -1 =>
    /\ \A p \in Procs : pc[p] # "bad"
    /\ \A x \in Pointers : ptr[x] = "freed" => \E p \in Procs : pc[p] \in Window[x]

\* What the pointers are on the way through ssp_create and ssp_cancel.
Shape ==
  ~ overlapped =>
    /\ \E p \in Procs : pc[p] \notin Midway
    /\ (\A p \in Procs : pc[p] \notin Midway) /\ ptr["component"] # "null" =>
         \A x \in Pointers : ptr[x] = "live"
    /\ pc[Main] = "CreateCcdIf" => ptr["component"] = "live"
    /\ pc[Main] = "CreateLcbIf" => ptr["component"] = "live" /\ ptr["ccdIf"] = "live"
    /\ pc[Main] = "CreateController" =>
         \A x \in Pointers \ {"controller"} : ptr[x] = "live"
    /\ \A p \in Procs :
         pc[p] \in {"ClearCcdIf", "ClearController"} => ptr["component"] = "null"

\* The component is in the registry, or going.
Going ==
  registered \/ \E p \in Procs : pc[p] \in {"CancelController", "CancelFree"}

Green ==
  exit = -1 /\ ptr["component"] = "live" =>
    (health = "Green" \/ pc[Main] = "SetGreen" => Going)

\* Where main is before it says READY, and from Engaged on.
Engaged == Building \cup {"VlanManagerInit", "Register", "SetGreen", "CdmInit", "Notify"}
Starting ==
  Creating \cup Engaged
  \cup {"Daemonize", "WritePid", "MessageBusEngage", "CreateComponent", "Engage"}

Start ==
  exit = -1 /\ ~ ready =>
    /\ pc[Main] \in Starting /\ after[Main] = "CdmInit"
    /\ ~ recalled =>
         /\ pc[Bus] \notin Cancelling \cup {"Unregister", "CancelController"}
         /\ pc[Main] \in Engaged => ptr["component"] = "live" /\ ptr["controller"] = "live"

IInv == Types /\ InTime /\ NoUseAfterFree /\ Shape /\ Green /\ Start

-----------------------------------------------------------------------------

LEMMA InitIInv == Init => IInv
BY SspAssumption
DEF Init, IInv, Types, InTime, NoUseAfterFree, Shape, Green, Start, Procs, Labels, Pointers,
    Cells, Creating, Cancelling, Midway, Starting, Engaged, Building

\* Nothing happens after the process has ended.
LEMMA Ended == ASSUME IInv, UNCHANGED vars PROVE IInv'
BY DEF vars, flags, component, IInv, Types, InTime, NoUseAfterFree, Shape, Green, Going, Start

-----------------------------------------------------------------------------
(* The four ways a thread takes a step, where the component is left alone *)

\* A thread that goes to m, outside ssp_create and ssp_cancel.
LEMMA Walks ==
  ASSUME IInv, exit = -1, NEW p \in Procs, NEW m \in Labels \ (Midway \cup {"bad"}),
         pc' = [pc EXCEPT ![p] = m],
         pc[p] \notin Midway \cup {"CancelController"},
         m \notin Creating \cup {"SetGreen", "CancelController"},
         UNCHANGED <<exit, component>>, overlapped' => overlapped, overlapped => overlapped',
         after' \in [Procs -> {"CdmInit", "idle", "DelMutex"}], after'[Bus] = "idle"
  PROVE  Types' /\ InTime' /\ NoUseAfterFree' /\ Shape' /\ Green'
<1> USE DEF IInv, component
<1>1. Types'
  BY SspAssumption DEF Types, Procs, Creating
<1>2. /\ \A q \in Procs : pc'[q] # "bad"
      /\ \A q \in Procs : pc[q] \in Midway \cup {"CancelController"} => pc'[q] = pc[q]
      /\ \A q \in Procs : pc'[q] \in Midway \cup {"SetGreen"} => pc'[q] = pc[q]
  BY DEF Types, InTime
<1>3. InTime' /\ NoUseAfterFree'
  BY <1>2 DEF InTime, NoUseAfterFree, Window, Pointers, Midway, Creating, Cancelling
<1>4. Shape'
  BY <1>2, SspAssumption DEF Shape, Procs, Midway, Creating, Cancelling
<1>5. Green'
  BY <1>2, SspAssumption DEF Green, Going, Procs, Midway, Cancelling
<1> QED
  BY <1>1, <1>3, <1>4, <1>5

\* exit(), or the return of main.
LEMMA Stops ==
  ASSUME IInv, NEW p \in Procs, NEW l, NEW s \in 0..1, Stop(p, l, s),
         UNCHANGED <<after, component>>
  PROVE  IInv'
BY DEF Stop, component, IInv, Types, InTime, NoUseAfterFree, Shape, Green, Start

\* A crash: what is dangling is dangling for the other thread.
LEMMA Crashes ==
  ASSUME IInv, NEW p \in Procs, NEW l \in Labels, Crash(p, l), UNCHANGED <<after, ptr>>,
         l \notin Creating \/ (\E x \in Pointers : ptr[x] = "freed" /\ l \notin Window[x]),
         l \in Cancelling => \E x \in Pointers : ptr[x] = "freed" /\ l \notin Window[x],
         l \notin {"ResetLcbIf", "ResetCcdIf", "ResetComponent"}
  PROVE  IInv'
<1> USE DEF IInv, Crash
<1>1. Types' /\ InTime' /\ Green' /\ Start'
  BY SspAssumption DEF Types, InTime, Green, Start, Labels, Creating, Procs
<1>2. \A x \in Pointers : Window[x] \subseteq Dangling /\ Window[x] \subseteq Midway
  BY DEF Window, Pointers, Dangling, Midway, Cancelling, Creating
<1>3. \A x \in Pointers : ptr[x] = "freed" => \E q \in Procs : pc[q] \in Window[x]
  BY DEF InTime
<1>4. (\E x \in Pointers : ptr[x] = "freed") =>
        \E q \in Procs \ {p} : \E x \in Pointers : pc[q] \in Window[x]
  <2> SUFFICES ASSUME NEW x \in Pointers, ptr[x] = "freed"
               PROVE  \E q \in Procs \ {p} : \E y \in Pointers : pc[q] \in Window[y]
    OBVIOUS
  <2>1. CASE l \in Creating \cup Cancelling
    <3>1. PICK y \in Pointers : ptr[y] = "freed" /\ l \notin Window[y]
      BY <2>1
    <3> QED
      BY <1>3, <3>1
  <2>2. CASE l \notin Creating \cup Cancelling
    BY <1>2, <1>3, <2>2 DEF Midway
  <2> QED
    BY <2>1, <2>2
<1>5. NoUseAfterFree'
  BY <1>2, <1>4 DEF NoUseAfterFree, Types, InTime
<1>6. Shape'
  <2>1. l \in Midway => overlapped
    <3> SUFFICES ASSUME l \in Midway, ~ overlapped PROVE FALSE
      OBVIOUS
    <3>1. \E x \in Pointers : ptr[x] = "freed"
      BY DEF Midway
    <3>2. PICK q \in Procs \ {p} : pc[q] \in Midway
      BY <1>2, <1>4, <3>1
    <3> QED
      BY <3>2, SspAssumption DEF Shape, Procs
  <2>2. "bad" \notin Midway /\ pc' = [pc EXCEPT ![p] = "bad"]
    BY DEF Midway, Creating, Cancelling
  <2> QED
    BY <2>1, <2>2, SspAssumption DEF Shape, Types, Procs, Midway, Creating, Cancelling
<1> QED
  BY <1>1, <1>5, <1>6

LEMMA GotoWalks ==
  ASSUME IInv, NEW p \in Procs, NEW l, NEW m \in Labels \ (Midway \cup {"bad"}), Goto(p, l, m),
         l \notin Midway \cup {"CancelController"},
         m \notin Creating \cup {"SetGreen", "CancelController"},
         UNCHANGED <<after, component>>
  PROVE  Types' /\ InTime' /\ NoUseAfterFree' /\ Shape' /\ Green'
<1>1. overlapped' => overlapped
  BY SspAssumption DEF Goto, IInv, Types
<1> QED
  BY <1>1, Walks DEF Goto, IInv, Types

-----------------------------------------------------------------------------
(* Steps that leave the component alone *)

LEMMA MainSteps ==
  ASSUME IInv,
         \/ Daemonize \/ WritePid \/ MessageBusEngage \/ VlanManagerInit
         \/ CdmInit \/ Notify \/ CdmTerm \/ DelMutex \/ Signal
  PROVE  IInv'
<1>0. Main \in Procs
  BY DEF Procs
<1>1. UNCHANGED <<after, component>>
  BY DEF Daemonize, WritePid, MessageBusEngage, VlanManagerInit, CdmInit, Notify, CdmTerm,
         DelMutex, Signal
<1>2. CASE \E l : \E s \in 0..1 : Stop(Main, l, s)
  BY <1>0, <1>1, <1>2, Stops
<1>3. CASE ~ \E l : \E s \in 0..1 : Stop(Main, l, s)
  <2>1. PICK l, m \in Labels :
          /\ Goto(Main, l, m) /\ l \notin Midway \cup {"CancelController"}
          /\ m \notin Midway \cup {"bad", "SetGreen", "CancelController"}
          /\ m \in Engaged => l \in Engaged
          /\ l \in Starting => m \in Starting \/ ready'
    BY <1>3
    DEF Daemonize, WritePid, MessageBusEngage, VlanManagerInit, CdmInit, Notify, CdmTerm,
        DelMutex, Signal, Labels, Midway, Creating, Cancelling, Starting, Engaged, Building
  <2>2. Types' /\ InTime' /\ NoUseAfterFree' /\ Shape' /\ Green'
    BY <1>0, <1>1, <2>1, GotoWalks DEF Midway
  <2>3. (ready => ready') /\ (recalled => recalled')
    BY DEF Daemonize, WritePid, MessageBusEngage, VlanManagerInit, CdmInit, Notify, CdmTerm,
           DelMutex, Signal, flags
  <2>4. Start'
    BY <1>1, <2>1, <2>3, SspAssumption DEF Goto, IInv, Start, Types, Procs, component
  <2> QED
    BY <2>2, <2>4 DEF IInv
<1> QED
  BY <1>2, <1>3

LEMMA BuilderSteps ==
  ASSUME IInv, NEW p \in Procs,
         BackEndManagerCreate(p) \/ VlanCreate(p) \/ EthernetCreate(p)
  PROVE  IInv'
<1>1. UNCHANGED <<after, component, flags>>
  BY DEF BackEndManagerCreate, VlanCreate, EthernetCreate
<1>2. PICK l \in Building, m \in {"VlanCreate", "EthernetCreate", Built(p)} : Goto(p, l, m)
  BY DEF BackEndManagerCreate, VlanCreate, EthernetCreate, Building
<1>3. /\ m \in Labels /\ l \notin Midway \cup {"CancelController"}
      /\ m \notin Midway \cup {"bad", "SetGreen", "CancelController"}
      /\ p = Main => m \in Engaged
      /\ l \in Engaged
      /\ m \notin Cancelling \cup {"Unregister", "CancelController"}
  BY DEF Labels, Built, Midway, Creating, Cancelling, Building, Engaged
<1>4. Types' /\ InTime' /\ NoUseAfterFree' /\ Shape' /\ Green'
  BY <1>1, <1>2, <1>3, GotoWalks DEF Midway
<1>5. Start'
  BY <1>1, <1>2, <1>3, SspAssumption
  DEF Goto, IInv, Start, Types, Procs, component, flags, Starting
<1> QED
  BY <1>4, <1>5 DEF IInv

LEMMA BeginStep ==
  ASSUME IInv, NEW p \in Procs, NEW m \in {"idle", "DelMutex"},
         NEW l \in {"MessageBusEngage", "CancelTest", "CdmTerm", "MemoryCheck", "idle",
                    "GetHealth"},
         Begin(p, l, m), p = Bus => m = "idle", UNCHANGED <<component, flags>>
  PROVE  IInv'
<1>1. /\ l \in Labels \ (Midway \cup {"bad"})
      /\ l \notin Creating \cup {"SetGreen", "CancelController"}
      /\ "idle" \notin Midway \cup {"CancelController"} \cup Starting
      /\ l \notin Cancelling \cup {"Unregister", "CancelController"}
  BY DEF Labels, Midway, Creating, Cancelling, Starting, Engaged, Building
<1>2. /\ after' \in [Procs -> {"CdmInit", "idle", "DelMutex"}] /\ after'[Bus] = "idle"
      /\ p # Main => after'[Main] = after[Main]
  BY SspAssumption DEF Begin, IInv, Types, Procs
<1>3. Types' /\ InTime' /\ NoUseAfterFree' /\ Shape' /\ Green'
  BY <1>1, <1>2, Walks DEF Begin
<1>4. Start'
  BY <1>1, <1>2, SspAssumption DEF Begin, IInv, Start, Types, Procs, component, flags
<1> QED
  BY <1>3, <1>4 DEF IInv

\* Commands, and the calls of the bus that cancel nothing.
LEMMA BusSteps ==
  ASSUME IInv,
         \/ Command \/ Finalize \/ StartMemoryCheck \/ MemoryCheck \/ Unload
         \/ StartGetHealth \/ GetHealth
  PROVE  IInv'
<1>0. Main \in Procs /\ Bus \in Procs /\ Main # Bus
  BY SspAssumption DEF Procs
<1>1. CASE Command
  BY <1>0, <1>1, BeginStep DEF Command, flags
<1>2. CASE Finalize \/ StartMemoryCheck \/ Unload \/ StartGetHealth
  BY <1>0, <1>2, BeginStep DEF Finalize, StartMemoryCheck, Unload, StartGetHealth, flags
<1>3. CASE MemoryCheck \/ GetHealth
  <2>1. UNCHANGED <<after, component, flags>>
    BY <1>3 DEF MemoryCheck, GetHealth
  <2>2. PICK l \in {"MemoryCheck", "GetHealth"} :
          Crash(Bus, l) \/ Goto(Bus, l, "BackEndManagerCreate") \/ Goto(Bus, l, "idle")
    BY <1>3 DEF MemoryCheck, GetHealth
  <2>3. l \in Labels /\ l \notin Midway \cup {"CancelController"}
    BY DEF Labels, Midway, Creating, Cancelling
  <2>4. CASE Crash(Bus, l)
    BY <1>0, <2>1, <2>3, <2>4, Crashes DEF component, Midway, Creating
  <2>5. ASSUME NEW m \in {"BackEndManagerCreate", "idle"}, Goto(Bus, l, m) PROVE IInv'
    <3>1. /\ m \in Labels \ (Midway \cup {"bad"})
          /\ m \notin Creating \cup {"SetGreen", "CancelController"}
          /\ m \notin Cancelling \cup {"Unregister", "CancelController"}
      BY DEF Labels, Midway, Creating, Cancelling
    <3>2. Types' /\ InTime' /\ NoUseAfterFree' /\ Shape' /\ Green'
      BY <1>0, <2>1, <2>3, <2>5, <3>1, GotoWalks
    <3>3. Start'
      BY <1>0, <2>1, <2>5, <3>1 DEF Goto, IInv, Start, Types, component, flags
    <3> QED
      BY <3>2, <3>3 DEF IInv
  <2> QED
    BY <2>2, <2>4, <2>5
<1> QED
  BY <1>1, <1>2, <1>3

-----------------------------------------------------------------------------
(* ssp_create *)

\* A step of main in ssp_create: everything but Shape and InTime.
LEMMA CreateWalks ==
  ASSUME IInv, exit = -1, UNCHANGED <<after, exit, registered, flags>>,
         NEW m \in Creating \cup {"Engage"}, pc' = [pc EXCEPT ![Main] = m],
         pc[Main] \in Creating \cup {"CreateComponent"},
         ptr' \in [Pointers -> Cells],
         \/ UNCHANGED health /\ (ptr'["component"] = "live" => ptr["component"] = "live")
         \/ health' = "Red"
  PROVE  Types' /\ NoUseAfterFree' /\ Green' /\ Start'
<1> USE DEF IInv
<1>1. /\ m \in Labels \ {"bad", "SetGreen", "CancelController", "CancelFree"}
      /\ m \in Starting /\ m \notin Engaged
      /\ pc[Main] \notin {"CancelController", "CancelFree"}
  BY DEF Labels, Creating, Starting, Engaged, Building
<1>2. pc' \in [Procs -> Labels] /\ pc'[Main] = m /\ pc'[Bus] = pc[Bus]
  BY <1>1, SspAssumption DEF Types, Procs
<1>3. Types'
  BY <1>2 DEF Types
<1>4. NoUseAfterFree'
  BY <1>1, <1>2 DEF NoUseAfterFree, InTime, Procs
<1>5. Green'
  BY <1>1, <1>2 DEF Green, Going, Procs
<1>6. Start'
  BY <1>1, <1>2 DEF Start, flags
<1> QED
  BY <1>3, <1>4, <1>5, <1>6

\* What a step of ssp_create does to a pointer, and where it goes on.
LEMMA CreateSteps ==
  ASSUME IInv, CreateComponent \/ CreateCcdIf \/ CreateLcbIf \/ CreateController
  PROVE  IInv'
<1> Main \in Procs /\ Bus \in Procs /\ Procs = {Main, Bus} /\ Main # Bus
  BY SspAssumption DEF Procs
<1>1. PICK l \in {"CreateComponent", "CreateCcdIf", "CreateLcbIf", "CreateController"},
           m \in Creating \cup {"Engage"} : Goto(Main, l, m)
  BY DEF CreateComponent, CreateCcdIf, CreateLcbIf, CreateController, Creating
<1>2. UNCHANGED <<after, registered, flags>>
  BY DEF CreateComponent, CreateCcdIf, CreateLcbIf, CreateController
<1>3. /\ ptr' \in [Pointers -> Cells]
      /\ \A x \in Pointers : ptr'[x] = "freed" => ptr[x] = "freed"
      /\ \/ UNCHANGED health /\ (ptr'["component"] = "live" => ptr["component"] = "live")
         \/ health' = "Red"
  BY DEF CreateComponent, CreateCcdIf, CreateLcbIf, CreateController, Set, IInv, Types,
         Pointers, Cells
<1>4. /\ exit = -1 /\ exit' = -1 /\ pc[Main] = l /\ pc' = [pc EXCEPT ![Main] = m]
      /\ ~ overlapped' => ~ overlapped /\ \E p \in Procs : pc'[p] \notin Midway
      /\ pc'[Main] = m /\ pc'[Bus] = pc[Bus]
  BY <1>1 DEF Goto, IInv, Types
<1>5. Types' /\ NoUseAfterFree' /\ Green' /\ Start'
  BY <1>1, <1>2, <1>3, <1>4, CreateWalks DEF Creating
<1>6. InTime'
  <2>1. m # "bad" /\ \A x \in Pointers : l \notin Window[x]
    BY <1>1 DEF Creating, Window, Pointers, Cancelling
  <2> QED
    BY <1>3, <1>4, <2>1 DEF IInv, InTime
<1>7. ASSUME ~ overlapped', l # "CreateComponent"
      PROVE  pc[Bus] \notin Midway /\ \A x \in Pointers : ptr[x] # "freed"
  <2>1. l \in Midway /\ \A x \in Pointers : Window[x] \subseteq Midway /\ l \notin Window[x]
    BY <1>1, <1>7 DEF Midway, Creating, Cancelling, Window, Pointers
  <2> QED
    BY <1>4, <1>7, <2>1 DEF IInv, Shape, InTime
<1>8. Shape'
  <2> SUFFICES ASSUME ~ overlapped'
               PROVE  Shape'
    BY DEF Shape
  <2>1. ~ overlapped /\ \E p \in Procs : pc'[p] \notin Midway
    BY <1>4
  <2>2. ptr \in [Pointers -> Cells] /\ pc \in [Procs -> Labels]
    BY DEF IInv, Types
  <2>3. CASE CreateComponent
    <3>1. \/ m = "CreateCcdIf" /\ ptr' = [ptr EXCEPT !["component"] = "live"]
          \/ m = "Engage" /\ ptr' = [ptr EXCEPT !["component"] = "null"]
      BY <1>4, <2>2, <2>3 DEF CreateComponent, Goto, Set
    <3>2. m = "CreateCcdIf" => pc'[Bus] \notin Midway
      BY <1>4, <2>1, <3>1 DEF Midway, Creating
    <3>3. /\ {"ClearCcdIf", "ClearController"} \subseteq Midway
          /\ "CreateCcdIf" \in Midway /\ "Engage" \notin Midway
      BY DEF Midway, Creating, Cancelling
    <3> QED
      BY <1>4, <2>1, <2>2, <3>1, <3>2, <3>3 DEF Shape, Pointers
  <2>4. CASE CreateCcdIf \/ CreateLcbIf \/ CreateController
    <3>1. l # "CreateComponent" /\ pc[Bus] \notin {"ClearCcdIf", "ClearController"}
          /\ (\A x \in Pointers : ptr[x] # "freed") /\ pc[Bus] \notin Midway
      <4>1. l # "CreateComponent"
        BY <1>4, <2>4 DEF CreateCcdIf, CreateLcbIf, CreateController, Goto
      <4> QED
        BY <1>7, <4>1 DEF Midway, Cancelling
    <3>2. /\ l = "CreateCcdIf" => ptr["component"] = "live"
          /\ l = "CreateLcbIf" => ptr["component"] = "live" /\ ptr["ccdIf"] = "live"
          /\ l = "CreateController" => \A x \in Pointers \ {"controller"} : ptr[x] = "live"
      BY <1>4, <2>1 DEF IInv, Shape
    <3>3. \/ /\ l = "CreateCcdIf" /\ m = "CreateLcbIf"
             /\ ptr' = IF ptr["ccdIf"] = "null" THEN [ptr EXCEPT !["ccdIf"] = "live"] ELSE ptr
          \/ /\ l = "CreateLcbIf" /\ m = "CreateController"
             /\ ptr' = IF ptr["lcbIf"] = "null" THEN [ptr EXCEPT !["lcbIf"] = "live"] ELSE ptr
          \/ /\ l = "CreateController" /\ m = "Engage"
             /\ ptr' = [ptr EXCEPT !["controller"] = "live"]
          \/ m \in {"FreeLcbIf", "FreeCcdIf", "FreeComponent"}
      BY <1>4, <2>2, <2>4 DEF CreateCcdIf, CreateLcbIf, CreateController, Goto, Set
    <3> QED
      BY <1>4, <2>1, <2>2, <3>1, <3>2, <3>3 DEF Shape, Pointers, Cells, Midway, Creating, Cancelling
  <2> QED
    BY <2>3, <2>4
<1> QED
  BY <1>5, <1>6, <1>8 DEF IInv

\* A free or a reset on the way back.
LEMMA UndoWalks ==
  ASSUME IInv, NEW l \in Creating, NEW m \in Creating \cup {"Engage"}, NEW x \in Pointers,
         Goto(Main, l, m), UNCHANGED <<after, health, registered, flags>>,
         \/ /\ m \in Window[x] /\ \A y \in Pointers : l \notin Window[y]
            /\ ptr' = [ptr EXCEPT ![x] = IF ptr[x] = "live" THEN "freed" ELSE ptr[x]]
         \/ /\ ptr' = [ptr EXCEPT ![x] = "null"]
            /\ \A y \in Pointers \ {x} : l \notin Window[y],
         m = "Engage" => x = "component",
         m \notin {"CreateCcdIf", "CreateLcbIf", "CreateController"}
  PROVE  IInv'
<1> Main \in Procs /\ Bus \in Procs /\ Procs = {Main, Bus} /\ Main # Bus
  BY SspAssumption DEF Procs
<1>1. ptr \in [Pointers -> Cells]
  BY DEF IInv, Types
<1>2. /\ exit = -1 /\ exit' = -1 /\ pc[Main] = l /\ pc' = [pc EXCEPT ![Main] = m]
      /\ ~ overlapped' => ~ overlapped /\ \E p \in Procs : pc'[p] \notin Midway
      /\ pc'[Main] = m /\ pc'[Bus] = pc[Bus]
  BY DEF Goto, IInv, Types
<1>3. ptr' \in [Pointers -> Cells] /\ (ptr'["component"] = "live" => ptr["component"] = "live")
  BY <1>1 DEF Pointers, Cells
<1>4. Types' /\ NoUseAfterFree' /\ Green' /\ Start'
  BY <1>2, <1>3, CreateWalks
<1>5. m # "bad"
  BY DEF Creating
<1>6. InTime'
  BY <1>1, <1>2, <1>5 DEF IInv, InTime
<1>7. Shape'
  <2> SUFFICES ASSUME ~ overlapped' PROVE Shape'
    BY DEF Shape
  <2>1. l \in Midway /\ (m # "Engage" => m \in Midway)
    BY DEF Midway
  <2>2. pc[Bus] \notin Midway
    BY <1>2, <2>1 DEF IInv, Shape
  <2>3. m = "Engage" => ptr'["component"] = "null"
    BY <1>1 DEF Pointers, Window, Cancelling
  <2>4. {"ClearCcdIf", "ClearController"} \subseteq Midway
        /\ m \notin {"ClearCcdIf", "ClearController"}
    BY DEF Midway, Cancelling, Creating
  <2> QED
    BY <1>2, <2>1, <2>2, <2>3, <2>4 DEF Shape
<1> QED
  BY <1>4, <1>6, <1>7 DEF IInv

LEMMA UndoSteps == ASSUME IInv, Undo PROVE IInv'
<1> Main \in Procs
  BY DEF Procs
<1>1. UNCHANGED <<after, health, registered, flags>> /\ ptr \in [Pointers -> Cells]
  BY DEF Undo, IInv, Types
<1>2. ASSUME NEW l \in {"FreeLcbIf", "FreeCcdIf", "FreeComponent"},
             Crash(Main, l), UNCHANGED ptr, \E x \in Pointers : ptr[x] = "freed"
      PROVE  IInv'
  <2>1. /\ l \in Labels /\ l \notin Cancelling
        /\ l \notin {"ResetLcbIf", "ResetCcdIf", "ResetComponent"}
        /\ \A x \in Pointers : l \notin Window[x]
    BY DEF Labels, Cancelling, Window, Pointers
  <2> QED
    BY <1>1, <1>2, <2>1, Crashes
<1>3. ASSUME NEW x \in Pointers,
             NEW l \in {"FreeLcbIf", "FreeCcdIf", "FreeComponent"},
             NEW m \in {"ResetLcbIf", "ResetCcdIf", "ResetComponent"},
             m \in Window[x], FreeAt(Main, l, m, {x})
      PROVE  IInv'
  <2>1. CASE ptr[x] = "freed"
    BY <1>2, <1>3, <2>1 DEF FreeAt
  <2>2. CASE ptr[x] # "freed"
    <3>1. /\ Goto(Main, l, m)
          /\ ptr' = [ptr EXCEPT ![x] = IF ptr[x] = "live" THEN "freed" ELSE ptr[x]]
      BY <1>1, <1>3, <2>2 DEF FreeAt
    <3>2. /\ l \in Creating /\ m \in Creating /\ \A y \in Pointers : l \notin Window[y]
          /\ m \notin {"Engage", "CreateCcdIf", "CreateLcbIf", "CreateController"}
      BY DEF Creating, Window, Pointers, Cancelling
    <3> QED
      BY <1>1, <1>3, <3>1, <3>2, UndoWalks
  <2> QED
    BY <2>1, <2>2
<1>4. ASSUME NEW x \in Pointers,
             NEW l \in {"ResetLcbIf", "ResetCcdIf", "ResetComponent"},
             NEW m \in {"FreeCcdIf", "FreeComponent", "Engage"},
             l \in Window[x], m = "Engage" => x = "component",
             Goto(Main, l, m), Set(x, "null")
      PROVE  IInv'
  <2>1. /\ l \in Creating /\ m \in Creating \cup {"Engage"}
        /\ m \notin {"CreateCcdIf", "CreateLcbIf", "CreateController"}
        /\ \A y \in Pointers \ {x} : l \notin Window[y]
    BY <1>4 DEF Creating, Window, Pointers, Cancelling
  <2> QED
    BY <1>1, <1>4, <2>1, UndoWalks DEF Set
<1>5. /\ "ResetLcbIf" \in Window["lcbIf"] /\ "lcbIf" \in Pointers
      /\ "ResetCcdIf" \in Window["ccdIf"] /\ "ccdIf" \in Pointers
      /\ "ResetComponent" \in Window["component"] /\ "component" \in Pointers
  BY DEF Window, Pointers
<1>6. CASE \/ FreeAt(Main, "FreeLcbIf", "ResetLcbIf", {"lcbIf"})
           \/ FreeAt(Main, "FreeCcdIf", "ResetCcdIf", {"ccdIf"})
           \/ FreeAt(Main, "FreeComponent", "ResetComponent", {"component"})
  BY <1>3, <1>5, <1>6
<1>7. CASE \/ Goto(Main, "ResetLcbIf", "FreeCcdIf") /\ Set("lcbIf", "null")
           \/ Goto(Main, "ResetCcdIf", "FreeComponent") /\ Set("ccdIf", "null")
           \/ Goto(Main, "ResetComponent", "Engage") /\ Set("component", "null")
  BY <1>4, <1>5, <1>7
<1> QED
  BY <1>6, <1>7 DEF Undo

-----------------------------------------------------------------------------
(* ssp_engage *)

LEMMA EngageSteps == ASSUME IInv, Engage \/ Register \/ SetGreen PROVE IInv'
<1> Main \in Procs /\ Bus \in Procs /\ Procs = {Main, Bus} /\ Main # Bus
  BY SspAssumption DEF Procs
<1>1. UNCHANGED <<after, ptr, flags>>
  BY DEF Engage, Register, SetGreen
<1>2. CASE \E l \in {"Engage", "Register", "SetGreen"} : Crash(Main, l)
  <2>1. PICK l \in {"Engage", "Register", "SetGreen"} : Crash(Main, l)
    BY <1>2
  <2>2. l \in Labels /\ l \notin Midway
    BY DEF Labels, Midway, Creating, Cancelling
  <2> QED
    BY <1>1, <2>1, <2>2, Crashes DEF Midway, Creating
<1>3. CASE ~ \E l \in {"Engage", "Register", "SetGreen"} : Crash(Main, l)
  <2>1. PICK l \in {"Engage", "Register", "SetGreen"},
             m \in {"VlanManagerInit", "SetGreen", after[Main]} :
          /\ Goto(Main, l, m)
          /\ m = "VlanManagerInit" => ptr["component"] = "live" /\ ptr["controller"] = "live"
          /\ m = "SetGreen" => registered'
          /\ l \in {"Engage", "SetGreen"} => UNCHANGED registered
          /\ registered => registered'
          /\ health' = "Green" => health = "Green" \/ l = "SetGreen"
          /\ l = "Engage" => m = "VlanManagerInit"
    <3>1. after[Main] \in {"CdmInit", "idle", "DelMutex"}
      BY DEF IInv, Types
    <3>2. CASE Engage
      <4>1. /\ Goto(Main, "Engage", "VlanManagerInit") /\ health' = "Yellow"
            /\ ptr["component"] = "live" /\ ptr["controller"] = "live"
        BY <1>3, <3>2 DEF Engage
      <4>2. UNCHANGED registered
        BY <3>2 DEF Engage
      <4> QED
        BY <4>1, <4>2
    <3>3. CASE Register
      <4>1. /\ \/ Goto(Main, "Register", "SetGreen") /\ registered' = TRUE
               \/ Goto(Main, "Register", after[Main]) /\ UNCHANGED registered
            /\ UNCHANGED health
        BY <1>3, <3>3 DEF Register
      <4> QED
        BY <3>1, <4>1
    <3>4. CASE SetGreen
      <4>1. Goto(Main, "SetGreen", after[Main]) /\ UNCHANGED registered
        BY <1>3, <3>4 DEF SetGreen
      <4> QED
        BY <3>1, <4>1
    <3> QED
      BY <3>2, <3>3, <3>4
  <2>2. /\ exit = -1 /\ exit' = -1 /\ pc[Main] = l /\ pc' = [pc EXCEPT ![Main] = m]
        /\ m \in Labels \ (Midway \cup {"bad"}) /\ l \notin Midway
        /\ l \notin {"CancelController", "CancelFree"}
        /\ pc' \in [Procs -> Labels] /\ pc'[Main] = m /\ pc'[Bus] = pc[Bus]
    BY <2>1 DEF Goto, IInv, Types, Labels, Midway, Creating, Cancelling
  <2>3. ~ overlapped' => ~ overlapped
    BY <2>1 DEF Goto
  <2>4. Types'
    BY <1>1, <2>2 DEF IInv, Types
  <2>5. InTime' /\ NoUseAfterFree'
    <3>1. \A x \in Pointers : l \notin Window[x]
      BY DEF Window, Pointers, Cancelling
    <3> QED
      BY <1>1, <2>2, <3>1 DEF IInv, InTime, NoUseAfterFree
  <2>6. Shape'
    <3>1. /\ m \notin {"CreateCcdIf", "CreateLcbIf", "CreateController"}
          /\ m \notin {"ClearCcdIf", "ClearController"}
      BY <2>2 DEF Midway, Creating, Cancelling
    <3> QED
      BY <1>1, <2>2, <2>3, <3>1 DEF IInv, Shape
  <2>7. Green'
    <3>1. m = "SetGreen" => registered'
      BY <2>1, <2>2 DEF IInv, Types
    <3> QED
      BY <1>1, <2>1, <2>2, <3>1 DEF IInv, Green, Going
  <2>8. Start'
    <3>1. /\ {"VlanManagerInit", "SetGreen", "CdmInit"} \subseteq Engaged
          /\ Engaged \subseteq Starting /\ (l # "Engage" => l \in Engaged)
      BY DEF Engaged, Starting
    <3> QED
      BY <1>1, <2>1, <2>2, <3>1 DEF IInv, Start, flags
  <2> QED
    BY <2>4, <2>5, <2>6, <2>7, <2>8 DEF IInv
<1> QED
  BY <1>2, <1>3

-----------------------------------------------------------------------------
(* ssp_cancel *)

LEMMA TestSteps ==
  ASSUME IInv, NEW p \in Procs, CancelTest(p) \/ Unregister(p) PROVE IInv'
<1> Main \in Procs /\ Bus \in Procs /\ Procs = {Main, Bus} /\ Main # Bus
  BY SspAssumption DEF Procs
<1>1. UNCHANGED <<after, ptr, health, ready>> /\ (recalled => recalled')
  <2>1. CASE CancelTest(p)
    BY <2>1 DEF CancelTest, component
  <2>2. CASE Unregister(p)
    BY <2>2 DEF Unregister, flags
  <2> QED
    BY <2>1, <2>2
<1>2. PICK l \in {"CancelTest", "Unregister"},
           m \in {after[p], "Unregister", "CancelController"} :
        /\ Goto(p, l, m)
        /\ l = "CancelTest" => m # "CancelController" /\ UNCHANGED registered
        /\ m = "Unregister" /\ p = Bus => recalled'
        /\ l = "Unregister" => m = "CancelController"
  <2>1. after[p] \in {"CdmInit", "idle", "DelMutex"}
    BY DEF IInv, Types
  <2>2. CASE CancelTest(p) /\ ptr["component"] = "null"
    <3>1. Goto(p, "CancelTest", after[p]) /\ UNCHANGED registered
      BY <2>2 DEF CancelTest, component
    <3> QED
      BY <2>1, <3>1
  <2>3. CASE CancelTest(p) /\ ptr["component"] # "null"
    <3>1. Goto(p, "CancelTest", "Unregister") /\ UNCHANGED registered /\ (p = Bus => recalled')
      BY <2>3 DEF CancelTest, component
    <3> QED
      BY <3>1
  <2>4. CASE Unregister(p)
    <3>1. Goto(p, "Unregister", "CancelController")
      BY <2>4 DEF Unregister
    <3> QED
      BY <3>1
  <2> QED
    BY <2>2, <2>3, <2>4
<1>3. /\ exit = -1 /\ exit' = -1 /\ pc[p] = l /\ pc' = [pc EXCEPT ![p] = m]
      /\ m \in Labels \ (Midway \cup {"bad", "SetGreen"}) /\ l \notin Midway
      /\ l \notin {"CancelController", "CancelFree"} /\ l \notin Starting
      /\ pc' \in [Procs -> Labels] /\ pc'[p] = m /\ \A q \in Procs \ {p} : pc'[q] = pc[q]
  BY <1>2
  DEF Goto, IInv, Types, Labels, Midway, Creating, Cancelling, Starting, Engaged, Building
<1>4. ~ overlapped' => ~ overlapped
  BY <1>2 DEF Goto
<1>5. Types'
  BY <1>1, <1>3 DEF IInv, Types, Midway
<1>6. InTime' /\ NoUseAfterFree'
  <2>1. \A x \in Pointers : l \notin Window[x]
    BY DEF Window, Pointers, Cancelling
  <2> QED
    BY <1>1, <1>3, <2>1 DEF IInv, InTime, NoUseAfterFree
<1>7. Shape'
  <2>1. /\ m \notin {"CreateCcdIf", "CreateLcbIf", "CreateController"}
        /\ m \notin {"ClearCcdIf", "ClearController"}
    BY <1>3 DEF Midway, Creating, Cancelling
  <2> QED
    BY <1>1, <1>3, <1>4, <2>1 DEF IInv, Shape
<1>8. Green'
  BY <1>1, <1>2, <1>3 DEF IInv, Green, Going
<1>9. Start'
  <2>1. m \notin Cancelling
    BY <1>3 DEF Midway
  <2> QED
    BY <1>1, <1>2, <1>3, <2>1 DEF IInv, Start, Types
<1> QED
  BY <1>5, <1>6, <1>7, <1>8, <1>9 DEF IInv

\* A step of ssp_cancel from the first free on, everything but InTime and Shape.
LEMMA CancelWalks ==
  ASSUME IInv, NEW p \in Procs, NEW m \in Cancelling \cup {after[p]},
         exit = -1, UNCHANGED <<after, exit, health, registered, flags>>,
         pc' = [pc EXCEPT ![p] = m],
         pc[p] \in Cancelling \cup {"CancelController"},
         ptr' \in [Pointers -> Cells],
         \/ pc[p] = "CancelController" /\ m = "CancelFree"
         \/ pc[p] = "CancelFree" /\ ptr'["component"] # "live"
         \/ pc[p] # "CancelController" /\ pc[p] # "CancelFree",
         ptr'["component"] = "live" => ptr["component"] = "live"
  PROVE  Types' /\ NoUseAfterFree' /\ Green' /\ Start'
<1> Main \in Procs /\ Bus \in Procs /\ Procs = {Main, Bus} /\ Main # Bus
  BY SspAssumption DEF Procs
<1>1. /\ m \in Labels \ (Creating \cup {"bad", "SetGreen"})
      /\ pc' \in [Procs -> Labels] /\ pc'[p] = m /\ \A q \in Procs \ {p} : pc'[q] = pc[q]
  BY DEF IInv, Types, Labels, Creating, Cancelling
<1>2. Types'
  BY <1>1 DEF IInv, Types
<1>3. NoUseAfterFree'
  BY <1>1 DEF IInv, InTime, NoUseAfterFree
<1>4. Green'
  BY <1>1 DEF IInv, Green, Going
<1>5. Start'
  <2>1. pc[p] \notin Starting
    BY DEF Starting, Engaged, Building, Creating, Cancelling
  <2> QED
    BY <1>1, <2>1 DEF IInv, Start, flags
<1> QED
  BY <1>2, <1>3, <1>4, <1>5

LEMMA CancelSteps ==
  ASSUME IInv, NEW p \in Procs, CancelController(p) \/ CancelFree(p) PROVE IInv'
<1> Main \in Procs /\ Bus \in Procs /\ Procs = {Main, Bus} /\ Main # Bus
  BY SspAssumption DEF Procs
<1>1. UNCHANGED <<after, health, registered, flags>> /\ ptr \in [Pointers -> Cells]
  BY DEF CancelController, CancelFree, IInv, Types
<1>2. CASE Crash(p, "CancelController") /\ UNCHANGED ptr
  BY <1>1, <1>2, Crashes DEF Labels, Creating, Cancelling
<1>3. CASE /\ Crash(p, "CancelFree") /\ UNCHANGED ptr
           /\ ptr["ccdIf"] = "freed" \/ ptr["component"] = "freed"
  <2>1. \E x \in Pointers : ptr[x] = "freed" /\ "CancelFree" \notin Window[x]
    BY <1>3 DEF Pointers, Window
  <2> QED
    BY <1>1, <1>3, <2>1, Crashes DEF Labels
<1>4. ASSUME NEW l \in {"CancelController", "CancelFree"},
             NEW m \in {"CancelFree", "ClearComponent"}, Goto(p, l, m),
             \/ /\ l = "CancelController" /\ m = "CancelFree"
                /\ ptr' = [ptr EXCEPT !["controller"] = "freed"]
             \/ /\ l = "CancelFree" /\ m = "ClearComponent"
                /\ ptr' = [x \in Pointers |->
                             IF x \in {"ccdIf", "component"} /\ ptr[x] = "live"
                             THEN "freed" ELSE ptr[x]]
      PROVE  IInv'
  <2>1. /\ exit = -1 /\ exit' = -1 /\ pc[p] = l /\ pc' = [pc EXCEPT ![p] = m]
        /\ ~ overlapped' => ~ overlapped /\ \E q \in Procs : pc'[q] \notin Midway
        /\ pc'[p] = m /\ \A q \in Procs \ {p} : pc'[q] = pc[q]
    BY <1>4 DEF Goto, IInv, Types
  <2>2. /\ ptr' \in [Pointers -> Cells]
        /\ ptr'["component"] = "live" => ptr["component"] = "live"
        /\ m = "ClearComponent" => ptr'["component"] # "live"
    BY <1>1, <1>4 DEF Pointers, Cells
  <2>3. m \in Cancelling /\ m # "bad" /\ m \in Midway
    BY DEF Cancelling, Midway
  <2>4. Types' /\ NoUseAfterFree' /\ Green' /\ Start'
    BY <1>1, <1>4, <2>1, <2>2, <2>3, CancelWalks DEF Cancelling
  <2>5. InTime'
    <3>1. \A x \in Pointers :
            /\ l \in Window[x] => m \in Window[x]
            /\ ptr'[x] = "freed" /\ ptr[x] # "freed" => m \in Window[x]
      BY <1>1, <1>4 DEF Window, Pointers, Cancelling
    <3> QED
      BY <2>1, <2>3, <3>1 DEF IInv, InTime
  <2>6. Shape'
    <3> SUFFICES ASSUME ~ overlapped' PROVE Shape'
      BY DEF Shape
    <3>1. \A q \in Procs \ {p} : pc'[q] \notin Midway
      BY <2>1, <2>3
    <3>2. /\ {"CreateCcdIf", "CreateLcbIf", "CreateController"} \subseteq Midway
          /\ {"ClearCcdIf", "ClearController"} \subseteq Midway
          /\ m \notin {"CreateCcdIf", "CreateLcbIf", "CreateController"}
          /\ m \notin {"ClearCcdIf", "ClearController"}
      BY DEF Midway, Creating, Cancelling
    <3> QED
      BY <2>1, <2>3, <3>1, <3>2 DEF Shape
  <2> QED
    BY <2>4, <2>5, <2>6 DEF IInv
<1>5. CASE CancelController(p)
  BY <1>1, <1>2, <1>4, <1>5 DEF CancelController, Set
<1>6. CASE CancelFree(p)
  BY <1>1, <1>3, <1>4, <1>6 DEF CancelFree, FreeAt
<1> QED
  BY <1>5, <1>6

LEMMA ClearSteps == ASSUME IInv, NEW p \in Procs, CancelClear(p) PROVE IInv'
<1> Main \in Procs /\ Bus \in Procs /\ Procs = {Main, Bus} /\ Main # Bus
  BY SspAssumption DEF Procs
<1>1. /\ UNCHANGED <<after, health, registered, flags>> /\ ptr \in [Pointers -> Cells]
      /\ after[p] \in {"CdmInit", "idle", "DelMutex"}
  BY DEF CancelClear, IInv, Types
<1>2. PICK l \in Cancelling, m \in Cancelling \cup {after[p]}, x \in Pointers :
        /\ Goto(p, l, m) /\ ptr' = [ptr EXCEPT ![x] = "null"]
        /\ \A y \in Pointers \ {x} : l \in Window[y] => m \in Window[y]
        /\ l # "CancelFree" /\ m \notin {"CancelFree", "ClearComponent"}
        /\ x = "component" \/ l \in {"ClearCcdIf", "ClearController"}
  <2>1. CASE Goto(p, "ClearComponent", "ClearCcdIf") /\ Set("component", "null")
    BY <2>1 DEF Set, Cancelling, Pointers, Window
  <2>2. CASE Goto(p, "ClearCcdIf", "ClearController") /\ Set("ccdIf", "null")
    BY <2>2 DEF Set, Cancelling, Pointers, Window
  <2>3. CASE Goto(p, "ClearController", after[p]) /\ Set("controller", "null")
    BY <1>1, <2>3 DEF Set, Cancelling, Pointers, Window
  <2> QED
    BY <2>1, <2>2, <2>3 DEF CancelClear
<1>3. /\ exit = -1 /\ exit' = -1 /\ pc[p] = l /\ pc' = [pc EXCEPT ![p] = m]
      /\ ~ overlapped' => ~ overlapped /\ \E q \in Procs : pc'[q] \notin Midway
      /\ pc'[p] = m /\ \A q \in Procs \ {p} : pc'[q] = pc[q]
  BY <1>2 DEF Goto, IInv, Types
<1>4. /\ ptr' \in [Pointers -> Cells]
      /\ ptr'["component"] = "live" => ptr["component"] = "live"
      /\ ptr["component"] = "null" => ptr'["component"] = "null"
      /\ x = "component" => ptr'["component"] = "null"
  BY <1>1, <1>2 DEF Pointers, Cells
<1>5. Types' /\ NoUseAfterFree' /\ Green' /\ Start'
  <2>1. l \notin {"CancelController", "CancelFree"}
    BY <1>2 DEF Cancelling
  <2> QED
    BY <1>1, <1>2, <1>3, <1>4, <2>1, CancelWalks
<1>6. InTime'
  <2>1. m # "bad"
    BY <1>1, <1>2 DEF Cancelling
  <2>2. \A y \in Pointers : ptr'[y] = "freed" => y # x /\ ptr[y] = "freed"
    BY <1>1, <1>2
  <2> QED
    BY <1>2, <1>3, <2>1, <2>2 DEF IInv, InTime
<1>7. Shape'
  <2> SUFFICES ASSUME ~ overlapped' PROVE Shape'
    BY DEF Shape
  <2>1. l \in Midway /\ \A q \in Procs \ {p} : pc'[q] \notin Midway
    BY <1>2, <1>3 DEF Midway, IInv, Shape
  <2>2. /\ {"CreateCcdIf", "CreateLcbIf", "CreateController"} \subseteq Midway
        /\ {"ClearCcdIf", "ClearController"} \subseteq Midway
        /\ m \notin {"CreateCcdIf", "CreateLcbIf", "CreateController"}
    BY <1>1, <1>2 DEF Midway, Creating, Cancelling
  <2>3. ptr'["component"] = "null"
    BY <1>2, <1>3, <1>4 DEF IInv, Shape
  <2> QED
    BY <1>3, <2>1, <2>2, <2>3 DEF Shape
<1> QED
  BY <1>5, <1>6, <1>7 DEF IInv

-----------------------------------------------------------------------------

LEMMA StepIInv == ASSUME IInv, [Next]_vars PROVE IInv'
BY MainSteps, BuilderSteps, BusSteps, CreateSteps, UndoSteps, EngageSteps, TestSteps,
   CancelSteps, ClearSteps, Ended
DEF Next

LEMMA AlwaysIInv == Spec => []IInv
BY InitIInv, StepIInv, PTL DEF Spec

\* Wherever ssp_create gave up, and however often the component was cancelled and created
\* again: as long as no ssp_create ran into an ssp_cancel of the other thread, a component
\* that is there has its interfaces and its controller (ssp_create, ssp_cancel).
THEOREM CreatedWhole == Spec => []ComponentIsWhole
<1>1. IInv => ComponentIsWhole
  BY DEF IInv, Shape, ComponentIsWhole
<1> QED
  BY <1>1, AlwaysIInv, PTL

\* Creating and cancelling, by whom, how often and with what interleaving ever, leaves no
\* pointer to freed memory behind: a thread frees twice, or uses what was freed, only while
\* the other one is between a free and the reset of the pointer (ssp_create, ssp_cancel,
\* sig_handler).
THEOREM FreedOnce == Spec => []NoUseAfterFree
<1>1. IInv => NoUseAfterFree
  BY DEF IInv
<1> QED
  BY <1>1, AlwaysIInv, PTL

\* A component that says Green is in the registry, or a thread is about to free it, with
\* any interleaving of ssp_engage and ssp_cancel.
THEOREM GreenRegistered == Spec => []GreenIsRegistered
<1>1. IInv => GreenIsRegistered
  BY DEF IInv, Green, Going, GreenIsRegistered
<1> QED
  BY <1>1, AlwaysIInv, PTL

\* systemd is told READY with a component and a controller, or the bus has cancelled them
\* while main was starting up: nothing else main drops, fails to make or interleaves with
\* gets that far (main, ssp_create, ssp_engage).
THEOREM ReadyTrue == Spec => ReadyHasComponent
<1>1. IInv /\ [Next]_vars =>
        [ready' /\ ~ ready =>
           recalled \/ (ptr["component"] = "live" /\ ptr["controller"] = "live")]_vars
  <2> SUFFICES ASSUME IInv, Next, ready', ~ ready
               PROVE  recalled \/ (ptr["component"] = "live" /\ ptr["controller"] = "live")
    BY DEF vars
  <2>1. ASSUME NEW p \in Procs,
               \/ BackEndManagerCreate(p) \/ VlanCreate(p) \/ EthernetCreate(p)
               \/ CancelTest(p) \/ Unregister(p) \/ CancelController(p)
               \/ CancelFree(p) \/ CancelClear(p)
        PROVE  UNCHANGED ready
    BY <2>1 DEF BackEndManagerCreate, VlanCreate, EthernetCreate, CancelTest, Unregister,
      CancelController, CancelFree, CancelClear, flags
  <2>2. CASE \/ Daemonize \/ WritePid \/ MessageBusEngage \/ CreateComponent \/ CreateCcdIf
             \/ CreateLcbIf \/ CreateController \/ Undo \/ Engage \/ VlanManagerInit
             \/ Register \/ SetGreen \/ CdmInit \/ Command \/ CdmTerm \/ DelMutex \/ Signal
             \/ Finalize \/ StartMemoryCheck \/ MemoryCheck \/ Unload \/ StartGetHealth
             \/ GetHealth
    BY <2>2 DEF Daemonize, WritePid, MessageBusEngage, CreateComponent, CreateCcdIf,
      CreateLcbIf, CreateController, Undo, Engage, VlanManagerInit, Register, SetGreen,
      CdmInit, Command, CdmTerm, DelMutex, Signal, Finalize, StartMemoryCheck, MemoryCheck,
      Unload, StartGetHealth, GetHealth, flags
  <2>3. CASE Notify
    <3>1. exit = -1 /\ pc[Main] = "Notify"
      BY <2>3 DEF Notify, Goto
    <3>2. "Notify" \in Engaged
      BY DEF Engaged
    <3> QED
      BY <3>1, <3>2 DEF IInv, Start
  <2> QED
    BY <2>1, <2>2, <2>3 DEF Next
<1> QED
  BY <1>1, AlwaysIInv, PTL DEF ReadyHasComponent, Spec
=============================================================================
