------------------------------ MODULE Platform ------------------------------
(***************************************************************************)
(* What the VLAN manager acts on and does not own: the kernel's network    *)
(* devices, reached through "ip link", "brctl" or the JSON HAL, and the    *)
(* VlanStatus parameter that WanManager keeps for each virtual interface.  *)
(*                                                                         *)
(* A device is what distinguishes one configuration from another: its kind *)
(* and, for a tagged device, its VLAN id.  IFF_RUNNING follows the carrier *)
(* and may change between any two reads, so it is not state: reading the   *)
(* status of a device that exists may answer Up or Down.                   *)
(***************************************************************************)
EXTENDS Integers

CONSTANTS
  Names,     \* names of network devices
  VlanIds,   \* values the VLANID parameter takes
  Paths,     \* data-model paths of WanManager's virtual interfaces
  NoPath,    \* the empty Path of an entry that has none in PSM
  Hal,       \* "json": VLAN_MANAGER_HAL_ENABLED; "ip": neither HAL is built in
  Faults     \* the calls that may fail, out of FaultKinds

FaultKinds == {"device",  \* an interface command or HAL request has no effect
               "socket",  \* socket() fails in a status read
               "bus",     \* a message to WanManager or PSM is lost
               "memory",  \* malloc() returns NULL
               "mac",     \* the base MAC address cannot be read
               "spawn"}   \* pthread_create() fails

ASSUME PlatformAssumption ==
  /\ VlanIds \subseteq Int
  /\ NoPath \notin Paths
  /\ Hal \in {"json", "ip"}
  /\ Faults \subseteq FaultKinds

VARIABLES
  dev,       \* dev[n]: the device of that name, or NoDevice
  wan        \* wan[p]: the VlanStatus WanManager was last told for p

platformVars == <<dev, wan>>

NoDevice      == [kind |-> "none",     vid |-> 0]
Untagged      == [kind |-> "untagged", vid |-> 0]
Bridge        == [kind |-> "bridge",   vid |-> 0]
Tagged(id)    == [kind |-> "tagged",   vid |-> id]

Devices == {NoDevice, Untagged, Bridge} \cup {Tagged(id) : id \in VlanIds}

PlatformTypeOK ==
  /\ dev \in [Names -> Devices]
  /\ wan \in [Paths -> {"none", "Up", "Down"}]

PlatformInit ==
  /\ dev = [n \in Names |-> NoDevice]
  /\ wan = [p \in Paths |-> "none"]

-----------------------------------------------------------------------------
(* Devices *)

Exists(n) == dev[n] # NoDevice

\* A command that changes device n to d: under a "device" fault nothing
\* happens, and no caller is told.
Command(n, d) ==
  \/ dev' = [dev EXCEPT ![n] = d]
  \/ "device" \in Faults /\ UNCHANGED dev

\* "ip link add", "brctl addbr" and the HAL's create leave a device of the same
\* name as it is.  802.1Q ids end at 4094, and "%u" turns a negative id into one
\* far above: no device is made.
CreatableId(id) == id \in 0..4094

CreateDevice(n, d) ==
  IF Exists(n) \/ ~CreatableId(d.vid) THEN UNCHANGED dev ELSE Command(n, d)

DeleteDevice(n) == Command(n, NoDevice)

\* Vlan_GetTaggedVlanInterfaceStatus and EthLink_GetUnTaggedVlanInterfaceStatus:
\* a failed ioctl sets Error, which the test of IFF_RUNNING then overwrites with
\* Down; Error is left only when there is no socket.
StatusReads(n) ==
  {"Down"} \cup (IF Exists(n) THEN {"Up"} ELSE {})
           \cup (IF "socket" \in Faults THEN {"Error"} ELSE {})

-----------------------------------------------------------------------------
(* WanManager *)

\* EthLink_SendVirtualIfaceVlanStatus: nothing for an empty path; the result of
\* the set is not looked at, so a lost one is not sent again.
Notify(path, status) ==
  IF path = NoPath
  THEN UNCHANGED wan
  ELSE \/ wan' = [wan EXCEPT ![path] = status]
       \/ "bus" \in Faults /\ UNCHANGED wan
=============================================================================
