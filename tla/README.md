# RdkVlanBridgingManager in TLA+

The VLAN manager is a CCSP daemon of RDK-B.  It serves two tables of the data model,
`Device.X_RDK_Ethernet.Link.{i}` and `Device.X_RDK_Ethernet.VLANTermination.{i}`.  A client
(normally WanManager) sets `Enable` of an entry; the daemon makes or deletes a network
interface and reports `VlanStatus` back to WanManager.  This directory models the daemon,
checks it with TLC on small systems and proves the main results with TLAPS.

Paths below are under `src/source/TR-181/middle_layer_src/` unless they say otherwise.

## 1. The system

### Components

| Part | Source | State | Operations | Module |
|---|---|---|---|---|
| VLANTermination table | `vlan_dml.c`, `vlan_apis.c` | `DML_VLAN` entries (Enable, Status, VLANId, Name, LowerLayers ...), `vlan_access_mutex` | sets and gets, `Vlan_Enable`, `Vlan_Disable` in a detached thread each, `Vlan_Rollback` | `VlanTermination` |
| Link table | `ethernet_dml.c`, `ethernet_apis.c` | `DML_ETHERNET` entries (Enable, PriorityTagging, Status, Marking ...) | `EthLink_Enable`, `EthLink_Disable` in the caller, `EthLink_TriggerVlanRefresh` in a detached thread | `EthLink` |
| Marking table of a link | `ethernet_apis.c` 645-840, 1071-1119; `ethernet_dml.c` 904-1146 | `NumberofMarkingEntries`, `pstDataModelMarking` | load from WanManager, copy, delete, read by handle | `MarkingTable` |
| Start-up from PSM | `vlan_internal.c`, `ethernet_internal.c` | both tables while they are filled, the read buffer | one read per record | `PsmTables` |
| Process, component and plug-in | `src/source/RdkVlanManager/ssp_*.c`, `plugin_main*.c` | component pointers, health, registration, back-end objects | start, cancel, create again, memory check, unload | `SspLifecycle` |
| Kernel devices, HAL, WanManager | called by the above | devices by name; the last `VlanStatus` | `ip link`, `brctl`, JSON HAL, status ioctls, parameter sets | `Platform` |
| Parameter sets of both tables | `vlan_dml.c`, `ethernet_dml.c` | the stored parameters, the request under way | every registered set, Validate, Commit, Rollback | `ParamSets` |
| MAC address computation | `ethernet_apis.c` 1241-1298, `vlan_apis.c` 433-525 | `MACAddress` of a link | two 48-bit sums, from two tables | `MacAddress`, used by `ParamSets` |
| Comcast WAN bridge | `ethernet_apis.c` 1301-1805 | none of its own: the devices, `last_wan_mode` | a list of shell commands per build and mode | `WanBridge` |
| JSON HAL client | `vlan_eth_hal.c` | connection, one request and reply per call | start-up, create, mark, delete | `HalClient` |
| Getters without effect | `vlan_dml.c`, `ethernet_dml.c` | none | copy a field | not modelled |
| MAP-T variant | `vlan_apis.c` 283-346 | none | unloads a kernel module before a deletion | not modelled |

### How they interact

* The message bus delivers one data-model request at a time on its own thread.  A set of
  `VLANTermination.Enable` that changes the value stores it and starts a detached thread, here
  called a *worker*; the request is answered before the worker has done anything.
* A worker takes `vlan_access_mutex`, sets `PriorityTagging` and `Enable` of the link named in
  `LowerLayers` by calling the Link table's own set handler, makes or deletes its device, polls
  its status up to ten times two seconds apart, tells WanManager, writes `Status` and unlocks.
* A set of `Link.Enable` runs the same procedures in the bus thread, without the mutex.
  `X_RDK_Refresh` starts another detached thread that takes no lock either.
* Other parameters are written by the bus thread straight into the entry a worker is reading.
* Both tables are filled from PSM when the plug-in is initialised.  `Enable` is restored; no
  worker is started for it.
* A SetParameterValues request may set several parameters of both tables.  Each handler writes
  the entry, and starts its worker, at once; if a later one refuses, the bus rolls back what it
  has touched.
* In the Comcast build an untagged interface is made by a fixed list of shell commands, run in
  the bus thread or in a worker.  In the HAL build interfaces are made, marked and deleted by
  requests to another process.
* The marking table of a link is freed, counted and allocated by whoever enables, refreshes or
  disables the link, and read by the bus thread through pointers it keeps between two calls.

### What is hard

Workers are not ordered by the mutex (they get it in any order).  The mutex is held across
calls into another table and across polling loops with returns on many paths.  The bus thread
and refresh threads are outside it.  Decisions are taken on values read earlier: `VLANId` at
disable, a status read before it is reported.  Every external call may fail, and almost no
result is passed on.  The process may die between two steps while devices and WanManager keep
their state.  `PROJECT.json` lists these hazards, each at its line.

### What makes each part correct

* VLANTermination: one worker at a time between lock and unlock; the device of an entry is what
  its last worker was to make it; the device carries the VLAN id of the entry; nothing is left
  behind; WanManager hears what is true; every worker ends.
* Link: between bus requests the untagged interface follows `Enable` and `PriorityTagging`, and
  `Status` follows the interface; the bus thread always returns.
* Marking table: no access outside an allocated table, no leak, complete copies.
* Start-up: each field of each entry comes from the record that is its own.
* Parameter sets: an entry that reads enabled has had its worker; devices get the address of
  their own link; a refresh works with the VLAN entry of its own link.
* WAN bridge: the commands that ran leave the layout of their mode, wherever the list before
  them stopped.
* HAL client: what the answer of a call means, no request out of order, nothing left allocated.
* Process: pointers are whole or NULL, nothing is used after it was freed, READY and Green are
  said only when true.

## 2. Modules

`Platform <- EthLink <- VlanTermination <- VlanRefinement` extend one another: the Link table
acts on the platform, the VLANTermination table calls into the Link table.  `VlanService` is
the abstract specification and `VlanRefinement` the mapping to it.  `MacAddress` is arithmetic
without variables, and `ParamSets` extends it.  `MarkingTable`, `PsmTables`, `SspLifecycle`,
`WanBridge` and `HalClient` stand alone, because each looks at one component more closely than
its neighbours need.  `MCEthLink`, `MCVlan` and `MCParamSets` give the constants of TLC's
systems.  The theorems are in `VlanProofs`, `PsmProofs`, `SspProofs`, `ParamProofs`,
`HalProofs`, `MarkingProofs` and `WanProofs`, each over the module it is named for (`VlanProofs`
also over `EthLink`, `ParamProofs` over `MacAddress`), and in `ServiceProofs`, which goes on
from `VlanProofs` and has the refinement.

### Platform

`dev[n]` is the device of name `n`: its kind and, if tagged, its VLAN id.  `wan[p]` is the
last status WanManager was told for a path.  `CreateDevice` leaves an existing device of the
same name alone, as `ip link add`, `brctl addbr` and the HAL do; ids above 4094 make none.
A status read of an existing device may answer Up or Down at any time (`IFF_RUNNING` follows
the carrier), and `Error` only when there is no socket: a failed ioctl sets `Error` and the
test of `IFF_RUNNING` overwrites it.  `NotPresent` is thus never read, which is why both
tables always delete before they create.  `Faults` names the calls that may fail.

### EthLink

A thread is a program counter `pc[p]`, the entry `link[p]` it works on, and the label `ret[p]`
to return to.  A label is a point where another thread can change what this one goes on to
use:

* `CheckOn, On, AddMarking, CheckUntagged, DeleteOld, CreateUntagged, PollUntagged, SendLinkUp,
  LinkUp`: a set of Enable to TRUE with `EthLink_Enable` and `EthLink_CreateUnTaggedInterface`;
* `CheckOff, Off, DeleteMarking, RemoveUntagged, LinkDown`: FALSE, with `EthLink_Disable`;
* `RefreshMarking, PollRefresh, SendRefreshUp`: the refresh thread.

The marking table is only `none`, `table` or `lost` (rows counted, no table) here.  A status
read and the deletion it guards are one step: only `Error` makes a difference.

### VlanTermination

Adds the workers.  `EnableLock` to `EnableDone` are `Vlan_Enable`; `DisableLock` to
`DisableDone` are `Vlan_Disable`.  `TagLink`, `UntagLink` and `DisableLink` are
`Vlan_SetEthLink`: the worker moves to `CheckOn` or `CheckOff` of EthLink and comes back at
`ret`.  `lastRun`, `prior` and `acked` are history, read by properties only.

Taking the mutex and the first read of `VLANId` are one step, and so are the final write of
Status, the report and the unlock; adjacent reads of `VLANId` with no blocking call in between
(628 and 686, 374 and 409) are one read.  `Restart` clears memory and threads and keeps the
platform.  Alias, BaseInterface, TPID and LastChange are not written.  `MarkingLink[v]` is the
link whose markings the HAL build finds for `v`; an Alias that is a prefix of another's makes
the code take the wrong one (`ethernet_apis.c` 790), which is a choice of this constant.

### VlanService and VlanRefinement

VlanService promises that each accepted change of Enable is carried out exactly once, in one
step, in any order, and eventually.  Under the mapping a change is pending until its worker
unlocks, and until then the interface counts as it was when that worker took the mutex.
The promise has two parts, a property each: `ImplementsService` that nothing else happens
(`ServiceSafety`), `ChangesCarriedOut` that every accepted change is carried out
(`ServiceFairness`).

### MarkingTable

The two fields and the heap blocks of one link's table, at the grain of single reads and
writes, by any number of threads at any time: the code has no lock here and the model assumes
none.  Where the C names a field twice in a row (the pointer tested and freed, the count stored
and allocated for) the second may be the value just read or the field read again, since compilers
do both.  A row holds the number of the load that filled it.  A thread that touches memory it
has not goes to `bad`, and the process ends.

Three history variables say what raced, so that the properties can say what a race can and
cannot do: `disturbed`, the operations that a change of another thread overlapped; `mixed`,
changes have overlapped and none has been completed by itself since; `current`, the last change
that was.

### PsmTables

One step per record.  A value is identified with the record it was read from, so that an entry
holding somebody else's value is visible.  `hub4` is the build with `_HUB4_PRODUCT_REQ_`,
whose VLAN ids come from configurations of the router's region.  The two readers differ:
`DmlVlanGetPSMRecordValue` reports a missing record, `DmlEthGetPSMRecordValue` returns success
and leaves the buffer.  Lengths of values against the 64 bytes of the buffer are not modelled.

### SspLifecycle

`main`, `ssp_create`, `ssp_engage`, `ssp_cancel` and the calls of the bus thread, with each
global pointer null, live or freed.  `sig_handler` calls `exit(0)` on SIGSEGV too, so a crash
is `exit' = 0`.  The callbacks are there before the component is, and the two threads share
no lock: each free and each reset of a pointer is a step of its own, and the other thread may
come in between (`Undo` is what `ssp_create` takes back when it fails, `CancelFree` and
`CancelClear` the end of `ssp_cancel`).  `recalled` (the bus has cancelled a component) and
`overlapped` (both threads were in the middle of `ssp_create` or `ssp_cancel` at once) are
history.

### WanBridge

The kernel is what the commands act on: which device has which name, what is up, what is a
port of which bridge.  Each command is an operator that refuses what the kernel refuses (a
rename of a device that is up or over a taken name, the deletion of a bridge that is up, a
port of two bridges) and then changes nothing, because no status is looked at.  Each path
through the two `Hal_BridgeConfig` functions is a list of commands (`Puma7Eth`, `BcmDocsis`,
...); `Program(c)` is the one a call takes, `Step` runs the next command of one caller, `Fail`
skips it, `Crash` forgets the rest.  `ConfigureBridge` decides by `last_wan_mode`, which WanManager writes
(`RecordMode`).  History: `built` is the layout a call vouches for, `ran` the mode of the last
call, `calm` says that nothing failed and no change outran WanManager.

### HalClient

`InitHal` and `LookConnected` are `vlan_eth_hal_init`.  A call is `Request`, then one of
`Reply` and `Report`, `NoReply`, `RpcFailed`, or it ends at once (`NoHeader`, `Unconnected`).
The server takes requests in the order of the connection.  A request whose caller gave up
stays on its way.  `held` is what the call has allocated; `replyless` marks the one path that
returns, by the `CHECK` macro, without releasing it.

### MacAddress and ParamSets

Both computations add in 64 bits and print the sum.  `LinkMac` (`EthLink_GetMacAddr`) takes the
first twelve digits of it, `VlanMac` (`Vlan_SetMacAddr`) the last twelve; they differ when
the sum has more.  In `ParamSets` a request is a sequence of handlers on either table (`SetLinkStored`,
`SetLinkEnable`, `SetRefresh`, `SetVlanStored`, `SetVlanEnable`, `Refuse`) up to `Commit` or
`Rollback`; between them threads compute an address into the link's `MACAddress`
(`GetMacAddr`), use it (`MakeUntagged`), give a tagged device its address (`SetMacAddr`) and
look up the VLAN entry of a link (`Refresh`).  The workers' own steps are VlanTermination's;
here only the last one started is remembered.  `MACAddress` is not among the parameters a
client sets: `src/config/RdkVlanManager.xml` 86-90 declares it read-only, so that the library
refuses the set before the handler sees it (`ReadOnlyAssumption`).  `MACAddrOffSet` is constant:
the XML declares it writable, but `plugin_main.c` does not register the handler of its sets
(`EthLink_SetParamIntValue`).

## 3. Runs

| Run | System | Shows |
|---|---|---|
| `link_toggle` | 2 links, 1 refresh thread, 5 requests, failing memory | `LinkFollowsEnable`, `ReportsAreTrue` |
| `vlan_tagged` | 1 tagged entry, 2 threads, 4 requests, writes at any time to the link, refreshes, failing MAC, socket and bus | `TypeOK`, `MutualExclusion`, `LastWorkerWins`, `UpIsNotStale` |
| `vlan_reconfigure` | 1 entry, 1 thread, ids -1, 0, 10, 20, two names, 6 requests, 1 restart | `NoOrphan`, `CurrentIdInstalled`, `ReportAgrees` |
| `vlan_faults` | HAL build, every fault, rollback and direct link requests, fair threads | `WorkersEnd`, `BusReturns` |
| `vlan_service` | 2 tagged entries over one link, 2 fair threads, 4 requests | `LastWorkerWins`, `ReportAgrees`, `ImplementsService`, `ChangesCarriedOut` |
| `marking_races` | HAL build, a worker and the bus in every interleaving, 2 rows, 3 blocks, 3 operations, malloc failing | `NoBadAccess`, `NoLeak`, `CopyIsCurrent` |
| `psm_tables` | both builds, 2 entries each, 2 configurations, 2 missing records per table | `TypeOK`, `VlanFieldsOwn`, `IdsOfRegion`, `LinkFieldsNear` |
| `ssp_lifecycle` | daemon and console, both threads in every interleaving, 5 commands or calls, everything failing | `ComponentIsWhole`, `NoUseAfterFree`, `GreenIsRegistered`, `ReadyHasComponent` |
| `wan_bridge` | both builds, 2 callers, 4 calls, 3 changes of a setting, 1 failed command or death | `LayoutBuilt`, `ModeFollowed` |
| `hal_client` | 2 fair callers, 1 interface, 3 requests, 2 looks, every mishap, 1 break | `OkIsServed`, `DeletedIsGone`, `NothingHeld`, `CallsReturn` |
| `param_sets` | 2 links, 2 VLAN entries, 3 sets, failing threads and base address | `EnabledIsLaunched`, `AddressOfOffset`, `RefreshFindsOwn` |
| `vlan_overlap` | 1 entry, 2 threads, 2 requests | violates `EnableApplied`, which a comment of the code says |

Each `.cfg` turns deadlock checking off: the system stops when the bounded requests are used
up and all threads have ended.

### Bounds, and why they are enough

* `Threads` is the number of detached threads that run at once.  Two are what it takes for
  workers to overlap, for one to overtake another and for a refresh to run under a worker.
  With one, a further change waits until the previous worker has ended; those runs are about
  configuration rather than overlap.
* `MaxRequests` (2 to 6) admits enable, disable and enable again of an entry with a request in
  between, which is the longest pattern a property needs; the theorems drop the bound.
* `MaxPoll = 2` stands for the ten reads of a polling loop: a first read, a last one, and the
  exit.  No step depends on the number.
* Two names of an entry, one for links, one of a second entry; four kinds of VLAN id: bridge,
  untagged, and two tagged ones so that a stale id shows.
* `MaxRows = 2` distinguishes the first row (where a missing table is noticed) from a later one
  (where it is not).  Three blocks are what two loads at once and one lost table occupy.
* Three operations of `marking_races` are two changes that overlap, or a change and a read, and
  one more.  `MarkingMends.cfg` (section 5) has four, so that a race is followed by a change on
  its own and then by a use.  The theorems have no bound.
* `MaxMisses = 2` lets a value be carried over two records, which includes the boundary from
  one entry to the next.
* Two callers of `WanBridge` are what it takes for two lists to interleave; four calls admit
  DOCSIS, Ethernet, DOCSIS with a call in between; three changes are both switches and one of
  the bridge mode.  A second mishap would only make fewer layouts claimed.
* Three requests of `HalClient` are a create that is given up, the delete after it and one
  more; one interface is enough, because requests about another do not touch it.  Two looks
  stand for `HAL_CONNECTION_RETRY_MAX_COUNT`.
* Three sets of `ParamSets` are a set, another of the same entry and one that is refused, in
  one request or in several.  There are 8 addresses in words of 5 bits, and an offset on
  either side of the base; the theorems have the numbers of the code as parameters.
* `MaxCommands = 5` admits engage, cancel, engage, cancel, and one call from the bus.

### Fairness

`vlan_faults` and `vlan_service` assume weak fairness of each thread's steps, which
is what a preemptive scheduler gives.  The bus is not obliged to deliver a request.  Weak
fairness is enough for the mutex because the requests, and so the workers that can overtake a
waiting one, are bounded; with unbounded requests the code promises no worker that it will
ever get the mutex.  Polling loops are bounded by the code, not by fairness.
`hal_client` assumes that callers run, and that the library gives up on a reply in the end
(the JSON HAL client waits with a time-out): without that a lost reply would hold the caller.
Nothing is assumed of the server or the connection.

## 4. Proofs

### VlanProofs

For every number of entries, links, threads, requests, restarts and faults:

* `TypeCorrect`: `Spec => []TypeOK`;
* `MutexExcludes`: `Spec => []MutualExclusion`.

Both follow from `IInv == TypeOK /\ LabelsOK /\ MutualExclusion`.  Mutual exclusion is not
inductive alone: a worker inside the Link table has a label that any thread might have, and
what says that it still holds the mutex is its entry in `vlan` and its return label.
`LabelsOK` keeps those in step.  The steps are reduced to three moves of a worker (takes the
mutex, goes on, gives it up) and one move of a thread in a link.

Under `TaggedSystem`:

* `LastWorkerDecides`: `Spec => []LastWorkerWins`;
* `UpIsCurrent`: `Spec => UpIsNotStale`.

`TaggedSystem` says that every VLAN id is in 1..4094, that entries keep names of their own
which are no link's (no `vlanName` and `rollback` requests), that interface commands work, and
that the HAL build always finds markings (no `memory` and `socket` faults).  Each part
excludes a way in which a device is not what its last worker was to make it: a command without
effect, an id no device can have, another entry or a link acting on the same name, a deletion
skipped for want of a status.  `vlan_service` is a system that satisfies it.  The argument is the invariant
`DeviceInv`: an entry without a holder of the mutex is settled by its `lastRun` (`Settled`);
the holder's phase agrees with `lastRun` (`PhaseOK`) and its progress with the device
(`Progress`); threads in a link only touch devices that are links' (`EthStepDevices`).

The second part is the Link table on its own, `EthSpec`, for any links, refresh threads and
requests, where interface commands and sockets work and `PriorityTagging` is written while a
link is disabled (`EthSystem`); allocations and messages may fail:

* `InterfaceFollowsEnable`: `EthSpec => []LinkFollowsEnable`;
* `ToldWhatIs`: `EthSpec => ReportsAreTrue`, where also no two links have one path
  (`OwnReports`).

`EthInv` says for each label of an enable or a disable how far the link has come (`Working`)
and that every other link is settled (`LinkSettled`).  The type invariant `EthTypeOK` has the
division of labour: only the bus thread sets Enable, and detached threads only refresh
(`ThreadsRefresh`), which leaves devices, Enable and Status alone.  Hence `BusMoves`: a step of
the bus thread has only to account for the link it is on.

### PsmProofs

For any number of entries, configurations and missing records:

* `PsmTypeCorrect`: `Spec => []TypeOK`;
* `FieldsOwn`: `Spec => []VlanFieldsOwn`;
* `IdsFromRegion`: `Spec => []IdsOfRegion`;
* `LinkFieldsAreNear`: `Spec => []LinkFieldsNear`.

The second and third follow from `Owned`, kept by `OwnedInvariant`: the table being filled, and the one
published, is owned field by field; the configurations collected are in the region and in
ascending order, so no two entries share one; there are never more entries than
configurations; and nothing a published table refers to changes afterwards.

`LinkFieldsAreNear` follows from `Near`.  Records are read in one order over all links, so each
has a place (`PlaceOfRecord`), and the place of the next one (`NextPlace`) is one more also where
one link ends and the next begins.  The value in the buffer was read so many places before as
records have been missing at most: a record that is read brings it up to date, a missing one
leaves it a place further behind.

### SspProofs

For any faults, any number of commands and calls, and every interleaving of main and the bus
thread:

* `CreatedWhole`: `Spec => []ComponentIsWhole`;
* `FreedOnce`: `Spec => []NoUseAfterFree`;
* `GreenRegistered`: `Spec => []GreenIsRegistered`;
* `ReadyTrue`: `Spec => ReadyHasComponent`.

The code does not keep the two threads apart, so what is true is less than one would like, and
the properties say how much.  Memory is used after a free, or freed twice, only while the other
thread is between that free and the reset: nothing dangling is left for later.  A component that
is there is whole unless `ssp_create` once ran into `ssp_cancel`; READY is said over nothing only
if the bus cancelled what there was.  TLC refutes each of the two without its condition.

The invariant `IInv` adds three parts to these.  `InTime`: a freed pointer has a thread in the
stretch of labels from its free to its reset (`Window`).  `Shape`: while `overlapped` is false,
what the four pointers are for each label of each thread; at rest all live, or all NULL but
`pDslhLcbIf`, which `ssp_cancel` keeps.  `Start`: until the bus has cancelled something, the first
pass of `main` gets beyond `Engage` only with a component and a controller.

### MarkingProofs

For any threads, blocks, rows and operations, in every interleaving:

* `NeverBad`: `Spec => []NoBadAccess`;
* `OneTable`: `Spec => []NoLeak`;
* `CopiesCurrent`: `Spec => []CopyIsCurrent`.

Together they bound what the missing lock costs: only operations that a change overlapped, and
those before the next change that is completed by itself, can go wrong, and only a load that was
overlapped loses a block.  What the proof rests on is that a change that nobody overlaps cannot
be upset by what came before.  With no change under way and nothing `mixed` the table is at
`Rest`: as long as the count says, each row of the last load; or absent, and then the count is 0
or an allocation failed.  `Writer` says for each label of a quiet change how far the table is from
that, starting even from a table that a race has spoilt; `Reader` says for each label of a quiet
copy or read what was taken from it.  `Apart` says that whoever is beside a change is disturbed.
`Pointed` and `Kept` hold whatever raced: the pointer to the table of a quiet load is neither
cleared nor replaced before the table is freed.

### ServiceProofs

Four theorems, each under `TaggedSystem` of `VlanProofs` and what its name adds.  They share
the invariants `IInv` and `DeviceInv`.

* `TaggedImplementsService`: `Spec => ImplementsService`, under `ServiceSystem` (no daemon
  that dies, no thread that cannot be created, finitely many threads, so that pending changes
  can be counted).  A restart or a failed `pthread_create` drops a change the client was
  promised.  Every step maps to the service or to a stutter.  A set of Enable that starts a
  worker is a `Change` (`StartIsChange`), an unlock is the `CarryOut` of what the holder was
  started for (`UnlockCarriesOut`), the lock moves a worker from waiting to holding without
  changing the count (`LockHidden`), and everything between is hidden, since the interface
  counts as it was at the lock and only the holder touches it (`HiddenStep`).
* `CurrentIdIsInstalled`: `Spec => []CurrentIdInstalled`, under `QuietSystem` (configuration
  written while an entry is disabled and idle; no `spawn` or `socket` fault).  `CurrentInv` says
  that the holder that enables has deleted the old device before it creates, and creates with
  the id the entry still has.  With a failing `pthread_create` it does not hold: an enable
  that did not start reads as done (`VlanSpawnFails.cfg`) over a device of an older id.
  Restarts are allowed.
* `ReportsAgree`: `Spec => []ReportAgrees`, under `ReportSystem` (no lost message; an entry
  shares its path with no other entry and no link).  `Told` adds that a disable that gave the mutex
  back was reported; that Up is of a device still there is the same argument as for
  `UpIsCurrent`.
* `NothingOrphaned`: `Spec => [](NoOrphan /\ OwnedOverRestarts)`, under `OrphanSystem` (only
  workers enable links).  `NoOrphan` is about the time until the daemon first dies.
  `OwnedOverRestarts` is about any number of restarts: when all is quiet, a device bears the name
  of an entry that no worker since the restart has disabled last.  What a daemon that died left
  behind thus goes with the first disable of its entry.
  Workers ask for priority tagging, so the link makes no device of its own (`OrphanInv`).
  Without that hypothesis a bus request can have the link make one while a worker is inside
  (`VlanLinkRace.cfg`).

### ParamProofs

`MacsAgree`: where the sum stays among the addresses, both computations give the base plus the
offset, for any base and offset; `MacsDiffer`: two such links with different offsets have
different addresses; `VlanMacWraps`: out of range the tagged device gets the sum modulo the
number of addresses.  On these rests `AddressIsOfOffset` (`AddressOfOffset`), for any tables
and requests: `Addressed` says that between computing and using the entry has the sum.  `EnableIsLaunched` (`EnabledIsLaunched`) assumes that nothing is
enabled in PSM, since no worker is started for that (section 5); its invariant `Launching`
covers the moment between a failed start and the rollback.

### HalProofs

For any callers, interfaces, mishaps and bounds: `OkServed` (`OkIsServed`), `DeletedGone`
(`DeletedIsGone`) and `AllReleased` (`NothingHeld`).  `DeletedIsGone` rests on order: numbers
on the connection rise, all served ones are below them (`InOrder`), and the latest request of
an interface bounds all others about it (`Latest`); so after its delete was served nothing
about the interface is left on the way.

### WanProofs

For both builds and any number of callers, calls, setting changes, failed commands and
crashes, where settings change only while no caller runs (`QuietChanges`):

* `WanLayoutIsBuilt`: `Spec => []LayoutBuilt`;
* `WanModeIsFollowed`: `Spec => []ModeFollowed`.

The difficulty is that several callers run one list at once, each at its own place, from
whatever devices an interrupted list left.  Three facts carry the proof.

* `Fits` is what every command keeps, whichever list it is of and wherever that stops: the RF
  device has the WAN name or is parked, and only the bridge with the WAN name has ports.
  `CommandFits` shows it of each command, so the lists only ever meet devices that fit.
* Commands of a list have milestones (`Puma7EthDone(s, n)` and three more): what is true of
  the devices once the furthest caller has run `n` commands stays true whatever a caller
  behind it runs again (`Puma7EthStep` ...).  Being up is no milestone, since a caller behind
  takes the device down first.  `UpAfter` says instead that the device is up unless some
  caller is just between the two commands (`Lowered`), of which there is none at the end.
* Callers under way run the same list: `Shape` has each one's settings equal to those there are
  (`Listed`, `Current`).  That is where `QuietChanges` is needed; callers with different lists
  undo one another's commands (`Puma7Eth` takes away the port `Puma7Docsis` adds).

`Vouched`, inductive with `Shape`, says that while nothing failed the callers under way have
built the layout as far as the furthest one (`Building`), or found it there and run nothing
that disturbs it; `Steady` says the same of the mode of the last call.  TLC checked these three
as invariants of the system of `wan_bridge` with three calls before they were proved
(`ShapeStep`, `VouchedStep`, `SteadyStep`).

The proofs assume the named `ASSUME`s of the modules, which TLC evaluates in the runs.

### Only model-checked

* The properties of VlanTermination for untagged entries and bridges, and where names of
  interfaces are rewritten: the theorems are about tagged entries, `vlan_reconfigure` and
  `VlanMixed.cfg` about the others.
* `RefreshFindsOwn`: the least number of a set, for which the installed provers lack the
  induction.
* `ChangesCarriedOut`, `WorkersEnd`, `BusReturns` and `CallsReturn`: liveness under fairness,
  which the prover does not do.

## 5. Where the code does not do what it says

`vlan_overlap` is listed as a finding in `PROJECT.json`: the older of two workers may get the
mutex last, and the interface is left as the older request wanted it (`vlan_dml.c:515`).

Further configurations beside the runs can be given to TLC by hand.  Each ends in a violation
of what a comment says or a client would expect:

| Configuration | Property | What happens |
|---|---|---|
| `EthLinkStaleUp.cfg` (MCEthLink) | `StatusNotified` | a refresh that has read Up reports it after a disable has removed the interface and reported Down (`ethernet_apis.c` 1047) |
| `VlanIdChanged.cfg` (MCVlan) | `CreatedIsDeleted` | a VLANID written while the entry is enabled leaves the device of the old id (`vlan_apis.c` 374) |
| `VlanLinkRace.cfg` (MCVlan) | `UntaggedIsRemoved` | the bus disables a link while a worker is enabling it; the worker's interface stays |
| `VlanSpawnFails.cfg` (MCVlan) | `AnsweredIsDone` | pthread_create fails after Enable was stored; the repeated set is taken for no change |
| `VlanPsmEnabled.cfg` (MCVlan) | `AnsweredIsDone` | an entry enabled in PSM has no worker, and a set to TRUE starts none |
| `VlanRollback.cfg` (MCVlan) | `RolledBackIsRemoved` | rollback resets Enable and Name and leaves the interface |
| `MarkingHandle.cfg` (MarkingTable) | `HandleIdentifies` | the table is freed between the two calls that get and use a row |
| `WanBridgeLag.cfg` (WanBridge) | `ModeOfLastCall` | a call made before WanManager has recorded the mode of the one before it leaves the old layout (comment at `ethernet_apis.c` 1413) |
| `HalLate.cfg` (HalClient) | `Synchronous` | a request the caller gave up on is carried out after the call returned (`vlan_eth_hal.h` 197) |
| `HalRefused.cfg` (HalClient) | `OkIsDone` | a refused request answers `RETURN_OK` (`vlan_eth_hal.h` 194) |
| `HalRow.cfg` (HalClient) | `RowIsOwn` | create and setMarkings name row 0, because `IfaceInstanceNumber` is never set (`vlan_eth_hal.h` 124) |
| `ParamAllOrNone.cfg` (MCParamSets) | `AllOrNone` | a request that is refused and rolled back leaves the other values it set (`vlan_dml.c` 54) |
| `ParamPrefix.cfg` (MCParamSets) | `RefreshFindsOver` | `eth0` and `eth1` have the same first three characters, and a refresh takes the entry over the other (`ethernet_apis.c` 1209) |

`VlanMixed.cfg` (MCVlan) passes: `ReportAgrees` and `NoOrphan` in the HAL build, for a tagged
and an untagged entry on links of their own, with 2 threads and 5 toggles.

`MarkingMends.cfg` (MarkingTable) passes: `NoBadAccess` with one row and four operations, enough
for two changes that race, one that is completed by itself, and a use after it.

`NoBadAccess`, `NoLeak` and `CopyIsCurrent` are refuted without their conditions: the bus thread
asks for a row that a load has counted and not yet allocated (eight states), a load stores its
block over that of another, a copy is taken beside a load.  `ComponentIsWhole` and
`ReadyHasComponent` are refuted without `overlapped` and `recalled`: a Finalize arrives while main
is creating or engaging.  `NoBadAccess` also names two exceptions that need no race, `LateRow` and
`NoCopy`: a later row read from a table whose allocation failed, and a refresh of the HAL build
that reads the rows of a copy it could not make.

Seen while reading, outside what is modelled or claimed:

* `ethernet_internal.c` 148-150 allocates nothing for a link count of 0 and goes on;
  `acPSMValue` holds 64 bytes; WanManager's rows go into a table of 16 (`ethernet_apis.c` 670),
  configurations of the region into ten slots (`vlan_internal.c` 172).
* The Broadcom list never brings its new bridge up, and a repeated call takes down what
  `wan` names; `EthLayout` claims a running bridge for Puma 7 only.  A `bridge_mode` that
  changes between entering and leaving Ethernet mode leaves the bridge; those calls are not
  claimed by `LayoutBuilt`.
* Out of range two links may get one address from `EthLink_GetMacAddr`, while
  `Vlan_SetMacAddr` wraps.  `Vlan_SetMacAddr` goes on when its `sscanf` has read nothing.
* `EthLink_GetVlanIdAndTPId` passes `(PULONG)sizeof(BaseInterface)` as a pointer, which the
  string getter never follows, and `(PULONG)&VlanCfg.TPId` as the place of 8 bytes where the
  field has 4.
* `vlan_eth_hal.c` 203, 291 and 354: `CHECK(jreply_msg)` returns without releasing the
  request (`replyless` in HalClient).
* A HAL that cannot be reached within ten seconds leaves the VLANTermination table empty for
  good, while the Link table is there and calls it.

## 6. Assumptions and omissions

* One thread serves data-model requests.  A second would add interleavings of requests, all of
  them without a lock.
* In `MarkingTable` a step reads or writes one field, in the order of the C, with the field read
  again where a compiler may; torn words and reordering by the processor are not modelled.  What
  follows a bad access is not looked at.
* In EthLink's HAL build a refresh that cannot copy the table is not taken (the daemon would
  crash there, as MarkingTable shows).
* A failed start of a refresh thread, and a refresh of a link that is not enabled, change
  nothing and are not steps.
* Egress QoS and MAC addresses are not part of a device (an untagged interface is made with or
  without an address of its own, `ethernet_apis.c` 883-900); the contents of a marking row are not
  modelled beyond which load they came from.
* Validate and Commit of both tables do nothing and return TRUE: `ParamSets` has one action for
  them, VlanTermination none.  That the bus rolls back the entries it touched when a handler
  refuses is assumed of the CCSP library.
* `ReportAgrees` is claimed until the daemon first dies: after a restart WanManager keeps what
  it was told before, until the next change.
* `Platform` takes a HAL request to be carried out within the call.  `HalClient` shows what
  else may happen (`HalLate.cfg`), and that the order of requests makes up for it once a
  delete was served.  That the connection keeps the order is assumed of the JSON HAL library.
* `WanBridge` leaves out what does not touch the devices modelled: sysctl, ip6tables, flowmgr,
  toe, the agent of the MTA, sysevents and the auto-WAN file.  Service scripts of bridge mode and
  mesh may change them; no layout is claimed outside router mode.  WanManager records a mode
  only while no call runs.
* Not modelled: MAP-T (one sysevent read, and a kernel module unloaded before a deletion, with
  no effect on tables, devices or reports), getters without effect (they copy a field), logging,
  registration of single plug-in functions, and the declarative files.

## 7. Plan

Done: all components of section 1 but the two marked, the refinement of VlanService, and the
theorems of section 4.

Next: proofs of `NoOrphan` and `ReportAgrees` where names are rewritten or entries are
untagged (`vlan_reconfigure`), and of `LastWorkerWins` for untagged entries on links of their
own.
