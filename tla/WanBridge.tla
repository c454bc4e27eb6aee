------------------------------ MODULE WanBridge ------------------------------
(***************************************************************************)
(* The WAN side of the Comcast build (COMCAST_VLAN_HAL_ENABLED): an        *)
(* untagged interface is made by EthLink_CreateBridgeInterface, which runs *)
(* a fixed list of shell commands.                                         *)
(*                                                                         *)
(* With DOCSIS as the WAN, the RF device carries the WAN name and the      *)
(* Ethernet WAN port is a port of the LAN bridge.  With Ethernet as the    *)
(* WAN, the RF device is parked under another name, and a bridge of the    *)
(* WAN name joins the port and the DOCSIS side.                            *)
(*                                                                         *)
(* Several threads may run the list at once (the bus thread and a VLAN     *)
(* worker, each enabling a link), with no lock; a command is a step.       *)
(***************************************************************************)
EXTENDS Naturals, Sequences

CONSTANTS
  Callers,      \* threads inside EthLink_CreateBridgeInterface
  Builds,       \* "puma7": INTEL_PUMA7; "bcm": _COSA_BCM_ARM_
  BridgeModes,  \* values of bridge_mode: 0 is a router
  QuietChanges, \* TRUE: settings change only while no caller runs
  MaxCalls,     \* bound on the number of calls
  MaxChanges,   \* bound on the number of changes of a setting
  MaxMishaps    \* bound on the commands that fail and the times the daemon dies

ASSUME WanBridgeAssumption ==
  /\ Builds \subseteq {"puma7", "bcm"}
  /\ BridgeModes \subseteq Nat
  /\ QuietChanges \in BOOLEAN
  /\ MaxCalls \in Nat /\ MaxChanges \in Nat /\ MaxMishaps \in Nat

VARIABLES
  build,        \* which of the builds this is
  net,          \* the kernel's devices
  ethWan,       \* eth_wan_enabled, with the file /nvram/ETHWAN_ENABLE
  bridgemode,   \* bridge_mode
  lastMode,     \* last_wan_mode, written by WanManager
  cfg,          \* cfg[p]: the WAN_MODE_BRIDGECFG p works with, or NoCfg
  prog,         \* prog[p]: the commands p has still to run
  hw,           \* hw[p]: the address p has read from the parked RF device
  calls, changes, mishaps,
  clean, built, ran, calm   \* history, read by the properties only

settings == <<ethWan, bridgemode, lastMode>>
history == <<clean, built, ran, calm>>
vars == <<build, net, settings, cfg, prog, hw, calls, changes, mishaps, history>>

NoCfg == [eth |-> FALSE, configure |-> FALSE, router |-> TRUE, active |-> FALSE]

Idle == \A p \in Callers : ~cfg[p].active

-----------------------------------------------------------------------------
(* The kernel: which device has a name, which are up, and which bridge each is
   a port of.  A command that cannot be carried out changes nothing, and its
   status is not looked at. *)

Names == {"wan",        \* wan_physical_ifname, or erouter0
          "docsis",     \* ETHWAN_DOCSIS_INF_NAME
          "dummy-rf",
          "port",       \* the Ethernet WAN port
          "lan"}        \* brlan0

Devices == {"rf", "mta", "port", "lanbridge", "wanbridge"}
Bridges == {"lanbridge", "wanbridge"}
Tables == {"arp", "ip", "ip6"}

\* The name under which the RF device is parked.
Park == IF build = "puma7" THEN "dummy-rf" ELSE "docsis"

NetOK(s) ==
  /\ s.at \in [Names -> Devices \cup {"none"}]
  /\ s.up \subseteq Devices
  /\ s.master \in [Devices -> Bridges \cup {"none"}]
  /\ s.nf \subseteq Tables
  /\ s.mac \in {"own", "rf"}

\* "ifconfig n up", "ip link set n up".
Up(s, n) == [s EXCEPT !.up = @ \cup ({s.at[n]} \ {"none"})]

Down(s, n) == [s EXCEPT !.up = @ \ {s.at[n]}]

\* "ip link set n name m": not while n is up, and never over another device.
Rename(s, n, m) ==
  IF s.at[n] = "none" \/ s.at[n] \in s.up \/ s.at[m] # "none" THEN s
  ELSE [s EXCEPT !.at[n] = "none", !.at[m] = s.at[n]]

\* "brctl addbr n" makes a bridge that is down and filters.
AddBr(s, n) ==
  IF s.at[n] # "none" THEN s
  ELSE [s EXCEPT !.at[n] = "wanbridge", !.nf = {}, !.mac = "own"]

\* "brctl delbr n": not while it is up; its ports are released.
DelBr(s, n) ==
  IF s.at[n] # "wanbridge" \/ "wanbridge" \in s.up THEN s
  ELSE [s EXCEPT !.at[n] = "none",
                 !.master = [d \in Devices |->
                               IF s.master[d] = "wanbridge" THEN "none" ELSE s.master[d]]]

\* "brctl addif b n": n joins one bridge at most, and no bridge is a port.
AddIf(s, b, n) ==
  IF s.at[b] \notin Bridges \/ s.at[n] \in Bridges \cup {"none"} THEN s
  ELSE IF s.master[s.at[n]] # "none" THEN s
  ELSE [s EXCEPT !.master[s.at[n]] = s.at[b]]

DelIf(s, b, n) ==
  IF s.at[b] \notin Bridges \/ s.at[n] = "none" THEN s
  ELSE IF s.master[s.at[n]] # s.at[b] THEN s
  ELSE [s EXCEPT !.master[s.at[n]] = "none"]

\* EthLink_BridgeNfDisable: the file of table t exists for a bridge only.
NfDisable(s, n, t) == IF s.at[n] = "wanbridge" THEN [s EXCEPT !.nf = @ \cup {t}] ELSE s

\* "ifconfig n hw ether": of an RF device it is the address it has already, and an
\* address that could not be read is refused.
SetMac(s, n, address) ==
  IF s.at[n] = "wanbridge" /\ address = "rf" THEN [s EXCEPT !.mac = "rf"] ELSE s

\* A command is its name, and the one or two names it is given.
Do(op, a, b) == [op |-> op, a |-> a, b |-> b]
On(op, a) == Do(op, a, "none")

\* What command c makes of s, when the address read before is that of address.
Effect(s, c, address) ==
  CASE c.op = "up"     -> Up(s, c.a)
    [] c.op = "down"   -> Down(s, c.a)
    [] c.op = "name"   -> Rename(s, c.a, c.b)
    [] c.op = "addbr"  -> AddBr(s, c.a)
    [] c.op = "delbr"  -> DelBr(s, c.a)
    [] c.op = "addif"  -> AddIf(s, c.a, c.b)
    [] c.op = "delif"  -> DelIf(s, c.a, c.b)
    [] c.op = "nf"     -> NfDisable(s, c.a, c.b)
    [] c.op = "setmac" -> SetMac(s, c.a, address)
    [] OTHER           -> s

-----------------------------------------------------------------------------
(* The lists of commands, one for each path through EthLink_Hal_BridgeConfigIntelPuma7
   and EthLink_Hal_BridgeConfigBcm.  brctl and bridgeUtils do the same to the LAN bridge;
   sysctl, ip6tables, flowmgr, toe and the service scripts do nothing to the devices
   above. *)

\* Puma 7, with Ethernet as the WAN ...
Puma7Eth ==
  <<Do("delif", "lan", "port"), On("down", "port"), On("down", "wan"),
    Do("name", "wan", "dummy-rf"), On("addbr", "wan"), Do("addif", "wan", "port"),
    Do("nf", "wan", "arp"), Do("nf", "wan", "ip"), Do("nf", "wan", "ip6"),
    On("up", "docsis"), Do("addif", "wan", "docsis"), On("readmac", "dummy-rf"),
    On("down", "wan"), On("setmac", "wan"), On("up", "wan"),
    On("up", "port")>>

\* A mutant of Puma7Docsis: the bridge is not taken down before it is deleted.
Puma7DocsisUp ==
  <<Do("delif", "wan", "port"), Do("addif", "lan", "port"), Do("delif", "wan", "docsis"),
    On("delbr", "wan"), Do("name", "dummy-rf", "wan"), On("up", "wan")>>

\* ... and with DOCSIS.
Puma7Docsis ==
  <<Do("delif", "wan", "port"), Do("addif", "lan", "port"), Do("delif", "wan", "docsis"),
    On("down", "wan"), On("delbr", "wan"), Do("name", "dummy-rf", "wan"),
    On("up", "wan")>>

\* Broadcom in router mode.
BcmEth ==
  <<Do("delif", "lan", "port"), On("down", "port"), On("down", "wan"),
    Do("name", "wan", "docsis"), On("addbr", "wan"), Do("addif", "wan", "port"),
    On("up", "docsis"), Do("addif", "wan", "docsis"), On("up", "port")>>

BcmDocsis ==
  <<Do("delif", "wan", "port"), Do("addif", "lan", "port"), Do("delif", "wan", "docsis"),
    On("down", "wan"), On("delbr", "wan"), On("down", "docsis"),
    Do("name", "docsis", "wan"), On("up", "wan")>>

\* Outside it there is no bridge to make.
BcmEthUnrouted ==
  <<Do("delif", "lan", "port"), On("down", "port"), Do("delif", "lan", "port"),
    Do("addif", "wan", "port"), On("up", "port")>>

\* Without configureBridge only the port changes sides; so it does for Broadcom's
\* DOCSIS outside router mode.
PortToWan == <<Do("delif", "lan", "port"), Do("addif", "wan", "port"), On("up", "port")>>
PortToLan == <<Do("delif", "wan", "port"), Do("addif", "lan", "port")>>

Program(c) ==
  CASE c.configure /\ c.eth /\ build = "puma7"             -> Puma7Eth
    [] c.configure /\ ~c.eth /\ build = "puma7"            -> Puma7Docsis
    [] c.configure /\ c.eth /\ build = "bcm" /\ c.router   -> BcmEth
    [] c.configure /\ c.eth /\ build = "bcm" /\ ~c.router  -> BcmEthUnrouted
    [] c.configure /\ ~c.eth /\ build = "bcm" /\ c.router  -> BcmDocsis
    [] OTHER -> IF c.eth THEN PortToWan ELSE PortToLan

-----------------------------------------------------------------------------
(* EthLink_CreateBridgeInterface *)

\* A mutant of ConfigureBridge: an unknown last mode is no reason to change.
ConfigureKnown(eth, last) ==
  \/ last = "docsis" /\ eth
  \/ last = "eth" /\ ~eth

\* "Do wan interface bridge creation/deletion only if last detected wan and current
\* detected wan interface are different"; an unknown last mode counts as DOCSIS.
ConfigureBridge(eth, last) ==
  \/ last \in {"docsis", "unknown"} /\ eth
  \/ last = "eth" /\ ~eth

Mode(eth) == IF eth THEN "eth" ELSE "docsis"

\* What the history makes of a call that starts: it is clean when no call in which a
\* command failed is under way, and not calm when it is to leave a layout that
\* WanManager has not recorded yet.
Recorded(m) == m = ran \/ (lastMode = "eth") = (ran = "eth")

Start(p) ==
  /\ ~cfg[p].active
  /\ calls < MaxCalls
  /\ calls' = calls + 1
  /\ LET c == [eth |-> ethWan, configure |-> ConfigureBridge(ethWan, lastMode),
               router |-> bridgemode = 0, active |-> TRUE]
     IN  /\ cfg' = [cfg EXCEPT ![p] = c]
         /\ prog' = [prog EXCEPT ![p] = Program(c)]
         /\ calm' = (calm /\ Recorded(Mode(ethWan)) /\ c.router)
  /\ clean' = [clean EXCEPT ![p] = \A q \in Callers : cfg[q].active => clean[q]]
  /\ UNCHANGED <<build, net, settings, hw, changes, mishaps, built, ran>>

\* EthLink_GetInterfaceMacAddress reads through the name; with no device there the
\* address stays zero.
Step(p) ==
  /\ cfg[p].active /\ prog[p] # <<>>
  /\ LET c == Head(prog[p]) IN
       /\ net' = Effect(net, c, hw[p])
       /\ hw' = IF c.op # "readmac" THEN hw
                ELSE [hw EXCEPT ![p] = IF net.at[c.a] = "rf" THEN "rf" ELSE "zero"]
  /\ prog' = [prog EXCEPT ![p] = Tail(@)]
  /\ UNCHANGED <<build, settings, cfg, calls, changes, mishaps, history>>

\* v_secure_system could not run the command: no call under way is clean any more.
Fail(p) ==
  /\ cfg[p].active /\ prog[p] # <<>>
  /\ mishaps < MaxMishaps
  /\ mishaps' = mishaps + 1
  /\ prog' = [prog EXCEPT ![p] = Tail(@)]
  /\ hw' = IF Head(prog[p]).op = "readmac" THEN [hw EXCEPT ![p] = "zero"] ELSE hw
  /\ clean' = [q \in Callers |-> FALSE]
  /\ built' = "none"
  /\ calm' = FALSE
  /\ UNCHANGED <<build, net, settings, cfg, calls, changes, ran>>

\* A call that built a layout, or found it built, without a failure vouches for it.
\* Outside router mode the scripts the list runs decide the layout: none is claimed.
Finish(p) ==
  LET c == cfg[p]
      builds == c.configure /\ c.router
      m == Mode(c.eth)
  IN /\ c.active /\ prog[p] = <<>>
     /\ cfg' = [cfg EXCEPT ![p] = NoCfg]
     /\ built' = IF clean[p] /\ (builds \/ (~c.configure /\ built = m)) THEN m ELSE "none"
     /\ ran' = m
     /\ UNCHANGED <<build, net, settings, prog, hw, calls, changes, mishaps, clean, calm>>

\* The daemon dies between two commands; the kernel and the settings stay.
Crash ==
  /\ ~Idle
  /\ mishaps < MaxMishaps
  /\ mishaps' = mishaps + 1
  /\ cfg' = [p \in Callers |-> NoCfg]
  /\ prog' = [p \in Callers |-> <<>>]
  /\ built' = "none"
  /\ calm' = FALSE
  /\ UNCHANGED <<build, net, settings, hw, calls, changes, clean, ran>>

Change ==
  /\ QuietChanges => Idle
  /\ changes < MaxChanges
  /\ changes' = changes + 1
  /\ UNCHANGED <<build, net, cfg, prog, hw, calls, mishaps, history>>

SetEthWan ==
  /\ Change
  /\ ethWan' = ~ethWan
  /\ UNCHANGED <<bridgemode, lastMode>>

SetBridgeMode(m) ==
  /\ Change
  /\ bridgemode' = m
  /\ UNCHANGED <<ethWan, lastMode>>

\* WanManager records the mode "after this finalize api operation done".
RecordMode ==
  /\ Idle
  /\ lastMode' = ran
  /\ UNCHANGED <<build, net, ethWan, bridgemode, cfg, prog, hw, calls, changes, mishaps, history>>

\* DOCSIS is the WAN before the first change, as the boot scripts leave it.
Init ==
  /\ build \in Builds
  /\ net = [at |-> [n \in Names |->
                      CASE n = "wan" -> "rf"
                        [] n = "docsis" -> IF build = "puma7" THEN "mta" ELSE "none"
                        [] n = "dummy-rf" -> "none"
                        [] n = "port" -> "port"
                        [] n = "lan" -> "lanbridge"],
            up |-> {"rf", "port", "lanbridge"},
            master |-> [d \in Devices |-> IF d = "port" THEN "lanbridge" ELSE "none"],
            nf |-> {}, mac |-> "own"]
  /\ ethWan \in BOOLEAN
  /\ bridgemode \in BridgeModes
  /\ lastMode \in {"docsis", "unknown"}
  /\ cfg = [p \in Callers |-> NoCfg]
  /\ prog = [p \in Callers |-> <<>>]
  /\ hw = [p \in Callers |-> "zero"]
  /\ calls = 0 /\ changes = 0 /\ mishaps = 0
  /\ clean = [p \in Callers |-> TRUE]
  /\ built = "docsis" /\ ran = "docsis" /\ calm = TRUE

Next ==
  \/ \E p \in Callers : Start(p) \/ Step(p) \/ Fail(p) \/ Finish(p)
  \/ Crash \/ SetEthWan \/ RecordMode
  \/ \E m \in BridgeModes : SetBridgeMode(m)

Spec == Init /\ [][Next]_vars

-----------------------------------------------------------------------------
(* Properties *)

PortOf(d, b) == net.master[d] = b

\* Ethernet is the WAN: the bridge has the WAN name, its ports are the Ethernet
\* port and the DOCSIS side, and the RF device is parked.  On Puma 7 the bridge
\* runs, is not filtered, and answers to the address of the RF device.
EthLayout ==
  /\ net.at["wan"] = "wanbridge" /\ net.at[Park] = "rf"
  /\ PortOf("port", "wanbridge") /\ PortOf(net.at["docsis"], "wanbridge")
  /\ {"port", net.at["docsis"]} \subseteq net.up
  /\ build = "puma7" => "wanbridge" \in net.up /\ net.nf = Tables /\ net.mac = "rf"

\* DOCSIS is the WAN: the RF device has the WAN name and runs, the bridge is gone,
\* the Ethernet port is in the LAN.
DocsisLayout ==
  /\ net.at["wan"] = "rf" /\ "rf" \in net.up
  /\ net.at["dummy-rf"] = "none" /\ net.at["docsis"] \in {"mta", "none"}
  /\ PortOf("port", "lanbridge") /\ \A d \in Devices : ~PortOf(d, "wanbridge")

Layout(m) == IF m = "eth" THEN EthLayout ELSE DocsisLayout

\* Whatever failed, died or overlapped before: once no call is under way, a call
\* that was to configure the bridge and ran its commands has left the layout of
\* its mode, and calls of the same mode after it have kept it.
LayoutBuilt == Idle /\ built # "none" => Layout(built)

\* As long as nothing failed and WanManager recorded each mode before the next
\* change, the layout is that of the last call, though most calls do not build it.
ModeFollowed == Idle /\ calm => Layout(ran)

TypeOK ==
  /\ build \in Builds
  /\ NetOK(net)
  /\ lastMode \in {"docsis", "eth", "unknown"}
  /\ built \in {"docsis", "eth", "none"}
  /\ ran \in {"docsis", "eth"}
  /\ bridgemode \in BridgeModes

-----------------------------------------------------------------------------
(* What a comment of the code says, and the code does not do *)

\* "Configure bridge will need to do when prev wan mode and new wan mode is
\* different" (ethernet_apis.c 1413): after every call that nothing failed in, the
\* layout is that of its mode.
ModeOfLastCall == Idle /\ mishaps = 0 => Layout(ran)
=============================================================================
