------------------------------ MODULE WanProofs ------------------------------
(***************************************************************************)
(* The WAN bridge, for any number of callers, calls, changes and mishaps:  *)
(* lists of commands that interleave in any way, and stop anywhere, leave  *)
(* the layout of their mode.                                               *)
(***************************************************************************)
EXTENDS WanBridge, SequenceTheorems, TLAPS

\* What every command keeps of the devices, wherever a list stops: the RF device has the
\* WAN name or is parked, and on Puma 7 it is parked down; only the bridge that has the
\* WAN name has ports.
Fits(s) ==
  /\ s.at \in [Names -> Devices \cup {"none"}]
  /\ s.up \in SUBSET Devices
  /\ s.master \in [Devices -> Bridges \cup {"none"}]
  /\ s.nf \in SUBSET Tables
  /\ s = [at |-> s.at, up |-> s.up, master |-> s.master, nf |-> s.nf, mac |-> s.mac]
  /\ s.at["port"] = "port" /\ s.at["lan"] = "lanbridge"
  /\ s.at["wan"] \in {"rf", "wanbridge", "none"}
  /\ s.at[Park] = IF s.at["wan"] = "rf" THEN "none" ELSE "rf"
  /\ build = "puma7" => /\ s.at["docsis"] = "mta"
                        /\ s.at["wan"] # "rf" => "rf" \notin s.up
  /\ build = "bcm" => s.at["dummy-rf"] = "none"
  /\ \A d \in Devices : s.master[d] = "wanbridge" => s.at["wan"] = "wanbridge"
  /\ s.master["mta"] # "lanbridge" /\ s.master["rf"] # "lanbridge"

\* What stays done once a caller has run n commands of the list, whatever the callers
\* behind it run.
Puma7EthDone(s, n) ==
  /\ n >= 1 => s.master["port"] # "lanbridge"
  /\ n >= 3 => (s.at["wan"] = "rf" => "rf" \notin s.up)
  /\ n >= 4 => s.at["wan"] # "rf"
  /\ n >= 5 => s.at["wan"] = "wanbridge"
  /\ n >= 6 => s.master["port"] = "wanbridge"
  /\ n >= 7 => "arp" \in s.nf
  /\ n >= 8 => "ip" \in s.nf
  /\ n >= 9 => "ip6" \in s.nf
  /\ n >= 10 => "mta" \in s.up
  /\ n >= 11 => s.master["mta"] = "wanbridge"
  /\ n >= 14 => s.mac = "rf"

BcmEthDone(s, n) ==
  /\ n >= 1 => s.master["port"] # "lanbridge"
  /\ n >= 3 => (s.at["wan"] = "rf" => "rf" \notin s.up)
  /\ n >= 4 => s.at["wan"] # "rf"
  /\ n >= 5 => s.at["wan"] = "wanbridge"
  /\ n >= 6 => s.master["port"] = "wanbridge"
  /\ n >= 7 => "rf" \in s.up
  /\ n >= 8 => s.master["rf"] = "wanbridge"

Puma7DocsisDone(s, n) ==
  /\ n >= 1 => s.master["port"] # "wanbridge"
  /\ n >= 2 => s.master["port"] = "lanbridge"
  /\ n >= 4 => (s.at["wan"] = "wanbridge" => "wanbridge" \notin s.up)
  /\ n >= 5 => s.at["wan"] # "wanbridge"
  /\ n >= 6 => s.at["wan"] = "rf"

BcmDocsisDone(s, n) ==
  /\ n >= 1 => s.master["port"] # "wanbridge"
  /\ n >= 2 => s.master["port"] = "lanbridge"
  /\ n >= 4 => (s.at["wan"] = "wanbridge" => "wanbridge" \notin s.up)
  /\ n >= 5 => s.at["wan"] # "wanbridge"
  /\ n >= 6 => (s.at["wan"] # "rf" => "rf" \notin s.up)
  /\ n >= 7 => s.at["wan"] = "rf"

-----------------------------------------------------------------------------
(* Calls that run at the same time *)

Cfgs == [eth : BOOLEAN, configure : BOOLEAN, router : BOOLEAN, active : BOOLEAN]

\* What a call that starts now works with.
Current ==
  [eth |-> ethWan, configure |-> ConfigureBridge(ethWan, lastMode),
   router |-> bridgemode = 0, active |-> TRUE]

\* How many commands p has run or skipped, and what is left of a list after that.
At(p) == Len(Program(cfg[p])) - Len(prog[p])
Rest(list, k) == SubSeq(list, k + 1, Len(list))

\* Between commands a and b of its list some caller has device d down.
Lowered(a, b) == \E p \in Callers : cfg[p].active /\ At(p) \in a..b

UpAfter(d, a, b, n) == n > b => d \in net.up \/ Lowered(a, b)

\* The furthest of the callers of a list has run n commands of it.
Furthest(n, length) ==
  /\ n \in 0..length
  /\ \A p \in Callers : cfg[p].active => At(p) <= n
  /\ built = Mode(ethWan) => n = length

Puma7EthSession(n) ==
  /\ Furthest(n, 16) /\ Puma7EthDone(net, n)
  /\ UpAfter("wanbridge", 3, 14, n) /\ UpAfter("port", 2, 15, n)
  /\ \A p \in Callers : cfg[p].active /\ At(p) >= 12 => hw[p] = "rf"

BcmEthSession(n) ==
  Furthest(n, 9) /\ BcmEthDone(net, n) /\ UpAfter("port", 2, 8, n)

Puma7DocsisSession(n) ==
  Furthest(n, 7) /\ Puma7DocsisDone(net, n) /\ UpAfter("rf", 4, 6, n)

BcmDocsisSession(n) ==
  Furthest(n, 8) /\ BcmDocsisDone(net, n) /\ UpAfter("rf", 4, 7, n)

\* The callers under way build a layout, and the furthest has come to n.
Building(n) ==
  CASE build = "puma7" /\ ethWan  -> Puma7EthSession(n)
    [] build = "bcm" /\ ethWan    -> BcmEthSession(n)
    [] build = "puma7" /\ ~ethWan -> Puma7DocsisSession(n)
    [] build = "bcm" /\ ~ethWan   -> BcmDocsisSession(n)

\* A caller under way works with the settings there are.
Listed(p) ==
  /\ cfg[p] = Current
  /\ At(p) \in 0..Len(Program(Current))
  /\ prog[p] = Rest(Program(Current), At(p))

Shape ==
  /\ build \in {"puma7", "bcm"} /\ Fits(net)
  /\ ethWan \in BOOLEAN /\ bridgemode \in Nat /\ lastMode \in {"docsis", "eth", "unknown"}
  /\ ran \in {"eth", "docsis"} /\ built \in {"eth", "docsis", "none"}
  /\ calm \in BOOLEAN
  /\ cfg \in [Callers -> Cfgs]
  /\ DOMAIN prog = Callers
  /\ hw \in [Callers -> {"rf", "zero"}]
  /\ clean \in [Callers -> BOOLEAN]
  /\ \A p \in Callers : cfg[p].active => Listed(p)
  /\ \A p, q \in Callers : cfg[p].active /\ cfg[q].active => clean[p] = clean[q]

\* Where nothing failed, a list that builds has come as far as its furthest caller, and
\* one that does not keeps the layout there is.
Vouches ==
  /\ ~Current.configure /\ built = Mode(ethWan) => Layout(built)
  /\ Current.configure /\ Current.router => \E n \in 0..16 : Building(n)

\* The inductive invariant: the calls under way vouch for what LayoutBuilt says once the
\* last of them ends.
Vouched ==
  /\ LayoutBuilt
  /\ (\E p \in Callers : cfg[p].active /\ clean[p]) => Vouches

\* And as long as it is calm, the last call vouches for the layout.
Steady ==
  calm => /\ built = ran
          /\ \A p \in Callers : cfg[p].active =>
               clean[p] /\ cfg[p].router /\ (cfg[p].configure \/ ran = Mode(cfg[p].eth))
-----------------------------------------------------------------------------
(* Commands *)

Commands ==
  {On("up", "wan"), On("up", "docsis"), On("up", "port"),
   On("down", "wan"), On("down", "docsis"), On("down", "port"),
   Do("name", "wan", Park), Do("name", Park, "wan"),
   On("addbr", "wan"), On("delbr", "wan"),
   Do("addif", "wan", "port"), Do("addif", "wan", "docsis"), Do("addif", "lan", "port"),
   Do("delif", "wan", "port"), Do("delif", "wan", "docsis"), Do("delif", "lan", "port"),
   Do("nf", "wan", "arp"), Do("nf", "wan", "ip"), Do("nf", "wan", "ip6"),
   On("readmac", "dummy-rf"), On("setmac", "wan")}

LEMMA EffectIs ==
  ASSUME NEW s, NEW a, NEW b, NEW h
  PROVE  /\ Effect(s, On("up", a), h) = Up(s, a)
         /\ Effect(s, On("down", a), h) = Down(s, a)
         /\ Effect(s, On("addbr", a), h) = AddBr(s, a)
         /\ Effect(s, On("delbr", a), h) = DelBr(s, a)
         /\ Effect(s, On("setmac", a), h) = SetMac(s, a, h)
         /\ Effect(s, On("readmac", a), h) = s
         /\ Effect(s, Do("name", a, b), h) = Rename(s, a, b)
         /\ Effect(s, Do("addif", a, b), h) = AddIf(s, a, b)
         /\ Effect(s, Do("delif", a, b), h) = DelIf(s, a, b)
         /\ Effect(s, Do("nf", a, b), h) = NfDisable(s, a, b)
BY DEF Effect, Do, On

LEMMA UpFits ==
  ASSUME NEW s, Fits(s), build \in {"puma7", "bcm"}, NEW n \in {"wan", "docsis", "port"}
  PROVE  Fits(Up(s, n)) /\ Up(s, n).at = s.at /\ Up(s, n).master = s.master
         /\ Up(s, n).nf = s.nf /\ Up(s, n).mac = s.mac
         /\ Up(s, n).up = s.up \cup ({s.at[n]} \ {"none"})
<1> DEFINE t == Up(s, n)
<1>1. t = [at |-> s.at, up |-> s.up \cup ({s.at[n]} \ {"none"}), master |-> s.master,
           nf |-> s.nf, mac |-> s.mac]
  BY DEF Up, Fits
<1>2. n \in Names /\ s.at[n] \in Devices \cup {"none"}
  BY DEF Names, Fits
<1> HIDE DEF t
<1>3. Fits(t)
  BY <1>1, <1>2 DEF Fits, Park
<1> QED
  BY <1>1, <1>3 DEF t

LEMMA DownFits ==
  ASSUME NEW s, Fits(s), build \in {"puma7", "bcm"}, NEW n \in {"wan", "docsis", "port"}
  PROVE  Fits(Down(s, n)) /\ Down(s, n).at = s.at /\ Down(s, n).master = s.master
         /\ Down(s, n).nf = s.nf /\ Down(s, n).mac = s.mac
         /\ Down(s, n).up = s.up \ {s.at[n]}
<1> DEFINE t == Down(s, n)
<1>1. t = [at |-> s.at, up |-> s.up \ {s.at[n]}, master |-> s.master,
           nf |-> s.nf, mac |-> s.mac]
  BY DEF Down, Fits
<1> HIDE DEF t
<1>3. Fits(t)
  BY <1>1 DEF Fits, Park
<1> QED
  BY <1>1, <1>3 DEF t

\* Parking the RF device.
LEMMA ParkFits ==
  ASSUME NEW s, Fits(s), build \in {"puma7", "bcm"}
  PROVE  LET t == Rename(s, "wan", Park) IN
         /\ Fits(t) /\ t.up = s.up /\ t.master = s.master /\ t.nf = s.nf /\ t.mac = s.mac
         /\ s.at["wan"] # "rf" => t.at = s.at
         /\ s.at["wan"] = "rf" => t.at["wan"] = IF "rf" \in s.up THEN "rf" ELSE "none"
<1> DEFINE t == Rename(s, "wan", Park)
<1>0. Park \in Names /\ Park \in {"dummy-rf", "docsis"} /\ "wan" \in Names /\ Park # "wan"
  BY DEF Park, Names
<1>1. CASE s.at["wan"] = "rf" /\ "rf" \notin s.up
  <2>1. t = [at |-> [s.at EXCEPT !["wan"] = "none", ![Park] = "rf"], up |-> s.up,
             master |-> s.master, nf |-> s.nf, mac |-> s.mac]
    BY <1>0, <1>1 DEF Rename, Fits
  <2> HIDE DEF t
  <2>2. t.at["wan"] = "none" /\ t.at[Park] = "rf"
        /\ \A n \in Names : n \notin {"wan", Park} => t.at[n] = s.at[n]
    BY <1>0, <2>1 DEF Fits
  <2>3. t.at \in [Names -> Devices \cup {"none"}]
    BY <1>0, <2>1 DEF Fits, Devices
  <2>4. \A d \in Devices : t.master[d] # "wanbridge"
    BY <1>1, <2>1 DEF Fits
  <2>5. "port" \in Names /\ "lan" \in Names /\ "docsis" \in Names /\ "dummy-rf" \in Names
    BY DEF Names
  <2>6. Fits(t)
    BY <1>0, <1>1, <2>1, <2>2, <2>3, <2>4, <2>5 DEF Fits, Park
  <2> QED
    BY <1>1, <2>1, <2>2, <2>6 DEF t
<1>2. CASE ~(s.at["wan"] = "rf" /\ "rf" \notin s.up)
  <2>1. t = s
    BY <1>2 DEF Rename, Fits
  <2> QED
    BY <1>2, <2>1
<1> QED
  BY <1>1, <1>2

\* And giving it the WAN name back.
LEMMA UnparkFits ==
  ASSUME NEW s, Fits(s), build \in {"puma7", "bcm"}
  PROVE  LET t == Rename(s, Park, "wan") IN
         /\ Fits(t) /\ t.up = s.up /\ t.master = s.master /\ t.nf = s.nf /\ t.mac = s.mac
         /\ s.at["wan"] # "none" => t.at = s.at
         /\ s.at["wan"] = "none" => t.at["wan"] = IF "rf" \in s.up THEN "none" ELSE "rf"
<1> DEFINE t == Rename(s, Park, "wan")
<1>0. Park \in Names /\ Park \in {"dummy-rf", "docsis"} /\ "wan" \in Names /\ Park # "wan"
  BY DEF Park, Names
<1>1. CASE s.at["wan"] = "none" /\ "rf" \notin s.up
  <2>0. s.at[Park] = "rf"
    BY <1>1 DEF Fits
  <2>1. t = [at |-> [s.at EXCEPT ![Park] = "none", !["wan"] = "rf"], up |-> s.up,
             master |-> s.master, nf |-> s.nf, mac |-> s.mac]
    BY <1>0, <1>1, <2>0 DEF Rename, Fits
  <2> HIDE DEF t
  <2>2. t.at["wan"] = "rf" /\ t.at[Park] = "none"
        /\ \A n \in Names : n \notin {"wan", Park} => t.at[n] = s.at[n]
    BY <1>0, <2>1 DEF Fits
  <2>3. t.at \in [Names -> Devices \cup {"none"}]
    BY <1>0, <2>1 DEF Fits, Devices
  <2>4. \A d \in Devices : t.master[d] # "wanbridge"
    BY <1>1, <2>1 DEF Fits
  <2>5. "port" \in Names /\ "lan" \in Names /\ "docsis" \in Names /\ "dummy-rf" \in Names
    BY DEF Names
  <2>6. Fits(t)
    BY <1>0, <1>1, <2>1, <2>2, <2>3, <2>4, <2>5 DEF Fits, Park
  <2> QED
    BY <1>1, <2>1, <2>2, <2>6 DEF t
<1>2. CASE ~(s.at["wan"] = "none" /\ "rf" \notin s.up)
  <2>1. t = s
    BY <1>0, <1>2 DEF Rename, Fits
  <2> QED
    BY <1>2, <2>1
<1> QED
  BY <1>1, <1>2

LEMMA AddBrFits ==
  ASSUME NEW s, Fits(s), build \in {"puma7", "bcm"}
  PROVE  LET t == AddBr(s, "wan") IN
         /\ Fits(t) /\ t.up = s.up /\ t.master = s.master
         /\ s.at["wan"] # "none" => t = s
         /\ s.at["wan"] = "none" => t.at["wan"] = "wanbridge"
<1> DEFINE t == AddBr(s, "wan")
<1>0. Park \in Names /\ Park \in {"dummy-rf", "docsis"} /\ "wan" \in Names /\ Park # "wan"
  BY DEF Park, Names
<1>1. CASE s.at["wan"] = "none"
  <2>1. t = [at |-> [s.at EXCEPT !["wan"] = "wanbridge"], up |-> s.up,
             master |-> s.master, nf |-> {}, mac |-> "own"]
    BY <1>1 DEF AddBr, Fits
  <2> HIDE DEF t
  <2>2. t.at["wan"] = "wanbridge" /\ \A n \in Names : n # "wan" => t.at[n] = s.at[n]
    BY <1>0, <2>1 DEF Fits
  <2>3. t.at \in [Names -> Devices \cup {"none"}]
    BY <1>0, <2>1 DEF Fits, Devices
  <2>4. "port" \in Names /\ "lan" \in Names /\ "docsis" \in Names /\ "dummy-rf" \in Names
    BY DEF Names
  <2>5. Fits(t)
    BY <1>0, <1>1, <2>1, <2>2, <2>3, <2>4 DEF Fits, Park
  <2> QED
    BY <1>1, <2>1, <2>2, <2>5 DEF t
<1>2. CASE s.at["wan"] # "none"
  BY <1>2 DEF AddBr
<1> QED
  BY <1>1, <1>2

LEMMA DelBrFits ==
  ASSUME NEW s, Fits(s), build \in {"puma7", "bcm"}
  PROVE  LET t == DelBr(s, "wan") IN
         /\ Fits(t) /\ t.up = s.up
         /\ \A d \in Devices : s.master[d] # "wanbridge" => t.master[d] = s.master[d]
         /\ s.at["wan"] # "wanbridge" => t = s
         /\ s.at["wan"] = "wanbridge" =>
              t.at["wan"] = IF "wanbridge" \in s.up THEN "wanbridge" ELSE "none"
<1> DEFINE t == DelBr(s, "wan")
           m == [d \in Devices |-> IF s.master[d] = "wanbridge" THEN "none" ELSE s.master[d]]
<1>0. Park \in Names /\ Park \in {"dummy-rf", "docsis"} /\ "wan" \in Names /\ Park # "wan"
  BY DEF Park, Names
<1>1. CASE s.at["wan"] = "wanbridge" /\ "wanbridge" \notin s.up
  <2>1. t = [at |-> [s.at EXCEPT !["wan"] = "none"], up |-> s.up, master |-> m,
             nf |-> s.nf, mac |-> s.mac]
    BY <1>1 DEF DelBr, Fits
  <2>m. m \in [Devices -> Bridges \cup {"none"}]
        /\ (\A d \in Devices : m[d] # "wanbridge")
        /\ (\A d \in Devices : s.master[d] # "wanbridge" => m[d] = s.master[d])
        /\ (\A d \in Devices : m[d] = s.master[d] \/ m[d] = "none")
    BY DEF Fits
  <2> HIDE DEF t, m
  <2>2. t.at["wan"] = "none" /\ \A n \in Names : n # "wan" => t.at[n] = s.at[n]
    BY <1>0, <2>1 DEF Fits
  <2>3. t.at \in [Names -> Devices \cup {"none"}]
    BY <1>0, <2>1 DEF Fits, Devices
  <2>4. "port" \in Names /\ "lan" \in Names /\ "docsis" \in Names /\ "dummy-rf" \in Names
    BY DEF Names
  <2>6. "mta" \in Devices /\ "rf" \in Devices
    BY DEF Devices
  <2>5. Fits(t)
    BY <1>0, <1>1, <2>m, <2>1, <2>2, <2>3, <2>4, <2>6 DEF Fits, Park
  <2> QED
    BY <1>1, <2>m, <2>1, <2>2, <2>5 DEF t
<1>2. CASE ~(s.at["wan"] = "wanbridge" /\ "wanbridge" \notin s.up)
  <2>1. t = s
    BY <1>2 DEF DelBr, Fits
  <2> QED
    BY <1>2, <2>1
<1> QED
  BY <1>1, <1>2

\* What may become of a port when it joins or leaves a bridge.
Rewired(s, t, d, b) ==
  /\ t.at = s.at /\ t.up = s.up /\ t.nf = s.nf /\ t.mac = s.mac
  /\ d \in Devices => t.master[d] = b
  /\ \A e \in Devices : e # d => t.master[e] = s.master[e]

LEMMA RewiredFits ==
  ASSUME NEW s, Fits(s), NEW d \in {"port", "mta", "rf"}, NEW b \in Bridges \cup {"none"},
         b = "wanbridge" => s.at["wan"] = "wanbridge",
         b = "lanbridge" => d = "port"
  PROVE  LET t == [s EXCEPT !.master[d] = b] IN Fits(t) /\ Rewired(s, t, d, b)
<1> DEFINE t == [s EXCEPT !.master[d] = b]
<1>1. t = [at |-> s.at, up |-> s.up, master |-> [s.master EXCEPT ![d] = b], nf |-> s.nf,
           mac |-> s.mac]
  BY DEF Fits
<1>2. d \in Devices /\ "mta" \in Devices /\ "rf" \in Devices
  BY DEF Devices
<1> HIDE DEF t
<1>3. t.master[d] = b /\ \A e \in Devices : e # d => t.master[e] = s.master[e]
  BY <1>1, <1>2 DEF Fits
<1>4. t.master \in [Devices -> Bridges \cup {"none"}]
  BY <1>1, <1>2 DEF Fits
<1>5. Fits(t)
  BY <1>1, <1>2, <1>3, <1>4 DEF Fits
<1> QED
  BY <1>1, <1>3, <1>5 DEF t, Rewired

\* The device that has a name a command gives to a bridge.
LEMMA Ports ==
  ASSUME NEW s, Fits(s), build \in {"puma7", "bcm"}, NEW n \in {"port", "docsis"}
  PROVE  /\ s.at[n] \in {"port", "mta", "rf", "none"} /\ s.at[n] \notin Bridges
         /\ n = "docsis" => s.at[n] # "port"
BY DEF Fits, Park, Bridges

LEMMA AddIfFits ==
  ASSUME NEW s, Fits(s), build \in {"puma7", "bcm"}, NEW b \in {"wan", "lan"},
         NEW n \in {"port", "docsis"}, b = "lan" => n = "port"
  PROVE  LET t == AddIf(s, b, n)
             d == s.at[n]
         IN /\ Fits(t)
            /\ t = s \/ Rewired(s, t, d, s.at[b])
            /\ d # "none" /\ s.at[b] \in Bridges /\ s.master[d] \in {"none", s.at[b]} =>
                 Rewired(s, t, d, s.at[b])
            /\ d # "none" /\ s.master[d] \notin {"none"} => t = s
<1> DEFINE t == AddIf(s, b, n)
           d == s.at[n]
<1>1. d \in {"port", "mta", "rf", "none"} /\ d \notin Bridges /\ (n = "docsis" => d # "port")
  BY Ports
<1>2. s.at[b] \in Bridges => /\ s.at[b] = "wanbridge" => s.at["wan"] = "wanbridge"
                             /\ s.at[b] = "lanbridge" => d = "port"
  BY <1>1 DEF Fits, Bridges
<1>3. CASE s.at[b] \in Bridges /\ d # "none" /\ s.master[d] = "none"
  <2>1. t = [s EXCEPT !.master[d] = s.at[b]]
    BY <1>1, <1>3 DEF AddIf
  <2> HIDE DEF t
  <2> QED
    BY <1>1, <1>2, <1>3, <2>1, RewiredFits DEF t
<1>4. CASE ~(s.at[b] \in Bridges /\ d # "none" /\ s.master[d] = "none")
  <2>1. t = s
    BY <1>1, <1>4 DEF AddIf
  <2> QED
    BY <1>4, <2>1 DEF Rewired
<1> QED
  BY <1>3, <1>4

LEMMA DelIfFits ==
  ASSUME NEW s, Fits(s), build \in {"puma7", "bcm"}, NEW b \in {"wan", "lan"},
         NEW n \in {"port", "docsis"}
  PROVE  LET t == DelIf(s, b, n)
             d == s.at[n]
         IN /\ Fits(t)
            /\ t = s \/ Rewired(s, t, d, "none")
            /\ d # "none" /\ s.at[b] \in Bridges => t.master[d] # s.at[b]
            /\ d # "none" /\ s.master[d] # s.at[b] => t = s
<1> DEFINE t == DelIf(s, b, n)
           d == s.at[n]
<1>1. d \in {"port", "mta", "rf", "none"} /\ d \notin Bridges
  BY Ports
<1>3. CASE s.at[b] \in Bridges /\ d # "none" /\ s.master[d] = s.at[b]
  <2>1. t = [s EXCEPT !.master[d] = "none"]
    BY <1>1, <1>3 DEF DelIf
  <2> HIDE DEF t
  <2>2. Fits(t) /\ Rewired(s, t, d, "none")
    BY <1>1, <1>3, <2>1, RewiredFits DEF Bridges
  <2>3. t.master[d] = "none" /\ s.at[b] # "none"
    BY <1>1, <1>3, <2>2 DEF Rewired, Devices, Bridges
  <2> QED
    BY <1>3, <2>2, <2>3 DEF t
<1>4. CASE ~(s.at[b] \in Bridges /\ d # "none" /\ s.master[d] = s.at[b])
  <2>1. t = s
    BY <1>1, <1>4 DEF DelIf
  <2> QED
    BY <1>4, <2>1 DEF Rewired
<1> QED
  BY <1>3, <1>4

LEMMA NfFits ==
  ASSUME NEW s, Fits(s), NEW a \in Tables
  PROVE  LET t == NfDisable(s, "wan", a) IN
         /\ Fits(t) /\ t.at = s.at /\ t.up = s.up /\ t.master = s.master /\ t.mac = s.mac
         /\ s.nf \subseteq t.nf /\ (s.at["wan"] = "wanbridge" => a \in t.nf)
<1> DEFINE t == NfDisable(s, "wan", a)
<1>1. CASE s.at["wan"] = "wanbridge"
  <2>1. t = [at |-> s.at, up |-> s.up, master |-> s.master, nf |-> s.nf \cup {a}, mac |-> s.mac]
    BY <1>1 DEF NfDisable, Fits
  <2> HIDE DEF t
  <2>2. Fits(t)
    BY <2>1 DEF Fits
  <2> QED
    BY <2>1, <2>2 DEF t
<1>2. CASE s.at["wan"] # "wanbridge"
  BY <1>2 DEF NfDisable
<1> QED
  BY <1>1, <1>2

LEMMA SetMacFits ==
  ASSUME NEW s, Fits(s), NEW h
  PROVE  LET t == SetMac(s, "wan", h) IN
         /\ Fits(t) /\ t.at = s.at /\ t.up = s.up /\ t.master = s.master /\ t.nf = s.nf
         /\ (s.mac = "rf" => t.mac = "rf")
         /\ (s.at["wan"] = "wanbridge" /\ h = "rf" => t.mac = "rf")
<1> DEFINE t == SetMac(s, "wan", h)
<1>1. CASE s.at["wan"] = "wanbridge" /\ h = "rf"
  <2>1. t = [at |-> s.at, up |-> s.up, master |-> s.master, nf |-> s.nf, mac |-> "rf"]
    BY <1>1 DEF SetMac, Fits
  <2> HIDE DEF t
  <2>2. Fits(t)
    BY <2>1 DEF Fits
  <2> QED
    BY <2>1, <2>2 DEF t
<1>2. CASE ~(s.at["wan"] = "wanbridge" /\ h = "rf")
  BY <1>2 DEF SetMac
<1> QED
  BY <1>1, <1>2

LEMMA CommandFits ==
  ASSUME NEW s, Fits(s), build \in {"puma7", "bcm"}, NEW c \in Commands, NEW h
  PROVE  Fits(Effect(s, c, h))
<1>1. ASSUME NEW n \in {"wan", "docsis", "port"}
      PROVE  Fits(Effect(s, On("up", n), h)) /\ Fits(Effect(s, On("down", n), h))
  <2>1. Effect(s, On("up", n), h) = Up(s, n) /\ Effect(s, On("down", n), h) = Down(s, n)
    BY EffectIs
  <2>2. Fits(Up(s, n)) /\ Fits(Down(s, n))
    BY UpFits, DownFits
  <2> QED
    BY <2>1, <2>2
<1>2. Fits(Rename(s, "wan", Park)) /\ Fits(Rename(s, Park, "wan"))
  BY ParkFits, UnparkFits
<1>3. Fits(AddBr(s, "wan")) /\ Fits(DelBr(s, "wan"))
  BY AddBrFits, DelBrFits
<1>4. Fits(AddIf(s, "wan", "port")) /\ Fits(AddIf(s, "wan", "docsis"))
      /\ Fits(AddIf(s, "lan", "port"))
  BY AddIfFits
<1>5. Fits(DelIf(s, "wan", "port")) /\ Fits(DelIf(s, "wan", "docsis"))
      /\ Fits(DelIf(s, "lan", "port"))
  BY DelIfFits
<1>6. \A a \in Tables : Fits(NfDisable(s, "wan", a))
  BY NfFits
<1>7. Fits(SetMac(s, "wan", h))
  BY SetMacFits
<1>8. Fits(Effect(s, Do("name", "wan", Park), h)) /\ Fits(Effect(s, Do("name", Park, "wan"), h))
  BY <1>2, EffectIs
<1>9. Fits(Effect(s, On("addbr", "wan"), h)) /\ Fits(Effect(s, On("delbr", "wan"), h))
  <2>1. /\ Effect(s, On("addbr", "wan"), h) = AddBr(s, "wan")
        /\ Effect(s, On("delbr", "wan"), h) = DelBr(s, "wan")
    BY EffectIs
  <2> QED
    BY <1>3, <2>1
<1>10. Fits(Effect(s, Do("addif", "wan", "port"), h))
       /\ Fits(Effect(s, Do("addif", "wan", "docsis"), h))
       /\ Fits(Effect(s, Do("addif", "lan", "port"), h))
  BY <1>4, EffectIs
<1>11. Fits(Effect(s, Do("delif", "wan", "port"), h))
       /\ Fits(Effect(s, Do("delif", "wan", "docsis"), h))
       /\ Fits(Effect(s, Do("delif", "lan", "port"), h))
  BY <1>5, EffectIs
<1>12. \A a \in Tables : Fits(Effect(s, Do("nf", "wan", a), h))
  BY <1>6, EffectIs
<1>13. Fits(Effect(s, On("readmac", "dummy-rf"), h))
       /\ Fits(Effect(s, On("setmac", "wan"), h))
  <2>1. /\ Effect(s, On("readmac", "dummy-rf"), h) = s
        /\ Effect(s, On("setmac", "wan"), h) = SetMac(s, "wan", h)
    BY EffectIs
  <2> QED
    BY <1>7, <2>1
<1> QED
  BY <1>1, <1>8, <1>9, <1>10, <1>11, <1>12, <1>13 DEF Commands, Tables

-----------------------------------------------------------------------------
(* What the next command of a list makes of what is done *)

Further(n, k) == IF n > k THEN n ELSE k + 1

LEMMA Puma7EthStep ==
  ASSUME build = "puma7", NEW s, Fits(s), NEW n \in 0..16, NEW k \in 0..15, k <= n,
         Puma7EthDone(s, n), NEW h, k = 13 => h = "rf"
  PROVE  LET t == Effect(s, Puma7Eth[k + 1], h) IN
         /\ Puma7EthDone(t, Further(n, k))
         /\ ("port" \in s.up /\ k # 1) \/ k = 15 => "port" \in t.up
         /\ ("wanbridge" \in s.up /\ k \notin {2, 12}) \/ k = 14 => "wanbridge" \in t.up
         /\ k = 11 => s.at["dummy-rf"] = "rf"
<1> DEFINE t == Effect(s, Puma7Eth[k + 1], h)
           Goal == /\ Puma7EthDone(t, Further(n, k))
                   /\ ("port" \in s.up /\ k # 1) \/ k = 15 => "port" \in t.up
                   /\ ("wanbridge" \in s.up /\ k \notin {2, 12}) \/ k = 14 => "wanbridge" \in t.up
                   /\ k = 11 => s.at["dummy-rf"] = "rf"
<1>0. ASSUME k = 0 PROVE Goal
  <2>1. t = DelIf(s, "lan", "port")
    BY <1>0, EffectIs DEF Puma7Eth
  <2> HIDE DEF t
  <2> QED
    BY <1>0, <2>1, DelIfFits DEF Puma7EthDone, Further, Fits, Park, Rewired, Devices, Bridges
<1>1. ASSUME k = 1 PROVE Goal
  <2>1. t = Down(s, "port")
    BY <1>1, EffectIs DEF Puma7Eth
  <2> HIDE DEF t
  <2> QED
    BY <1>1, <2>1, DownFits DEF Puma7EthDone, Further, Fits, Park
<1>2. ASSUME k = 2 PROVE Goal
  <2>1. t = Down(s, "wan")
    BY <1>2, EffectIs DEF Puma7Eth
  <2> HIDE DEF t
  <2> QED
    BY <1>2, <2>1, DownFits DEF Puma7EthDone, Further, Fits, Park
<1>3. ASSUME k = 3 PROVE Goal
  <2>1. t = Rename(s, "wan", Park)
    BY <1>3, EffectIs DEF Puma7Eth, Park
  <2> HIDE DEF t
  <2> QED
    BY <1>3, <2>1, ParkFits DEF Puma7EthDone, Further, Fits, Park
<1>4. ASSUME k = 4 PROVE Goal
  <2>1. t = AddBr(s, "wan")
    BY <1>4, EffectIs DEF Puma7Eth
  <2> HIDE DEF t
  <2> QED
    BY <1>4, <2>1, AddBrFits DEF Puma7EthDone, Further, Fits, Park
<1>5. ASSUME k = 5 PROVE Goal
  <2>1. t = AddIf(s, "wan", "port")
    BY <1>5, EffectIs DEF Puma7Eth
  <2> HIDE DEF t
  <2> QED
    BY <1>5, <2>1, AddIfFits DEF Puma7EthDone, Further, Fits, Park, Rewired, Devices, Bridges
<1>6. ASSUME k = 6 PROVE Goal
  <2>1. t = NfDisable(s, "wan", "arp")
    BY <1>6, EffectIs DEF Puma7Eth
  <2> HIDE DEF t
  <2> QED
    BY <1>6, <2>1, NfFits DEF Puma7EthDone, Further, Tables
<1>7. ASSUME k = 7 PROVE Goal
  <2>1. t = NfDisable(s, "wan", "ip")
    BY <1>7, EffectIs DEF Puma7Eth
  <2> HIDE DEF t
  <2> QED
    BY <1>7, <2>1, NfFits DEF Puma7EthDone, Further, Tables
<1>8. ASSUME k = 8 PROVE Goal
  <2>1. t = NfDisable(s, "wan", "ip6")
    BY <1>8, EffectIs DEF Puma7Eth
  <2> HIDE DEF t
  <2> QED
    BY <1>8, <2>1, NfFits DEF Puma7EthDone, Further, Tables
<1>9. ASSUME k = 9 PROVE Goal
  <2>1. t = Up(s, "docsis")
    BY <1>9, EffectIs DEF Puma7Eth
  <2> HIDE DEF t
  <2> QED
    BY <1>9, <2>1, UpFits DEF Puma7EthDone, Further, Fits, Park
<1>10. ASSUME k = 10 PROVE Goal
  <2>1. t = AddIf(s, "wan", "docsis")
    BY <1>10, EffectIs DEF Puma7Eth
  <2> HIDE DEF t
  <2> QED
    BY <1>10, <2>1, AddIfFits DEF Puma7EthDone, Further, Fits, Park, Rewired, Devices, Bridges
<1>11. ASSUME k = 11 PROVE Goal
  <2>1. t = s
    BY <1>11, EffectIs DEF Puma7Eth
  <2> HIDE DEF t
  <2> QED
    BY <1>11, <2>1 DEF Puma7EthDone, Further, Fits, Park
<1>12. ASSUME k = 12 PROVE Goal
  <2>1. t = Down(s, "wan")
    BY <1>12, EffectIs DEF Puma7Eth
  <2> HIDE DEF t
  <2> QED
    BY <1>12, <2>1, DownFits DEF Puma7EthDone, Further, Fits, Park
<1>13. ASSUME k = 13 PROVE Goal
  <2>1. t = SetMac(s, "wan", h)
    BY <1>13, EffectIs DEF Puma7Eth
  <2> HIDE DEF t
  <2> QED
    BY <1>13, <2>1, SetMacFits DEF Puma7EthDone, Further
<1>14. ASSUME k = 14 PROVE Goal
  <2>1. t = Up(s, "wan")
    BY <1>14, EffectIs DEF Puma7Eth
  <2> HIDE DEF t
  <2> QED
    BY <1>14, <2>1, UpFits DEF Puma7EthDone, Further, Fits, Park
<1>15. ASSUME k = 15 PROVE Goal
  <2>1. t = Up(s, "port")
    BY <1>15, EffectIs DEF Puma7Eth
  <2> HIDE DEF t
  <2> QED
    BY <1>15, <2>1, UpFits DEF Puma7EthDone, Further, Fits, Park
<1> QED
  BY <1>0, <1>1, <1>2, <1>3, <1>4, <1>5, <1>6, <1>7, <1>8, <1>9, <1>10, <1>11, <1>12, <1>13, <1>14, <1>15

LEMMA BcmEthStep ==
  ASSUME build = "bcm", NEW s, Fits(s), NEW n \in 0..9, NEW k \in 0..8, k <= n,
         BcmEthDone(s, n), NEW h
  PROVE  LET t == Effect(s, BcmEth[k + 1], h) IN
         /\ BcmEthDone(t, Further(n, k))
         /\ ("port" \in s.up /\ k # 1) \/ k = 8 => "port" \in t.up
<1> DEFINE t == Effect(s, BcmEth[k + 1], h)
           Goal == /\ BcmEthDone(t, Further(n, k))
                   /\ ("port" \in s.up /\ k # 1) \/ k = 8 => "port" \in t.up
<1>0. ASSUME k = 0 PROVE Goal
  <2>1. t = DelIf(s, "lan", "port")
    BY <1>0, EffectIs DEF BcmEth
  <2> HIDE DEF t
  <2> QED
    BY <1>0, <2>1, DelIfFits DEF BcmEthDone, Further, Fits, Park, Rewired, Devices, Bridges
<1>1. ASSUME k = 1 PROVE Goal
  <2>1. t = Down(s, "port")
    BY <1>1, EffectIs DEF BcmEth
  <2> HIDE DEF t
  <2> QED
    BY <1>1, <2>1, DownFits DEF BcmEthDone, Further, Fits, Park
<1>2. ASSUME k = 2 PROVE Goal
  <2>1. t = Down(s, "wan")
    BY <1>2, EffectIs DEF BcmEth
  <2> HIDE DEF t
  <2> QED
    BY <1>2, <2>1, DownFits DEF BcmEthDone, Further, Fits, Park
<1>3. ASSUME k = 3 PROVE Goal
  <2>1. t = Rename(s, "wan", Park)
    BY <1>3, EffectIs DEF BcmEth, Park
  <2> HIDE DEF t
  <2> QED
    BY <1>3, <2>1, ParkFits DEF BcmEthDone, Further, Fits, Park
<1>4. ASSUME k = 4 PROVE Goal
  <2>1. t = AddBr(s, "wan")
    BY <1>4, EffectIs DEF BcmEth
  <2> HIDE DEF t
  <2> QED
    BY <1>4, <2>1, AddBrFits DEF BcmEthDone, Further, Fits, Park
<1>5. ASSUME k = 5 PROVE Goal
  <2>1. t = AddIf(s, "wan", "port")
    BY <1>5, EffectIs DEF BcmEth
  <2> HIDE DEF t
  <2> QED
    BY <1>5, <2>1, AddIfFits DEF BcmEthDone, Further, Fits, Park, Rewired, Devices, Bridges
<1>6. ASSUME k = 6 PROVE Goal
  <2>1. t = Up(s, "docsis")
    BY <1>6, EffectIs DEF BcmEth
  <2> HIDE DEF t
  <2> QED
    BY <1>6, <2>1, UpFits DEF BcmEthDone, Further, Fits, Park
<1>7. ASSUME k = 7 PROVE Goal
  <2>1. t = AddIf(s, "wan", "docsis")
    BY <1>7, EffectIs DEF BcmEth
  <2> HIDE DEF t
  <2> QED
    BY <1>7, <2>1, AddIfFits DEF BcmEthDone, Further, Fits, Park, Rewired, Devices, Bridges
<1>8. ASSUME k = 8 PROVE Goal
  <2>1. t = Up(s, "port")
    BY <1>8, EffectIs DEF BcmEth
  <2> HIDE DEF t
  <2> QED
    BY <1>8, <2>1, UpFits DEF BcmEthDone, Further, Fits, Park
<1> QED
  BY <1>0, <1>1, <1>2, <1>3, <1>4, <1>5, <1>6, <1>7, <1>8

LEMMA Puma7DocsisStep ==
  ASSUME build = "puma7", NEW s, Fits(s), NEW n \in 0..7, NEW k \in 0..6, k <= n,
         Puma7DocsisDone(s, n), NEW h
  PROVE  LET t == Effect(s, Puma7Docsis[k + 1], h) IN
         /\ Puma7DocsisDone(t, Further(n, k))
         /\ ("rf" \in s.up /\ k # 3) \/ k = 6 => "rf" \in t.up
<1> DEFINE t == Effect(s, Puma7Docsis[k + 1], h)
           Goal == /\ Puma7DocsisDone(t, Further(n, k))
                   /\ ("rf" \in s.up /\ k # 3) \/ k = 6 => "rf" \in t.up
<1>0. ASSUME k = 0 PROVE Goal
  <2>1. t = DelIf(s, "wan", "port")
    BY <1>0, EffectIs DEF Puma7Docsis
  <2> HIDE DEF t
  <2> QED
    BY <1>0, <2>1, DelIfFits DEF Puma7DocsisDone, Further, Fits, Park, Rewired, Devices, Bridges
<1>1. ASSUME k = 1 PROVE Goal
  <2>1. t = AddIf(s, "lan", "port")
    BY <1>1, EffectIs DEF Puma7Docsis
  <2> HIDE DEF t
  <2> QED
    BY <1>1, <2>1, AddIfFits DEF Puma7DocsisDone, Further, Fits, Park, Rewired, Devices, Bridges
<1>2. ASSUME k = 2 PROVE Goal
  <2>1. t = DelIf(s, "wan", "docsis")
    BY <1>2, EffectIs DEF Puma7Docsis
  <2> HIDE DEF t
  <2> QED
    BY <1>2, <2>1, DelIfFits DEF Puma7DocsisDone, Further, Fits, Park, Rewired, Devices, Bridges
<1>3. ASSUME k = 3 PROVE Goal
  <2>1. t = Down(s, "wan")
    BY <1>3, EffectIs DEF Puma7Docsis
  <2> HIDE DEF t
  <2> QED
    BY <1>3, <2>1, DownFits DEF Puma7DocsisDone, Further, Fits, Park
<1>4. ASSUME k = 4 PROVE Goal
  <2>1. t = DelBr(s, "wan")
    BY <1>4, EffectIs DEF Puma7Docsis
  <2> HIDE DEF t
  <2> QED
    BY <1>4, <2>1, DelBrFits DEF Puma7DocsisDone, Further, Fits, Devices
<1>5. ASSUME k = 5 PROVE Goal
  <2>1. t = Rename(s, Park, "wan")
    BY <1>5, EffectIs DEF Puma7Docsis, Park
  <2> HIDE DEF t
  <2> QED
    BY <1>5, <2>1, UnparkFits DEF Puma7DocsisDone, Further, Fits, Park
<1>6. ASSUME k = 6 PROVE Goal
  <2>1. t = Up(s, "wan")
    BY <1>6, EffectIs DEF Puma7Docsis
  <2> HIDE DEF t
  <2> QED
    BY <1>6, <2>1, UpFits DEF Puma7DocsisDone, Further, Fits, Park
<1> QED
  BY <1>0, <1>1, <1>2, <1>3, <1>4, <1>5, <1>6

LEMMA BcmDocsisStep ==
  ASSUME build = "bcm", NEW s, Fits(s), NEW n \in 0..8, NEW k \in 0..7, k <= n,
         BcmDocsisDone(s, n), NEW h
  PROVE  LET t == Effect(s, BcmDocsis[k + 1], h) IN
         /\ BcmDocsisDone(t, Further(n, k))
         /\ ("rf" \in s.up /\ k \notin {3, 5}) \/ k = 7 => "rf" \in t.up
<1> DEFINE t == Effect(s, BcmDocsis[k + 1], h)
           Goal == /\ BcmDocsisDone(t, Further(n, k))
                   /\ ("rf" \in s.up /\ k \notin {3, 5}) \/ k = 7 => "rf" \in t.up
<1>0. ASSUME k = 0 PROVE Goal
  <2>1. t = DelIf(s, "wan", "port")
    BY <1>0, EffectIs DEF BcmDocsis
  <2> HIDE DEF t
  <2> QED
    BY <1>0, <2>1, DelIfFits DEF BcmDocsisDone, Further, Fits, Park, Rewired, Devices, Bridges
<1>1. ASSUME k = 1 PROVE Goal
  <2>1. t = AddIf(s, "lan", "port")
    BY <1>1, EffectIs DEF BcmDocsis
  <2> HIDE DEF t
  <2> QED
    BY <1>1, <2>1, AddIfFits DEF BcmDocsisDone, Further, Fits, Park, Rewired, Devices, Bridges
<1>2. ASSUME k = 2 PROVE Goal
  <2>1. t = DelIf(s, "wan", "docsis")
    BY <1>2, EffectIs DEF BcmDocsis
  <2> HIDE DEF t
  <2> QED
    BY <1>2, <2>1, DelIfFits DEF BcmDocsisDone, Further, Fits, Park, Rewired, Devices, Bridges
<1>3. ASSUME k = 3 PROVE Goal
  <2>1. t = Down(s, "wan")
    BY <1>3, EffectIs DEF BcmDocsis
  <2> HIDE DEF t
  <2> QED
    BY <1>3, <2>1, DownFits DEF BcmDocsisDone, Further, Fits, Park
<1>4. ASSUME k = 4 PROVE Goal
  <2>1. t = DelBr(s, "wan")
    BY <1>4, EffectIs DEF BcmDocsis
  <2> HIDE DEF t
  <2> QED
    BY <1>4, <2>1, DelBrFits DEF BcmDocsisDone, Further, Fits, Devices
<1>5. ASSUME k = 5 PROVE Goal
  <2>1. t = Down(s, "docsis")
    BY <1>5, EffectIs DEF BcmDocsis
  <2> HIDE DEF t
  <2> QED
    BY <1>5, <2>1, DownFits DEF BcmDocsisDone, Further, Fits, Park
<1>6. ASSUME k = 6 PROVE Goal
  <2>1. t = Rename(s, Park, "wan")
    BY <1>6, EffectIs DEF BcmDocsis, Park
  <2> HIDE DEF t
  <2> QED
    BY <1>6, <2>1, UnparkFits DEF BcmDocsisDone, Further, Fits, Park
<1>7. ASSUME k = 7 PROVE Goal
  <2>1. t = Up(s, "wan")
    BY <1>7, EffectIs DEF BcmDocsis
  <2> HIDE DEF t
  <2> QED
    BY <1>7, <2>1, UpFits DEF BcmDocsisDone, Further, Fits, Park
<1> QED
  BY <1>0, <1>1, <1>2, <1>3, <1>4, <1>5, <1>6, <1>7

-----------------------------------------------------------------------------
(* The list of a call, and what is left of it *)

LEMMA Lists ==
  ASSUME build \in {"puma7", "bcm"}
  PROVE  /\ PortToWan \in Seq(Commands) /\ Len(PortToWan) = 3
         /\ PortToLan \in Seq(Commands) /\ Len(PortToLan) = 2
         /\ build = "puma7" => /\ Puma7Eth \in Seq(Commands) /\ Len(Puma7Eth) = 16
                               /\ Puma7Docsis \in Seq(Commands) /\ Len(Puma7Docsis) = 7
         /\ build = "bcm" => /\ BcmEth \in Seq(Commands) /\ Len(BcmEth) = 9
                             /\ BcmDocsis \in Seq(Commands) /\ Len(BcmDocsis) = 8
                             /\ BcmEthUnrouted \in Seq(Commands) /\ Len(BcmEthUnrouted) = 5
<1>1. PortToWan \in Seq(Commands) /\ Len(PortToWan) = 3
      /\ PortToLan \in Seq(Commands) /\ Len(PortToLan) = 2
  BY DEF PortToWan, PortToLan, Commands
<1>2. ASSUME build = "puma7" PROVE Puma7Eth \in Seq(Commands) /\ Len(Puma7Eth) = 16
  BY <1>2 DEF Puma7Eth, Commands, Park
<1>3. ASSUME build = "puma7" PROVE Puma7Docsis \in Seq(Commands) /\ Len(Puma7Docsis) = 7
  BY <1>3 DEF Puma7Docsis, Commands, Park
<1>4. ASSUME build = "bcm" PROVE BcmEth \in Seq(Commands) /\ Len(BcmEth) = 9
  BY <1>4 DEF BcmEth, Commands, Park
<1>5. ASSUME build = "bcm" PROVE BcmDocsis \in Seq(Commands) /\ Len(BcmDocsis) = 8
  BY <1>5 DEF BcmDocsis, Commands, Park
<1>6. ASSUME build = "bcm" PROVE BcmEthUnrouted \in Seq(Commands) /\ Len(BcmEthUnrouted) = 5
  BY <1>6 DEF BcmEthUnrouted, Commands, Park
<1> QED
  BY <1>1, <1>2, <1>3, <1>4, <1>5, <1>6

LEMMA Programs ==
  ASSUME build \in {"puma7", "bcm"}, NEW c
  PROVE  Program(c) \in Seq(Commands)
BY Lists DEF Program

LEMMA RestIs ==
  ASSUME NEW S, NEW list \in Seq(S), NEW k \in 0..Len(list)
  PROVE  /\ Rest(list, 0) = list
         /\ Rest(list, k) \in Seq(S) /\ Len(Rest(list, k)) = Len(list) - k
         /\ k < Len(list) => /\ Head(Rest(list, k)) = list[k + 1]
                             /\ Tail(Rest(list, k)) = Rest(list, k + 1)
BY DEF Rest

LEMMA UnderWay ==
  ASSUME Shape, NEW p \in Callers, cfg[p].active
  PROVE  /\ Program(Current) \in Seq(Commands) /\ Len(Program(Current)) \in Nat
         /\ At(p) \in 0..Len(Program(Current))
         /\ prog[p] = <<>> => At(p) = Len(Program(Current))
         /\ prog[p] # <<>> => /\ At(p) < Len(Program(Current))
                              /\ Head(prog[p]) = Program(Current)[At(p) + 1]
                              /\ Tail(prog[p]) = Rest(Program(Current), At(p) + 1)
<1> DEFINE P == Program(Current)
           k == At(p)
<1>1. P \in Seq(Commands)
  BY Programs DEF Shape
<1>2. k \in 0..Len(P) /\ prog[p] = Rest(P, k)
  BY DEF Shape, Listed
<1> HIDE DEF P, k
<1>3. Len(prog[p]) = Len(P) - k /\ prog[p] \in Seq(Commands)
  BY <1>1, <1>2, RestIs
<1>4. CASE prog[p] = <<>>
  BY <1>1, <1>2, <1>3, <1>4 DEF P, k
<1>5. CASE prog[p] # <<>>
  <2>1. k < Len(P)
    BY <1>1, <1>2, <1>3, <1>5
  <2> QED
    BY <1>1, <1>2, <1>5, <2>1, RestIs DEF P, k
<1> QED
  BY <1>4, <1>5

\* Whoever does not move stays where it is, and one who drops a command moves by one.
LEMMA Stays ==
  ASSUME Shape, UNCHANGED <<build, settings>>, NEW q \in Callers,
         cfg'[q] = cfg[q], prog'[q] = prog[q], cfg[q].active
  PROVE  At(q)' = At(q) /\ Listed(q)'
<1>1. Current' = Current
  BY DEF settings, Current
<1>2. Program(Current)' = Program(Current) /\ Program(cfg[q])' = Program(cfg[q])
  BY <1>1 DEF Program
<1>3. At(q)' = At(q)
  BY <1>2 DEF At
<1>4. Listed(q)
  BY DEF Shape
<1> QED
  BY <1>1, <1>2, <1>3, <1>4 DEF Listed

LEMMA Moves ==
  ASSUME Shape, UNCHANGED <<build, settings>>, NEW p \in Callers,
         cfg'[p] = cfg[p], prog'[p] = Tail(prog[p]), cfg[p].active, prog[p] # <<>>
  PROVE  At(p)' = At(p) + 1 /\ Listed(p)'
<1>1. Current' = Current /\ cfg[p] = Current
  BY DEF settings, Current, Shape, Listed
<1>2. Program(Current)' = Program(Current) /\ Program(cfg[p])' = Program(Current)
  BY <1>1 DEF Program
<1> DEFINE P == Program(Current)
           k == At(p)
<1>3. P \in Seq(Commands) /\ k \in 0..Len(P) /\ k < Len(P) /\ Tail(prog[p]) = Rest(P, k + 1)
  BY UnderWay
<1>4. At(p)' = Len(P) - Len(Tail(prog[p]))
  BY <1>2 DEF At
<1>5. At(p)' = k + 1 /\ k + 1 \in 0..Len(P)
  <2> HIDE DEF P, k
  <2>1. k + 1 \in 0..Len(P)
    BY <1>3
  <2>2. Len(Rest(P, k + 1)) = Len(P) - (k + 1)
    BY <1>3, <2>1, RestIs
  <2>3. Len(P) \in Nat /\ k \in Nat /\ Len(Tail(prog[p])) = Len(P) - (k + 1)
    <3>1. Len(P) \in Nat /\ k \in Nat
      BY <1>3
    <3>2. Tail(prog[p]) = Rest(P, k + 1)
      BY <1>3
    <3>3. Len(Tail(prog[p])) = Len(P) - (k + 1)
      BY <2>2, <3>2, Zenon
    <3> QED
      BY <3>1, <3>3
  <2>4. At(p)' = Len(P) - (Len(P) - (k + 1))
    BY <1>4, <2>3
  <2> QED
    BY <2>1, <2>3, <2>4
<1> QED
  BY <1>1, <1>2, <1>3, <1>5 DEF Listed

\* A call that starts has its whole list before it.
LEMMA Begins ==
  ASSUME Shape, UNCHANGED <<build, settings>>, NEW p \in Callers,
         cfg'[p] = Current, prog'[p] = Program(Current)
  PROVE  At(p)' = 0 /\ Listed(p)'
<1>1. Current' = Current
  BY DEF settings, Current
<1>2. Program(Current)' = Program(Current) /\ Program(cfg[p])' = Program(Current)
  BY <1>1 DEF Program
<1>3. Program(Current) \in Seq(Commands)
  BY Programs DEF Shape
<1>4. At(p)' = 0
  BY <1>2, <1>3 DEF At
<1>5. Rest(Program(Current), 0) = Program(Current)
  BY <1>3, RestIs
<1> QED
  BY <1>1, <1>2, <1>3, <1>4, <1>5 DEF Listed

LEMMA SameBuild ==
  ASSUME UNCHANGED build
  PROVE  Fits(net)' <=> Fits(net')
BY DEF Fits, Park

LEMMA ShapeStep ==
  ASSUME WanBridgeAssumption, QuietChanges, Shape, [Next]_vars
  PROVE  Shape'
<1> USE DEF settings, history
<1>0. build \in {"puma7", "bcm"} /\ Fits(net) /\ Current \in Cfgs /\ Current.active
      /\ NoCfg \in Cfgs /\ ~NoCfg.active
  BY DEF Shape, Current, Cfgs, NoCfg, ConfigureBridge
<1>1. ASSUME NEW p \in Callers, Start(p) PROVE Shape'
  <2>1. cfg' = [cfg EXCEPT ![p] = Current] /\ prog' = [prog EXCEPT ![p] = Program(Current)]
    BY <1>1 DEF Start, Current
  <2>2. cfg'[p] = Current /\ prog'[p] = Program(Current) /\ DOMAIN prog' = Callers
        /\ cfg' \in [Callers -> Cfgs]
        /\ \A q \in Callers : q # p => cfg'[q] = cfg[q] /\ prog'[q] = prog[q]
    BY <1>0, <2>1 DEF Shape
  <2>3. UNCHANGED <<build, net, settings, hw, built, ran>>
    BY <1>1 DEF Start
  <2>4. \A q \in Callers : cfg'[q].active => Listed(q)'
    BY <2>2, <2>3, Begins, Stays
  <2>5. Fits(net)'
    BY <1>0, <2>3, SameBuild
  <2>6. clean' \in [Callers -> BOOLEAN] /\ calm' \in BOOLEAN
        /\ \A q, r \in Callers : cfg'[q].active /\ cfg'[r].active => clean'[q] = clean'[r]
    <3>1. clean' = [clean EXCEPT ![p] = \A q \in Callers : cfg[q].active => clean[q]]
          /\ calm' \in BOOLEAN /\ ~cfg[p].active
      BY <1>1 DEF Start, Shape
    <3>2. clean'[p] = (\A q \in Callers : cfg[q].active => clean[q]) /\ clean' \in [Callers -> BOOLEAN]
          /\ \A q \in Callers : q # p => clean'[q] = clean[q]
      BY <3>1 DEF Shape
    <3>3. \A q \in Callers : q # p /\ cfg[q].active => clean'[p] = clean[q]
      BY <3>2 DEF Shape
    <3> QED
      BY <2>2, <3>1, <3>2, <3>3 DEF Shape
  <2> QED
    BY <2>2, <2>3, <2>4, <2>5, <2>6 DEF Shape
<1>2. ASSUME NEW p \in Callers, Step(p) PROVE Shape'
  <2>1. cfg[p].active /\ prog[p] # <<>> /\ prog' = [prog EXCEPT ![p] = Tail(@)]
        /\ UNCHANGED <<build, settings, cfg, clean, built, ran, calm>>
        /\ net' = Effect(net, Head(prog[p]), hw[p])
    BY <1>2 DEF Step
  <2>2. prog'[p] = Tail(prog[p]) /\ DOMAIN prog' = Callers
        /\ \A q \in Callers : q # p => prog'[q] = prog[q]
    BY <2>1 DEF Shape
  <2>3. \A q \in Callers : cfg'[q].active => Listed(q)'
    BY <2>1, <2>2, Moves, Stays
  <2>4. Head(prog[p]) \in Commands
    <3>1. prog[p] \in Seq(Commands)
      BY <2>1, UnderWay, RestIs DEF Shape, Listed
    <3> QED
      BY <2>1, <3>1
  <2>5. Fits(net)'
    <3>1. PICK c \in Commands : net' = Effect(net, c, hw[p])
      BY <2>1, <2>4
    <3>2. Fits(net')
      BY <1>0, <3>1, CommandFits
    <3> QED
      BY <2>1, <3>2, SameBuild
  <2>6. hw' \in [Callers -> {"rf", "zero"}]
    BY <1>2 DEF Step, Shape
  <2> QED
    BY <2>1, <2>2, <2>3, <2>5, <2>6 DEF Shape
<1>3. ASSUME NEW p \in Callers, Fail(p) PROVE Shape'
  <2>1. cfg[p].active /\ prog[p] # <<>> /\ prog' = [prog EXCEPT ![p] = Tail(@)]
        /\ UNCHANGED <<build, net, settings, cfg, ran>>
        /\ clean' = [q \in Callers |-> FALSE] /\ built' = "none" /\ calm' = FALSE
    BY <1>3 DEF Fail
  <2>2. prog'[p] = Tail(prog[p]) /\ DOMAIN prog' = Callers
        /\ \A q \in Callers : q # p => prog'[q] = prog[q]
    BY <2>1 DEF Shape
  <2>3. \A q \in Callers : cfg'[q].active => Listed(q)'
    BY <2>1, <2>2, Moves, Stays
  <2>4. Fits(net)'
    BY <1>0, <2>1, SameBuild
  <2>5. hw' \in [Callers -> {"rf", "zero"}]
    BY <1>3 DEF Fail, Shape
  <2> QED
    BY <2>1, <2>2, <2>3, <2>4, <2>5 DEF Shape
<1>4. ASSUME NEW p \in Callers, Finish(p) PROVE Shape'
  <2>1. cfg' = [cfg EXCEPT ![p] = NoCfg]
        /\ UNCHANGED <<build, net, settings, prog, hw, clean, calm>>
        /\ built' \in {"eth", "docsis", "none"} /\ ran' \in {"eth", "docsis"}
    BY <1>4 DEF Finish, Mode
  <2>2. cfg'[p] = NoCfg /\ cfg' \in [Callers -> Cfgs]
        /\ \A q \in Callers : q # p => cfg'[q] = cfg[q] /\ prog'[q] = prog[q]
    BY <1>0, <2>1 DEF Shape
  <2>3. \A q \in Callers : cfg'[q].active => cfg[q].active /\ Listed(q)'
    BY <1>0, <2>1, <2>2, Stays
  <2>4. Fits(net)'
    BY <1>0, <2>1, SameBuild
  <2> QED
    BY <2>1, <2>2, <2>3, <2>4 DEF Shape
<1>5. ASSUME Crash PROVE Shape'
  <2>1. cfg' = [p \in Callers |-> NoCfg] /\ prog' = [p \in Callers |-> <<>>]
        /\ UNCHANGED <<build, net, settings, hw, clean, ran>>
        /\ built' = "none" /\ calm' = FALSE
    BY <1>5 DEF Crash
  <2>2. cfg' \in [Callers -> Cfgs] /\ \A p \in Callers : ~cfg'[p].active
    BY <1>0, <2>1
  <2>3. Fits(net)'
    BY <1>0, <2>1, SameBuild
  <2> QED
    BY <2>1, <2>2, <2>3 DEF Shape
<1>6. ASSUME SetEthWan \/ RecordMode \/ \E m \in BridgeModes : SetBridgeMode(m) PROVE Shape'
  <2>1. Idle /\ UNCHANGED <<build, net, cfg, prog, hw, clean, built, ran, calm>>
    BY <1>6 DEF SetEthWan, RecordMode, SetBridgeMode, Change
  <2>2. ethWan' \in BOOLEAN /\ bridgemode' \in Nat /\ lastMode' \in {"docsis", "eth", "unknown"}
    BY <1>6 DEF SetEthWan, RecordMode, SetBridgeMode, Change, Shape, WanBridgeAssumption
  <2>3. Fits(net)'
    BY <1>0, <2>1, SameBuild
  <2> QED
    BY <2>1, <2>2, <2>3 DEF Shape, Idle
<1>7. ASSUME UNCHANGED vars PROVE Shape'
  <2>1. UNCHANGED <<build, net, settings, cfg, prog, hw, clean, built, ran, calm>>
    BY <1>7 DEF vars
  <2>2. \A q \in Callers : cfg'[q].active => Listed(q)'
    BY <2>1, Stays
  <2>3. Fits(net)'
    BY <1>0, <2>1, SameBuild
  <2> QED
    BY <2>1, <2>2, <2>3 DEF Shape
<1> QED
  BY <1>1, <1>2, <1>3, <1>4, <1>5, <1>6, <1>7 DEF Next

-----------------------------------------------------------------------------
(* A list that builds, run by several callers *)

\* A layout is what a whole list does.
LEMMA Layouts ==
  ASSUME Fits(net)
  PROVE  /\ build = "puma7" => /\ EthLayout <=> /\ Puma7EthDone(net, 16)
                                                /\ "port" \in net.up /\ "wanbridge" \in net.up
                               /\ DocsisLayout <=> Puma7DocsisDone(net, 7) /\ "rf" \in net.up
         /\ build = "bcm" => /\ EthLayout <=> BcmEthDone(net, 9) /\ "port" \in net.up
                             /\ DocsisLayout <=> BcmDocsisDone(net, 8) /\ "rf" \in net.up
<1>0. /\ "mta" \in Devices /\ "port" \in Devices /\ "rf" \in Devices
      /\ \A d \in Devices : net.master[d] # "none" => net.master[d] \in Bridges
  BY DEF Devices, Fits
<1>1. ASSUME build = "puma7"
      PROVE  EthLayout <=> /\ Puma7EthDone(net, 16)
                           /\ "port" \in net.up /\ "wanbridge" \in net.up
  BY <1>1 DEF EthLayout, PortOf, Fits, Park, Puma7EthDone, Tables
<1>2. ASSUME build = "puma7" PROVE DocsisLayout <=> Puma7DocsisDone(net, 7) /\ "rf" \in net.up
  BY <1>0, <1>2 DEF DocsisLayout, PortOf, Fits, Park, Puma7DocsisDone
<1>3. ASSUME build = "bcm" PROVE EthLayout <=> BcmEthDone(net, 9) /\ "port" \in net.up
  BY <1>3 DEF EthLayout, PortOf, Fits, Park, BcmEthDone
<1>4. ASSUME build = "bcm" PROVE DocsisLayout <=> BcmDocsisDone(net, 8) /\ "rf" \in net.up
  BY <1>0, <1>4 DEF DocsisLayout, PortOf, Fits, Park, BcmDocsisDone
<1> QED
  BY <1>1, <1>2, <1>3, <1>4

\* Every other caller stays where it is.
OthersStay(p) ==
  \A q \in Callers : q # p /\ cfg[q].active => cfg'[q].active /\ At(q)' = At(q)

LEMMA WindowStep ==
  ASSUME NEW d, NEW a \in Nat, NEW b \in Nat, NEW n \in Nat, NEW k \in Nat, k <= n,
         NEW m, m = Further(n, k), NEW p \in Callers, OthersStay(p), cfg[p].active, cfg'[p].active,
         At(p) = k, At(p)' = k + 1, UpAfter(d, a, b, n),
         (d \in net.up /\ (k + 1 < a \/ k >= b)) \/ k = b => d \in net'.up
  PROVE  UpAfter(d, a, b, m)'
<1> SUFFICES ASSUME m > b, d \notin net'.up PROVE Lowered(a, b)'
  BY DEF UpAfter
<1>1. k # b
  OBVIOUS
<1>2. n > b
  BY <1>1 DEF Further
<1>3. CASE d \in net.up
  BY <1>1, <1>3 DEF Lowered
<1>4. CASE d \notin net.up
  <2>1. PICK q \in Callers : cfg[q].active /\ At(q) \in a..b
    BY <1>2, <1>4 DEF UpAfter, Lowered
  <2>2. CASE q = p
    BY <1>1, <2>1, <2>2 DEF Lowered
  <2>3. CASE q # p
    BY <2>1, <2>3 DEF Lowered, OthersStay
  <2> QED
    BY <2>2, <2>3
<1> QED
  BY <1>3, <1>4

\* Nobody who joins or leaves brings a device down.
LEMMA WindowStays ==
  ASSUME NEW d, NEW a \in Nat, NEW b \in Nat, NEW n \in Nat, NEW p \in Callers,
         OthersStay(p), ~cfg[p].active \/ At(p) \notin a..b, net' = net, UpAfter(d, a, b, n)
  PROVE  UpAfter(d, a, b, n)'
BY DEF UpAfter, Lowered, OthersStay

LEMMA FurthestStep ==
  ASSUME Shape, NEW length \in Nat, NEW n \in 0..length, NEW k \in 0..length, k < length, k <= n,
         NEW m, m = Further(n, k), NEW p \in Callers, OthersStay(p), UNCHANGED <<cfg, settings, built>>,
         At(p)' = k + 1, Furthest(n, length)
  PROVE  Furthest(m, length)' /\ m \in 0..length
<1>1. m \in 0..length /\ m >= n /\ m >= k + 1
  BY DEF Further
<1>2. ASSUME NEW q \in Callers, cfg'[q].active PROVE At(q)' <= m
  <2>1. CASE q = p
    BY <1>1, <2>1
  <2>2. CASE q # p
    <3>1. At(q)' = At(q) /\ At(q) <= n
      BY <1>2, <2>2 DEF OthersStay, Furthest
    <3>2. At(q) \in Int
      BY <1>2, <2>2, UnderWay
    <3> QED
      BY <1>1, <3>1, <3>2
  <2> QED
    BY <2>1, <2>2
<1>3. built' = Mode(ethWan)' => n = length
  BY DEF Furthest, Mode, settings
<1>4. n = length => m = length
  BY DEF Further
<1> QED
  BY <1>1, <1>2, <1>3, <1>4 DEF Furthest

\* What a caller's next command is a step of.
LEMMA StepIs ==
  ASSUME Shape, NEW p \in Callers, Step(p)
  PROVE  LET P == Program(Current)
             k == At(p)
         IN /\ k \in 0..Len(P) /\ k < Len(P) /\ Len(P) \in Nat
            /\ net' = Effect(net, P[k + 1], hw[p])
            /\ hw' = IF P[k + 1].op # "readmac" THEN hw
                     ELSE [hw EXCEPT ![p] = IF net.at[P[k + 1].a] = "rf" THEN "rf" ELSE "zero"]
            /\ At(p)' = k + 1 /\ OthersStay(p) /\ cfg[p].active /\ cfg' = cfg
            /\ UNCHANGED <<build, settings, clean, built, ran, calm>>
<1>1. cfg[p].active /\ prog[p] # <<>> /\ prog' = [prog EXCEPT ![p] = Tail(@)]
      /\ UNCHANGED <<build, settings, cfg, clean, built, ran, calm>>
      /\ net' = Effect(net, Head(prog[p]), hw[p])
      /\ hw' = IF Head(prog[p]).op # "readmac" THEN hw
               ELSE [hw EXCEPT ![p] = IF net.at[Head(prog[p]).a] = "rf" THEN "rf" ELSE "zero"]
  BY DEF Step, history
<1>2. prog'[p] = Tail(prog[p]) /\ \A q \in Callers : q # p => prog'[q] = prog[q]
  BY <1>1 DEF Shape
<1>3. OthersStay(p)
  BY <1>1, <1>2, Stays DEF OthersStay
<1>4. At(p)' = At(p) + 1
  BY <1>1, <1>2, Moves
<1>5. /\ At(p) \in 0..Len(Program(Current)) /\ At(p) < Len(Program(Current))
      /\ Len(Program(Current)) \in Nat /\ Head(prog[p]) = Program(Current)[At(p) + 1]
  BY <1>1, UnderWay
<1> QED
  BY <1>1, <1>3, <1>4, <1>5

LEMMA Puma7EthGoesOn ==
  ASSUME Shape, NEW p \in Callers, Step(p), build = "puma7", ethWan, Current.configure,
         NEW n \in Nat, Puma7EthSession(n), NEW k \in Nat, At(p) = k, NEW m \in Nat, m = Further(n, k)
  PROVE  Puma7EthSession(m)' /\ m \in 0..16
<1>1. Program(Current) = Puma7Eth /\ Len(Puma7Eth) = 16
  BY Lists DEF Program, Current
<1>2. k \in 0..15 /\ At(p) = k /\ At(p)' = k + 1 /\ OthersStay(p)
      /\ cfg[p].active /\ cfg'[p].active /\ UNCHANGED <<build, settings, cfg, built>>
  BY <1>1, StepIs
<1>a. net' = Effect(net, Puma7Eth[k + 1], hw[p])
  BY <1>1, StepIs
<1>b. hw' = IF Puma7Eth[k + 1].op # "readmac" THEN hw
            ELSE [hw EXCEPT ![p] = IF net.at[Puma7Eth[k + 1].a] = "rf" THEN "rf" ELSE "zero"]
  BY <1>1, StepIs
<1>3. n \in 0..16 /\ k <= n /\ Furthest(n, 16)
  BY <1>2 DEF Puma7EthSession, Furthest
<1>c. /\ Puma7EthDone(net, n) /\ UpAfter("wanbridge", 3, 14, n) /\ UpAfter("port", 2, 15, n)
      /\ \A q \in Callers : cfg[q].active /\ At(q) >= 12 => hw[q] = "rf"
  BY DEF Puma7EthSession
<1>4. k = 13 => hw[p] = "rf"
  BY <1>2, <1>c
<1>5. /\ Puma7EthDone(net', m)
      /\ ("port" \in net.up /\ k # 1) \/ k = 15 => "port" \in net'.up
      /\ ("wanbridge" \in net.up /\ k \notin {2, 12}) \/ k = 14 => "wanbridge" \in net'.up
      /\ k = 11 => net.at["dummy-rf"] = "rf"
  <2>1. Fits(net)
    BY DEF Shape
  <2>2. PICK s, h : s = net /\ h = hw[p]
    OBVIOUS
  <2>3. net' = Effect(s, Puma7Eth[k + 1], h)
    BY <1>a, <2>2
  <2>4. Fits(s) /\ Puma7EthDone(s, n) /\ (k = 13 => h = "rf")
    BY <1>c, <1>4, <2>1, <2>2
  <2>5. k \in 0..15 /\ n \in 0..16 /\ k <= n
    BY <1>2, <1>3
  <2> QED
    BY <2>2, <2>3, <2>4, <2>5, Puma7EthStep
<1>6. Furthest(m, 16)' /\ m \in 0..16
  <2>1. k \in 0..16 /\ k < 16
    BY <1>2
  <2> QED
    BY <1>2, <1>3, <2>1, FurthestStep
<1>7. UpAfter("wanbridge", 3, 14, m)'
  <2>1. ("wanbridge" \in net.up /\ (k + 1 < 3 \/ k >= 14)) \/ k = 14 => "wanbridge" \in net'.up
    BY <1>2, <1>5
  <2> QED
    BY <1>2, <1>3, <1>c, <2>1, WindowStep
<1>8. UpAfter("port", 2, 15, m)'
  <2>1. ("port" \in net.up /\ (k + 1 < 2 \/ k >= 15)) \/ k = 15 => "port" \in net'.up
    BY <1>2, <1>5
  <2> QED
    BY <1>2, <1>3, <1>c, <2>1, WindowStep
<1>9. ASSUME NEW q \in Callers, cfg'[q].active, At(q)' >= 12 PROVE hw'[q] = "rf"
  <2>1. hw \in [Callers -> {"rf", "zero"}]
    BY DEF Shape
  <2>2. CASE q # p
    BY <1>2, <1>b, <1>c, <1>9, <2>1, <2>2 DEF OthersStay
  <2>3. CASE q = p /\ k = 11
    <3>1. Puma7Eth[12] = On("readmac", "dummy-rf")
      BY DEF Puma7Eth
    <3>2. Puma7Eth[12].op = "readmac" /\ Puma7Eth[12].a = "dummy-rf"
      BY <3>1 DEF On, Do
    <3> QED
      BY <1>2, <1>b, <1>5, <2>1, <2>3, <3>2
  <2>4. CASE q = p /\ k >= 12
    <3>1. k \in {12, 13, 14, 15}
      BY <1>2, <2>4
    <3>2. Puma7Eth[k + 1].op # "readmac"
      BY <3>1 DEF Puma7Eth, On, Do
    <3> QED
      BY <1>2, <1>b, <1>c, <2>4, <3>2
  <2> QED
    BY <1>2, <1>9, <2>2, <2>3, <2>4
<1> QED
  BY <1>5, <1>6, <1>7, <1>8, <1>9 DEF Puma7EthSession, Puma7EthDone

LEMMA BcmEthGoesOn ==
  ASSUME Shape, NEW p \in Callers, Step(p), build = "bcm", ethWan, Current.configure,
         Current.router, NEW n \in Nat, BcmEthSession(n), NEW k \in Nat, At(p) = k,
         NEW m \in Nat, m = Further(n, k)
  PROVE  BcmEthSession(m)' /\ m \in 0..9
<1>1. Program(Current) = BcmEth /\ Len(BcmEth) = 9
  BY Lists DEF Program, Current
<1>2. k \in 0..8 /\ At(p) = k /\ At(p)' = k + 1 /\ OthersStay(p)
      /\ cfg[p].active /\ cfg'[p].active /\ UNCHANGED <<build, settings, cfg, built>>
  BY <1>1, StepIs
<1>3. net' = Effect(net, BcmEth[k + 1], hw[p])
  BY <1>1, StepIs
<1>4. n \in 0..9 /\ k <= n /\ Furthest(n, 9)
  BY <1>2 DEF BcmEthSession, Furthest
<1>5. BcmEthDone(net, n) /\ UpAfter("port", 2, 8, n)
  BY DEF BcmEthSession
<1>6. /\ BcmEthDone(net', m)
      /\ ("port" \in net.up /\ (k + 1 < 2 \/ k >= 8)) \/ k = 8 => "port" \in net'.up
  <2>1. PICK s, h : s = net /\ h = hw[p]
    OBVIOUS
  <2>2. net' = Effect(s, BcmEth[k + 1], h)
    BY <1>3, <2>1
  <2>3. Fits(s) /\ BcmEthDone(s, n)
    BY <1>5, <2>1 DEF Shape
  <2>4. k \in 0..8 /\ n \in 0..9 /\ k <= n
    BY <1>2, <1>4
  <2> QED
    BY <2>1, <2>2, <2>3, <2>4, BcmEthStep
<1>7. Furthest(m, 9)' /\ m \in 0..9
  <2>1. k \in 0..9 /\ k < 9
    BY <1>2
  <2> QED
    BY <1>2, <1>4, <2>1, FurthestStep
<1>8. UpAfter("port", 2, 8, m)'
  BY <1>2, <1>4, <1>5, <1>6, WindowStep
<1> QED
  BY <1>6, <1>7, <1>8 DEF BcmEthSession, BcmEthDone

LEMMA Puma7DocsisGoesOn ==
  ASSUME Shape, NEW p \in Callers, Step(p), build = "puma7", ~ethWan, Current.configure,
         Current.router, NEW n \in Nat, Puma7DocsisSession(n), NEW k \in Nat, At(p) = k,
         NEW m \in Nat, m = Further(n, k)
  PROVE  Puma7DocsisSession(m)' /\ m \in 0..7
<1>1. Program(Current) = Puma7Docsis /\ Len(Puma7Docsis) = 7
  BY Lists DEF Program, Current
<1>2. k \in 0..6 /\ At(p) = k /\ At(p)' = k + 1 /\ OthersStay(p)
      /\ cfg[p].active /\ cfg'[p].active /\ UNCHANGED <<build, settings, cfg, built>>
  BY <1>1, StepIs
<1>3. net' = Effect(net, Puma7Docsis[k + 1], hw[p])
  BY <1>1, StepIs
<1>4. n \in 0..7 /\ k <= n /\ Furthest(n, 7)
  BY <1>2 DEF Puma7DocsisSession, Furthest
<1>5. Puma7DocsisDone(net, n) /\ UpAfter("rf", 4, 6, n)
  BY DEF Puma7DocsisSession
<1>6. /\ Puma7DocsisDone(net', m)
      /\ ("rf" \in net.up /\ (k + 1 < 4 \/ k >= 6)) \/ k = 6 => "rf" \in net'.up
  <2>1. PICK s, h : s = net /\ h = hw[p]
    OBVIOUS
  <2>2. net' = Effect(s, Puma7Docsis[k + 1], h)
    BY <1>3, <2>1
  <2>3. Fits(s) /\ Puma7DocsisDone(s, n)
    BY <1>5, <2>1 DEF Shape
  <2>4. k \in 0..6 /\ n \in 0..7 /\ k <= n
    BY <1>2, <1>4
  <2> QED
    BY <2>1, <2>2, <2>3, <2>4, Puma7DocsisStep
<1>7. Furthest(m, 7)' /\ m \in 0..7
  <2>1. k \in 0..7 /\ k < 7
    BY <1>2
  <2> QED
    BY <1>2, <1>4, <2>1, FurthestStep
<1>8. UpAfter("rf", 4, 6, m)'
  BY <1>2, <1>4, <1>5, <1>6, WindowStep
<1> QED
  BY <1>6, <1>7, <1>8 DEF Puma7DocsisSession, Puma7DocsisDone

LEMMA BcmDocsisGoesOn ==
  ASSUME Shape, NEW p \in Callers, Step(p), build = "bcm", ~ethWan, Current.configure,
         Current.router, NEW n \in Nat, BcmDocsisSession(n), NEW k \in Nat, At(p) = k,
         NEW m \in Nat, m = Further(n, k)
  PROVE  BcmDocsisSession(m)' /\ m \in 0..8
<1>1. Program(Current) = BcmDocsis /\ Len(BcmDocsis) = 8
  BY Lists DEF Program, Current
<1>2. k \in 0..7 /\ At(p) = k /\ At(p)' = k + 1 /\ OthersStay(p)
      /\ cfg[p].active /\ cfg'[p].active /\ UNCHANGED <<build, settings, cfg, built>>
  BY <1>1, StepIs
<1>3. net' = Effect(net, BcmDocsis[k + 1], hw[p])
  BY <1>1, StepIs
<1>4. n \in 0..8 /\ k <= n /\ Furthest(n, 8)
  BY <1>2 DEF BcmDocsisSession, Furthest
<1>5. BcmDocsisDone(net, n) /\ UpAfter("rf", 4, 7, n)
  BY DEF BcmDocsisSession
<1>6. /\ BcmDocsisDone(net', m)
      /\ ("rf" \in net.up /\ (k + 1 < 4 \/ k >= 7)) \/ k = 7 => "rf" \in net'.up
  <2>1. PICK s, h : s = net /\ h = hw[p]
    OBVIOUS
  <2>2. net' = Effect(s, BcmDocsis[k + 1], h)
    BY <1>3, <2>1
  <2>3. Fits(s) /\ BcmDocsisDone(s, n)
    BY <1>5, <2>1 DEF Shape
  <2>4. k \in 0..7 /\ n \in 0..8 /\ k <= n
    BY <1>2, <1>4
  <2> QED
    BY <2>1, <2>2, <2>3, <2>4, BcmDocsisStep
<1>7. Furthest(m, 8)' /\ m \in 0..8
  <2>1. k \in 0..8 /\ k < 8
    BY <1>2
  <2> QED
    BY <1>2, <1>4, <2>1, FurthestStep
<1>8. UpAfter("rf", 4, 7, m)'
  BY <1>2, <1>4, <1>5, <1>6, WindowStep
<1> QED
  BY <1>6, <1>7, <1>8 DEF BcmDocsisSession, BcmDocsisDone

LEMMA BuildingGoesOn ==
  ASSUME Shape, NEW p \in Callers, Step(p), Current.configure, Current.router,
         NEW n \in 0..16, Building(n)
  PROVE  \E m \in 0..16 : Building(m)'
<1>0. UNCHANGED <<build, ethWan>>
  BY StepIs DEF settings
<1>1. PICK k \in Nat : At(p) = k
  BY StepIs
<1>2. PICK m \in Nat : m = Further(n, k)
  BY DEF Further
<1>3. CASE build = "puma7" /\ ethWan
  BY <1>0, <1>1, <1>2, <1>3, Puma7EthGoesOn DEF Building
<1>4. CASE build = "bcm" /\ ethWan
  BY <1>0, <1>1, <1>2, <1>4, BcmEthGoesOn DEF Building
<1>5. CASE build = "puma7" /\ ~ethWan
  BY <1>0, <1>1, <1>2, <1>5, Puma7DocsisGoesOn DEF Building
<1>6. CASE build = "bcm" /\ ~ethWan
  BY <1>0, <1>1, <1>2, <1>6, BcmDocsisGoesOn DEF Building
<1> QED
  BY <1>3, <1>4, <1>5, <1>6 DEF Shape

\* A call that starts while others run, or ends while others run.
Joins(p) ==
  /\ ~cfg[p].active /\ cfg'[p].active /\ At(p)' = 0 /\ built' = built

Leaves(p) ==
  /\ cfg[p].active /\ ~cfg'[p].active
  /\ At(p) = Len(Program(Current)) /\ Len(Program(Current)) \in Nat

LEMMA FurthestStays ==
  ASSUME NEW length \in Nat, NEW n \in Nat, NEW p \in Callers, OthersStay(p),
         UNCHANGED settings, \A q \in Callers : q # p => cfg'[q] = cfg[q],
         Joins(p) \/ Leaves(p), Len(Program(Current)) = length, Furthest(n, length)
  PROVE  Furthest(n, length)'
<1>1. n \in 0..length
  BY DEF Furthest
<1>2. ASSUME NEW q \in Callers, cfg'[q].active PROVE At(q)' <= n
  BY <1>1, <1>2 DEF Furthest, Joins, Leaves, OthersStay
<1>3. built' = Mode(ethWan)' => n = length
  <2>1. CASE Joins(p)
    BY <2>1 DEF Furthest, Joins, Mode, settings
  <2>2. CASE Leaves(p)
    BY <1>1, <2>2 DEF Furthest, Leaves
  <2> QED
    BY <2>1, <2>2
<1> QED
  BY <1>1, <1>2, <1>3 DEF Furthest

LEMMA BuildingStays ==
  ASSUME Shape, NEW p \in Callers, OthersStay(p), UNCHANGED <<build, net, settings, hw>>,
         \A q \in Callers : q # p => cfg'[q] = cfg[q],
         Joins(p) \/ Leaves(p), Current.configure, Current.router, NEW n \in 0..16, Building(n)
  PROVE  Building(n)'
<1>0. UNCHANGED settings /\ UNCHANGED ethWan /\ UNCHANGED net /\ n \in Nat
  BY DEF settings
<1>a. ~cfg[p].active \/ At(p) = Len(Program(Current))
  BY DEF Joins, Leaves
<1>1. ASSUME build = "puma7", ethWan PROVE Puma7EthSession(n)'
  <2>1. Len(Program(Current)) = 16
    BY <1>1, Lists DEF Program, Current
  <2>2. Puma7EthSession(n)
    BY <1>1 DEF Building
  <2>3. Furthest(n, 16)'
    <3>1. 16 \in Nat /\ Furthest(n, 16)
          /\ Len(Program(Current)) = 16
      BY <2>1, <2>2 DEF Puma7EthSession
    <3> QED
      BY <1>0, <3>1, FurthestStays
  <2>4. UpAfter("wanbridge", 3, 14, n)' /\ UpAfter("port", 2, 15, n)'
    <3>1. 3 \in Nat /\ 14 \in Nat /\ (~cfg[p].active \/ At(p) \notin 3..14)
          /\ UpAfter("wanbridge", 3, 14, n)
      BY <1>a, <2>1, <2>2 DEF Puma7EthSession
    <3>2. 2 \in Nat /\ 15 \in Nat /\ (~cfg[p].active \/ At(p) \notin 2..15)
          /\ UpAfter("port", 2, 15, n)
      BY <1>a, <2>1, <2>2 DEF Puma7EthSession
    <3> QED
      BY <1>0, <3>1, <3>2, WindowStays
  <2>5. \A q \in Callers : cfg'[q].active /\ At(q)' >= 12 => hw'[q] = "rf"
    BY <2>2 DEF Puma7EthSession, OthersStay, Joins, Leaves
  <2> QED
    BY <2>2, <2>3, <2>4, <2>5 DEF Puma7EthSession, Puma7EthDone
<1>2. ASSUME build = "bcm", ethWan PROVE BcmEthSession(n)'
  <2>1. Len(Program(Current)) = 9
    BY <1>2, Lists DEF Program, Current
  <2>2. BcmEthSession(n)
    BY <1>2 DEF Building
  <2>3. Furthest(n, 9)'
    <3>1. 9 \in Nat /\ Furthest(n, 9)
          /\ Len(Program(Current)) = 9
      BY <2>1, <2>2 DEF BcmEthSession
    <3> QED
      BY <1>0, <3>1, FurthestStays
  <2>4. UpAfter("port", 2, 8, n)'
    <3>1. 2 \in Nat /\ 8 \in Nat /\ (~cfg[p].active \/ At(p) \notin 2..8)
          /\ UpAfter("port", 2, 8, n)
      BY <1>a, <2>1, <2>2 DEF BcmEthSession
    <3> QED
      BY <1>0, <3>1, WindowStays
  <2> QED
    BY <2>2, <2>3, <2>4 DEF BcmEthSession, BcmEthDone
<1>3. ASSUME build = "puma7", ~ethWan PROVE Puma7DocsisSession(n)'
  <2>1. Len(Program(Current)) = 7
    BY <1>3, Lists DEF Program, Current
  <2>2. Puma7DocsisSession(n)
    BY <1>3 DEF Building
  <2>3. Furthest(n, 7)'
    <3>1. 7 \in Nat /\ Furthest(n, 7)
          /\ Len(Program(Current)) = 7
      BY <2>1, <2>2 DEF Puma7DocsisSession
    <3> QED
      BY <1>0, <3>1, FurthestStays
  <2>4. UpAfter("rf", 4, 6, n)'
    <3>1. 4 \in Nat /\ 6 \in Nat /\ (~cfg[p].active \/ At(p) \notin 4..6)
          /\ UpAfter("rf", 4, 6, n)
      BY <1>a, <2>1, <2>2 DEF Puma7DocsisSession
    <3> QED
      BY <1>0, <3>1, WindowStays
  <2> QED
    BY <2>2, <2>3, <2>4 DEF Puma7DocsisSession, Puma7DocsisDone
<1>4. ASSUME build = "bcm", ~ethWan PROVE BcmDocsisSession(n)'
  <2>1. Len(Program(Current)) = 8
    BY <1>4, Lists DEF Program, Current
  <2>2. BcmDocsisSession(n)
    BY <1>4 DEF Building
  <2>3. Furthest(n, 8)'
    <3>1. 8 \in Nat /\ Furthest(n, 8)
          /\ Len(Program(Current)) = 8
      BY <2>1, <2>2 DEF BcmDocsisSession
    <3> QED
      BY <1>0, <3>1, FurthestStays
  <2>4. UpAfter("rf", 4, 7, n)'
    <3>1. 4 \in Nat /\ 7 \in Nat /\ (~cfg[p].active \/ At(p) \notin 4..7)
          /\ UpAfter("rf", 4, 7, n)
      BY <1>a, <2>1, <2>2 DEF BcmDocsisSession
    <3> QED
      BY <1>0, <3>1, WindowStays
  <2> QED
    BY <2>2, <2>3, <2>4 DEF BcmDocsisSession, BcmDocsisDone
<1>5. build \in {"puma7", "bcm"} /\ ethWan \in BOOLEAN
  BY DEF Shape
<1> QED
  BY <1>0, <1>1, <1>2, <1>3, <1>4, <1>5 DEF Building

\* The first caller starts where the layout there is, if it is that of the mode, is done.
LEMMA BuildingOpens ==
  ASSUME Shape, NEW p \in Callers, UNCHANGED <<build, net, settings, hw, built>>,
         \A q \in Callers : cfg'[q].active => At(q)' = 0,
         built = Mode(ethWan) => Layout(built)
  PROVE  \E n \in 0..16 : Building(n)'
<1>0. UNCHANGED ethWan /\ build \in {"puma7", "bcm"} /\ ethWan \in BOOLEAN /\ Fits(net)
  BY DEF settings, Shape
<1>1. CASE built # Mode(ethWan)
  <2>1. Furthest(0, 16)' /\ Furthest(0, 9)' /\ Furthest(0, 7)' /\ Furthest(0, 8)'
    BY <1>0, <1>1 DEF Furthest, Mode
  <2>2. \A d : /\ UpAfter(d, 3, 14, 0)' /\ UpAfter(d, 2, 15, 0)' /\ UpAfter(d, 2, 8, 0)'
               /\ UpAfter(d, 4, 6, 0)' /\ UpAfter(d, 4, 7, 0)'
    BY DEF UpAfter
  <2>3. Puma7EthSession(0)' /\ BcmEthSession(0)' /\ Puma7DocsisSession(0)' /\ BcmDocsisSession(0)'
    BY <2>1, <2>2 DEF Puma7EthSession, BcmEthSession, Puma7DocsisSession, BcmDocsisSession,
       Puma7EthDone, BcmEthDone, Puma7DocsisDone, BcmDocsisDone
  <2>4. Building(0)'
    BY <1>0, <2>3 DEF Building
  <2> QED
    BY <2>4
<1>2. CASE built = Mode(ethWan)
  <2>1. \A length \in Nat : Furthest(length, length)'
    BY DEF Furthest
  <2>2. IF ethWan THEN EthLayout ELSE DocsisLayout
    BY <1>0, <1>2 DEF Layout, Mode
  <2>3. CASE build = "puma7" /\ ethWan
    <3>1. Puma7EthDone(net, 16) /\ "port" \in net.up /\ "wanbridge" \in net.up
      BY <1>0, <2>2, <2>3, Layouts
    <3>2. Puma7EthSession(16)'
      BY <2>1, <3>1 DEF Puma7EthSession, UpAfter, Puma7EthDone
    <3> QED
      BY <1>0, <2>3, <3>2 DEF Building
  <2>4. CASE build = "bcm" /\ ethWan
    <3>1. BcmEthDone(net, 9) /\ "port" \in net.up
      BY <1>0, <2>2, <2>4, Layouts
    <3>2. BcmEthSession(9)'
      BY <2>1, <3>1 DEF BcmEthSession, UpAfter, BcmEthDone
    <3> QED
      BY <1>0, <2>4, <3>2 DEF Building
  <2>5. CASE build = "puma7" /\ ~ethWan
    <3>1. Puma7DocsisDone(net, 7) /\ "rf" \in net.up
      BY <1>0, <2>2, <2>5, Layouts
    <3>2. Puma7DocsisSession(7)'
      BY <2>1, <3>1 DEF Puma7DocsisSession, UpAfter, Puma7DocsisDone
    <3> QED
      BY <1>0, <2>5, <3>2 DEF Building
  <2>6. CASE build = "bcm" /\ ~ethWan
    <3>1. BcmDocsisDone(net, 8) /\ "rf" \in net.up
      BY <1>0, <2>2, <2>6, Layouts
    <3>2. BcmDocsisSession(8)'
      BY <2>1, <3>1 DEF BcmDocsisSession, UpAfter, BcmDocsisDone
    <3> QED
      BY <1>0, <2>6, <3>2 DEF Building
  <2> QED
    BY <1>0, <2>3, <2>4, <2>5, <2>6
<1> QED
  BY <1>1, <1>2

\* The last caller to end has the layout of its mode.
LEMMA BuildingCloses ==
  ASSUME Shape, NEW p \in Callers, cfg[p].active, At(p) = Len(Program(Current)),
         \A q \in Callers : cfg[q].active => q = p, Current.configure, Current.router,
         NEW n \in 0..16, Building(n)
  PROVE  Layout(Mode(ethWan))
<1>0. build \in {"puma7", "bcm"} /\ ethWan \in BOOLEAN /\ Fits(net)
  BY DEF Shape
<1>a. \A a, b \in Nat : At(p) \notin a..b => ~Lowered(a, b)
  BY DEF Lowered
<1>1. CASE build = "puma7" /\ ethWan
  <2>1. At(p) = 16
    BY <1>1, Lists DEF Program, Current
  <2>2. n = 16 /\ Puma7EthDone(net, n) /\ UpAfter("wanbridge", 3, 14, n) /\ UpAfter("port", 2, 15, n)
    BY <1>1, <2>1 DEF Building, Puma7EthSession, Furthest
  <2>3. Puma7EthDone(net, 16) /\ "port" \in net.up /\ "wanbridge" \in net.up
    BY <1>a, <2>1, <2>2 DEF UpAfter
  <2> QED
    BY <1>0, <1>1, <2>3, Layouts DEF Layout, Mode
<1>2. CASE build = "bcm" /\ ethWan
  <2>1. At(p) = 9
    BY <1>2, Lists DEF Program, Current
  <2>2. n = 9 /\ BcmEthDone(net, n) /\ UpAfter("port", 2, 8, n)
    BY <1>2, <2>1 DEF Building, BcmEthSession, Furthest
  <2>3. BcmEthDone(net, 9) /\ "port" \in net.up
    BY <1>a, <2>1, <2>2 DEF UpAfter
  <2> QED
    BY <1>0, <1>2, <2>3, Layouts DEF Layout, Mode
<1>3. CASE build = "puma7" /\ ~ethWan
  <2>1. At(p) = 7
    BY <1>3, Lists DEF Program, Current
  <2>2. n = 7 /\ Puma7DocsisDone(net, n) /\ UpAfter("rf", 4, 6, n)
    BY <1>3, <2>1 DEF Building, Puma7DocsisSession, Furthest
  <2>3. Puma7DocsisDone(net, 7) /\ "rf" \in net.up
    BY <1>a, <2>1, <2>2 DEF UpAfter
  <2> QED
    BY <1>0, <1>3, <2>3, Layouts DEF Layout, Mode
<1>4. CASE build = "bcm" /\ ~ethWan
  <2>1. At(p) = 8
    BY <1>4, Lists DEF Program, Current
  <2>2. n = 8 /\ BcmDocsisDone(net, n) /\ UpAfter("rf", 4, 7, n)
    BY <1>4, <2>1 DEF Building, BcmDocsisSession, Furthest
  <2>3. BcmDocsisDone(net, 8) /\ "rf" \in net.up
    BY <1>a, <2>1, <2>2 DEF UpAfter
  <2> QED
    BY <1>0, <1>4, <2>3, Layouts DEF Layout, Mode
<1> QED
  BY <1>0, <1>1, <1>2, <1>3, <1>4

\* A list that does not build keeps the layout of its mode.
LEMMA LayoutKept ==
  ASSUME Shape, NEW p \in Callers, Step(p), ~Current.configure, Layout(Mode(ethWan))
  PROVE  Layout(Mode(ethWan))'
<1>1. UNCHANGED <<build, settings>> /\ UNCHANGED ethWan /\ Fits(net)
      /\ build \in {"puma7", "bcm"} /\ ethWan \in BOOLEAN
  BY StepIs DEF settings, Shape
<1>2. CASE ethWan
  <2>1. Program(Current) = PortToWan
    BY <1>2 DEF Program, Current
  <2>2. PICK k \in 0..2 : net' = Effect(net, PortToWan[k + 1], hw[p])
    BY <2>1, StepIs, Lists DEF Shape
  <2>3. EthLayout
    BY <1>2 DEF Layout, Mode
  <2>4. PICK s : s = net
    OBVIOUS
  <2>5. s.master["port"] = "wanbridge" /\ Fits(s) /\ s.at["port"] = "port" /\ s.at["lan"] = "lanbridge"
    BY <1>1, <2>3, <2>4 DEF EthLayout, PortOf, Fits
  <2>6. net' = s \/ net' = Up(s, "port")
    <3>1. CASE k = 0
      <4>1. net' = DelIf(s, "lan", "port")
        BY <2>2, <2>4, <3>1, EffectIs DEF PortToWan
      <4> QED
        BY <1>1, <2>5, <4>1, DelIfFits
    <3>2. CASE k = 1
      <4>1. net' = AddIf(s, "wan", "port")
        BY <2>2, <2>4, <3>2, EffectIs DEF PortToWan
      <4> QED
        BY <1>1, <2>5, <4>1, AddIfFits
    <3>3. CASE k = 2
      BY <2>2, <2>4, <3>3, EffectIs DEF PortToWan
    <3> QED
      BY <3>1, <3>2, <3>3
  <2>7. net'.at = net.at /\ net'.master = net.master /\ net'.nf = net.nf /\ net'.mac = net.mac
        /\ net.up \subseteq net'.up
    BY <1>1, <2>4, <2>5, <2>6, UpFits
  <2>8. EthLayout'
    BY <1>1, <2>3, <2>7 DEF EthLayout, PortOf, Park
  <2> QED
    BY <1>1, <1>2, <2>8 DEF Layout, Mode
<1>3. CASE ~ethWan
  <2>1. Program(Current) = PortToLan
    BY <1>3 DEF Program, Current
  <2>2. PICK k \in 0..1 : net' = Effect(net, PortToLan[k + 1], hw[p])
    <3>1. Len(PortToLan) = 2
      BY <1>1, Lists
    <3> QED
      BY <2>1, <3>1, StepIs
  <2>3. DocsisLayout
    BY <1>3 DEF Layout, Mode
  <2>4. PICK s : s = net
    OBVIOUS
  <2>5. s.master["port"] = "lanbridge" /\ Fits(s) /\ s.at["port"] = "port" /\ s.at["wan"] = "rf"
    BY <1>1, <2>3, <2>4 DEF DocsisLayout, PortOf, Fits
  <2>6. net' = s
    <3>1. CASE k = 0
      <4>1. net' = DelIf(s, "wan", "port")
        BY <2>2, <2>4, <3>1, EffectIs DEF PortToLan
      <4> QED
        BY <1>1, <2>5, <4>1, DelIfFits
    <3>2. CASE k = 1
      <4>1. net' = AddIf(s, "lan", "port")
        BY <2>2, <2>4, <3>2, EffectIs DEF PortToLan
      <4> QED
        BY <1>1, <2>5, <4>1, AddIfFits
    <3> QED
      BY <3>1, <3>2
  <2>7. DocsisLayout'
    BY <2>3, <2>4, <2>6 DEF DocsisLayout, PortOf
  <2> QED
    BY <1>1, <1>3, <2>7 DEF Layout, Mode
<1> QED
  BY <1>1, <1>2, <1>3

-----------------------------------------------------------------------------
(* The invariant *)

LEMMA StartIs ==
  ASSUME Shape, NEW p \in Callers, Start(p)
  PROVE  /\ ~cfg[p].active /\ cfg'[p].active /\ At(p)' = 0 /\ OthersStay(p)
         /\ \A q \in Callers : q # p => cfg'[q] = cfg[q]
         /\ cfg'[p] = Current
         /\ clean'[p] = (\A q \in Callers : cfg[q].active => clean[q])
         /\ \A q \in Callers : q # p => clean'[q] = clean[q]
         /\ calm' = (calm /\ Recorded(Mode(ethWan)) /\ Current.router)
         /\ UNCHANGED <<build, net, settings, hw, built, ran>>
<1>1. cfg' = [cfg EXCEPT ![p] = Current] /\ prog' = [prog EXCEPT ![p] = Program(Current)]
      /\ clean' = [clean EXCEPT ![p] = \A q \in Callers : cfg[q].active => clean[q]]
      /\ ~cfg[p].active /\ calm' = (calm /\ Recorded(Mode(ethWan)) /\ Current.router)
      /\ UNCHANGED <<build, net, settings, hw, built, ran>>
  BY DEF Start, Current
<1>2. cfg'[p] = Current /\ prog'[p] = Program(Current)
      /\ clean'[p] = (\A q \in Callers : cfg[q].active => clean[q])
      /\ \A q \in Callers : q # p => /\ cfg'[q] = cfg[q] /\ prog'[q] = prog[q]
                                     /\ clean'[q] = clean[q]
  BY <1>1 DEF Shape
<1>3. At(p)' = 0
  BY <1>1, <1>2, Begins
<1>4. OthersStay(p)
  BY <1>1, <1>2, Stays DEF OthersStay
<1>5. cfg'[p].active
  BY <1>2 DEF Current
<1> QED
  BY <1>1, <1>2, <1>3, <1>4, <1>5

LEMMA FinishIs ==
  ASSUME Shape, NEW p \in Callers, Finish(p)
  PROVE  /\ cfg[p] = Current /\ Leaves(p) /\ OthersStay(p)
         /\ \A q \in Callers : q # p => cfg'[q] = cfg[q]
         /\ built' # "none" => /\ clean[p] /\ built' = Mode(ethWan)
                               /\ \/ Current.configure /\ Current.router
                                  \/ ~Current.configure /\ built = Mode(ethWan)
         /\ clean[p] /\ Current.router /\ (Current.configure \/ built = Mode(ethWan)) =>
              built' = Mode(ethWan)
         /\ ran' = Mode(ethWan)
         /\ UNCHANGED <<build, net, settings, hw, clean, calm>>
<1>1. cfg[p].active /\ prog[p] = <<>> /\ cfg' = [cfg EXCEPT ![p] = NoCfg]
      /\ UNCHANGED <<build, net, settings, prog, hw, clean, calm>>
      /\ ran' = Mode(cfg[p].eth)
  BY DEF Finish
<1>2. cfg[p] = Current /\ Current.eth = ethWan
  BY <1>1 DEF Shape, Listed, Current
<1>3. ~cfg'[p].active /\ \A q \in Callers : q # p => cfg'[q] = cfg[q]
  BY <1>1 DEF Shape, NoCfg
<1>4. At(p) = Len(Program(Current)) /\ Len(Program(Current)) \in Nat
  BY <1>1, UnderWay
<1>5. OthersStay(p)
  BY <1>1, <1>3, Stays DEF OthersStay
<1>6. built' # "none" => /\ clean[p] /\ built' = Mode(cfg[p].eth)
                         /\ \/ cfg[p].configure /\ cfg[p].router
                            \/ ~cfg[p].configure /\ built = Mode(cfg[p].eth)
  BY DEF Finish
<1>7. clean[p] /\ cfg[p].router /\ (cfg[p].configure \/ built = Mode(cfg[p].eth)) =>
        built' = Mode(cfg[p].eth)
  BY DEF Finish
<1> QED
  BY <1>1, <1>2, <1>3, <1>4, <1>5, <1>6, <1>7 DEF Leaves

LEMMA VouchedStep ==
  ASSUME QuietChanges, Shape, Vouched, [Next]_vars
  PROVE  Vouched'
<1>0. (\E p \in Callers : cfg[p].active /\ clean[p]) => Vouches
  BY DEF Vouched
<1>a. Idle /\ built # "none" => Layout(built)
  BY DEF Vouched, LayoutBuilt
<1> SUFFICES /\ Idle' /\ built' # "none" => Layout(built)'
             /\ (\E p \in Callers : cfg'[p].active /\ clean'[p]) => Vouches'
  BY DEF Vouched, LayoutBuilt
<1>1. ASSUME NEW p \in Callers, Start(p)
      PROVE  ~Idle' /\ ((\E q \in Callers : cfg'[q].active /\ clean'[q]) => Vouches')
  <2>1. ~Idle'
    BY <1>1, StartIs DEF Idle
  <2>2. Current' = Current
    BY <1>1, StartIs DEF Current, settings
  <2>3. ASSUME Idle PROVE Vouches'
    <3>1. built = Mode(ethWan) => Layout(built)
      BY <1>a, <2>3 DEF Mode
    <3>2. \A q \in Callers : cfg'[q].active => At(q)' = 0
      BY <1>1, <2>3, StartIs DEF Idle
    <3>3. UNCHANGED <<build, net, settings, hw, built>> /\ UNCHANGED ethWan
      BY <1>1, StartIs DEF settings
    <3>4. \E n \in 0..16 : Building(n)'
      BY <3>1, <3>2, <3>3, BuildingOpens
    <3>5. Layout(built)' <=> Layout(built)
      BY <3>3 DEF Layout, EthLayout, DocsisLayout, PortOf, Park
    <3> QED
      BY <2>2, <3>1, <3>3, <3>4, <3>5 DEF Vouches, Mode
  <2>4. ASSUME ~Idle, NEW r \in Callers, cfg'[r].active, clean'[r] PROVE Vouches'
    <3>1. PICK q \in Callers : cfg[q].active
      BY <2>4 DEF Idle
    <3>2. clean[q]
      <4>1. r = p => \A x \in Callers : cfg[x].active => clean[x]
        BY <1>1, <2>4, StartIs
      <4>2. r # p => cfg[r].active /\ clean[r]
        BY <1>1, <2>4, StartIs
      <4> QED
        BY <3>1, <4>1, <4>2 DEF Shape
    <3>3. Vouches
      BY <1>0, <3>1, <3>2
    <3>4. UNCHANGED <<build, net, settings, hw, built>> /\ UNCHANGED ethWan /\ Joins(p) /\ OthersStay(p)
          /\ \A x \in Callers : x # p => cfg'[x] = cfg[x]
      BY <1>1, StartIs DEF settings, Joins
    <3>5. Current.configure /\ Current.router => \E n \in 0..16 : Building(n)'
      BY <3>3, <3>4, BuildingStays DEF Vouches
    <3>6. Layout(built)' <=> Layout(built)
      BY <3>4 DEF Layout, EthLayout, DocsisLayout, PortOf, Park
    <3> QED
      BY <2>2, <3>3, <3>4, <3>5, <3>6 DEF Vouches, Mode
  <2> QED
    BY <2>1, <2>3, <2>4
<1>2. ASSUME NEW p \in Callers, Step(p)
      PROVE  ~Idle' /\ ((\E q \in Callers : cfg'[q].active /\ clean'[q]) => Vouches')
  <2>1. cfg' = cfg /\ cfg[p].active /\ UNCHANGED <<build, settings, clean, built>> /\ UNCHANGED ethWan
    BY <1>2, StepIs DEF settings
  <2>2. ~Idle' /\ Current' = Current
    BY <2>1 DEF Idle, Current, settings
  <2>3. ASSUME NEW r \in Callers, cfg'[r].active, clean'[r] PROVE Vouches'
    <3>1. Vouches
      BY <1>0, <2>1, <2>3
    <3>2. Current.configure /\ Current.router => \E n \in 0..16 : Building(n)'
      BY <1>2, <3>1, BuildingGoesOn DEF Vouches
    <3>3. ~Current.configure /\ built = Mode(ethWan) => Layout(Mode(ethWan))'
      BY <1>2, <3>1, LayoutKept DEF Vouches
    <3>4. ~Current.configure /\ built = Mode(ethWan) => Layout(built)'
      BY <2>1, <3>3 DEF Layout, Mode
    <3> QED
      BY <2>1, <2>2, <3>2, <3>4 DEF Vouches, Mode
  <2> QED
    BY <2>2, <2>3
<1>3. ASSUME NEW p \in Callers, Fail(p)
      PROVE  built' = "none" /\ ~(\E q \in Callers : cfg'[q].active /\ clean'[q])
  BY <1>3 DEF Fail
<1>4. ASSUME NEW p \in Callers, Finish(p)
      PROVE  /\ Idle' /\ built' # "none" => Layout(built)'
             /\ (\E q \in Callers : cfg'[q].active /\ clean'[q]) => Vouches'
  <2>1. cfg[p].active /\ cfg[p] = Current /\ Leaves(p) /\ OthersStay(p)
        /\ (\A q \in Callers : q # p => cfg'[q] = cfg[q])
        /\ UNCHANGED <<build, net, settings, hw, clean>> /\ UNCHANGED ethWan
    BY <1>4, FinishIs DEF Leaves, settings
  <2>2. built' # "none" => /\ clean[p] /\ built' = Mode(ethWan)
                           /\ \/ Current.configure /\ Current.router
                              \/ ~Current.configure /\ built = Mode(ethWan)
    BY <1>4, FinishIs
  <2>3. Current' = Current /\ \A m : Layout(m)' <=> Layout(m)
    <3>1. UNCHANGED <<build, net, ethWan, bridgemode, lastMode>>
      BY <2>1 DEF settings
    <3>2. Current' = Current
      BY <3>1 DEF Current
    <3> QED
      BY <3>1, <3>2 DEF Layout, EthLayout, DocsisLayout, PortOf, Park
  <2>4. ASSUME Idle', built' # "none" PROVE Layout(built)'
    <3>1. Vouches
      BY <1>0, <2>1, <2>2, <2>4
    <3>2. \A q \in Callers : cfg[q].active => q = p
      BY <2>1, <2>4 DEF Idle
    <3>3. CASE Current.configure /\ Current.router
      <4>1. Layout(Mode(ethWan))
        BY <2>1, <3>1, <3>2, <3>3, BuildingCloses DEF Vouches, Leaves
      <4> QED
        BY <2>2, <2>3, <2>4, <4>1
    <3>4. CASE ~Current.configure /\ built = Mode(ethWan)
      BY <2>2, <2>3, <2>4, <3>1, <3>4 DEF Vouches
    <3> QED
      BY <2>2, <2>4, <3>3, <3>4
  <2>5. ASSUME NEW r \in Callers, cfg'[r].active, clean'[r] PROVE Vouches'
    <3>1. r # p /\ cfg[r].active /\ clean[r]
      BY <2>1, <2>5 DEF Leaves
    <3>2. Vouches
      BY <1>0, <3>1
    <3>3. Current.configure /\ Current.router => \E n \in 0..16 : Building(n)'
      BY <2>1, <3>2, BuildingStays DEF Vouches
    <3>4. ~Current.configure /\ built' = Mode(ethWan) => Layout(built)'
      BY <2>2, <2>3, <3>2 DEF Vouches, Mode
    <3> QED
      BY <2>1, <2>3, <3>3, <3>4 DEF Vouches, Mode
  <2> QED
    BY <2>4, <2>5
<1>5. ASSUME Crash PROVE built' = "none" /\ ~(\E q \in Callers : cfg'[q].active /\ clean'[q])
  <2>1. built' = "none" /\ cfg' = [q \in Callers |-> NoCfg]
    BY <1>5 DEF Crash
  <2> QED
    BY <2>1 DEF NoCfg
<1>6. ASSUME SetEthWan \/ RecordMode \/ \E m \in BridgeModes : SetBridgeMode(m)
      PROVE  /\ built' # "none" => Layout(built)'
             /\ ~(\E q \in Callers : cfg'[q].active /\ clean'[q])
  <2>1. Idle /\ UNCHANGED <<build, net, cfg, built>>
    BY <1>6 DEF SetEthWan, RecordMode, SetBridgeMode, Change, history
  <2>2. Layout(built)' <=> Layout(built)
    BY <2>1 DEF Layout, EthLayout, DocsisLayout, PortOf, Park
  <2> QED
    BY <1>a, <2>1, <2>2 DEF Idle
<1>7. ASSUME UNCHANGED vars
      PROVE  /\ Idle' /\ built' # "none" => Layout(built)'
             /\ (\E q \in Callers : cfg'[q].active /\ clean'[q]) => Vouches'
  <2>1. UNCHANGED <<build, net, settings, cfg, prog, hw, clean, built>> /\ UNCHANGED ethWan
    BY <1>7 DEF vars, history, settings
  <2>2. Current' = Current /\ Idle' = Idle /\ \A m : Layout(m)' <=> Layout(m)
    BY <2>1 DEF Current, settings, Idle, Layout, EthLayout, DocsisLayout, PortOf, Park
  <2>3. \A n \in 0..16 : Building(n) <=> Building(n)'
    <3>1. Program(Current)' = Program(Current) /\ \A q \in Callers : At(q)' = At(q)
      BY <2>1, <2>2 DEF Program, At
    <3>2. \A n, length : Furthest(n, length)' <=> Furthest(n, length)
      BY <2>1, <3>1 DEF Furthest, Mode
    <3>3. \A d, a, b, n : UpAfter(d, a, b, n)' <=> UpAfter(d, a, b, n)
      BY <2>1, <3>1 DEF UpAfter, Lowered
    <3>4. \A n : Puma7EthSession(n)' <=> Puma7EthSession(n)
      BY <2>1, <3>1, <3>2, <3>3 DEF Puma7EthSession, Puma7EthDone
    <3>5. \A n : BcmEthSession(n)' <=> BcmEthSession(n)
      BY <2>1, <3>1, <3>2, <3>3 DEF BcmEthSession, BcmEthDone
    <3>6. \A n : Puma7DocsisSession(n)' <=> Puma7DocsisSession(n)
      BY <2>1, <3>1, <3>2, <3>3 DEF Puma7DocsisSession, Puma7DocsisDone
    <3>7. \A n : BcmDocsisSession(n)' <=> BcmDocsisSession(n)
      BY <2>1, <3>1, <3>2, <3>3 DEF BcmDocsisSession, BcmDocsisDone
    <3> QED
      BY <2>1, <3>4, <3>5, <3>6, <3>7 DEF Building
  <2>4. Vouches => Vouches'
    BY <2>1, <2>2, <2>3 DEF Vouches, Mode
  <2> QED
    BY <1>0, <1>a, <2>1, <2>2, <2>4
<1> QED
  BY <1>1, <1>2, <1>3, <1>4, <1>5, <1>6, <1>7 DEF Next

LEMMA SteadyStep ==
  ASSUME QuietChanges, Shape, Steady, [Next]_vars
  PROVE  Steady'
<1>1. ASSUME NEW p \in Callers, Start(p) PROVE Steady'
  <2> SUFFICES ASSUME calm'
               PROVE  /\ built' = ran'
                      /\ \A q \in Callers : cfg'[q].active =>
                           clean'[q] /\ cfg'[q].router
                           /\ (cfg'[q].configure \/ ran' = Mode(cfg'[q].eth))
    BY DEF Steady, Mode
  <2>1. calm /\ Recorded(Mode(ethWan)) /\ Current.router /\ built' = built /\ ran' = ran
    BY <1>1, StartIs DEF Shape
  <2>2. built = ran /\ \A q \in Callers : cfg[q].active =>
          clean[q] /\ cfg[q].router /\ (cfg[q].configure \/ ran = Mode(cfg[q].eth))
    BY <2>1 DEF Steady
  <2>3. \A q \in Callers : q # p /\ cfg'[q].active =>
          clean'[q] /\ cfg'[q].router /\ (cfg'[q].configure \/ ran' = Mode(cfg'[q].eth))
    BY <1>1, <2>1, <2>2, StartIs
  <2>4. clean'[p] /\ cfg'[p] = Current
    BY <1>1, <2>2, StartIs
  <2>5. Current.configure \/ ran = Mode(ethWan)
    <3>1. Current.configure = ConfigureBridge(ethWan, lastMode)
      BY DEF Current
    <3>2. Mode(ethWan) = ran \/ (lastMode = "eth") = (ran = "eth")
      BY <2>1 DEF Recorded
    <3>3. ethWan \in BOOLEAN /\ ran \in {"eth", "docsis"} /\ lastMode \in {"docsis", "eth", "unknown"}
      BY DEF Shape
    <3> QED
      BY <3>1, <3>2, <3>3 DEF ConfigureBridge, Mode
  <2>6. Current.eth = ethWan
    BY DEF Current
  <2> QED
    BY <2>1, <2>2, <2>3, <2>4, <2>5, <2>6
<1>2. ASSUME NEW p \in Callers, Step(p) PROVE Steady'
  <2>1. UNCHANGED <<cfg, clean, built, ran, calm>>
    BY <1>2, StepIs
  <2> QED
    BY <2>1 DEF Steady, Mode
<1>3. ASSUME NEW p \in Callers, Fail(p) PROVE Steady'
  BY <1>3 DEF Fail, Steady
<1>4. ASSUME NEW p \in Callers, Finish(p) PROVE Steady'
  <2>1. cfg[p] = Current /\ cfg[p].active /\ ~cfg'[p].active /\ clean' = clean /\ calm' = calm
        /\ ran' = Mode(ethWan) /\ \A q \in Callers : q # p => cfg'[q] = cfg[q]
    BY <1>4, FinishIs DEF Leaves
  <2> SUFFICES ASSUME calm
               PROVE  /\ built' = ran'
                      /\ \A q \in Callers : cfg'[q].active =>
                           clean'[q] /\ cfg'[q].router
                           /\ (cfg'[q].configure \/ ran' = Mode(cfg'[q].eth))
    BY <2>1 DEF Steady, Mode
  <2>2. built = ran /\ \A q \in Callers : cfg[q].active =>
          clean[q] /\ cfg[q].router /\ (cfg[q].configure \/ ran = Mode(cfg[q].eth))
    BY DEF Steady
  <2>3. Current.eth = ethWan
    BY DEF Current
  <2>4. clean[p] /\ Current.router /\ (Current.configure \/ built = Mode(ethWan))
    BY <2>1, <2>2, <2>3
  <2>5. built' = ran'
    BY <1>4, <2>1, <2>4, FinishIs
  <2>6. \A q \in Callers : cfg[q].active => cfg[q] = Current
    BY DEF Shape, Listed
  <2> QED
    BY <2>1, <2>2, <2>3, <2>5, <2>6
<1>5. ASSUME Crash PROVE Steady'
  BY <1>5 DEF Crash, Steady
<1>6. ASSUME SetEthWan \/ RecordMode \/ (\E m \in BridgeModes : SetBridgeMode(m)) \/ UNCHANGED vars
      PROVE  Steady'
  <2>1. UNCHANGED <<cfg, clean, built, ran, calm>>
    BY <1>6 DEF SetEthWan, RecordMode, SetBridgeMode, Change, history, vars
  <2> QED
    BY <2>1 DEF Steady, Mode
<1> QED
  BY <1>1, <1>2, <1>3, <1>4, <1>5, <1>6 DEF Next

LEMMA FirstState ==
  ASSUME WanBridgeAssumption, Init
  PROVE  Shape /\ Vouched /\ Steady
<1>1. /\ build \in {"puma7", "bcm"}
      /\ \A p \in Callers : cfg[p] = NoCfg
      /\ ethWan \in BOOLEAN /\ bridgemode \in Nat /\ lastMode \in {"docsis", "eth", "unknown"}
      /\ ran = "docsis" /\ built = "docsis" /\ calm = TRUE
      /\ hw \in [Callers -> {"rf", "zero"}] /\ clean \in [Callers -> BOOLEAN]
      /\ DOMAIN prog = Callers
  BY DEF Init, WanBridgeAssumption
<1>2. /\ net.at["wan"] = "rf" /\ net.at["dummy-rf"] = "none" /\ net.at["port"] = "port"
      /\ net.at["docsis"] = (IF build = "puma7" THEN "mta" ELSE "none")
      /\ net.at["lan"] = "lanbridge" /\ net.at \in [Names -> Devices \cup {"none"}]
  BY DEF Init, Names, Devices
<1>3. /\ net.up = {"rf", "port", "lanbridge"} /\ net.nf = {} /\ net.mac = "own"
      /\ net.master = [d \in Devices |-> IF d = "port" THEN "lanbridge" ELSE "none"]
      /\ net = [at |-> net.at, up |-> net.up, master |-> net.master, nf |-> net.nf, mac |-> net.mac]
  BY DEF Init
<1>4. net.up \in SUBSET Devices /\ net.nf \in SUBSET Tables
      /\ net.master \in [Devices -> Bridges \cup {"none"}]
      /\ net.master["port"] = "lanbridge" /\ net.master["mta"] = "none" /\ net.master["rf"] = "none"
      /\ \A d \in Devices : net.master[d] # "wanbridge"
  BY <1>3 DEF Devices, Bridges
<1>5. Fits(net)
  BY <1>1, <1>2, <1>3, <1>4 DEF Fits, Park
<1>6. DocsisLayout
  BY <1>1, <1>2, <1>3, <1>4 DEF DocsisLayout, PortOf
<1>a. ~NoCfg.active
  BY DEF NoCfg
<1>7. \A p \in Callers : ~cfg[p].active
  BY <1>1, <1>a
<1>8. cfg \in [Callers -> Cfgs]
  BY DEF Init, Cfgs, NoCfg
<1>9. Shape
  BY <1>1, <1>5, <1>7, <1>8 DEF Shape
<1>10. Vouched
  BY <1>1, <1>6, <1>7 DEF Vouched, LayoutBuilt, Layout
<1>11. Steady
  BY <1>1, <1>7 DEF Steady
<1> QED
  BY <1>9, <1>10, <1>11

LEMMA Vouching ==
  ASSUME QuietChanges
  PROVE  Spec => [](Shape /\ Vouched /\ Steady)
<1>1. Init => Shape /\ Vouched /\ Steady
  BY FirstState, WanBridgeAssumption
<1>2. Shape /\ Vouched /\ Steady /\ [Next]_vars => (Shape /\ Vouched /\ Steady)'
  BY ShapeStep, VouchedStep, SteadyStep, WanBridgeAssumption
<1> QED
  BY <1>1, <1>2, PTL DEF Spec

\* As long as the settings change only while no call is under way, and whatever fails,
\* dies or overlaps: a list that EthLink_CreateBridgeInterface ran to its end leaves the
\* layout of its mode, for any number of threads in it and of calls.
THEOREM WanLayoutIsBuilt ==
  ASSUME QuietChanges
  PROVE  Spec => []LayoutBuilt
<1>1. Shape /\ Vouched /\ Steady => LayoutBuilt
  BY DEF Vouched, LayoutBuilt
<1> QED
  BY <1>1, Vouching, PTL

\* And where nothing failed and WanManager recorded each mode before the next change, the
\* layout is that of the last call.
THEOREM WanModeIsFollowed ==
  ASSUME QuietChanges
  PROVE  Spec => []ModeFollowed
<1>1. Shape /\ Vouched /\ Steady => ModeFollowed
  BY DEF Shape, Vouched, LayoutBuilt, Steady, ModeFollowed
<1> QED
  BY <1>1, Vouching, PTL
=============================================================================
