------------------------------ MODULE HalProofs ------------------------------
(* Theorems about HalClient, for any callers, interfaces, mishaps and bounds. *)
EXTENDS HalClient, TLAPS

\* The fields of the calls, and the numbers of the requests that are on their way or done.
Fields ==
  /\ pc \in [Callers -> {"idle", "await", "report"}]
  /\ DOMAIN answer = Callers /\ DOMAIN held = Callers
  /\ req \in [Callers -> Requests]
  /\ latest \in [Interfaces -> Requests]
  /\ channel \in Seq(Requests)
  /\ sent \in Nat
  /\ processed \subseteq Nat

\* A reply is of a request that was served, and a call that has it, or has returned with
\* it, is that request's.
Served ==
  /\ replies \subseteq processed
  /\ \A p \in Callers :
       /\ pc[p] = "report" \/ answer[p] = "RETURN_OK" => req[p].number \in processed
       /\ pc[p] = "await" => answer[p] = "none"

\* The server takes the requests in the order they were sent: those on their way are later
\* than those that were served, and in order.
InOrder ==
  /\ \A k \in processed : k <= sent
  /\ \A i \in 1..Len(channel) :
       /\ channel[i].number <= sent
       /\ \A k \in processed : k < channel[i].number
       /\ \A j \in 1..Len(channel) : i < j => channel[i].number < channel[j].number

\* No request about an interface is later than its latest.
Latest ==
  /\ \A n \in Interfaces : latest[n].name = n /\ latest[n].number <= sent
  /\ \A i \in 1..Len(channel) :
       /\ channel[i].number <= latest[channel[i].name].number
       /\ \A n \in Interfaces : channel[i].number = latest[n].number => channel[i] = latest[n]

IInv == Fields /\ Served /\ InOrder /\ Latest /\ DeletedIsGone /\ NothingHeld

-----------------------------------------------------------------------------

LEMMA RequestFields ==
  \A r \in Requests : r.number \in Nat /\ r.name \in Interfaces /\ r.kind \in Kinds
BY DEF Requests

LEMMA AppendFacts ==
  ASSUME NEW S, NEW s \in Seq(S), NEW e \in S
  PROVE  /\ Append(s, e) \in Seq(S) /\ Len(s) \in Nat /\ Len(Append(s, e)) = Len(s) + 1
         /\ \A i \in 1..Len(s) : Append(s, e)[i] = s[i] /\ s[i] \in S
         /\ Append(s, e)[Len(s) + 1] = e
OBVIOUS

LEMMA TailFacts ==
  ASSUME NEW S, NEW s \in Seq(S), s # <<>>
  PROVE  /\ Tail(s) \in Seq(S) /\ Len(s) \in Nat \ {0} /\ Len(Tail(s)) = Len(s) - 1
         /\ Head(s) = s[1] /\ \A i \in 1..Len(s) : s[i] \in S
         /\ \A i \in 1..(Len(s) - 1) : Tail(s)[i] = s[i + 1]
OBVIOUS

LEMMA InitIInv == Init => IInv
<1> SUFFICES ASSUME Init PROVE IInv
  OBVIOUS
<1> USE HalAssumption DEF Init
<1>1. \A n \in Interfaces : Unsent(n) \in Requests /\ Unsent(n).name = n
                            /\ Unsent(n).number = 0 /\ Unsent(n).kind = "mark"
  BY DEF Unsent, Requests, Kinds
<1>2. (CHOOSE n \in Interfaces : TRUE) \in Interfaces
  OBVIOUS
<1>3. Fields
  <2>1. req \in [Callers -> Requests] /\ latest \in [Interfaces -> Requests]
    BY <1>1, <1>2
  <2>2. channel \in Seq(Requests)
    OBVIOUS
  <2> QED
    BY <2>1, <2>2 DEF Fields
<1>4. Latest
  BY <1>1 DEF Latest
<1> QED
  BY <1>1, <1>3, <1>4 DEF IInv, Served, InOrder, DeletedIsGone, NothingHeld

LEMMA RequestStep ==
  ASSUME IInv, NEW p \in Callers, NEW kind \in Kinds, NEW n \in Interfaces, Request(p, kind, n)
  PROVE  IInv'
<1> DEFINE r == [number |-> sent + 1, kind |-> kind, name |-> n, row |-> Row(kind, n)]
<1>1. r \in Requests /\ r.number = sent + 1 /\ r.name = n
  BY HalAssumption DEF Requests, Row, IInv, Fields
<1>2. /\ req' = [req EXCEPT ![p] = r] /\ channel' = Append(channel, r)
      /\ latest' = [latest EXCEPT ![n] = r] /\ sent' = sent + 1
      /\ pc' = [pc EXCEPT ![p] = "await"] /\ answer' = [answer EXCEPT ![p] = "none"]
      /\ held' = [held EXCEPT ![p] = {"jmsg"}] /\ replyless' = replyless \ {p}
      /\ UNCHANGED <<replies, exists, processed, refused>>
  BY DEF Request
<1> HIDE DEF r
<1> USE DEF IInv
<1>3. Fields'
  BY <1>1, <1>2, AppendFacts DEF Fields
<1>4. Served'
  BY <1>2 DEF Fields, Served
<1>5. /\ Len(channel') = Len(channel) + 1 /\ Len(channel) \in Nat
      /\ \A i \in 1..Len(channel) : channel'[i] = channel[i] /\ channel[i] \in Requests
      /\ channel'[Len(channel) + 1] = r
  BY <1>1, <1>2, AppendFacts DEF Fields
<1>6. \A i \in 1..Len(channel) : channel[i].number \in Nat /\ channel[i].name \in Interfaces
  BY <1>5, RequestFields
<1>7. \A m \in Interfaces : /\ latest'[m] = IF m = n THEN r ELSE latest[m]
                            /\ latest[m].number \in Nat
  BY <1>2, RequestFields DEF Fields
<1>8. \A i \in 1..Len(channel') : i \in 1..Len(channel) \/ i = Len(channel) + 1
  BY <1>5
<1>9. InOrder' /\ Latest' /\ DeletedIsGone'
  <2>1. \A k \in processed' : k \in Nat /\ k <= sent
    BY <1>2 DEF Fields, InOrder
  <2>2. sent \in Nat
    BY DEF Fields
  <2>3. InOrder'
    <3>1. \A k \in processed' : k <= sent'
      BY <1>2, <2>1, <2>2
    <3>2. ASSUME NEW i \in 1..Len(channel')
          PROVE  channel'[i].number <= sent' /\ \A k \in processed' : k < channel'[i].number
      BY <1>1, <1>2, <1>5, <1>6, <1>8, <2>1, <2>2, <3>2 DEF InOrder
    <3>3. ASSUME NEW i \in 1..Len(channel'), NEW j \in 1..Len(channel'), i < j
          PROVE  channel'[i].number < channel'[j].number
      <4>1. i \in 1..Len(channel)
        BY <1>5, <3>3
      <4>2. channel'[i] = channel[i] /\ channel[i].number <= sent /\ channel[i].number \in Nat
        BY <1>5, <1>6, <4>1 DEF InOrder
      <4>3. CASE j \in 1..Len(channel)
        BY <1>5, <3>3, <4>1, <4>2, <4>3 DEF InOrder
      <4>4. CASE j = Len(channel) + 1
        BY <1>1, <1>5, <2>2, <4>2, <4>4
      <4> QED
        BY <1>8, <4>3, <4>4
    <3> QED
      BY <3>1, <3>2, <3>3 DEF InOrder
  <2>4. Latest'
    <3>1. \A m \in Interfaces : latest'[m].name = m /\ latest'[m].number <= sent'
      BY <1>1, <1>2, <1>7, <2>2 DEF Latest
    <3>2. ASSUME NEW i \in 1..Len(channel)
          PROVE  /\ channel'[i].number <= latest'[channel'[i].name].number
                 /\ \A m \in Interfaces :
                      channel'[i].number = latest'[m].number => channel'[i] = latest'[m]
      <4>1. /\ channel'[i] = channel[i] /\ channel[i].number <= sent
            /\ channel[i].number \in Nat /\ channel[i].name \in Interfaces
            /\ channel[i].number <= latest[channel[i].name].number
        BY <1>5, <1>6 DEF InOrder, Latest
      <4>2. r.number = sent + 1 /\ r.number # channel[i].number
        BY <1>1, <2>2, <4>1
      <4>3. channel'[i].number <= latest'[channel'[i].name].number
        BY <1>7, <2>2, <4>1, <4>2
      <4>4. ASSUME NEW m \in Interfaces, channel'[i].number = latest'[m].number
            PROVE  channel'[i] = latest'[m]
        BY <1>7, <4>1, <4>2, <4>4 DEF Latest
      <4> QED
        BY <4>3, <4>4
    <3>3. /\ r.number <= latest'[r.name].number
          /\ \A m \in Interfaces : r.number = latest'[m].number => r = latest'[m]
      BY <1>1, <1>7, <2>2 DEF Latest
    <3> QED
      BY <1>5, <1>8, <3>1, <3>2, <3>3 DEF Latest
  <2>5. DeletedIsGone'
    BY <1>1, <1>2, <1>7, <2>1, <2>2 DEF DeletedIsGone
  <2> QED
    BY <2>3, <2>4, <2>5
<1>10. NothingHeld'
  BY <1>2 DEF Fields, NothingHeld
<1> QED
  BY <1>3, <1>4, <1>9, <1>10

LEMMA ServeStep == ASSUME IInv, Serve PROVE IInv'
<1> DEFINE r == Head(channel)
<1> USE DEF IInv
<1>1. /\ channel # <<>> /\ channel' = Tail(channel)
      /\ \/ exists' = Perform(r) /\ UNCHANGED refused
         \/ refused' = refused \cup {r.number} /\ UNCHANGED exists
      /\ replies' \subseteq replies \cup {r.number}
      /\ processed' = processed \cup {r.number}
      /\ UNCHANGED <<pc, req, answer, held, sent, latest, replyless>>
  BY DEF Serve, callVars
<1>2. /\ Len(channel) \in Nat \ {0} /\ Len(channel') = Len(channel) - 1
      /\ r = channel[1] /\ r \in Requests /\ r.number \in Nat /\ r.kind \in Kinds
      /\ \A i \in 1..Len(channel') : /\ channel'[i] = channel[i + 1]
                                     /\ i + 1 \in 1..Len(channel)
  <2>1. channel \in Seq(Requests)
    BY DEF Fields
  <2>2. /\ Len(channel) \in Nat \ {0} /\ Len(channel') = Len(channel) - 1 /\ r = channel[1]
        /\ \A i \in 1..Len(channel) : channel[i] \in Requests
        /\ \A i \in 1..(Len(channel) - 1) : channel'[i] = channel[i + 1]
    BY <1>1, <2>1, TailFacts
  <2>3. r \in Requests
    BY <2>2
  <2>4. \A i \in 1..Len(channel') : /\ channel'[i] = channel[i + 1]
                                   /\ i + 1 \in 1..Len(channel)
    BY <2>2
  <2> HIDE DEF r
  <2>5. r.number \in Nat /\ r.kind \in Kinds
    BY <2>3, RequestFields
  <2> QED
    BY <2>2, <2>3, <2>4, <2>5
<1> HIDE DEF r
<1>3. Fields'
  <2>1. channel' \in Seq(Requests)
    BY <1>1, TailFacts DEF Fields
  <2> QED
    BY <1>1, <1>2, <2>1 DEF Fields
<1>4. Served'
  BY <1>1 DEF Served
<1>5. InOrder'
  BY <1>1, <1>2 DEF InOrder
<1>6. Latest'
  BY <1>1, <1>2 DEF Latest
<1>7. NothingHeld'
  BY <1>1 DEF NothingHeld
<1>8. ASSUME NEW n \in Interfaces, latest[n].kind = "delete",
             latest[n].number \in processed', latest[n].number \notin refused'
      PROVE  n \notin exists'
  <2>1. latest[n].number \notin refused
    BY <1>1, <1>8
  <2>2. 1 \in 1..Len(channel)
    BY <1>2
  <2>3. CASE latest[n].number \in processed
    <3>1. n \notin exists
      BY <1>8, <2>1, <2>3 DEF DeletedIsGone
    <3>2. r.number <= latest[r.name].number /\ latest[n].number < r.number
      BY <1>2, <2>2, <2>3 DEF InOrder, Latest
    <3>3. r.name # n
      <4>1. latest[n].number \in Nat
        BY RequestFields DEF Fields
      <4> QED
        BY <1>2, <3>2, <4>1
    <3> QED
      BY <1>1, <1>2, <3>1, <3>3 DEF Perform, Kinds
  <2>4. CASE latest[n].number = r.number
    <3>1. r = latest[n] /\ r.name = n
      BY <1>2, <2>2, <2>4 DEF Latest
    <3>2. exists' = Perform(r)
      BY <1>1, <1>8, <2>4
    <3> QED
      BY <1>8, <3>1, <3>2 DEF Perform
  <2> QED
    BY <1>1, <1>8, <2>3, <2>4
<1> QED
  BY <1>1, <1>3, <1>4, <1>5, <1>6, <1>7, <1>8 DEF DeletedIsGone

\* The steps of a call that is under way, or does not begin.
LEMMA CallStep ==
  ASSUME IInv, NEW p \in Callers,
         NoHeader(p) \/ Unconnected(p) \/ RpcFailed(p) \/ Reply(p) \/ NoReply(p) \/ Report(p)
  PROVE  IInv'
<1> USE DEF IInv
<1>1. UNCHANGED <<req, channel, exists, sent, latest, processed, refused>>
      /\ replies' \subseteq replies
  BY DEF NoHeader, Unconnected, RpcFailed, Reply, NoReply, Report, history, serverVars
<1>2. Fields'
  BY <1>1
  DEF Fields, NoHeader, Unconnected, RpcFailed, Reply, NoReply, Report, Return
<1>3. InOrder' /\ Latest' /\ DeletedIsGone'
  BY <1>1 DEF InOrder, Latest, DeletedIsGone
<1>4. Served'
  BY <1>1
  DEF Fields, Served, NoHeader, Unconnected, RpcFailed, Hopeless, Reply, NoReply, Report, Return
<1>5. NothingHeld'
  BY DEF Fields, NothingHeld, NoHeader, Unconnected, RpcFailed, Reply, NoReply, Report, Return,
         history
<1> QED
  BY <1>2, <1>3, <1>4, <1>5

LEMMA OtherStep ==
  ASSUME IInv, InitHal \/ LookConnected \/ Connect \/ Break \/ UNCHANGED vars PROVE IInv'
<1> USE DEF IInv
<1>1. UNCHANGED <<callVars, exists, sent, history>>
  BY DEF InitHal, LookConnected, Connect, Break, vars, serverVars
<1>2. /\ channel' = channel \/ channel' = <<>>
      /\ replies' = replies \/ replies' = {}
  BY DEF InitHal, LookConnected, Connect, Break, vars, serverVars
<1>3. Fields'
  <2>1. <<>> \in Seq(Requests)
    OBVIOUS
  <2>2. channel' \in Seq(Requests)
    BY <1>2, <2>1 DEF Fields
  <2> QED
    BY <1>1, <2>2 DEF Fields, callVars, history
<1>4. Served' /\ DeletedIsGone' /\ NothingHeld'
  BY <1>1, <1>2 DEF Served, DeletedIsGone, NothingHeld, callVars, history
<1>5. InOrder' /\ Latest'
  BY <1>1, <1>2 DEF InOrder, Latest, history
<1> QED
  BY <1>3, <1>4, <1>5

LEMMA StepIInv == IInv /\ [Next]_vars => IInv'
BY RequestStep, ServeStep, CallStep, OtherStep DEF Next

LEMMA AlwaysIInv == Spec => []IInv
BY InitIInv, StepIInv, PTL DEF Spec

-----------------------------------------------------------------------------

\* A call that returns RETURN_OK had its request served
\* (vlan_eth_hal_createInterface, vlan_eth_hal_setMarkings, vlan_eth_hal_deleteInterface).
THEOREM OkServed == Spec => []OkIsServed
<1>1. IInv => OkIsServed
  BY DEF IInv, Served, OkIsServed
<1> QED
  BY <1>1, AlwaysIInv, PTL

\* No create that was given up comes after the delete that followed it
\* (vlan_eth_hal_deleteInterface).
THEOREM DeletedGone == Spec => []DeletedIsGone
BY AlwaysIInv, PTL DEF IInv

\* Every path of a call but CHECK(jreply_msg) releases what the call holds.
THEOREM AllReleased == Spec => []NothingHeld
BY AlwaysIInv, PTL DEF IInv
=============================================================================
