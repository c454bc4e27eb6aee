------------------------------ MODULE HalClient ------------------------------
(***************************************************************************)
(* The client of the JSON HAL (vlan_eth_hal.c, VLAN_MANAGER_HAL_ENABLED):  *)
(* start-up waits for the connection, then threads ask the HAL's server,   *)
(* another process, to create, mark or delete an interface.                *)
(*                                                                         *)
(* A call sends one request and waits for its reply.  The library gives up *)
(* after a while, and the request it gave up on may still take effect; the *)
(* connection may break, and then what was on its way is lost.  No call is *)
(* repeated, and the callers only log what it answers.                     *)
(***************************************************************************)
EXTENDS Naturals, Sequences

CONSTANTS
  Callers,       \* threads that call: the bus thread, VLAN workers, refresh threads
  Interfaces,    \* interfaces, each named by the instance number of its row
  MaxLooks,      \* HAL_CONNECTION_RETRY_MAX_COUNT
  Mishaps,       \* what may happen, out of MishapKinds
  MaxCalls,      \* bound on the number of requests sent
  MaxBreaks      \* bound on the number of times the connection breaks

MishapKinds == {"header",   \* no memory for a request
                "timeout",  \* the library stops waiting for a reply
                "refuse",   \* the server refuses a request
                "break",    \* the connection breaks
                "noreply"}  \* the library answers RETURN_OK and hands out no reply

ASSUME HalAssumption ==
  /\ Interfaces \subseteq Nat \ {0} /\ Interfaces # {}
  /\ MaxLooks \in Nat \ {0}
  /\ Mishaps \subseteq MishapKinds
  /\ MaxCalls \in Nat /\ MaxBreaks \in Nat

VARIABLES
  started,    \* how far vlan_eth_hal_init is
  looks,      \* its retry_count
  connected,  \* whether the client is connected to the server
  pc,         \* pc[p]: "idle", "await" a reply, or "report" on it
  req,        \* req[p]: the request of the last call of p
  answer,     \* answer[p]: what that call returned
  held,       \* held[p]: the JSON objects that p has not released
  channel,    \* the requests on their way to the server, in the order sent
  replies,    \* the requests that were replied to, the reply on its way back
  exists,     \* the interfaces there are
  sent, breaks,
  latest, processed, refused, replyless  \* history, read by the properties only

startVars == <<started, looks>>
callVars == <<pc, req, answer, held>>
serverVars == <<channel, replies, exists>>
history == <<latest, processed, refused, replyless>>
vars == <<startVars, connected, callVars, serverVars, sent, breaks, history>>

Kinds == {"create", "mark", "delete"}

\* Requests are numbered in the order they are sent; no request has the number 0.
Requests == [number : Nat, kind : Kinds, name : Interfaces, row : Nat]
Unsent(n) == [number |-> 0, kind |-> "mark", name |-> n, row |-> 0]

-----------------------------------------------------------------------------
(* vlan_eth_hal_init.  When it fails the VLANTermination table stays empty; the
   Link table is there all the same, and calls the HAL. *)

\* json_hal_client_init and json_hal_client_run.
InitHal ==
  /\ started = "no"
  /\ started' \in {"waiting", "failed"}
  /\ UNCHANGED <<looks, connected, callVars, serverVars, sent, breaks, history>>

\* A mutant of LookConnected: the seconds that go by are not counted.
LookForever ==
  /\ started = "waiting" /\ connected
  /\ started' = "ok"
  /\ UNCHANGED <<looks, connected, callVars, serverVars, sent, breaks, history>>

\* One round of the loop.  The last second is slept and not looked at again.
LookConnected ==
  /\ started = "waiting"
  /\ \/ connected /\ started' = "ok" /\ UNCHANGED looks
     \/ /\ ~connected
        /\ looks' = looks + 1
        /\ started' = IF looks + 1 = MaxLooks THEN "failed" ELSE "waiting"
  /\ UNCHANGED <<connected, callVars, serverVars, sent, breaks, history>>

-----------------------------------------------------------------------------
(* vlan_eth_hal_createInterface, vlan_eth_hal_setMarkings and
   vlan_eth_hal_deleteInterface.  The three differ in the parameters they send. *)

\* Create and setMarkings name the row by IfaceInstanceNumber, which their callers
\* leave zero; delete is given the number of the row.
Row(kind, n) == IF kind = "delete" THEN n ELSE 0

\* json_hal_client_get_request_header answers NULL: CHECK(jmsg).
NoHeader(p) ==
  /\ started \in {"ok", "failed"} /\ pc[p] = "idle"
  /\ "header" \in Mishaps
  /\ answer' = [answer EXCEPT ![p] = "RETURN_ERR"]
  /\ UNCHANGED <<startVars, connected, pc, req, held, serverVars, sent, breaks, history>>

\* The request is built, and json_hal_client_send_and_get_reply puts it on the
\* connection.
Request(p, kind, n) ==
  /\ started \in {"ok", "failed"} /\ pc[p] = "idle"
  /\ connected /\ sent < MaxCalls
  /\ LET r == [number |-> sent + 1, kind |-> kind, name |-> n, row |-> Row(kind, n)]
     IN  /\ req' = [req EXCEPT ![p] = r]
         /\ channel' = Append(channel, r)
         /\ latest' = [latest EXCEPT ![n] = r]
  /\ sent' = sent + 1
  /\ pc' = [pc EXCEPT ![p] = "await"]
  /\ answer' = [answer EXCEPT ![p] = "none"]
  /\ held' = [held EXCEPT ![p] = {"jmsg"}]
  /\ replyless' = replyless \ {p}
  /\ UNCHANGED <<startVars, connected, replies, exists, breaks, processed, refused>>

\* Without a connection the request is built and released again.
Unconnected(p) ==
  /\ started \in {"ok", "failed"} /\ pc[p] = "idle"
  /\ ~connected
  /\ answer' = [answer EXCEPT ![p] = "RETURN_ERR"]
  /\ UNCHANGED <<startVars, connected, pc, req, held, serverVars, sent, breaks, history>>

Return(p, a) ==
  /\ pc' = [pc EXCEPT ![p] = "idle"]
  /\ answer' = [answer EXCEPT ![p] = a]

\* What ends the wait for a reply: the library's patience, or the connection.
Hopeless(p) == pc[p] = "await" /\ ("timeout" \in Mishaps \/ ~connected)

\* Mutants of RpcFailed: the request is sent once more,
RpcRepeated(p) ==
  /\ Hopeless(p) /\ Len(channel) < MaxCalls
  /\ channel' = Append(channel, req[p])
  /\ UNCHANGED <<startVars, connected, callVars, replies, exists, sent, breaks, history>>

\* the failure is logged and not returned,
RpcIgnored(p) ==
  /\ Hopeless(p)
  /\ Return(p, "RETURN_OK")
  /\ held' = [held EXCEPT ![p] = {}]
  /\ UNCHANGED <<startVars, connected, req, serverVars, sent, breaks, history>>

\* or the request is not released.
RpcLeaked(p) ==
  /\ Hopeless(p)
  /\ Return(p, "RETURN_ERR")
  /\ UNCHANGED <<startVars, connected, req, held, serverVars, sent, breaks, history>>

\* "RPC message failed": both objects are released.  The request is not called back.
RpcFailed(p) ==
  /\ Hopeless(p)
  /\ Return(p, "RETURN_ERR")
  /\ held' = [held EXCEPT ![p] = {}]
  /\ replies' = replies \ {req[p].number}
  /\ UNCHANGED <<startVars, connected, req, channel, exists, sent, breaks, history>>

\* The reply that names the request arrives.
Reply(p) ==
  /\ pc[p] = "await" /\ req[p].number \in replies
  /\ replies' = replies \ {req[p].number}
  /\ pc' = [pc EXCEPT ![p] = "report"]
  /\ held' = [held EXCEPT ![p] = @ \cup {"jreply"}]
  /\ UNCHANGED <<startVars, connected, req, answer, channel, exists, sent, breaks, history>>

\* CHECK(jreply_msg) returns without releasing the request.
NoReply(p) ==
  /\ pc[p] = "await" /\ req[p].number \in replies
  /\ "noreply" \in Mishaps
  /\ replies' = replies \ {req[p].number}
  /\ Return(p, "RETURN_ERR")
  /\ replyless' = replyless \cup {p}
  /\ UNCHANGED <<startVars, connected, req, held, channel, exists, sent, breaks,
                 latest, processed, refused>>

\* The status in the reply, "failed" or unreadable, decides what is logged, and the
\* call returns RETURN_OK.
Report(p) ==
  /\ pc[p] = "report"
  /\ Return(p, "RETURN_OK")
  /\ held' = [held EXCEPT ![p] = {}]
  /\ UNCHANGED <<startVars, connected, req, serverVars, sent, breaks, history>>

-----------------------------------------------------------------------------
(* The server and the connection *)

Perform(r) ==
  CASE r.kind = "create" -> exists \cup {r.name}
    [] r.kind = "mark"   -> exists
    [] r.kind = "delete" -> exists \ {r.name}

\* The server takes the oldest request, carries it out or refuses it, and replies.  A
\* reply nobody waits for is dropped.
Serve ==
  /\ channel # <<>>
  /\ LET r == Head(channel) IN
       /\ \/ exists' = Perform(r) /\ UNCHANGED refused
          \/ /\ "refuse" \in Mishaps
             /\ refused' = refused \cup {r.number}
             /\ UNCHANGED exists
       /\ replies' = IF \E p \in Callers : pc[p] = "await" /\ req[p] = r
                      THEN replies \cup {r.number} ELSE replies
       /\ processed' = processed \cup {r.number}
  /\ channel' = Tail(channel)
  /\ UNCHANGED <<startVars, connected, callVars, sent, breaks, latest, replyless>>

Connect ==
  /\ ~connected
  /\ connected' = TRUE
  /\ UNCHANGED <<startVars, callVars, serverVars, sent, breaks, history>>

Break ==
  /\ connected /\ "break" \in Mishaps
  /\ breaks < MaxBreaks
  /\ breaks' = breaks + 1
  /\ connected' = FALSE
  /\ channel' = <<>> /\ replies' = {}
  /\ UNCHANGED <<startVars, callVars, exists, sent, history>>

Init ==
  /\ started = "no" /\ looks = 0
  /\ connected = FALSE
  /\ pc = [p \in Callers |-> "idle"]
  /\ req = [p \in Callers |-> Unsent(CHOOSE n \in Interfaces : TRUE)]
  /\ answer = [p \in Callers |-> "none"]
  /\ held = [p \in Callers |-> {}]
  /\ channel = <<>> /\ replies = {} /\ exists = {}
  /\ sent = 0 /\ breaks = 0
  /\ latest = [n \in Interfaces |-> Unsent(n)]
  /\ processed = {} /\ refused = {} /\ replyless = {}

Next ==
  \/ InitHal \/ LookConnected
  \/ \E p \in Callers : \/ NoHeader(p) \/ Unconnected(p)
                        \/ \E k \in Kinds, n \in Interfaces : Request(p, k, n)
                        \/ RpcFailed(p) \/ Reply(p) \/ NoReply(p) \/ Report(p)
  \/ Serve \/ Connect \/ Break

Spec == Init /\ [][Next]_vars

\* Threads run, and the library gives up on a reply in the end.
FairSpec ==
  /\ Spec
  /\ WF_vars(LookConnected)
  /\ \A p \in Callers : WF_vars(RpcFailed(p) \/ Reply(p) \/ NoReply(p) \/ Report(p))

-----------------------------------------------------------------------------
(* Properties *)

TypeOK ==
  /\ started \in {"no", "waiting", "ok", "failed"}
  /\ looks \in 0..MaxLooks
  /\ connected \in BOOLEAN
  /\ pc \in [Callers -> {"idle", "await", "report"}]
  /\ req \in [Callers -> Requests]
  /\ answer \in [Callers -> {"none", "RETURN_OK", "RETURN_ERR"}]
  /\ held \in [Callers -> SUBSET {"jmsg", "jreply"}]
  /\ channel \in Seq(Requests)
  /\ replies \subseteq Nat /\ exists \subseteq Interfaces
  /\ sent \in Nat /\ breaks \in Nat
  /\ latest \in [Interfaces -> Requests]
  /\ processed \subseteq Nat /\ refused \subseteq Nat
  /\ replyless \subseteq Callers

\* A call that returns RETURN_OK had its request served: a status read after it is
\* not older than the request, whatever timed out, broke or overlapped.
OkIsServed ==
  \A p \in Callers : answer[p] = "RETURN_OK" => req[p].number \in processed

\* After the delete of an interface was served, and until another request about it is
\* sent, the interface is gone: no earlier create, given up by the thread that made
\* it, comes after it.
DeletedIsGone ==
  \A n \in Interfaces :
    latest[n].kind = "delete" /\ latest[n].number \in processed \ refused => n \notin exists

\* A call that is over has released its request and its reply, on every path but that
\* of CHECK(jreply_msg).
NothingHeld == \A p \in Callers : pc[p] = "idle" /\ p \notin replyless => held[p] = {}

\* Start-up stops waiting for the server, and every call comes back.
CallsReturn ==
  /\ started = "waiting" ~> started \in {"ok", "failed"}
  /\ \A p \in Callers : pc[p] # "idle" ~> pc[p] = "idle"

-----------------------------------------------------------------------------
(* What the comments of vlan_eth_hal.h say, and the code does not do *)

\* "@retval RETURN_OK if successful ... RETURN_ERR if any error is detected"
\* (vlan_eth_hal.h 194): a refused request answers RETURN_OK.
OkIsDone ==
  \A p \in Callers : answer[p] = "RETURN_OK" => req[p].number \notin refused

\* "@execution Synchronous" (vlan_eth_hal.h 197): a request given up on is still on
\* its way when the call is over.
Synchronous ==
  \A i \in 1..Len(channel) : \E p \in Callers : pc[p] = "await" /\ req[p] = channel[i]

\* "IfaceInstanceNumber; Instance number of interface" (vlan_eth_hal.h 124): every
\* request names the row of its interface.
RowIsOwn == \A i \in 1..Len(channel) : channel[i].row = channel[i].name
=============================================================================
