---------------------------- MODULE MarkingTable ----------------------------
(***************************************************************************)
(* The Marking table of one link, at the level of its memory               *)
(* (ethernet_apis.c 645-840 and 1071-1119, ethernet_dml.c 905-1146).       *)
(*                                                                         *)
(* NumberofMarkingEntries counts the rows of the block that                *)
(* pstDataModelMarking points to.  Enabling or refreshing the link loads   *)
(* the table from WanManager and copies it; creating a tagged interface    *)
(* copies it; disabling deletes it; the bus thread reads its rows through  *)
(* handles.  All of them use the two fields without a lock, and nothing    *)
(* keeps them apart here.                                                  *)
(*                                                                         *)
(* A step of a thread that changes the table reads or writes one field.    *)
(* Reads of both are one step where the thread only reads: a change that   *)
(* falls between them falls into its operation.                            *)
(*                                                                         *)
(* EthLink knows of the table only whether it is there.  Here a row holds  *)
(* the number of the load that filled it, 0 before that.                   *)
(***************************************************************************)
EXTENDS Integers, Sequences

CONSTANTS
  Threads,    \* workers and refresh threads
  Bus,        \* the thread that serves data-model requests
  Blocks,     \* blocks the heap can hand out
  NULL,
  MaxRows,    \* bound on the rows WanManager lists (16 fit the code's buffer)
  MaxOps,     \* bound on the operations started
  Hal,        \* "json" or "ip", as in EthLink
  Faults      \* "memory": malloc() returns NULL

ASSUME MarkingAssumption ==
  /\ Bus \notin Threads
  /\ NULL \notin Blocks
  /\ MaxRows \in Nat /\ MaxOps \in Nat
  /\ Hal \in {"json", "ip"}
  /\ Faults \subseteq {"memory"}

VARIABLES
  count,      \* NumberofMarkingEntries
  table,      \* pstDataModelMarking
  heap,       \* heap[b]: whether block b is allocated, its rows, and by which load
  pc,         \* pc[p]: where thread p is; "bad" after touching memory it has not
  op, num,    \* op[p]: what p is doing; num[p]: the number of that operation
  old,        \* old[p]: the pointer p tested before freeing it, or has from malloc()
  row,        \* row[p]: iLoopCount of p, from 1
  want, cfg,  \* skbMarkingNumOfEntries and the rows of skb_config (none when NULL)
  handle,     \* the block and row of the handle the bus thread holds
  ops,        \* number of operations started
  current,    \* the last load that filled its table by itself, 0 after such a delete
  disturbed,  \* the operations that a change of another thread overlapped
  mixed       \* changes overlapped, and none has been completed by itself since
              \* (the last three are history, read by the properties only)

shared == <<count, table, heap>>
private == <<op, num, old, row, want, cfg, handle>>
history == <<current, disturbed, mixed>>
vars == <<shared, pc, private, ops, history>>

Procs == Threads \cup {Bus}

Changing == {"load", "delete"}
Copying == {"copy", "refresh"}

Labels == {"idle", "bad", "ReadMarkings", "TestOld", "Free", "Clear", "SetCount",
           "Alloc", "Store", "Zero", "Fill", "CopyCount", "CopyAlloc", "CopyRow", "UseCopy",
           "TestCount", "ZeroCount", "GetEntry", "GetParam"}

Rows == Seq(0..MaxOps)

TypeOK ==
  /\ count \in Nat
  /\ table \in Blocks \cup {NULL}
  /\ heap \in [Blocks -> [live : BOOLEAN, rows : Rows, by : 0..MaxOps]]
  /\ pc \in [Procs -> Labels]
  /\ op \in [Procs -> Changing \cup Copying \cup {"get"}]
  /\ num \in [Procs -> 0..MaxOps]
  /\ old \in [Procs -> Blocks \cup {NULL}]
  /\ row \in [Procs -> Nat]
  /\ want \in [Procs -> Nat]
  /\ cfg \in [Procs -> Rows]
  /\ handle \in [block : Blocks \cup {NULL}, row : Nat]
  /\ ops \in 0..MaxOps
  /\ current \in 0..MaxOps
  /\ disturbed \subseteq 1..MaxOps
  /\ mixed \in BOOLEAN

Init ==
  /\ count = 0
  /\ table = NULL
  /\ heap = [b \in Blocks |-> [live |-> FALSE, rows |-> <<>>, by |-> 0]]
  /\ pc = [p \in Procs |-> "idle"]
  /\ op = [p \in Procs |-> "get"]
  /\ num = [p \in Procs |-> 0]
  /\ old = [p \in Procs |-> NULL]
  /\ row = [p \in Procs |-> 1]
  /\ want = [p \in Procs |-> 0]
  /\ cfg = [p \in Procs |-> <<>>]
  /\ handle = [block |-> NULL, row |-> 1]
  /\ ops = 0
  /\ current = 0 /\ disturbed = {} /\ mixed = FALSE

Goto(p, l, m) ==
  /\ pc[p] = l
  /\ pc' = [pc EXCEPT ![p] = m]

Blank(n) == [i \in 1..n |-> 0]

\* Row i of block b can be read and written.
Valid(b, i) == b # NULL /\ heap[b].live /\ i \in DOMAIN heap[b].rows

-----------------------------------------------------------------------------
(* Starting an operation *)

\* Thread q has begun to use the table and is not done.
Using(q) == pc[q] \notin {"idle", "bad", "ReadMarkings"}

\* What is noted when operation n of p begins to use the table: who changes it beside
\* whom.
Enter(p, n, changes) ==
  LET others == {q \in Procs \ {p} : Using(q)}
      clash  == \E q \in others : op[q] \in Changing
  IN  /\ disturbed' = disturbed \cup (IF clash THEN {n} ELSE {})
                                \cup (IF changes THEN {num[q] : q \in others} ELSE {})
      /\ mixed' = (mixed \/ (clash /\ changes))
      /\ UNCHANGED current

\* A change of p is over, and leaves the table of load n, or none.
Settle(p, n) ==
  /\ IF num[p] \in disturbed THEN UNCHANGED <<current, mixed>>
                              ELSE current' = n /\ mixed' = FALSE
  /\ UNCHANGED disturbed

FirstLabel(o) ==
  CASE o = "load" -> "ReadMarkings"
    [] o \in Copying -> "CopyCount"
    [] o = "delete" -> "TestCount"
    [] o = "get" -> "GetEntry"

\* Only the bus thread reads rows.
Start(p, o) ==
  /\ Goto(p, "idle", FirstLabel(o))
  /\ o = "get" => p = Bus
  /\ ops < MaxOps
  /\ ops' = ops + 1
  /\ num' = [num EXCEPT ![p] = ops + 1]
  /\ op' = [op EXCEPT ![p] = o]
  /\ row' = [row EXCEPT ![p] = 1]
  /\ want' = [want EXCEPT ![p] = 0]
  /\ cfg' = [cfg EXCEPT ![p] = <<>>]
  /\ IF o = "load" THEN UNCHANGED history ELSE Enter(p, ops + 1, o \in Changing)
  /\ UNCHANGED <<shared, old, handle>>

-----------------------------------------------------------------------------
(* EthLink_AddMarking and EthLink_CreateMarkingTable *)

\* With the rows in skb_config the table is made anew.
ReadMarkings(p) ==
  /\ Goto(p, "ReadMarkings", "TestOld")
  /\ \E n \in 1..MaxRows : cfg' = [cfg EXCEPT ![p] = [i \in 1..n |-> num[p]]]
  /\ Enter(p, num[p], TRUE)
  /\ UNCHANGED <<shared, op, num, old, row, want, handle, ops>>

\* No active WAN interface, no answer from WanManager, no rows or no memory for the
\* skb_config: the old table stays.
ReadNothing(p) ==
  /\ Goto(p, "ReadMarkings", "idle")
  /\ UNCHANGED <<shared, private, ops, history>>

\* A load goes on to make a table, a delete to reset the count.
Emptied(p) == IF op[p] = "load" THEN "SetCount" ELSE "ZeroCount"

\* A mutant of TestOld: the old table is forgotten, not freed.
ForgetOld(p) ==
  /\ Goto(p, "TestOld", Emptied(p))
  /\ UNCHANGED <<shared, private, ops, history>>

TestOld(p) ==
  /\ IF table = NULL
     THEN Goto(p, "TestOld", Emptied(p)) /\ UNCHANGED old
     ELSE Goto(p, "TestOld", "Free") /\ old' = [old EXCEPT ![p] = table]
  /\ UNCHANGED <<shared, op, num, row, want, cfg, handle, ops, history>>

\* free() of the pointer that was tested, or of the field read again: compilers do both.
Free(p) ==
  /\ \E b \in {old[p], table} :
       /\ Goto(p, "Free", IF b = NULL \/ heap[b].live THEN "Clear" ELSE "bad")
       /\ heap' = IF b = NULL THEN heap ELSE [heap EXCEPT ![b].live = FALSE]
  /\ UNCHANGED <<count, table, private, ops, history>>

\* A mutant of Clear: the pointer to the freed table stays.
KeepPointer(p) ==
  /\ Goto(p, "Clear", Emptied(p))
  /\ UNCHANGED <<shared, private, ops, history>>

Clear(p) ==
  /\ Goto(p, "Clear", Emptied(p))
  /\ table' = NULL
  /\ UNCHANGED <<count, heap, private, ops, history>>

\* The count is set before there is a table of that size.
SetCount(p) ==
  /\ Goto(p, "SetCount", "Alloc")
  /\ count' = Len(cfg[p])
  /\ UNCHANGED <<table, heap, private, ops, history>>

\* malloc() for the count just written, or for the field read again.
Alloc(p) ==
  /\ Goto(p, "Alloc", "Store")
  /\ \/ \E b \in Blocks, n \in {count, Len(cfg[p])} :
          /\ ~heap[b].live
          /\ heap' = [heap EXCEPT ![b] = [live |-> TRUE, rows |-> Blank(n), by |-> num[p]]]
          /\ old' = [old EXCEPT ![p] = b]
     \/ /\ "memory" \in Faults
        /\ old' = [old EXCEPT ![p] = NULL]
        /\ UNCHANGED heap
  /\ UNCHANGED <<count, table, op, num, row, want, cfg, handle, ops, history>>

Store(p) ==
  /\ table' = old[p]
  /\ IF old[p] = NULL THEN Goto(p, "Store", "idle") /\ Settle(p, 0)
                      ELSE Goto(p, "Store", "Zero") /\ UNCHANGED history
  /\ UNCHANGED <<count, heap, private, ops>>

\* The first n rows of block b can be written.
Covers(b, n) == n = 0 \/ (b # NULL /\ heap[b].live /\ n <= Len(heap[b].rows))

\* memset() of the new block, or of the one the field has by then, for either count.
Zero(p) ==
  /\ \E b \in {old[p], table}, n \in {count, Len(cfg[p])} :
       /\ Goto(p, "Zero", IF Covers(b, n) THEN "Fill" ELSE "bad")
       /\ heap' = IF b # NULL /\ Covers(b, n)
                  THEN [heap EXCEPT ![b].rows = [i \in DOMAIN @ |-> IF i <= n THEN 0 ELSE @[i]]]
                  ELSE heap
  /\ UNCHANGED <<count, table, private, ops, history>>

\* The field is read again for the test that the allocation succeeded.
ZeroNothing(p) ==
  /\ table = NULL
  /\ Goto(p, "Zero", "idle")
  /\ Settle(p, 0)
  /\ UNCHANGED <<shared, private, ops>>

\* A mutant of FillRow: it stands one row ahead.
FillAside(p) ==
  /\ row[p] <= count
  /\ ~ (row[p] = 1 /\ table = NULL)
  /\ IF Valid(table, row[p]) /\ row[p] \in DOMAIN cfg[p]
     THEN /\ Goto(p, "Fill", "Fill")
          /\ heap' = [heap EXCEPT ![table].rows[1] = cfg[p][row[p]]]
          /\ row' = [row EXCEPT ![p] = @ + 1]
     ELSE Goto(p, "Fill", "bad") /\ UNCHANGED <<heap, row>>
  /\ UNCHANGED <<count, table, op, num, old, want, cfg, handle, ops, history>>

\* Count and table are read anew for every row.
FillRow(p) ==
  /\ row[p] <= count
  /\ ~ (row[p] = 1 /\ table = NULL)
  /\ IF Valid(table, row[p]) /\ row[p] \in DOMAIN cfg[p]
     THEN /\ Goto(p, "Fill", "Fill")
          /\ heap' = [heap EXCEPT ![table].rows[row[p]] = cfg[p][row[p]]]
          /\ row' = [row EXCEPT ![p] = @ + 1]
     ELSE Goto(p, "Fill", "bad") /\ UNCHANGED <<heap, row>>
  /\ UNCHANGED <<count, table, op, num, old, want, cfg, handle, ops, history>>

\* The first row of a table that is NULL is passed over.
FillNothing(p) ==
  /\ row[p] = 1 /\ count > 0 /\ table = NULL
  /\ Goto(p, "Fill", "Fill")
  /\ row' = [row EXCEPT ![p] = 2]
  /\ UNCHANGED <<shared, op, num, old, want, cfg, handle, ops, history>>

FillEnds(p) ==
  /\ row[p] > count
  /\ Goto(p, "Fill", "idle")
  /\ Settle(p, num[p])
  /\ UNCHANGED <<shared, private, ops>>

-----------------------------------------------------------------------------
(* EthLink_GetMarking *)

\* Nothing to copy is a success.
CopyNothing(p) ==
  /\ Goto(p, "CopyCount", "UseCopy")
  /\ count = 0
  /\ UNCHANGED <<shared, private, ops, history>>

\* A copy that fails ends the creation of an interface, but not a refresh.
OnFailure(p) == IF op[p] = "refresh" THEN "UseCopy" ELSE "idle"

\* skbMarkingNumOfEntries is set before the memory is there, and the count is read
\* again for its size.
CopyCount(p) ==
  /\ count > 0
  /\ Goto(p, "CopyCount", "CopyAlloc")
  /\ want' = [want EXCEPT ![p] = count]
  /\ UNCHANGED <<shared, op, num, old, row, cfg, handle, ops, history>>

CopyAlloc(p) ==
  /\ \/ /\ Goto(p, "CopyAlloc", "CopyRow")
        /\ \E n \in {count, want[p]} : cfg' = [cfg EXCEPT ![p] = Blank(n)]
     \/ /\ "memory" \in Faults
        /\ Goto(p, "CopyAlloc", OnFailure(p))
        /\ UNCHANGED cfg
  /\ UNCHANGED <<shared, op, num, old, row, want, handle, ops, history>>

\* A table that is NULL shows by its first row.
CopyFails(p) ==
  /\ row[p] = 1 /\ count > 0 /\ table = NULL
  /\ Goto(p, "CopyRow", OnFailure(p))
  /\ cfg' = [cfg EXCEPT ![p] = <<>>]
  /\ UNCHANGED <<shared, op, num, old, row, want, handle, ops, history>>

CopyRow(p) ==
  /\ row[p] <= count
  /\ row[p] > 1 \/ table # NULL
  /\ IF Valid(table, row[p]) /\ row[p] \in DOMAIN cfg[p]
     THEN /\ Goto(p, "CopyRow", "CopyRow")
          /\ cfg' = [cfg EXCEPT ![p][row[p]] = heap[table].rows[row[p]]]
          /\ row' = [row EXCEPT ![p] = @ + 1]
     ELSE Goto(p, "CopyRow", "bad") /\ UNCHANGED <<row, cfg>>
  /\ UNCHANGED <<shared, op, num, old, want, handle, ops, history>>

CopyEnds(p) ==
  /\ Goto(p, "CopyRow", "UseCopy")
  /\ row[p] > count
  /\ UNCHANGED <<shared, private, ops, history>>

\* The caller reads skbMarkingNumOfEntries rows of the copy, frees it and goes on.
\* Only EthLink_SetEgressQoSMap, of the other build, looks whether there is a copy.
UseCopy(p) ==
  /\ Goto(p, "UseCopy", IF Hal = "json" /\ want[p] > Len(cfg[p]) THEN "bad" ELSE "idle")
  /\ cfg' = [cfg EXCEPT ![p] = <<>>]
  /\ UNCHANGED <<shared, op, num, old, row, want, handle, ops, history>>

-----------------------------------------------------------------------------
(* EthLink_DeleteMarking *)

TestCount(p) ==
  /\ Goto(p, "TestCount", IF count = 0 THEN "idle" ELSE "TestOld")
  /\ UNCHANGED <<shared, private, ops, history>>

ZeroCount(p) ==
  /\ Goto(p, "ZeroCount", "idle")
  /\ count' = 0
  /\ Settle(p, 0)
  /\ UNCHANGED <<table, heap, private, ops>>

-----------------------------------------------------------------------------
(* Marking_GetEntryCount, Marking_GetEntry and Marking_GetParam...Value: the bus
   thread is handed a handle by one call and passes it to the next. *)

\* An index beyond the count answers with no handle.
GetEntry ==
  /\ Goto(Bus, "GetEntry", "GetParam")
  /\ \E i \in 1..MaxRows :
       handle' = IF i <= count THEN [block |-> table, row |-> i]
                               ELSE [block |-> NULL, row |-> 1]
  /\ UNCHANGED <<shared, op, num, old, row, want, cfg, ops, history>>

NoHandle == handle.block = NULL /\ handle.row = 1

\* A NULL handle answers FALSE; row i > 1 of a NULL table is no NULL handle.
GetParam ==
  /\ Goto(Bus, "GetParam",
          IF NoHandle \/ Valid(handle.block, handle.row) THEN "idle" ELSE "bad")
  /\ UNCHANGED <<shared, private, ops, history>>

-----------------------------------------------------------------------------

Step(p) ==
  \/ ReadMarkings(p) \/ ReadNothing(p) \/ TestOld(p) \/ Free(p) \/ Clear(p) \/ SetCount(p)
  \/ Alloc(p) \/ Store(p) \/ Zero(p) \/ ZeroNothing(p)
  \/ FillRow(p) \/ FillNothing(p) \/ FillEnds(p)
  \/ CopyNothing(p) \/ CopyCount(p) \/ CopyAlloc(p) \/ CopyFails(p) \/ CopyRow(p)
  \/ CopyEnds(p) \/ UseCopy(p)
  \/ TestCount(p) \/ ZeroCount(p)

\* What follows a bad access is not looked at: sig_handler ends the process.
Next ==
  /\ \A p \in Procs : pc[p] # "bad"
  /\ \/ \E p \in Procs, o \in Changing \cup Copying \cup {"get"} : Start(p, o)
     \/ \E p \in Procs : Step(p)
     \/ GetEntry \/ GetParam

Spec == Init /\ [][Next]_vars

-----------------------------------------------------------------------------
(* Properties *)

\* The bus thread reads a later row of a table that could not be allocated: the count
\* stayed (ethernet_apis.c 1095-1101).
LateRow(p) == p = Bus /\ op[p] = "get" /\ count > 1 /\ table = NULL /\ "memory" \in Faults

\* A refresh of the HAL build goes on without the copy it failed to make, and
\* vlan_eth_hal_setMarkings looks for its rows (ethernet_apis.c 1009-1014,
\* vlan_eth_hal.c 269).
NoCopy(p) == Hal = "json" /\ op[p] = "refresh" /\ "memory" \in Faults

\* Whoever touches memory it has not does so beside a change of another thread, or after
\* changes that overlapped and before the next one that is completed by itself; or it is
\* one of the two cases above.  In whatever order threads load, delete, copy and read and
\* run out of memory, there is no other way, and one quiet load or delete mends what a
\* race left (ethernet_apis.c 645-664, 768-840, 1089-1119).
NoBadAccess ==
  \A p \in Procs : pc[p] = "bad" =>
    num[p] \in disturbed \/ mixed \/ LateRow(p) \/ NoCopy(p)

\* A block is lost only by a load that a change of another thread overlapped: between
\* operations every other block in use is the table (ethernet_apis.c 1089-1103).
NoLeak ==
  (\A p \in Procs : pc[p] = "idle") =>
    \A b \in Blocks : heap[b].live => b = table \/ heap[b].by \in disturbed

\* A copy that was made, with no change beside it, is the whole table of the last load
\* that was completed, each row of it filled, or empty when the table was deleted or never
\* loaded; after a race, again from the next change that is completed by itself
\* (ethernet_apis.c 802-838).
CopyIsCurrent ==
  \A p \in Procs :
    pc[p] = "UseCopy" /\ num[p] \notin disturbed /\ ~mixed /\ want[p] = Len(cfg[p]) =>
      /\ Len(cfg[p]) = count
      /\ \A i \in DOMAIN cfg[p] : cfg[p][i] = current /\ current # 0

\* "return: The handle to identify the entry" (ethernet_dml.c 947): a handle the bus
\* thread was given identifies a row until it is used.
HandleIdentifies ==
  pc[Bus] = "GetParam" => NoHandle \/ Valid(handle.block, handle.row)
=============================================================================
