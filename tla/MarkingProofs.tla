----------------------------- MODULE MarkingProofs -----------------------------
(* Theorems about MarkingTable for any threads, blocks, rows and operations, in every
   interleaving.

   An operation that no change of another thread overlapped is Quiet.  What a quiet change
   knows of the table (Writer) nobody takes from it, and what it leaves is whole (Rest); a
   quiet reader finds that, unless changes overlapped and none has been completed by itself
   since (mixed).  What holds whatever raced is that nobody clears or replaces the pointer
   to a table of a quiet load before it is freed (Pointed), so such a table is not lost
   (Kept). *)
EXTENDS MarkingTable, TLAPS

Ops == Changing \cup Copying \cup {"get"}

Types ==
  /\ count \in Nat /\ current \in Nat /\ ops \in Nat /\ mixed \in BOOLEAN
  /\ disturbed \subseteq Nat
  /\ table \in Blocks \cup {NULL}
  /\ heap \in [Blocks -> [live : BOOLEAN, rows : Seq(Nat), by : Nat]]
  /\ pc \in [Procs -> Labels] /\ op \in [Procs -> Ops]
  /\ num \in [Procs -> Nat] /\ row \in [Procs -> Nat] /\ want \in [Procs -> Nat]
  /\ old \in [Procs -> Blocks \cup {NULL}]
  /\ cfg \in [Procs -> Seq(Nat)]

Changer(p) == Using(p) /\ op[p] \in Changing
Quiet(p) == num[p] \notin disturbed

LoadLabels == {"ReadMarkings", "SetCount", "Alloc", "Store", "Zero", "Fill"}
CopyLabels == {"CopyCount", "CopyAlloc", "CopyRow", "UseCopy"}

\* Which operation a label belongs to.
Role(p) ==
  /\ pc[p] \in LoadLabels => op[p] = "load"
  /\ pc[p] \in {"TestCount", "ZeroCount"} => op[p] = "delete"
  /\ pc[p] \in {"TestOld", "Free", "Clear"} => op[p] \in Changing
  /\ pc[p] \in CopyLabels => op[p] \in Copying
  /\ pc[p] \in {"GetEntry", "GetParam"} => op[p] = "get" /\ p = Bus

\* Operations have numbers of their own.
Numbered ==
  /\ \A p \in Procs : num[p] <= ops
  /\ \A p, q \in Procs : p # q /\ pc[p] # "idle" /\ pc[q] # "idle" => num[p] # num[q]
  /\ \A m \in disturbed : m <= ops
  /\ \A p \in Procs : pc[p] = "ReadMarkings" => Quiet(p)

\* A load that has not read its rows yet.
Begun(p) == pc[p] = "ReadMarkings" => num[p] # 0 /\ row[p] = 1

\* Whoever uses the table beside a change is disturbed; a change that is disturbed has
\* overlapped with another.
Apart ==
  /\ \A p, q \in Procs : p # q /\ Changer(p) /\ Using(q) => ~Quiet(q)
  /\ \A p \in Procs : Changer(p) /\ ~Quiet(p) => mixed

\* A table that nobody changes: whole and of the last load, or absent.
Rest ==
  IF table # NULL
  THEN /\ heap[table].live /\ Len(heap[table].rows) = count /\ count > 0 /\ current # 0
       /\ \A i \in 1..count : heap[table].rows[i] = current
  ELSE count > 0 => "memory" \in Faults

\* A table that no other change was beside while it was made is freed before anyone
\* clears or replaces the pointer to it.
Before(q) ==
  \/ pc[q] \in {"TestCount", "TestOld"}
  \/ pc[q] = "Free" /\ old[q] = table
  \/ pc[q] \in {"Zero", "Fill"} /\ num[q] = heap[table].by

Pointed ==
  table # NULL /\ heap[table].live /\ heap[table].by \notin disturbed =>
    \A q \in Procs : Changer(q) => Before(q)

Kept ==
  \A b \in Blocks : heap[b].live /\ heap[b].by \notin disturbed =>
    \/ b = table
    \/ \E q \in Procs : pc[q] = "Store" /\ Quiet(q) /\ old[q] = b

\* The rows p has from WanManager.
Loaded(p) == Len(cfg[p]) > 0 /\ num[p] # 0 /\ \A i \in 1..Len(cfg[p]) : cfg[p][i] = num[p]

Sized(b) == b # NULL /\ heap[b].live /\ Len(heap[b].rows) = count

\* A change that no other was beside.
Writer(p) ==
  /\ pc[p] \in {"TestCount", "TestOld", "Free"} /\ ~mixed => Rest
  /\ pc[p] = "Free" => table # NULL /\ old[p] = table
  /\ pc[p] \in {"SetCount", "Alloc", "Store", "ZeroCount"} => table = NULL
  /\ op[p] = "load" => Loaded(p)
  /\ op[p] = "load" /\ pc[p] # "Fill" => row[p] = 1
  /\ pc[p] \in {"Alloc", "Store", "Zero", "Fill"} => count = Len(cfg[p])
  /\ pc[p] = "Store" => IF old[p] = NULL THEN "memory" \in Faults
                        ELSE Sized(old[p]) /\ heap[old[p]].by = num[p]
  /\ pc[p] \in {"Zero", "Fill"} => old[p] = table /\ Sized(table)
  /\ pc[p] = "Fill" =>
       /\ row[p] \in 1..(count + 1)
       /\ \A i \in 1..count : i < row[p] => heap[table].rows[i] = num[p]

\* A copy p made: whole, empty because there was nothing to copy, or not made at all.
Copied(p) ==
  \/ want[p] = Len(cfg[p]) /\ Len(cfg[p]) = count
     /\ \A i \in 1..count : cfg[p][i] = current /\ current # 0
  \/ want[p] > 0 /\ Len(cfg[p]) = 0 /\ op[p] = "refresh" /\ "memory" \in Faults

\* A copy or a read that no change was beside, of a table no race has left.
Reader(p) ==
  /\ pc[p] \in {"CopyCount", "CopyAlloc"} => row[p] = 1 /\ cfg[p] = <<>>
  /\ pc[p] = "CopyCount" => want[p] = 0
  /\ pc[p] \in {"CopyAlloc", "CopyRow"} => want[p] = count /\ count > 0
  /\ pc[p] = "CopyRow" =>
       /\ Len(cfg[p]) = count /\ row[p] \in 1..(count + 1)
       /\ row[p] > 1 => table # NULL
       /\ \A i \in 1..count : i < row[p] => cfg[p][i] = current
  /\ pc[p] = "UseCopy" => Copied(p)
  /\ pc[p] = "GetParam" =>
       NoHandle \/ (handle.block = table /\ handle.row \in 1..count)

IInv ==
  /\ Types /\ Numbered /\ Apart /\ Pointed /\ Kept
  /\ \A p \in Procs : pc[p] # "bad" /\ Role(p) /\ Begun(p)
  /\ (\A p \in Procs : ~Changer(p)) /\ ~mixed => Rest
  /\ \A p \in Procs : Changer(p) /\ Quiet(p) => Writer(p)
  /\ \A p \in Procs : Using(p) /\ ~Changer(p) /\ Quiet(p) /\ ~mixed => Reader(p)

-----------------------------------------------------------------------------

LEMMA BlankFacts ==
  ASSUME NEW n \in Nat
  PROVE  Blank(n) \in Seq(Nat) /\ Len(Blank(n)) = n
BY DEF Blank

LEMMA FilledFacts ==
  ASSUME NEW n \in Nat, NEW x \in Nat
  PROVE  /\ [i \in 1..n |-> x] \in Seq(Nat) /\ Len([i \in 1..n |-> x]) = n
         /\ \A j \in 1..n : [i \in 1..n |-> x][j] = x
OBVIOUS

LEMMA UpdateFacts ==
  ASSUME NEW s \in Seq(Nat), NEW k \in 1..Len(s), NEW x \in Nat
  PROVE  /\ [s EXCEPT ![k] = x] \in Seq(Nat) /\ Len([s EXCEPT ![k] = x]) = Len(s)
         /\ \A j \in 1..Len(s) : [s EXCEPT ![k] = x][j] = IF j = k THEN x ELSE s[j]
OBVIOUS

LEMMA ZeroedFacts ==
  ASSUME NEW s \in Seq(Nat), NEW n \in Nat
  PROVE  /\ [i \in DOMAIN s |-> IF i <= n THEN 0 ELSE s[i]] \in Seq(Nat)
         /\ Len([i \in DOMAIN s |-> IF i <= n THEN 0 ELSE s[i]]) = Len(s)
OBVIOUS

LEMMA SeqDomain ==
  ASSUME NEW s \in Seq(Nat) PROVE Len(s) \in Nat /\ DOMAIN s = 1..Len(s)
OBVIOUS

LEMMA InitIInv == Init => IInv
<1> SUFFICES ASSUME Init PROVE IInv
  OBVIOUS
<1> USE MarkingAssumption DEF Init
<1>1. <<>> \in Seq(Nat)
  OBVIOUS
<1>2. Types
  BY <1>1 DEF Types, Labels, Ops
<1>3. \A p \in Procs : ~Using(p) /\ Role(p) /\ Begun(p) /\ pc[p] # "bad"
  BY DEF Using, Role, LoadLabels, CopyLabels, Begun
<1>4. Numbered
  BY DEF Numbered, Quiet
<1>5. Apart /\ Pointed /\ Kept
  BY <1>3 DEF Apart, Changer, Pointed, Kept
<1> QED
  BY <1>2, <1>3, <1>4, <1>5 DEF IInv, Changer, Rest

-----------------------------------------------------------------------------

\* The step is another thread's.
Same(q) ==
  /\ pc'[q] = pc[q] /\ op'[q] = op[q] /\ num'[q] = num[q] /\ old'[q] = old[q]
  /\ row'[q] = row[q] /\ want'[q] = want[q] /\ cfg'[q] = cfg[q]

LEMMA SameState ==
  ASSUME NEW q, Same(q)
  PROVE  /\ Using(q)' = Using(q) /\ Changer(q)' = Changer(q)
         /\ (UNCHANGED disturbed => Quiet(q)' = Quiet(q))
         /\ Role(q) => Role(q)'
BY DEF Same, Using, Changer, Quiet, Role, LoadLabels, CopyLabels

LEMMA SameWriter ==
  ASSUME NEW q, Same(q), Writer(q), UNCHANGED <<count, table, heap, current>>, mixed => mixed'
  PROVE  Writer(q)'
BY DEF Same, Writer, Rest, Loaded, Sized

LEMMA SameReader ==
  ASSUME NEW q, Same(q), Reader(q), UNCHANGED <<count, table, heap, current>>,
         pc[q] = "GetParam" => UNCHANGED handle
  PROVE  Reader(q)'
BY DEF Same, Reader, Copied, NoHandle

\* A thread that changes the table goes on, or ends.
LEMMA WriterStep ==
  ASSUME IInv, NEW p \in Procs, Changer(p), Types', UNCHANGED <<ops, disturbed>>,
         op'[p] = op[p], num'[p] = num[p], \A q \in Procs \ {p} : Same(q),
         pc'[p] \notin {"bad", "ReadMarkings"}, Role(p)', Pointed', Kept',
         \/ UNCHANGED <<current, mixed>>
         \/ pc'[p] = "idle" /\ (Quiet(p) \/ UNCHANGED mixed),
         Quiet(p) => IF pc'[p] = "idle" THEN ~mixed' => Rest' ELSE Writer(p)'
  PROVE  IInv'
<1>1. \A q \in Procs \ {p} : /\ Using(q)' = Using(q) /\ Changer(q)' = Changer(q)
                              /\ Quiet(q)' = Quiet(q) /\ Role(q)'
  BY SameState DEF IInv
<1>2. Quiet(p)' = Quiet(p)
  BY DEF Quiet
<1>3. \A q \in Procs \ {p} : Using(q) => ~Quiet(q)
  BY DEF IInv, Apart
<1>4. Quiet(p) => \A q \in Procs \ {p} : ~Changer(q)
  BY DEF IInv, Apart, Changer
<1>5. ~Quiet(p) => mixed
  BY DEF IInv, Apart
<1>6. pc[p] # "idle" /\ pc[p] # "ReadMarkings"
  BY DEF Changer, Using
<1>7. Numbered'
  BY <1>1, <1>2, <1>6 DEF IInv, Numbered, Same
<1>8. Apart'
  <2>1. ASSUME NEW r \in Procs, NEW q \in Procs, r # q, Changer(r)', Using(q)'
        PROVE  ~Quiet(q)'
    <3>1. CASE q # p
      BY <1>1, <1>3, <2>1, <3>1
    <3>2. CASE q = p
      BY <1>1, <1>2, <1>4, <2>1, <3>2
    <3> QED
      BY <3>1, <3>2
  <2>2. ASSUME NEW r \in Procs, Changer(r)', ~Quiet(r)' PROVE mixed'
    <3>1. CASE r = p
      BY <1>2, <1>5, <2>2, <3>1 DEF Changer, Using, Quiet
    <3>2. CASE r # p
      <4>1. Changer(r) /\ ~Quiet(r)
        BY <1>1, <2>2, <3>2
      <4>2. mixed /\ ~Quiet(p)
        BY <1>4, <3>2, <4>1 DEF IInv, Apart
      <4> QED
        BY <4>2
    <3> QED
      BY <3>1, <3>2
  <2> QED
    BY <2>1, <2>2 DEF Apart
<1>9. (\A q \in Procs : ~Changer(q)') /\ ~mixed' => Rest'
  <2> SUFFICES ASSUME \A q \in Procs : ~Changer(q)', ~mixed' PROVE Rest'
    OBVIOUS
  <2>1. pc'[p] = "idle"
    BY DEF Changer, Using
  <2>2. Quiet(p)
    BY <1>5
  <2> QED
    BY <2>1, <2>2
<1>10. \A q \in Procs : pc'[q] # "bad" /\ Role(q)' /\ Begun(q)'
  BY <1>1 DEF IInv, Same, Begun
<1>11. ASSUME NEW q \in Procs, Changer(q)', Quiet(q)' PROVE Writer(q)'
  <2>1. q = p
    BY <1>1, <1>3, <1>11 DEF Changer
  <2> QED
    BY <1>2, <1>11, <2>1 DEF Changer, Using
<1>12. ASSUME NEW q \in Procs, Using(q)', ~Changer(q)', Quiet(q)', ~mixed' PROVE FALSE
  <2>1. q # p
    BY <1>12 DEF Changer
  <2> QED
    BY <1>1, <1>3, <1>12, <2>1
<1> QED
  BY <1>7, <1>8, <1>9, <1>10, <1>11, <1>12 DEF IInv

\* A thread that reads the table goes on, or ends.
LEMMA ReaderStep ==
  ASSUME IInv, NEW p \in Procs, Using(p), ~Changer(p), Types',
         UNCHANGED <<shared, ops, history>>,
         op'[p] = op[p], num'[p] = num[p], old'[p] = old[p], \A q \in Procs \ {p} : Same(q),
         p # Bus => UNCHANGED handle,
         pc'[p] \notin {"bad", "ReadMarkings"}, Role(p)',
         Quiet(p) /\ ~mixed /\ pc'[p] # "idle" => Reader(p)'
  PROVE  IInv'
<1> USE DEF shared, history
<1>1. \A q \in Procs \ {p} : /\ Using(q)' = Using(q) /\ Changer(q)' = Changer(q)
                              /\ Quiet(q)' = Quiet(q) /\ Role(q)'
  BY SameState DEF IInv
<1>2. Quiet(p)' = Quiet(p) /\ ~Changer(p)' /\ op[p] \notin Changing /\ pc[p] # "Store"
  BY DEF Quiet, Changer, IInv, Role, LoadLabels, Changing
<1>3. pc[p] # "idle" /\ pc[p] # "ReadMarkings"
  BY DEF Using
<1>4. Numbered'
  BY <1>1, <1>2, <1>3 DEF IInv, Numbered, Same
<1>5. Apart'
  <2>1. \A q \in Procs : Using(q)' => Using(q)
    BY <1>1
  <2>2. \A q \in Procs : (Changer(q)' <=> Changer(q)) /\ (Quiet(q)' <=> Quiet(q))
    BY <1>1, <1>2
  <2> QED
    BY <2>1, <2>2 DEF IInv, Apart
<1>6. Pointed'
  <2>1. \A q \in Procs \ {p} : Before(q) => Before(q)'
    BY DEF Before, Same
  <2> QED
    BY <1>1, <1>2, <2>1 DEF IInv, Pointed
<1>7. Kept'
  <2>1. ASSUME NEW b \in Blocks, b # table, heap[b].live, heap[b].by \notin disturbed
        PROVE  \E q \in Procs : pc'[q] = "Store" /\ Quiet(q)' /\ old'[q] = b
    <3>1. PICK q \in Procs : pc[q] = "Store" /\ Quiet(q) /\ old[q] = b
      BY <2>1 DEF IInv, Kept
    <3>2. q # p
      BY <1>2, <3>1
    <3> QED
      BY <1>1, <3>1, <3>2 DEF Same
  <2> QED
    BY <2>1 DEF Kept
<1>8. (\A q \in Procs : ~Changer(q)') /\ ~mixed' => Rest'
  BY <1>1, <1>2 DEF IInv, Rest
<1>9. \A q \in Procs : pc'[q] # "bad" /\ Role(q)' /\ Begun(q)'
  BY <1>1 DEF IInv, Same, Begun
<1>10. ASSUME NEW q \in Procs, Changer(q)', Quiet(q)' PROVE Writer(q)'
  <2>1. q # p /\ Changer(q) /\ Quiet(q)
    BY <1>1, <1>2, <1>10
  <2>2. Writer(q)
    BY <2>1 DEF IInv
  <2> QED
    BY <2>1, <2>2, SameWriter
<1>11. ASSUME NEW q \in Procs, Using(q)', ~Changer(q)', Quiet(q)', ~mixed' PROVE Reader(q)'
  <2>1. CASE q = p
    BY <1>2, <1>11, <2>1 DEF Using
  <2>2. CASE q # p
    <3>1. Reader(q) /\ Same(q) /\ (pc[q] = "GetParam" => q = Bus)
      BY <1>1, <1>11, <2>2 DEF IInv, Role
    <3> QED
      BY <2>2, <3>1, SameReader
  <2> QED
    BY <2>1, <2>2
<1> QED
  BY <1>4, <1>5, <1>6, <1>7, <1>8, <1>9, <1>10, <1>11 DEF IInv

\* A thread comes or goes without using the table.
LEMMA IdleStep ==
  ASSUME IInv, NEW p \in Procs, ~Using(p), Types', UNCHANGED <<shared, handle, history>>,
         pc'[p] \in {"idle", "ReadMarkings"}, ops <= ops', num'[p] <= ops',
         old'[p] = old[p], \A q \in Procs \ {p} : Same(q),
         pc'[p] = "ReadMarkings" =>
           op'[p] = "load" /\ num'[p] = ops' /\ ops < ops' /\ row'[p] = 1
  PROVE  IInv'
<1> USE DEF shared, history
<1>1. \A q \in Procs \ {p} : /\ Using(q)' = Using(q) /\ Changer(q)' = Changer(q)
                              /\ Quiet(q)' = Quiet(q) /\ Role(q)'
  BY SameState DEF IInv
<1>2. ~Using(p)' /\ ~Changer(p)' /\ Role(p)' /\ ~Changer(p)
  BY DEF Using, Changer, Role, LoadLabels, CopyLabels
<1>3. Numbered'
  <2>1. ops \in Nat /\ ops' \in Nat /\ disturbed \subseteq Nat /\ num \in [Procs -> Nat]
    BY DEF IInv, Types
  <2>2. \A q \in Procs : num'[q] <= ops'
    <3> SUFFICES ASSUME NEW q \in Procs PROVE num'[q] <= ops'
      OBVIOUS
    <3>1. num[q] \in Nat /\ num[q] <= ops /\ (q # p => num'[q] = num[q])
      BY <2>1 DEF IInv, Numbered, Same
    <3> QED
      BY <2>1, <3>1
  <2>3. pc'[p] = "ReadMarkings" => Quiet(p)'
    BY <2>1 DEF IInv, Numbered, Quiet
  <2>4. \A m \in disturbed' : m <= ops'
    BY <2>1 DEF IInv, Numbered
  <2>5. ASSUME NEW q \in Procs \ {p}, pc'[p] # "idle" PROVE num'[p] # num'[q]
    BY <2>1, <2>5 DEF IInv, Numbered, Same
  <2> QED
    BY <1>1, <2>2, <2>3, <2>4, <2>5 DEF IInv, Numbered, Same
<1>4. Apart'
  BY <1>1, <1>2 DEF IInv, Apart
<1>5. Pointed'
  <2>1. \A q \in Procs \ {p} : Before(q) => Before(q)'
    BY DEF Before, Same
  <2> QED
    BY <1>1, <1>2, <2>1 DEF IInv, Pointed
<1>6. Kept'
  <2>1. ASSUME NEW b \in Blocks, b # table, heap[b].live, heap[b].by \notin disturbed
        PROVE  \E q \in Procs : pc'[q] = "Store" /\ Quiet(q)' /\ old'[q] = b
    <3>1. PICK q \in Procs : pc[q] = "Store" /\ Quiet(q) /\ old[q] = b
      BY <2>1 DEF IInv, Kept
    <3>2. q # p
      BY <3>1 DEF Using
    <3> QED
      BY <1>1, <3>1, <3>2 DEF Same
  <2> QED
    BY <2>1 DEF Kept
<1>7. (\A q \in Procs : ~Changer(q)') /\ ~mixed' => Rest'
  BY <1>1, <1>2 DEF IInv, Rest
<1>8. \A q \in Procs : pc'[q] # "bad" /\ Role(q)' /\ Begun(q)'
  <2>1. ops \in Nat /\ ops' \in Nat
    BY DEF IInv, Types
  <2>2. Begun(p)'
    BY <2>1 DEF Begun
  <2>3. \A q \in Procs \ {p} : pc'[q] # "bad" /\ Begun(q)'
    BY DEF IInv, Same, Begun
  <2> QED
    BY <1>1, <1>2, <2>2, <2>3
<1>9. ASSUME NEW q \in Procs, Changer(q)', Quiet(q)' PROVE Writer(q)'
  <2>1. q # p /\ Changer(q) /\ Quiet(q)
    BY <1>1, <1>2, <1>9
  <2>2. Writer(q)
    BY <2>1 DEF IInv
  <2> QED
    BY <2>1, <2>2, SameWriter
<1>10. ASSUME NEW q \in Procs, Using(q)', ~Changer(q)', Quiet(q)', ~mixed' PROVE Reader(q)'
  <2>1. q # p /\ Reader(q) /\ Same(q)
    BY <1>1, <1>2, <1>10 DEF IInv
  <2> QED
    BY <2>1, SameReader
<1> QED
  BY <1>3, <1>4, <1>5, <1>6, <1>7, <1>8, <1>9, <1>10 DEF IInv

\* A thread begins to use the table.
LEMMA EnterStep ==
  ASSUME IInv, NEW p \in Procs, ~Using(p), Types', UNCHANGED <<shared, handle>>,
         ops <= ops', num'[p] <= ops', num'[p] \notin disturbed, old'[p] = old[p],
         \A q \in Procs \ {p} : Same(q) /\ (pc[q] # "idle" => num[q] # num'[p]),
         Enter(p, num'[p], op'[p] \in Changing), Role(p)',
         pc'[p] \in {"TestOld", "TestCount", "CopyCount", "GetEntry"},
         op'[p] = "load" => Loaded(p)' /\ row'[p] = 1,
         pc'[p] = "CopyCount" => row'[p] = 1 /\ want'[p] = 0 /\ cfg'[p] = <<>>
  PROVE  IInv'
<1> USE DEF shared
<1> DEFINE others == {q \in Procs \ {p} : Using(q)}
           clash  == \E q \in others : op[q] \in Changing
<1>1. \A q \in Procs \ {p} : /\ (Using(q)' <=> Using(q)) /\ (Changer(q)' <=> Changer(q))
                              /\ Role(q)'
  BY SameState DEF IInv
<1>2. /\ disturbed' = disturbed \cup (IF clash THEN {num'[p]} ELSE {})
                                \cup (IF op'[p] \in Changing THEN {num[q] : q \in others} ELSE {})
      /\ mixed' = (mixed \/ (clash /\ op'[p] \in Changing))
      /\ current' = current
  BY DEF Enter
<1>3. Using(p)' /\ pc'[p] \notin {"idle", "bad", "ReadMarkings", "Store", "Free"}
  BY DEF Using
<1>4. disturbed \subseteq disturbed' /\ (mixed => mixed')
  BY <1>2
<1>5. \A q \in Procs \ {p} : Quiet(q)' => Quiet(q)
  BY <1>4 DEF Quiet, Same
<1>6. (Quiet(p)' <=> ~clash) /\ \A q \in others : num[q] # num'[p]
  BY <1>2 DEF Quiet, Using
<1>7. clash <=> \E q \in Procs \ {p} : Changer(q)
  BY DEF Changer
<1> HIDE DEF clash
<1>8. Numbered'
  <2>1. ops \in Nat /\ ops' \in Nat /\ disturbed \subseteq Nat /\ num \in [Procs -> Nat]
        /\ num' \in [Procs -> Nat]
    BY DEF IInv, Types
  <2>2. \A q \in Procs : num'[q] <= ops'
    BY <2>1 DEF IInv, Numbered, Same
  <2>3. \A m \in disturbed' : m <= ops'
    <3> SUFFICES ASSUME NEW m \in disturbed' PROVE m <= ops'
      OBVIOUS
    <3>1. m \in disturbed \/ m = num'[p] \/ \E q \in others : m = num[q]
      BY <1>2
    <3>2. \A q \in others : num[q] \in Nat /\ num[q] <= ops
      BY <2>1 DEF IInv, Numbered
    <3>3. \A k \in disturbed : k \in Nat /\ k <= ops
      BY <2>1 DEF IInv, Numbered
    <3>4. \A k \in Nat : k <= ops => k <= ops'
      BY <2>1
    <3>5. CASE m \in disturbed
      BY <3>3, <3>4, <3>5
    <3>6. CASE m = num'[p]
      BY <3>6
    <3>7. CASE \E q \in others : m = num[q]
      BY <3>2, <3>4, <3>7
    <3> QED
      BY <3>1, <3>5, <3>6, <3>7
  <2>4. ASSUME NEW q \in Procs, pc'[q] = "ReadMarkings" PROVE Quiet(q)'
    <3>1. q # p /\ pc[q] = "ReadMarkings" /\ Quiet(q) /\ num'[q] = num[q]
      BY <1>3, <2>4 DEF IInv, Numbered, Same
    <3>2. num[q] # num'[p]
      BY <3>1
    <3>3. \A r \in others : num[r] # num[q]
      <4> SUFFICES ASSUME NEW r \in others PROVE num[r] # num[q]
        OBVIOUS
      <4>1. r \in Procs /\ r # q /\ pc[r] # "idle" /\ pc[q] # "idle"
        BY <3>1 DEF Using
      <4> QED
        BY <4>1 DEF IInv, Numbered
    <3> QED
      BY <1>2, <3>1, <3>2, <3>3 DEF Quiet
  <2>5. \A q, r \in Procs : q # r /\ pc'[q] # "idle" /\ pc'[r] # "idle" => num'[q] # num'[r]
    BY DEF IInv, Numbered, Same
  <2> QED
    BY <2>2, <2>3, <2>4, <2>5 DEF Numbered
<1>9. Apart'
  <2>1. ASSUME NEW r \in Procs, NEW q \in Procs, r # q, Changer(r)', Using(q)'
        PROVE  ~Quiet(q)'
    <3>1. CASE r = p
      <4>1. q \in others /\ op'[p] \in Changing /\ num'[q] = num[q]
        BY <1>1, <2>1, <3>1 DEF Changer, Same
      <4> QED
        BY <1>2, <4>1 DEF Quiet
    <3>2. CASE q = p
      <4>1. clash
        BY <1>1, <1>7, <2>1, <3>2
      <4> QED
        BY <1>6, <3>2, <4>1 DEF Quiet
    <3>3. CASE r # p /\ q # p
      <4>1. ~Quiet(q)
        BY <1>1, <2>1, <3>3 DEF IInv, Apart
      <4> QED
        BY <1>5, <3>3, <4>1
    <3> QED
      BY <3>1, <3>2, <3>3
  <2>2. ASSUME NEW r \in Procs, Changer(r)', ~Quiet(r)' PROVE mixed'
    <3>1. CASE r = p
      BY <1>2, <1>6, <2>2, <3>1 DEF Changer, Quiet
    <3>2. CASE r # p
      <4>1. Changer(r) /\ num'[r] = num[r] /\ r \in others
        BY <1>1, <2>2, <3>2 DEF Same, Changer
      <4>2. CASE ~Quiet(r)
        BY <1>4, <4>1, <4>2 DEF IInv, Apart
      <4>3. CASE Quiet(r)
        <5>1. op'[p] \in Changing
          BY <1>2, <1>6, <2>2, <4>1, <4>3 DEF Quiet
        <5> QED
          BY <1>2, <1>7, <3>2, <4>1, <5>1
      <4> QED
        BY <4>2, <4>3
    <3> QED
      BY <3>1, <3>2
  <2> QED
    BY <2>1, <2>2 DEF Apart
<1>10. Pointed'
  <2>1. \A q \in Procs \ {p} : Before(q) => Before(q)'
    BY DEF Before, Same
  <2>2. Changer(p)' => Before(p)'
    BY DEF Before, Changer, Role, CopyLabels, Copying, Changing
  <2> QED
    BY <1>1, <1>4, <2>1, <2>2 DEF IInv, Pointed
<1>11. Kept'
  <2>1. ASSUME NEW b \in Blocks, b # table, heap[b].live, heap[b].by \notin disturbed'
        PROVE  \E q \in Procs : pc'[q] = "Store" /\ Quiet(q)' /\ old'[q] = b
    <3>1. PICK q \in Procs : pc[q] = "Store" /\ Quiet(q) /\ old[q] = b
      BY <1>4, <2>1 DEF IInv, Kept
    <3>2. q # p /\ Changer(q)
      BY <3>1 DEF IInv, Role, LoadLabels, Using, Changer, Changing
    <3>3. heap[b].by = num[q]
      BY <2>1, <3>1, <3>2, MarkingAssumption DEF IInv, Writer
    <3> QED
      BY <2>1, <3>1, <3>2, <3>3 DEF Same, Quiet
  <2> QED
    BY <2>1 DEF Kept
<1>12. (\A q \in Procs : ~Changer(q)') /\ ~mixed' => Rest'
  <2> SUFFICES ASSUME \A q \in Procs : ~Changer(q)', ~mixed' PROVE Rest'
    OBVIOUS
  <2>1. \A q \in Procs : ~Changer(q)
    BY <1>1 DEF Changer
  <2>2. Rest
    BY <1>4, <2>1 DEF IInv
  <2> QED
    BY <1>2, <2>2 DEF Rest
<1>13. \A q \in Procs : pc'[q] # "bad" /\ Role(q)' /\ Begun(q)'
  BY <1>1 DEF IInv, Same, Begun
<1>14. ASSUME NEW q \in Procs, Changer(q)', Quiet(q)' PROVE Writer(q)'
  <2>1. CASE q # p
    <3>1. Writer(q)
      BY <1>1, <1>5, <1>14, <2>1 DEF IInv
    <3> QED
      BY <1>2, <1>4, <2>1, <3>1, SameWriter
  <2>2. CASE q = p
    <3>1. ~clash /\ \A r \in Procs : ~Changer(r)
      BY <1>6, <1>7, <1>14, <2>2 DEF Changer, Quiet
    <3>2. ~mixed' => Rest'
      BY <1>2, <3>1 DEF IInv, Rest
    <3>3. Writer(p)'
      <4>1. pc'[p] \in {"TestOld", "TestCount"}
        BY <1>14, <2>2 DEF Changer, Role, CopyLabels, Copying, Changing
      <4> QED
        BY <3>2, <4>1 DEF Writer
    <3> QED
      BY <2>2, <3>3
  <2> QED
    BY <2>1, <2>2
<1>15. ASSUME NEW q \in Procs, Using(q)', ~Changer(q)', Quiet(q)', ~mixed' PROVE Reader(q)'
  <2>1. CASE q # p
    <3>1. Reader(q) /\ Same(q)
      BY <1>1, <1>4, <1>5, <1>15, <2>1 DEF IInv
    <3> QED
      BY <1>2, <3>1, SameReader
  <2>2. CASE q = p
    <3>1. Reader(p)'
      <4>1. pc'[p] \in {"CopyCount", "GetEntry"}
        BY <1>15, <2>2 DEF Changer, Using, Role, Changing
      <4> QED
        BY <4>1 DEF Reader
    <3> QED
      BY <2>2, <3>1
  <2> QED
    BY <2>1, <2>2
<1> QED
  BY <1>8, <1>9, <1>10, <1>11, <1>12, <1>13, <1>14, <1>15 DEF IInv

\* A change that leaves pointer and blocks as they are.
LEMMA SameTable ==
  ASSUME IInv, NEW p \in Procs, Changer(p), UNCHANGED <<table, disturbed>>,
         num'[p] = num[p], \A q \in Procs \ {p} : Same(q), pc[p] # "Store",
         \A b \in Blocks : heap'[b].live => heap[b].live /\ heap'[b].by = heap[b].by,
         table # NULL /\ heap'[table].live /\ Before(p) => pc'[p] = "idle" \/ Before(p)'
  PROVE  Pointed' /\ Kept'
<1>1. \A q \in Procs \ {p} : (Changer(q)' <=> Changer(q)) /\ (Quiet(q)' <=> Quiet(q))
  BY SameState
<1>2. Pointed'
  <2> SUFFICES ASSUME table # NULL, heap'[table].live, heap'[table].by \notin disturbed,
                      NEW q \in Procs, Changer(q)'
               PROVE  Before(q)'
    BY DEF Pointed
  <2>1. table \in Blocks
    BY DEF IInv, Types
  <2>2. heap[table].live /\ heap'[table].by = heap[table].by
    BY <2>1
  <2>3. CASE q = p
    BY <2>2, <2>3 DEF IInv, Pointed, Changer, Using
  <2>4. CASE q # p
    <3>1. Before(q)
      BY <1>1, <2>2, <2>4 DEF IInv, Pointed
    <3> QED
      BY <2>2, <2>4, <3>1 DEF Before, Same
  <2> QED
    BY <2>3, <2>4
<1>3. Kept'
  <2> SUFFICES ASSUME NEW b \in Blocks, b # table, heap'[b].live, heap'[b].by \notin disturbed
               PROVE  \E q \in Procs : pc'[q] = "Store" /\ Quiet(q)' /\ old'[q] = b
    BY DEF Kept
  <2>1. PICK q \in Procs : pc[q] = "Store" /\ Quiet(q) /\ old[q] = b
    BY DEF IInv, Kept
  <2> QED
    BY <1>1, <2>1 DEF Same
<1> QED
  BY <1>2, <1>3

\* A table that a change found is freed by the time the change goes on.
LEMMA Freed ==
  ASSUME IInv, NEW p \in Procs, Changer(p), ~Before(p),
         table # NULL, heap[table].live, heap[table].by \notin disturbed
  PROVE  FALSE
BY DEF IInv, Pointed

\* Which labels a change has.
LEMMA ChangerLabels ==
  ASSUME IInv, NEW p \in Procs,
         pc[p] \in {"TestCount", "TestOld", "Free", "Clear", "SetCount", "Alloc", "Store",
                    "Zero", "Fill", "ZeroCount"}
  PROVE  /\ Changer(p) /\ (Quiet(p) => Writer(p)) /\ (~Quiet(p) => mixed)
         /\ op[p] \in {"load", "delete"}
         /\ pc[p] \in LoadLabels => op[p] = "load"
         /\ pc[p] \in {"TestCount", "ZeroCount"} => op[p] = "delete"
<1>1. Role(p)
  BY DEF IInv
<1>2. op[p] \in Changing
  BY <1>1 DEF Role, LoadLabels, Changing
<1>3. Changer(p)
  BY <1>2 DEF Changer, Using
<1> QED
  BY <1>1, <1>2, <1>3 DEF IInv, Apart, Role, Changing

LEMMA EnterTypes ==
  ASSUME Types, NEW p \in Procs, NEW n \in Nat, NEW changes, Enter(p, n, changes)
  PROVE  disturbed' \subseteq Nat /\ mixed' \in BOOLEAN /\ current' \in Nat
<1> DEFINE others == {q \in Procs \ {p} : Using(q)}
           clash  == \E q \in others : op[q] \in Changing
<1>1. /\ disturbed' = disturbed \cup (IF clash THEN {n} ELSE {})
                                \cup (IF changes THEN {num[q] : q \in others} ELSE {})
      /\ current' = current
  BY DEF Enter
<1>2. mixed' \in BOOLEAN
  BY Zenon DEF Enter
<1>3. \A q \in others : num[q] \in Nat
  BY DEF Types
<1>4. disturbed \subseteq Nat /\ current \in Nat
  BY DEF Types
<1> HIDE DEF clash
<1> QED
  BY <1>1, <1>2, <1>3, <1>4

-----------------------------------------------------------------------------

LEMMA StartStep ==
  ASSUME IInv, NEW p \in Procs, NEW o \in Ops, Start(p, o)
  PROVE  IInv'
<1>1. /\ pc[p] = "idle" /\ pc' = [pc EXCEPT ![p] = FirstLabel(o)]
      /\ op' = [op EXCEPT ![p] = o] /\ num' = [num EXCEPT ![p] = ops + 1]
      /\ row' = [row EXCEPT ![p] = 1] /\ want' = [want EXCEPT ![p] = 0]
      /\ cfg' = [cfg EXCEPT ![p] = <<>>] /\ ops' = ops + 1
      /\ UNCHANGED <<shared, old, handle>>
      /\ o = "get" => p = Bus
      /\ IF o = "load" THEN UNCHANGED history ELSE Enter(p, ops + 1, o \in Changing)
  BY DEF Start, Goto
<1>2. FirstLabel(o) \in Labels /\ FirstLabel(o) # "idle"
  BY DEF FirstLabel, Labels, Ops, Changing, Copying
<1>3. <<>> \in Seq(Nat)
  OBVIOUS
<1>4. /\ pc'[p] = FirstLabel(o) /\ op'[p] = o /\ num'[p] = ops + 1 /\ row'[p] = 1
      /\ want'[p] = 0 /\ cfg'[p] = <<>> /\ old'[p] = old[p]
      /\ \A q \in Procs \ {p} : Same(q)
  BY <1>1, <1>2 DEF IInv, Types, Same
<1>5. ops \in Nat /\ disturbed \subseteq Nat /\ num \in [Procs -> Nat]
  BY DEF IInv, Types
<1>6. ops + 1 \notin disturbed /\ \A q \in Procs : num[q] # ops + 1
  BY <1>5 DEF IInv, Numbered
<1>7. ~Using(p)
  BY <1>1 DEF Using
<1>8. disturbed' \subseteq Nat /\ mixed' \in BOOLEAN /\ current' \in Nat
  <2>1. ops + 1 \in Nat /\ Types
    BY <1>5 DEF IInv
  <2>2. CASE o = "load"
    BY <1>1, <2>1, <2>2 DEF history, Types
  <2>3. CASE o # "load"
    BY <1>1, <2>1, <2>3, EnterTypes
  <2> QED
    BY <2>2, <2>3
<1>9. Types'
  BY SMTT(30), <1>1, <1>2, <1>3, <1>5, <1>8 DEF IInv, Types, shared
<1>10. Role(p)'
  BY <1>1, <1>4 DEF Role, FirstLabel, LoadLabels, CopyLabels, Ops, Changing, Copying
<1>11. CASE o = "load"
  <2>1. pc'[p] = "ReadMarkings"
    BY <1>4, <1>11 DEF FirstLabel, Copying
  <2>2. UNCHANGED history
    BY <1>1, <1>11
  <2> QED
    BY <1>1, <1>4, <1>5, <1>7, <1>9, <1>11, <2>1, <2>2, IdleStep
<1>12. CASE o # "load"
  <2>1. Enter(p, num'[p], op'[p] \in Changing)
    BY <1>1, <1>4, <1>12
  <2>2. pc'[p] \in {"TestCount", "CopyCount", "GetEntry"}
    BY <1>4, <1>12 DEF FirstLabel, Ops, Changing, Copying
  <2> QED
    BY <1>1, <1>4, <1>5, <1>6, <1>7, <1>9, <1>10, <1>12, <2>1, <2>2, EnterStep
<1> QED
  BY <1>11, <1>12

LEMMA ReadStep ==
  ASSUME IInv, NEW p \in Procs, ReadMarkings(p) \/ ReadNothing(p) PROVE IInv'
<1>1. pc[p] = "ReadMarkings" /\ ~Using(p) /\ Quiet(p) /\ op[p] = "load" /\ num[p] <= ops
  BY DEF ReadMarkings, ReadNothing, Goto, Using, IInv, Numbered, Role, LoadLabels
<1>2. UNCHANGED <<shared, op, num, old, row, want, handle, ops>> /\ ops \in Nat
  BY DEF ReadMarkings, ReadNothing, private, IInv, Types
<1>3. CASE ReadMarkings(p)
  <2>1. PICK n \in 1..MaxRows : cfg' = [cfg EXCEPT ![p] = [i \in 1..n |-> num[p]]]
    BY <1>3 DEF ReadMarkings
  <2>2. n \in Nat \ {0} /\ num[p] \in Nat
    BY MarkingAssumption DEF IInv, Types
  <2> DEFINE rows == [i \in 1..n |-> num[p]]
  <2>3. rows \in Seq(Nat) /\ Len(rows) = n /\ \A j \in 1..n : rows[j] = num[p]
    BY <2>2, FilledFacts
  <2> HIDE DEF rows
  <2>4. pc' = [pc EXCEPT ![p] = "TestOld"] /\ cfg' = [cfg EXCEPT ![p] = rows]
        /\ Enter(p, num[p], TRUE)
    BY <1>3, <2>1 DEF ReadMarkings, Goto, rows
  <2>5. disturbed' \subseteq Nat /\ mixed' \in BOOLEAN /\ current' \in Nat
    BY <2>2, <2>4, EnterTypes DEF IInv
  <2>6. Types'
    BY <1>2, <2>3, <2>4, <2>5 DEF IInv, Types, shared, Labels
  <2>7. /\ pc'[p] = "TestOld" /\ cfg'[p] = rows
        /\ \A q \in Procs \ {p} : Same(q) /\ (pc[q] # "idle" => num[q] # num[p])
    BY <1>1, <1>2, <2>4 DEF IInv, Types, Same, Numbered
  <2>8. num[p] # 0 /\ row[p] = 1
    BY <1>1 DEF IInv, Begun
  <2>9. Loaded(p)' /\ row'[p] = 1
    BY <1>2, <2>2, <2>3, <2>7, <2>8 DEF Loaded
  <2>10. Role(p)'
    BY <1>1, <1>2, <2>7 DEF Role, LoadLabels, CopyLabels, Changing
  <2>11. Enter(p, num'[p], op'[p] \in Changing)
    BY <1>1, <1>2, <2>4 DEF Changing, Enter
  <2> QED
    BY <1>1, <1>2, <2>6, <2>7, <2>9, <2>10, <2>11, EnterStep DEF Quiet
<1>4. CASE ReadNothing(p)
  <2>1. pc' = [pc EXCEPT ![p] = "idle"] /\ UNCHANGED <<cfg, history>>
    BY <1>4 DEF ReadNothing, Goto, private
  <2>2. Types'
    BY <1>2, <2>1 DEF IInv, Types, shared, history, Labels
  <2>3. pc'[p] = "idle" /\ \A q \in Procs \ {p} : Same(q)
    BY <1>2, <2>1 DEF IInv, Types, Same
  <2> QED
    BY <1>1, <1>2, <2>1, <2>2, <2>3, IdleStep
<1> QED
  BY <1>3, <1>4

LEMMA TestStep ==
  ASSUME IInv, NEW p \in Procs, TestOld(p) \/ TestCount(p) PROVE IInv'
<1>1. pc[p] \in {"TestOld", "TestCount"}
  BY DEF TestOld, TestCount, Goto
<1>2. /\ Changer(p) /\ (Quiet(p) => Writer(p)) /\ op[p] \in {"load", "delete"}
      /\ (pc[p] = "TestCount" => op[p] = "delete")
  BY <1>1, ChangerLabels
<1>3. UNCHANGED <<shared, op, num, row, want, cfg, handle, ops, history>>
  BY DEF TestOld, TestCount, private
<1>4. /\ pc' = [pc EXCEPT ![p] = pc'[p]] /\ old' = [old EXCEPT ![p] = old'[p]]
      /\ \/ pc'[p] = "idle" /\ pc[p] = "TestCount"
         \/ pc'[p] = "TestOld" /\ pc[p] = "TestCount"
         \/ pc'[p] = Emptied(p) /\ pc[p] = "TestOld" /\ table = NULL
         \/ pc'[p] = "Free" /\ table # NULL /\ old'[p] = table /\ pc[p] = "TestOld"
  BY DEF TestOld, TestCount, Goto, private, IInv, Types
<1>5. Emptied(p) = (IF op[p] = "load" THEN "SetCount" ELSE "ZeroCount")
  BY DEF Emptied
<1>6. \A q \in Procs \ {p} : Same(q)
  BY <1>3, <1>4 DEF IInv, Types, Same
<1>7. pc'[p] \in Labels /\ old'[p] \in Blocks \cup {NULL}
  BY <1>4, <1>5 DEF Labels, TestOld, TestCount, private, IInv, Types
<1>8. Types'
  BY <1>3, <1>4, <1>7 DEF IInv, Types, shared, history
<1>9. Role(p)'
  BY <1>2, <1>3, <1>4, <1>5 DEF Role, LoadLabels, CopyLabels, Changing
<1>10. Pointed' /\ Kept'
  <2>1. table # NULL => pc'[p] = "idle" \/ Before(p)'
    BY <1>3, <1>4 DEF Before, shared
  <2> QED
    BY <1>1, <1>2, <1>3, <1>6, <2>1, SameTable DEF shared, history
<1>11. ASSUME Quiet(p) PROVE IF pc'[p] = "idle" THEN ~mixed' => Rest' ELSE Writer(p)'
  <2>1. Writer(p) /\ (~mixed' => Rest')
    BY <1>1, <1>2, <1>3, <1>11 DEF Writer, Rest, shared, history
  <2>2. op[p] = "load" => Loaded(p)' /\ row'[p] = 1
    BY <1>1, <1>3, <2>1 DEF Writer, Loaded
  <2> QED
    BY <1>2, <1>3, <1>4, <1>5, <2>1, <2>2 DEF Writer, shared
<1> QED
  BY <1>2, <1>3, <1>4, <1>5, <1>6, <1>8, <1>9, <1>10, <1>11, WriterStep DEF history

LEMMA FreeStep ==
  ASSUME IInv, NEW p \in Procs, Free(p), pc'[p] # "bad" PROVE IInv'
<1>1. pc[p] = "Free"
  BY DEF Free, Goto
<1>2. Changer(p) /\ (Quiet(p) => Writer(p)) /\ op[p] \in {"load", "delete"}
  BY <1>1, ChangerLabels
<1>3. UNCHANGED <<count, table, op, num, old, row, want, cfg, handle, ops, history>>
  BY DEF Free, private
<1>4. PICK b \in {old[p], table} :
        /\ pc' = [pc EXCEPT ![p] = IF b = NULL \/ heap[b].live THEN "Clear" ELSE "bad"]
        /\ heap' = IF b = NULL THEN heap ELSE [heap EXCEPT ![b].live = FALSE]
  BY DEF Free, Goto
<1>5. pc'[p] = "Clear" /\ pc' = [pc EXCEPT ![p] = "Clear"]
  BY <1>4 DEF IInv, Types
<1>6. \A q \in Procs \ {p} : Same(q)
  BY <1>3, <1>5 DEF IInv, Types, Same
<1>7. b \in Blocks \cup {NULL}
  BY DEF IInv, Types
<1>8. /\ heap' \in [Blocks -> [live : BOOLEAN, rows : Seq(Nat), by : Nat]]
      /\ \A c \in Blocks : heap'[c].live => heap[c].live /\ heap'[c].by = heap[c].by
      /\ b # NULL => ~heap'[b].live
  BY <1>4, <1>7 DEF IInv, Types
<1>9. Types'
  BY <1>3, <1>5, <1>8 DEF IInv, Types, history, Labels
<1>10. Role(p)'
  BY <1>2, <1>3, <1>5 DEF Role, LoadLabels, CopyLabels, Changing
<1>11. Pointed' /\ Kept'
  <2>1. Before(p) => old[p] = table
    BY <1>1 DEF Before
  <2>2. table # NULL /\ Before(p) => ~heap'[table].live
    BY <1>8, <2>1
  <2> QED
    BY <1>1, <1>2, <1>3, <1>6, <1>8, <2>2, SameTable DEF history
<1>12. ASSUME Quiet(p) PROVE Writer(p)'
  <2>1. op[p] = "load" => Loaded(p)' /\ row'[p] = 1
    BY <1>1, <1>2, <1>3, <1>12 DEF Writer, Loaded
  <2> QED
    BY <1>3, <1>5, <2>1 DEF Writer
<1> QED
  BY <1>2, <1>3, <1>5, <1>6, <1>9, <1>10, <1>11, <1>12, WriterStep DEF history

LEMMA ClearStep ==
  ASSUME IInv, NEW p \in Procs, Clear(p) PROVE IInv'
<1>1. pc[p] = "Clear" /\ ~Before(p)
  BY DEF Clear, Goto, Before
<1>2. Changer(p) /\ (Quiet(p) => Writer(p)) /\ op[p] \in {"load", "delete"}
  BY <1>1, ChangerLabels
<1>3. UNCHANGED <<count, heap, op, num, old, row, want, cfg, handle, ops, history>>
      /\ table' = NULL
  BY DEF Clear, private
<1>4. pc' = [pc EXCEPT ![p] = Emptied(p)] /\ pc'[p] = Emptied(p)
  BY DEF Clear, Goto, IInv, Types
<1>5. Emptied(p) = (IF op[p] = "load" THEN "SetCount" ELSE "ZeroCount")
  BY DEF Emptied
<1>6. \A q \in Procs \ {p} : Same(q)
  BY <1>3, <1>4 DEF IInv, Types, Same
<1>7. Types'
  BY <1>3, <1>4, <1>5 DEF IInv, Types, history, Labels
<1>8. Role(p)'
  BY <1>2, <1>3, <1>4, <1>5 DEF Role, LoadLabels, CopyLabels, Changing
<1>9. Pointed'
  BY <1>3 DEF Pointed
<1>10. Kept'
  <2> SUFFICES ASSUME NEW b \in Blocks, heap[b].live, heap[b].by \notin disturbed
               PROVE  \E q \in Procs : pc'[q] = "Store" /\ Quiet(q)' /\ old'[q] = b
    BY <1>3 DEF Kept, history
  <2>1. b # table
    BY <1>1, <1>2, MarkingAssumption, Freed
  <2>2. PICK q \in Procs : pc[q] = "Store" /\ Quiet(q) /\ old[q] = b
    BY <2>1 DEF IInv, Kept
  <2>3. q # p
    BY <1>1, <2>2
  <2> QED
    BY <1>3, <1>6, <2>2, <2>3 DEF Same, Quiet, history
<1>11. ASSUME Quiet(p) PROVE Writer(p)'
  <2>1. op[p] = "load" => Loaded(p)' /\ row'[p] = 1
    BY <1>1, <1>2, <1>3, <1>11 DEF Writer, Loaded
  <2> QED
    BY <1>3, <1>4, <1>5, <2>1 DEF Writer
<1> QED
  BY <1>2, <1>3, <1>4, <1>5, <1>6, <1>7, <1>8, <1>9, <1>10, <1>11, WriterStep DEF history

LEMMA SetCountStep ==
  ASSUME IInv, NEW p \in Procs, SetCount(p) PROVE IInv'
<1>1. pc[p] = "SetCount" /\ ~Before(p)
  BY DEF SetCount, Goto, Before
<1>2. Changer(p) /\ (Quiet(p) => Writer(p)) /\ op[p] = "load"
  BY <1>1, ChangerLabels DEF LoadLabels
<1>3. UNCHANGED <<table, heap, op, num, old, row, want, cfg, handle, ops, history>>
      /\ count' = Len(cfg[p])
  BY DEF SetCount, private
<1>4. pc' = [pc EXCEPT ![p] = "Alloc"] /\ pc'[p] = "Alloc"
  BY DEF SetCount, Goto, IInv, Types
<1>5. \A q \in Procs \ {p} : Same(q)
  BY <1>3, <1>4 DEF IInv, Types, Same
<1>6. Len(cfg[p]) \in Nat
  BY DEF IInv, Types
<1>7. Types'
  BY <1>3, <1>4, <1>6 DEF IInv, Types, history, Labels
<1>8. Role(p)'
  BY <1>2, <1>3, <1>4 DEF Role, LoadLabels, CopyLabels, Changing
<1>9. Pointed' /\ Kept'
  BY <1>1, <1>2, <1>3, <1>5, SameTable DEF history
<1>10. ASSUME Quiet(p) PROVE Writer(p)'
  BY <1>1, <1>2, <1>3, <1>4, <1>10 DEF Writer, Loaded
<1> QED
  BY <1>2, <1>3, <1>4, <1>5, <1>7, <1>8, <1>9, <1>10, WriterStep DEF history

LEMMA AllocStep ==
  ASSUME IInv, NEW p \in Procs, Alloc(p) PROVE IInv'
<1>1. pc[p] = "Alloc" /\ ~Before(p)
  BY DEF Alloc, Goto, Before
<1>2. Changer(p) /\ (Quiet(p) => Writer(p)) /\ op[p] = "load"
  BY <1>1, ChangerLabels DEF LoadLabels
<1>3. UNCHANGED <<count, table, op, num, row, want, cfg, handle, ops, history>>
  BY DEF Alloc
<1>4. pc' = [pc EXCEPT ![p] = "Store"] /\ pc'[p] = "Store"
  BY DEF Alloc, Goto, IInv, Types
<1>5. Role(p)'
  BY <1>2, <1>3, <1>4 DEF Role, LoadLabels, CopyLabels, Changing
<1>6. Quiet(p) => /\ table = NULL /\ Loaded(p)' /\ row'[p] = 1 /\ count = Len(cfg[p])
  BY <1>1, <1>2, <1>3 DEF Writer, Loaded
<1>7. ASSUME NEW b \in Blocks, NEW n \in {count, Len(cfg[p])}, ~heap[b].live,
             heap' = [heap EXCEPT ![b] = [live |-> TRUE, rows |-> Blank(n), by |-> num[p]]],
             old' = [old EXCEPT ![p] = b]
      PROVE  IInv'
  <2>1. n \in Nat /\ num[p] \in Nat
    BY DEF IInv, Types
  <2>2. Blank(n) \in Seq(Nat) /\ Len(Blank(n)) = n
    BY <2>1, BlankFacts
  <2>3. /\ heap' \in [Blocks -> [live : BOOLEAN, rows : Seq(Nat), by : Nat]]
        /\ heap'[b].live = TRUE /\ heap'[b].rows = Blank(n) /\ heap'[b].by = num[p]
        /\ \A c \in Blocks \ {b} : heap'[c] = heap[c]
    BY <1>7, <2>1, <2>2 DEF IInv, Types
  <2>4. Types'
    BY <1>3, <1>4, <1>7, <2>3 DEF IInv, Types, history, Labels
  <2>5. old'[p] = b /\ \A q \in Procs \ {p} : Same(q)
    BY <1>3, <1>4, <1>7 DEF IInv, Types, Same
  <2>6. Pointed'
    <3> SUFFICES ASSUME table # NULL, heap'[table].live, heap'[table].by \notin disturbed
                 PROVE  FALSE
      BY <1>3 DEF Pointed, history
    <3>1. CASE table = b
      BY <1>6, <2>3, <3>1 DEF Quiet
    <3>2. CASE table # b
      <4>1. heap'[table] = heap[table]
        BY <2>3, <3>2 DEF IInv, Types
      <4> QED
        BY <1>1, <1>2, <4>1, Freed
    <3> QED
      BY <3>1, <3>2
  <2>7. Kept'
    <3> SUFFICES ASSUME NEW c \in Blocks, heap'[c].live, heap'[c].by \notin disturbed, c # table
                 PROVE  \E q \in Procs : pc'[q] = "Store" /\ Quiet(q)' /\ old'[q] = c
      BY <1>3 DEF Kept, history
    <3>1. CASE c = b
      BY <1>3, <1>4, <2>3, <2>5, <3>1 DEF Quiet, history
    <3>2. CASE c # b
      <4>1. PICK q \in Procs : pc[q] = "Store" /\ Quiet(q) /\ old[q] = c
        BY <2>3, <3>2 DEF IInv, Kept
      <4>2. q # p
        BY <1>1, <4>1
      <4> QED
        BY <1>3, <2>5, <4>1, <4>2 DEF Same, Quiet, history
    <3> QED
      BY <3>1, <3>2
  <2>8. ASSUME Quiet(p) PROVE Writer(p)'
    <3>1. n = count /\ count' = count /\ table' = NULL /\ count' = Len(cfg'[p])
      BY <1>3, <1>6, <2>8
    <3>2. Sized(b)' /\ heap'[b].by = num'[p]
      BY <1>3, <2>2, <2>3, <3>1, MarkingAssumption DEF Sized
    <3> QED
      BY <1>3, <1>4, <1>6, <2>5, <2>8, <3>1, <3>2, MarkingAssumption DEF Writer
  <2> QED
    BY <1>2, <1>3, <1>4, <1>5, <2>4, <2>5, <2>6, <2>7, <2>8, WriterStep DEF history
<1>8. ASSUME "memory" \in Faults, old' = [old EXCEPT ![p] = NULL], UNCHANGED heap PROVE IInv'
  <2>1. Types'
    BY <1>3, <1>4, <1>8 DEF IInv, Types, history, Labels
  <2>2. old'[p] = NULL /\ \A q \in Procs \ {p} : Same(q)
    BY <1>3, <1>4, <1>8 DEF IInv, Types, Same
  <2>3. Pointed' /\ Kept'
    BY <1>1, <1>2, <1>3, <1>8, <2>2, SameTable DEF history
  <2>4. ASSUME Quiet(p) PROVE Writer(p)'
    BY <1>3, <1>4, <1>6, <1>8, <2>2, <2>4 DEF Writer
  <2> QED
    BY <1>2, <1>3, <1>4, <1>5, <2>1, <2>2, <2>3, <2>4, WriterStep DEF history
<1> QED
  BY <1>7, <1>8 DEF Alloc

LEMMA StoreStep ==
  ASSUME IInv, NEW p \in Procs, Store(p) PROVE IInv'
<1>1. pc[p] = "Store" /\ ~Before(p)
  BY DEF Store, Goto, Before
<1>2. Changer(p) /\ (Quiet(p) => Writer(p)) /\ op[p] = "load" /\ (~Quiet(p) => mixed)
  BY <1>1, ChangerLabels DEF LoadLabels
<1>3. UNCHANGED <<count, heap, op, num, old, row, want, cfg, handle, ops, disturbed>>
      /\ table' = old[p]
  BY DEF Store, private, Settle, history
<1>4. /\ pc' = [pc EXCEPT ![p] = pc'[p]]
      /\ \/ old[p] = NULL /\ pc'[p] = "idle" /\ Settle(p, 0)
         \/ old[p] # NULL /\ pc'[p] = "Zero" /\ UNCHANGED history
  BY DEF Store, Goto, IInv, Types
<1>5. \A q \in Procs \ {p} : Same(q)
  BY <1>3, <1>4 DEF IInv, Types, Same
<1>6. \/ UNCHANGED <<current, mixed>>
      \/ pc'[p] = "idle" /\ Quiet(p) /\ current' = 0 /\ mixed' = FALSE
  BY <1>4 DEF Settle, Quiet, history
<1>7. Types'
  <2>1. current' \in Nat
    BY <1>6 DEF IInv, Types
  <2>2. mixed' \in BOOLEAN
    BY <1>6 DEF IInv, Types
  <2> QED
    BY <1>3, <1>4, <2>1, <2>2 DEF IInv, Types, Labels
<1>8. Role(p)'
  BY <1>2, <1>3, <1>4 DEF Role, LoadLabels, CopyLabels, Changing
<1>9. Pointed'
  <2> SUFFICES ASSUME old[p] # NULL, heap[old[p]].live, heap[old[p]].by \notin disturbed,
                      NEW q \in Procs, Changer(q)'
               PROVE  Before(q)'
    BY <1>3 DEF Pointed
  <2>1. old[p] \in Blocks
    BY DEF IInv, Types
  <2>2. Quiet(p)
    <3>1. old[p] # table
      BY <1>1, <1>2, Freed
    <3>2. PICK r \in Procs : pc[r] = "Store" /\ Quiet(r) /\ old[r] = old[p]
      BY <2>1, <3>1 DEF IInv, Kept
    <3>3. Using(r)
      BY <3>2 DEF Using
    <3> QED
      BY <1>2, <3>2, <3>3 DEF IInv, Apart
  <2>3. q = p
    <3>1. ASSUME q # p PROVE FALSE
      <4>1. Changer(q)
        BY <1>5, <3>1, SameState
      <4> QED
        BY <1>2, <2>2, <3>1, <4>1 DEF IInv, Apart, Changer
    <3> QED
      BY <3>1
  <2>4. heap[old[p]].by = num[p]
    BY <1>1, <1>2, <2>2 DEF Writer
  <2> QED
    BY <1>3, <1>4, <2>3, <2>4 DEF Before
<1>10. Kept'
  <2> SUFFICES ASSUME NEW b \in Blocks, heap[b].live, heap[b].by \notin disturbed, b # old[p]
               PROVE  FALSE
    BY <1>3 DEF Kept
  <2>1. b # table
    BY <1>1, <1>2, MarkingAssumption, Freed
  <2>2. PICK q \in Procs : pc[q] = "Store" /\ Quiet(q) /\ old[q] = b
    BY <2>1 DEF IInv, Kept
  <2>3. q # p /\ Using(q)
    BY <2>2 DEF Using
  <2> QED
    BY <1>2, <2>2, <2>3 DEF IInv, Apart
<1>11. ASSUME Quiet(p) PROVE IF pc'[p] = "idle" THEN ~mixed' => Rest' ELSE Writer(p)'
  <2>1. Writer(p) /\ Loaded(p)
    BY <1>1, <1>2, <1>11 DEF Writer
  <2>2. Loaded(p)'
    BY <1>3, <2>1 DEF Loaded
  <2>3. CASE old[p] = NULL
    BY <1>1, <1>3, <1>4, <2>1, <2>3 DEF Writer, Rest
  <2>4. CASE old[p] # NULL
    <3>1. Sized(table)'
      BY <1>1, <1>3, <2>1, <2>4 DEF Writer, Sized
    <3> QED
      BY <1>1, <1>2, <1>3, <1>4, <2>1, <2>2, <2>4, <3>1 DEF Writer
  <2> QED
    BY <2>3, <2>4
<1> QED
  BY <1>2, <1>3, <1>4, <1>5, <1>6, <1>7, <1>8, <1>9, <1>10, <1>11, WriterStep

LEMMA ZeroStep ==
  ASSUME IInv, NEW p \in Procs, Zero(p), pc'[p] # "bad" PROVE IInv'
<1>1. pc[p] = "Zero"
  BY DEF Zero, Goto
<1>2. Changer(p) /\ (Quiet(p) => Writer(p)) /\ op[p] = "load"
  BY <1>1, ChangerLabels DEF LoadLabels
<1>3. UNCHANGED <<count, table, op, num, old, row, want, cfg, handle, ops, history>>
  BY DEF Zero, private
<1>4. PICK b \in {old[p], table}, n \in {count, Len(cfg[p])} :
        /\ pc' = [pc EXCEPT ![p] = IF Covers(b, n) THEN "Fill" ELSE "bad"]
        /\ heap' = IF b # NULL /\ Covers(b, n)
                   THEN [heap EXCEPT ![b].rows = [i \in DOMAIN @ |-> IF i <= n THEN 0 ELSE @[i]]]
                   ELSE heap
  BY DEF Zero, Goto
<1>5. pc' = [pc EXCEPT ![p] = "Fill"] /\ pc'[p] = "Fill"
  BY <1>4 DEF IInv, Types
<1>6. \A q \in Procs \ {p} : Same(q)
  BY <1>3, <1>5 DEF IInv, Types, Same
<1>7. /\ heap' \in [Blocks -> [live : BOOLEAN, rows : Seq(Nat), by : Nat]]
      /\ \A c \in Blocks : /\ heap'[c].live = heap[c].live /\ heap'[c].by = heap[c].by
                           /\ Len(heap'[c].rows) = Len(heap[c].rows)
  <2>1. CASE b = NULL \/ ~Covers(b, n)
    BY <1>4, <2>1 DEF IInv, Types
  <2>2. CASE b # NULL /\ Covers(b, n)
    <3> DEFINE s == heap[b].rows
               t == [i \in DOMAIN s |-> IF i <= n THEN 0 ELSE s[i]]
    <3>1. b \in Blocks /\ s \in Seq(Nat) /\ n \in Nat
      BY <2>2 DEF IInv, Types
    <3>2. t \in Seq(Nat) /\ Len(t) = Len(s)
      BY <3>1, ZeroedFacts
    <3>3. heap' = [heap EXCEPT ![b].rows = t]
      BY <1>4, <2>2
    <3> HIDE DEF t
    <3> QED
      BY <3>1, <3>2, <3>3 DEF IInv, Types
  <2> QED
    BY <2>1, <2>2
<1>8. Types'
  BY <1>3, <1>5, <1>7 DEF IInv, Types, history, Labels
<1>9. Role(p)'
  BY <1>2, <1>3, <1>5 DEF Role, LoadLabels, CopyLabels, Changing
<1>10. Pointed' /\ Kept'
  <2>1. table # NULL /\ Before(p) => Before(p)'
    <3>1. table # NULL => heap'[table].by = heap[table].by
      BY <1>7 DEF IInv, Types
    <3> QED
      BY <1>1, <1>3, <1>5, <3>1 DEF Before
  <2> QED
    BY <1>1, <1>2, <1>3, <1>6, <1>7, <2>1, SameTable DEF history
<1>11. ASSUME Quiet(p) PROVE Writer(p)'
  <2>1. /\ Loaded(p) /\ row[p] = 1 /\ count = Len(cfg[p]) /\ old[p] = table /\ Sized(table)
    BY <1>1, <1>2, <1>11 DEF Writer
  <2>2. Loaded(p)'
    BY <1>3, <2>1 DEF Loaded
  <2>3. Sized(table)'
    BY <1>3, <1>7, <2>1 DEF Sized, IInv, Types
  <2>4. count \in Nat /\ row'[p] = 1
    BY <1>3, <2>1 DEF IInv, Types
  <2> QED
    BY <1>2, <1>3, <1>5, <2>1, <2>2, <2>3, <2>4 DEF Writer
<1> QED
  BY <1>2, <1>3, <1>5, <1>6, <1>8, <1>9, <1>10, <1>11, WriterStep DEF history

\* What ends a change that was not interrupted.
LEMMA SettleFacts ==
  ASSUME IInv, NEW p \in Procs, NEW n \in Nat, Settle(p, n)
  PROVE  /\ UNCHANGED disturbed /\ current' \in Nat /\ mixed' \in BOOLEAN
         /\ Quiet(p) \/ UNCHANGED <<current, mixed>>
         /\ Quiet(p) => current' = n
<1>1. /\ UNCHANGED disturbed
      /\ \/ Quiet(p) /\ current' = n /\ mixed' = FALSE
         \/ ~Quiet(p) /\ current' = current /\ mixed' = mixed
  BY DEF Settle, Quiet
<1>2. current \in Nat /\ mixed \in BOOLEAN
  BY DEF IInv, Types
<1>3. current' \in Nat
  BY <1>1, <1>2
<1>4. mixed' \in BOOLEAN
  BY <1>1, <1>2
<1> QED
  BY <1>1, <1>3, <1>4

\* The steps that end a change.
LEMMA EndStep ==
  ASSUME IInv, NEW p \in Procs, ZeroNothing(p) \/ FillEnds(p) \/ ZeroCount(p) PROVE IInv'
<1>1. pc[p] \in {"Zero", "Fill", "ZeroCount"}
  BY DEF ZeroNothing, FillEnds, ZeroCount, Goto
<1>2. Changer(p) /\ (Quiet(p) => Writer(p)) /\ (pc[p] \in {"Zero", "Fill"} => op[p] = "load")
  BY <1>1, ChangerLabels DEF LoadLabels
<1>3. UNCHANGED <<table, heap, op, num, old, row, want, cfg, handle, ops>>
      /\ (count' = count \/ count' = 0)
  BY DEF ZeroNothing, FillEnds, ZeroCount, shared, private
<1>4. pc' = [pc EXCEPT ![p] = "idle"] /\ pc'[p] = "idle"
  BY DEF ZeroNothing, FillEnds, ZeroCount, Goto, IInv, Types
<1>5. \A q \in Procs \ {p} : Same(q)
  BY <1>3, <1>4 DEF IInv, Types, Same
<1>6. \E n \in Nat : Settle(p, n)
  BY DEF ZeroNothing, FillEnds, ZeroCount, IInv, Types
<1>7. /\ UNCHANGED disturbed /\ current' \in Nat /\ mixed' \in BOOLEAN
      /\ Quiet(p) \/ UNCHANGED <<current, mixed>>
  BY <1>6, SettleFacts
<1>8. Types'
  BY SMTT(30), <1>3, <1>4, <1>7 DEF IInv, Types, Labels
<1>9. Role(p)'
  BY <1>4 DEF Role, LoadLabels, CopyLabels
<1>10. Pointed' /\ Kept'
  BY <1>1, <1>2, <1>3, <1>4, <1>5, <1>7, SameTable
<1>11. ASSUME Quiet(p) PROVE Rest'
  <2>1. Writer(p)
    BY <1>2, <1>11
  <2>2. CASE ZeroNothing(p)
    BY <2>1, <2>2 DEF ZeroNothing, Goto, Writer, Sized
  <2>3. CASE FillEnds(p)
    <3>1. pc[p] = "Fill" /\ row[p] > count /\ Settle(p, num[p]) /\ UNCHANGED count
      BY <2>3 DEF FillEnds, Goto, shared
    <3>2. /\ Loaded(p) /\ count = Len(cfg[p]) /\ Sized(table) /\ row[p] \in 1..(count + 1)
          /\ \A i \in 1..count : i < row[p] => heap[table].rows[i] = num[p]
      BY <1>2, <2>1, <3>1 DEF Writer
    <3>3. count \in Nat /\ num[p] \in Nat
      BY DEF IInv, Types
    <3>4. current' = num[p]
      BY <1>11, <3>1, <3>3, SettleFacts
    <3>5. \A i \in 1..count : heap[table].rows[i] = num[p]
      BY <3>1, <3>2, <3>3
    <3> QED
      BY <1>3, <3>1, <3>2, <3>3, <3>4, <3>5 DEF Rest, Sized, Loaded
  <2>4. CASE ZeroCount(p)
    <3>1. table = NULL /\ count' = 0
      BY <2>1, <2>4 DEF ZeroCount, Goto, Writer
    <3> QED
      BY <1>3, <3>1 DEF Rest
  <2> QED
    BY <2>2, <2>3, <2>4
<1> QED
  BY <1>2, <1>3, <1>4, <1>5, <1>7, <1>8, <1>9, <1>10, <1>11, WriterStep

LEMMA FillStep ==
  ASSUME IInv, NEW p \in Procs, FillRow(p) \/ FillNothing(p), pc'[p] # "bad" PROVE IInv'
<1>1. pc[p] = "Fill"
  BY DEF FillRow, FillNothing, Goto
<1>2. Changer(p) /\ (Quiet(p) => Writer(p)) /\ op[p] = "load"
  BY <1>1, ChangerLabels DEF LoadLabels
<1>3. UNCHANGED <<count, table, op, num, old, want, cfg, handle, ops, history>>
  BY DEF FillRow, FillNothing, shared
<1>4. CASE FillNothing(p)
  <2>1. ~Quiet(p)
    BY <1>1, <1>2, <1>4 DEF FillNothing, Writer, Sized
  <2>2. pc' = [pc EXCEPT ![p] = "Fill"] /\ pc'[p] = "Fill" /\ UNCHANGED heap
        /\ row' = [row EXCEPT ![p] = 2]
    BY <1>4 DEF FillNothing, Goto, shared, IInv, Types
  <2>3. \A q \in Procs \ {p} : Same(q)
    BY <1>3, <2>2 DEF IInv, Types, Same
  <2>4. Types'
    BY <1>3, <2>2 DEF IInv, Types, history, Labels
  <2>5. Role(p)'
    BY <1>2, <1>3, <2>2 DEF Role, LoadLabels, CopyLabels, Changing
  <2>6. Pointed' /\ Kept'
    <3>1. Before(p) => Before(p)'
      BY <1>1, <1>3, <2>2 DEF Before
    <3> QED
      BY <1>1, <1>2, <1>3, <2>2, <2>3, <3>1, SameTable DEF history
  <2> QED
    BY <1>2, <1>3, <2>1, <2>2, <2>3, <2>4, <2>5, <2>6, WriterStep DEF history
<1>5. CASE FillRow(p)
  <2>1. /\ Valid(table, row[p]) /\ row[p] \in DOMAIN cfg[p] /\ row[p] <= count
        /\ pc' = [pc EXCEPT ![p] = "Fill"] /\ pc'[p] = "Fill"
        /\ heap' = [heap EXCEPT ![table].rows[row[p]] = cfg[p][row[p]]]
        /\ row' = [row EXCEPT ![p] = row[p] + 1]
    BY <1>5 DEF FillRow, Goto, IInv, Types
  <2>2. table \in Blocks /\ table # NULL /\ heap[table].rows \in Seq(Nat) /\ cfg[p] \in Seq(Nat)
        /\ row[p] \in Nat /\ count \in Nat
    BY <2>1 DEF Valid, IInv, Types
  <2>3. row[p] \in 1..Len(heap[table].rows) /\ cfg[p][row[p]] \in Nat
    <3>1. row[p] \in 1..Len(heap[table].rows) /\ row[p] \in 1..Len(cfg[p])
      BY <2>1, <2>2, SeqDomain DEF Valid
    <3> QED
      BY <2>2, <3>1
  <2> DEFINE new == [heap[table].rows EXCEPT ![row[p]] = cfg[p][row[p]]]
  <2>4. /\ new \in Seq(Nat) /\ Len(new) = Len(heap[table].rows)
        /\ \A j \in 1..Len(new) : new[j] = IF j = row[p] THEN cfg[p][row[p]] ELSE heap[table].rows[j]
    BY <2>2, <2>3, UpdateFacts
  <2>5. heap' = [heap EXCEPT ![table].rows = new]
    BY <2>1
  <2> HIDE DEF new
  <2>6. /\ heap' \in [Blocks -> [live : BOOLEAN, rows : Seq(Nat), by : Nat]]
        /\ \A c \in Blocks : heap'[c].live = heap[c].live /\ heap'[c].by = heap[c].by
        /\ heap'[table].rows = new
    <3>1. heap \in [Blocks -> [live : BOOLEAN, rows : Seq(Nat), by : Nat]] /\ table \in Blocks
      BY <2>2 DEF IInv, Types
    <3>2. new \in Seq(Nat)
      BY <2>4
    <3>3. heap' \in [Blocks -> [live : BOOLEAN, rows : Seq(Nat), by : Nat]]
      BY <2>5, <3>1, <3>2
    <3>4. \A c \in Blocks : heap'[c].live = heap[c].live /\ heap'[c].by = heap[c].by
      BY <2>5, <3>1
    <3>5. heap'[table].rows = new
      BY <2>5, <3>1
    <3> QED
      BY <3>3, <3>4, <3>5
  <2>7. \A q \in Procs \ {p} : Same(q)
    BY <1>3, <2>1 DEF IInv, Types, Same
  <2>8. Types'
    <3>1. row[p] + 1 \in Nat
      BY <2>2
    <3> QED
      BY <1>3, <2>1, <2>6, <3>1 DEF IInv, Types, history, Labels
  <2>9. Role(p)'
    BY <1>2, <1>3, <2>1 DEF Role, LoadLabels, CopyLabels, Changing
  <2>10. Pointed' /\ Kept'
    <3>1. Before(p) => Before(p)'
      BY <1>1, <1>3, <2>1, <2>2, <2>6 DEF Before
    <3> QED
      BY <1>1, <1>2, <1>3, <2>6, <2>7, <3>1, SameTable DEF history
  <2>11. ASSUME Quiet(p) PROVE Writer(p)'
    <3>1. /\ Loaded(p) /\ count = Len(cfg[p]) /\ old[p] = table /\ Sized(table)
          /\ \A i \in 1..count : i < row[p] => heap[table].rows[i] = num[p]
      BY <1>1, <1>2, <2>11 DEF Writer
    <3>2. Loaded(p)' /\ Sized(table)'
      BY <1>3, <2>2, <2>4, <2>6, <3>1 DEF Loaded, Sized
    <3>3. row'[p] = row[p] + 1 /\ row[p] \in 1..count /\ row[p] + 1 \in 1..(count + 1)
      <4>1. row'[p] = row[p] + 1
        BY <2>1 DEF IInv, Types
      <4>2. row[p] >= 1
        BY <2>2, <2>3
      <4> QED
        BY <2>1, <2>2, <4>1, <4>2
    <3>4. cfg[p][row[p]] = num[p] /\ Len(new) = count
      BY <2>4, <3>1, <3>3 DEF Loaded, Sized
    <3>5. \A i \in 1..count : i < row[p] + 1 => new[i] = num[p]
      BY <2>2, <2>4, <3>1, <3>3, <3>4
    <3> QED
      BY <1>2, <1>3, <2>1, <2>6, <3>1, <3>2, <3>3, <3>5 DEF Writer
  <2> QED
    BY <1>2, <1>3, <2>1, <2>7, <2>8, <2>9, <2>10, <2>11, WriterStep DEF history
<1> QED
  BY <1>4, <1>5

-----------------------------------------------------------------------------

\* What is known of a thread that reads the table.
LEMMA ReaderLabels ==
  ASSUME IInv, NEW p \in Procs, pc[p] \in CopyLabels \cup {"GetEntry", "GetParam"}
  PROVE  /\ Using(p) /\ ~Changer(p)
         /\ pc[p] \in CopyLabels => op[p] \in Copying
         /\ pc[p] \in {"GetEntry", "GetParam"} => op[p] = "get" /\ p = Bus
         /\ Quiet(p) /\ ~mixed => Reader(p) /\ Rest
<1>1. Role(p)
  BY DEF IInv
<1>2. Using(p) /\ ~Changer(p)
  BY <1>1 DEF Role, CopyLabels, Copying, Changing, Changer, Using
<1>3. Quiet(p) => \A q \in Procs : ~Changer(q)
  BY <1>2 DEF IInv, Apart
<1> QED
  BY <1>1, <1>2, <1>3 DEF IInv, Role

LEMMA CopyBegins ==
  ASSUME IInv, NEW p \in Procs, CopyNothing(p) \/ CopyCount(p) PROVE IInv'
<1>1. pc[p] = "CopyCount"
  BY DEF CopyNothing, CopyCount, Goto
<1>2. Using(p) /\ ~Changer(p) /\ op[p] \in Copying /\ (Quiet(p) /\ ~mixed => Reader(p))
  BY <1>1, ReaderLabels DEF CopyLabels
<1>3. UNCHANGED <<shared, op, num, old, row, cfg, handle, ops, history>> /\ count \in Nat
  BY DEF CopyNothing, CopyCount, private, IInv, Types
<1>4. /\ pc' = [pc EXCEPT ![p] = pc'[p]] /\ want' = [want EXCEPT ![p] = want'[p]]
      /\ \/ pc'[p] = "UseCopy" /\ count = 0 /\ want'[p] = want[p]
         \/ pc'[p] = "CopyAlloc" /\ count > 0 /\ want'[p] = count
  BY DEF CopyNothing, CopyCount, Goto, private, IInv, Types
<1>5. \A q \in Procs \ {p} : Same(q)
  BY <1>3, <1>4 DEF IInv, Types, Same
<1>6. Types'
  <2>1. want'[p] \in Nat /\ pc'[p] \in Labels
    BY <1>3, <1>4 DEF IInv, Types, Labels
  <2> QED
    BY <1>3, <1>4, <2>1 DEF IInv, Types, shared, history
<1>7. Role(p)'
  BY <1>2, <1>3, <1>4 DEF Role, LoadLabels, CopyLabels
<1>8. ASSUME Quiet(p), ~mixed PROVE Reader(p)'
  <2>1. row'[p] = 1 /\ cfg'[p] = <<>> /\ want[p] = 0 /\ UNCHANGED <<count, current>>
    BY <1>1, <1>2, <1>3, <1>8 DEF Reader, shared, history
  <2>2. pc'[p] = "UseCopy" => Copied(p)'
    BY <1>3, <1>4, <2>1 DEF Copied
  <2> QED
    BY <1>4, <2>1, <2>2 DEF Reader
<1> QED
  BY <1>2, <1>3, <1>4, <1>5, <1>6, <1>7, <1>8, ReaderStep

LEMMA CopyAllocStep ==
  ASSUME IInv, NEW p \in Procs, CopyAlloc(p) PROVE IInv'
<1>1. pc[p] = "CopyAlloc"
  BY DEF CopyAlloc, Goto
<1>2. Using(p) /\ ~Changer(p) /\ op[p] \in Copying /\ (Quiet(p) /\ ~mixed => Reader(p))
  BY <1>1, ReaderLabels DEF CopyLabels
<1>3. UNCHANGED <<shared, op, num, old, row, want, handle, ops, history>> /\ count \in Nat
  BY DEF CopyAlloc, IInv, Types
<1>4. OnFailure(p) = (IF op[p] = "refresh" THEN "UseCopy" ELSE "idle")
  BY DEF OnFailure
<1>5. /\ pc' = [pc EXCEPT ![p] = pc'[p]] /\ cfg' = [cfg EXCEPT ![p] = cfg'[p]]
      /\ \/ pc'[p] = "CopyRow" /\ \E n \in {count, want[p]} : cfg'[p] = Blank(n)
         \/ pc'[p] = OnFailure(p) /\ "memory" \in Faults /\ cfg'[p] = cfg[p]
  BY DEF CopyAlloc, Goto, IInv, Types
<1>6. \A q \in Procs \ {p} : Same(q)
  BY <1>3, <1>5 DEF IInv, Types, Same
<1>7. cfg'[p] \in Seq(Nat)
  BY <1>5, BlankFacts DEF IInv, Types
<1>8. Types'
  BY <1>3, <1>4, <1>5, <1>7 DEF IInv, Types, shared, history, Labels
<1>9. Role(p)'
  BY <1>2, <1>3, <1>4, <1>5 DEF Role, LoadLabels, CopyLabels
<1>10. ASSUME Quiet(p), ~mixed, pc'[p] # "idle" PROVE Reader(p)'
  <2>1. row'[p] = 1 /\ cfg[p] = <<>> /\ want'[p] = count /\ want[p] = count /\ count > 0
        /\ UNCHANGED <<count, current, table>>
    BY <1>1, <1>2, <1>3, <1>10 DEF Reader, shared, history
  <2>2. CASE pc'[p] = "CopyRow"
    <3>1. Len(cfg'[p]) = count
      BY <1>3, <1>4, <1>5, <2>1, <2>2, BlankFacts
    <3>2. 1 \in 1..(count + 1) /\ \A i \in 1..count : ~(i < 1)
      BY <1>3
    <3> QED
      BY <2>1, <2>2, <3>1, <3>2 DEF Reader
  <2>3. CASE pc'[p] = "UseCopy"
    <3>1. cfg'[p] = <<>> /\ "memory" \in Faults /\ op'[p] = "refresh"
      BY <1>3, <1>4, <1>5, <1>10, <2>1, <2>3
    <3>2. Copied(p)'
      BY <2>1, <3>1 DEF Copied
    <3> QED
      BY <2>3, <3>2 DEF Reader
  <2> QED
    BY <1>4, <1>5, <1>10, <2>2, <2>3
<1> QED
  BY <1>2, <1>3, <1>4, <1>5, <1>6, <1>8, <1>9, <1>10, ReaderStep

LEMMA CopyStops ==
  ASSUME IInv, NEW p \in Procs, CopyFails(p) \/ CopyEnds(p) PROVE IInv'
<1>1. pc[p] = "CopyRow"
  BY DEF CopyFails, CopyEnds, Goto
<1>2. /\ Using(p) /\ ~Changer(p) /\ op[p] \in Copying
      /\ Quiet(p) /\ ~mixed => Reader(p) /\ Rest
  BY <1>1, ReaderLabels DEF CopyLabels
<1>3. UNCHANGED <<shared, op, num, old, row, want, handle, ops, history>> /\ count \in Nat
  BY DEF CopyFails, CopyEnds, private, IInv, Types
<1>4. OnFailure(p) = (IF op[p] = "refresh" THEN "UseCopy" ELSE "idle")
  BY DEF OnFailure
<1>5. /\ pc' = [pc EXCEPT ![p] = pc'[p]] /\ cfg' = [cfg EXCEPT ![p] = cfg'[p]]
      /\ \/ pc'[p] = OnFailure(p) /\ cfg'[p] = <<>> /\ table = NULL
         \/ pc'[p] = "UseCopy" /\ row[p] > count /\ cfg'[p] = cfg[p]
  BY DEF CopyFails, CopyEnds, Goto, private, IInv, Types
<1>6. \A q \in Procs \ {p} : Same(q)
  BY <1>3, <1>5 DEF IInv, Types, Same
<1>7. cfg'[p] \in Seq(Nat)
  <2>1. <<>> \in Seq(Nat) /\ cfg[p] \in Seq(Nat)
    BY DEF IInv, Types
  <2> QED
    BY <1>5, <2>1
<1>8. Types'
  BY <1>3, <1>4, <1>5, <1>7 DEF IInv, Types, shared, history, Labels
<1>9. Role(p)'
  BY <1>2, <1>3, <1>4, <1>5 DEF Role, LoadLabels, CopyLabels
<1>10. ASSUME Quiet(p), ~mixed, pc'[p] # "idle" PROVE Reader(p)'
  <2>1. /\ want[p] = count /\ count > 0 /\ Len(cfg[p]) = count /\ row[p] \in 1..(count + 1)
        /\ row[p] > 1 => table # NULL
        /\ \A i \in 1..count : i < row[p] => cfg[p][i] = current
        /\ Rest
    BY <1>1, <1>2, <1>10 DEF Reader
  <2>2. UNCHANGED <<count, current>>
    BY <1>3 DEF shared, history
  <2>3. Copied(p)'
    <3>1. CASE cfg'[p] = <<>> /\ table = NULL /\ pc'[p] = OnFailure(p)
      <4>1. "memory" \in Faults /\ op[p] = "refresh"
        BY <1>4, <1>10, <2>1, <3>1 DEF Rest
      <4> QED
        BY <1>3, <2>1, <3>1, <4>1 DEF Copied
    <3>2. CASE row[p] > count /\ cfg'[p] = cfg[p]
      <4>1. current # 0 /\ \A i \in 1..count : cfg[p][i] = current
        BY <1>3, <2>1, <3>2 DEF Rest
      <4> QED
        BY <1>3, <2>1, <2>2, <3>2, <4>1 DEF Copied
    <3> QED
      BY <1>5, <3>1, <3>2
  <2> QED
    BY <1>4, <1>5, <1>10, <2>3 DEF Reader
<1> QED
  BY <1>2, <1>3, <1>4, <1>5, <1>6, <1>8, <1>9, <1>10, ReaderStep

\* A row that is copied is there, and of the last load.
LEMMA CopyRowStep ==
  ASSUME IInv, NEW p \in Procs, CopyRow(p), pc'[p] # "bad" PROVE IInv'
<1>1. pc[p] = "CopyRow"
  BY DEF CopyRow, Goto
<1>2. /\ Using(p) /\ ~Changer(p) /\ op[p] \in Copying
      /\ Quiet(p) /\ ~mixed => Reader(p) /\ Rest
  BY <1>1, ReaderLabels DEF CopyLabels
<1>3. UNCHANGED <<shared, op, num, old, want, handle, ops, history>> /\ count \in Nat
  BY DEF CopyRow, IInv, Types
<1>4. /\ Valid(table, row[p]) /\ row[p] \in DOMAIN cfg[p] /\ row[p] <= count
      /\ pc' = [pc EXCEPT ![p] = "CopyRow"] /\ pc'[p] = "CopyRow"
      /\ row' = [row EXCEPT ![p] = row[p] + 1]
      /\ cfg' = [cfg EXCEPT ![p][row[p]] = heap[table].rows[row[p]]]
  BY DEF CopyRow, Goto, IInv, Types
<1> DEFINE x == heap[table].rows[row[p]]
           new == [cfg[p] EXCEPT ![row[p]] = x]
<1>5. table \in Blocks /\ heap[table].rows \in Seq(Nat) /\ cfg[p] \in Seq(Nat) /\ row[p] \in Nat
  BY <1>4 DEF Valid, IInv, Types
<1>6. row[p] \in 1..Len(cfg[p]) /\ x \in Nat
  <2>1. row[p] \in 1..Len(cfg[p]) /\ row[p] \in 1..Len(heap[table].rows)
    BY <1>4, <1>5, SeqDomain DEF Valid
  <2>2. \A s \in Seq(Nat) : \A i \in 1..Len(s) : s[i] \in Nat
    OBVIOUS
  <2> QED
    BY <1>5, <2>1, <2>2
<1>7. cfg' = [cfg EXCEPT ![p] = new]
  BY <1>4
<1> HIDE DEF x
<1>8. /\ new \in Seq(Nat) /\ Len(new) = Len(cfg[p])
      /\ \A j \in 1..Len(cfg[p]) : new[j] = IF j = row[p] THEN x ELSE cfg[p][j]
  BY <1>5, <1>6, UpdateFacts
<1> HIDE DEF new
<1>9. /\ row'[p] = row[p] + 1 /\ cfg'[p] = new /\ row[p] + 1 \in Nat
      /\ \A q \in Procs \ {p} : Same(q)
  <2>1. row'[p] = row[p] + 1 /\ cfg'[p] = new
    BY <1>4, <1>7 DEF IInv, Types
  <2>2. row[p] + 1 \in Nat
    BY <1>5
  <2> QED
    BY <1>3, <1>4, <1>7, <2>1, <2>2 DEF IInv, Types, Same
<1>10. Types'
  BY <1>3, <1>4, <1>7, <1>8, <1>9 DEF IInv, Types, shared, history, Labels
<1>11. Role(p)'
  BY <1>2, <1>3, <1>4 DEF Role, LoadLabels, CopyLabels
<1>12. ASSUME Quiet(p), ~mixed PROVE Reader(p)'
  <2>1. /\ want[p] = count /\ count > 0 /\ Len(cfg[p]) = count
        /\ \A i \in 1..count : i < row[p] => cfg[p][i] = current
        /\ Rest
    BY <1>1, <1>2, <1>12 DEF Reader
  <2>2. row[p] \in 1..count /\ row[p] + 1 \in 1..(count + 1)
    BY <1>3, <1>4, <1>6, <2>1
  <2>3. table # NULL /\ x = current
    BY <1>4, <2>1, <2>2 DEF Rest, Valid, x
  <2>4. \A i \in 1..count : i < row[p] + 1 => new[i] = current
    BY <1>3, <1>8, <2>1, <2>2, <2>3
  <2> QED
    BY <1>3, <1>4, <1>8, <1>9, <2>1, <2>2, <2>3, <2>4 DEF Reader, shared, history
<1> QED
  BY <1>2, <1>3, <1>4, <1>9, <1>10, <1>11, <1>12, ReaderStep

LEMMA UseCopyStep ==
  ASSUME IInv, NEW p \in Procs, UseCopy(p), pc'[p] # "bad" PROVE IInv'
<1>1. pc[p] = "UseCopy"
  BY DEF UseCopy, Goto
<1>2. Using(p) /\ ~Changer(p)
  BY <1>1, ReaderLabels DEF CopyLabels
<1>3. UNCHANGED <<shared, op, num, old, row, want, handle, ops, history>>
      /\ cfg' = [cfg EXCEPT ![p] = <<>>]
  BY DEF UseCopy
<1>4. pc' = [pc EXCEPT ![p] = "idle"] /\ pc'[p] = "idle"
  BY DEF UseCopy, Goto, IInv, Types
<1>5. <<>> \in Seq(Nat)
  OBVIOUS
<1>6. Types'
  BY <1>3, <1>4, <1>5 DEF IInv, Types, shared, history, Labels
<1>7. \A q \in Procs \ {p} : Same(q)
  BY <1>3, <1>4 DEF IInv, Types, Same
<1>8. Role(p)'
  BY <1>4 DEF Role, LoadLabels, CopyLabels
<1> QED
  BY <1>2, <1>3, <1>4, <1>6, <1>7, <1>8, ReaderStep

\* The handle is of a row of the table until it is used.
LEMMA GetStep ==
  ASSUME IInv, GetEntry \/ GetParam, pc'[Bus] # "bad" PROVE IInv'
<1>1. Bus \in Procs /\ pc[Bus] \in {"GetEntry", "GetParam"}
  BY DEF GetEntry, GetParam, Goto, Procs
<1>2. Using(Bus) /\ ~Changer(Bus) /\ op[Bus] = "get"
  BY <1>1, ReaderLabels
<1>3. UNCHANGED <<shared, op, num, old, row, want, cfg, ops, history>>
  BY DEF GetEntry, GetParam, private
<1>4. /\ pc' = [pc EXCEPT ![Bus] = pc'[Bus]]
      /\ \/ GetEntry /\ pc'[Bus] = "GetParam"
         \/ pc'[Bus] = "idle"
  BY <1>1 DEF GetEntry, GetParam, Goto, IInv, Types
<1>5. Types'
  BY <1>3, <1>4 DEF IInv, Types, shared, history, Labels
<1>6. \A q \in Procs \ {Bus} : Same(q)
  BY <1>3, <1>4 DEF IInv, Types, Same
<1>7. Role(Bus)'
  BY <1>2, <1>3, <1>4 DEF Role, LoadLabels, CopyLabels
<1>8. ASSUME pc'[Bus] # "idle" PROVE Reader(Bus)'
  <2>1. PICK i \in 1..MaxRows :
          handle' = IF i <= count THEN [block |-> table, row |-> i]
                                  ELSE [block |-> NULL, row |-> 1]
    BY <1>4, <1>8 DEF GetEntry
  <2>2. i \in Nat \ {0} /\ count \in Nat
    BY MarkingAssumption DEF IInv, Types
  <2>3. NoHandle' \/ (handle'.block = table' /\ handle'.row \in 1..count')
    BY <1>3, <2>1, <2>2 DEF NoHandle, shared
  <2> QED
    BY <1>4, <1>8, <2>3 DEF Reader
<1> QED
  BY <1>1, <1>2, <1>3, <1>4, <1>5, <1>6, <1>7, <1>8, ReaderStep

-----------------------------------------------------------------------------

\* After a bad access nothing more happens; the access itself moved no other thread and
\* no field.
Bad ==
  /\ Types /\ NoBadAccess /\ CopyIsCurrent
  /\ \E p \in Procs : pc[p] = "bad"

LEMMA CopyCurrentNow == ASSUME IInv PROVE CopyIsCurrent
<1> SUFFICES ASSUME NEW p \in Procs, pc[p] = "UseCopy", num[p] \notin disturbed, ~mixed,
                    want[p] = Len(cfg[p])
             PROVE  /\ Len(cfg[p]) = count
                    /\ \A i \in DOMAIN cfg[p] : cfg[p][i] = current /\ current # 0
  BY DEF CopyIsCurrent
<1>1. Reader(p) /\ cfg[p] \in Seq(Nat)
  BY ReaderLabels DEF Quiet, CopyLabels, IInv, Types
<1>2. Copied(p)
  BY <1>1 DEF Reader
<1>3. Len(cfg[p]) = count /\ \A i \in 1..count : cfg[p][i] = current /\ current # 0
  BY <1>2 DEF Copied
<1> QED
  BY <1>1, <1>3, SeqDomain

\* A thread that changes the table touches memory it has not only beside another change,
\* or after such changes.
LEMMA ChangeFaults ==
  ASSUME IInv, NEW p \in Procs, Free(p) \/ Zero(p) \/ FillRow(p), Quiet(p), ~mixed
  PROVE  pc'[p] # "bad"
<1>1. pc[p] \in {"Free", "Zero", "Fill"}
  BY DEF Free, Zero, FillRow, Goto
<1>2. Writer(p)
  BY <1>1, ChangerLabels
<1>3. CASE Free(p)
  <2>1. table # NULL /\ old[p] = table /\ heap[table].live
    BY <1>2, <1>3 DEF Free, Goto, Writer, Rest
  <2> QED
    BY <1>3, <2>1 DEF Free, Goto, IInv, Types
<1>4. CASE Zero(p)
  <2>1. /\ old[p] = table /\ table # NULL /\ heap[table].live /\ Len(heap[table].rows) = count
        /\ count = Len(cfg[p])
    BY <1>2, <1>4 DEF Zero, Goto, Writer, Sized
  <2>2. Covers(table, count)
    BY <2>1 DEF Covers, IInv, Types
  <2> QED
    BY <1>4, <2>1, <2>2 DEF Zero, Goto, IInv, Types
<1>5. CASE FillRow(p)
  <2>1. /\ table # NULL /\ heap[table].live /\ Len(heap[table].rows) = count
        /\ count = Len(cfg[p]) /\ row[p] \in 1..(count + 1) /\ op[p] = "load"
        /\ row[p] <= count /\ pc[p] = "Fill"
    BY <1>2, <1>5, ChangerLabels DEF FillRow, Goto, Writer, Sized, LoadLabels
  <2>2. table \in Blocks /\ heap[table].rows \in Seq(Nat) /\ cfg[p] \in Seq(Nat) /\ count \in Nat
    BY <2>1 DEF IInv, Types
  <2>3. row[p] \in 1..count
    BY <2>1, <2>2
  <2>4. Valid(table, row[p]) /\ row[p] \in DOMAIN cfg[p]
    BY <2>1, <2>2, <2>3, SeqDomain DEF Valid
  <2> QED
    BY <1>5, <2>4 DEF FillRow, Goto, IInv, Types
<1> QED
  BY <1>3, <1>4, <1>5

\* A thread that reads it does so only there, or in one of the two cases.
LEMMA ReadFaults ==
  ASSUME IInv, NEW p \in Procs, CopyRow(p) \/ UseCopy(p) \/ (p = Bus /\ GetParam),
         Quiet(p), ~mixed, pc'[p] = "bad"
  PROVE  LateRow(p) \/ NoCopy(p)
<1>1. pc[p] \in CopyLabels \cup {"GetParam"}
  BY DEF CopyRow, UseCopy, GetParam, Goto, CopyLabels
<1>2. Reader(p) /\ Rest
  BY <1>1, ReaderLabels
<1>3. count \in Nat /\ table \in Blocks \cup {NULL} /\ want[p] \in Nat
  BY DEF IInv, Types
<1>4. CASE CopyRow(p)
  <2>1. /\ Len(cfg[p]) = count /\ row[p] \in 1..(count + 1) /\ row[p] <= count
        /\ row[p] > 1 \/ table # NULL
        /\ row[p] > 1 => table # NULL
    BY <1>2, <1>4 DEF CopyRow, Goto, Reader
  <2>2. /\ table \in Blocks /\ heap[table].live /\ heap[table].rows \in Seq(Nat)
        /\ Len(heap[table].rows) = count /\ cfg[p] \in Seq(Nat)
    BY <1>2, <1>3, <2>1 DEF Rest, IInv, Types
  <2>3. row[p] \in 1..count
    BY <1>3, <2>1
  <2>4. Valid(table, row[p]) /\ row[p] \in DOMAIN cfg[p]
    BY <2>1, <2>2, <2>3, MarkingAssumption, SeqDomain DEF Valid
  <2> QED
    BY <1>4, <2>4 DEF CopyRow, Goto, IInv, Types
<1>5. CASE UseCopy(p)
  <2>1. pc[p] = "UseCopy" /\ Hal = "json" /\ want[p] > Len(cfg[p])
    BY <1>5 DEF UseCopy, Goto, IInv, Types
  <2>2. Copied(p)
    BY <1>2, <2>1 DEF Reader
  <2> QED
    BY <1>3, <2>1, <2>2 DEF Copied, NoCopy
<1>6. CASE p = Bus /\ GetParam
  <2>1. pc[p] = "GetParam" /\ ~NoHandle /\ ~Valid(handle.block, handle.row)
    BY <1>6 DEF GetParam, Goto, IInv, Types
  <2>2. handle.block = table /\ handle.row \in 1..count /\ op[p] = "get"
    BY <1>2, <2>1, ReaderLabels DEF Reader
  <2>3. ASSUME table # NULL PROVE FALSE
    <3>1. heap[table].live /\ heap[table].rows \in Seq(Nat) /\ Len(heap[table].rows) = count
      BY <1>2, <1>3, <2>3 DEF Rest, IInv, Types
    <3> QED
      BY <2>1, <2>2, <2>3, <3>1, SeqDomain DEF Valid
  <2>4. handle.row # 1 /\ "memory" \in Faults
    BY <1>2, <1>3, <2>1, <2>2, <2>3 DEF NoHandle, Rest
  <2> QED
    BY <1>3, <1>6, <2>2, <2>3, <2>4 DEF LateRow
<1> QED
  BY <1>4, <1>5, <1>6

LEMMA BadStep ==
  ASSUME IInv, NEW p \in Procs, pc'[p] = "bad",
         \/ Free(p) \/ Zero(p) \/ FillRow(p) \/ CopyRow(p) \/ UseCopy(p)
         \/ p = Bus /\ GetParam
  PROVE  Bad'
<1>1. UNCHANGED <<count, table, op, num, old, want, handle, ops, history>>
  BY DEF Free, Zero, FillRow, CopyRow, UseCopy, GetParam, shared, private
<1>2. pc' = [pc EXCEPT ![p] = "bad"]
  BY DEF Free, Zero, FillRow, CopyRow, UseCopy, GetParam, Goto, IInv, Types
<1>3. row' = row /\ cfg' \in {cfg, [cfg EXCEPT ![p] = <<>>]}
  BY DEF Free, Zero, FillRow, CopyRow, UseCopy, GetParam, private, Goto, IInv, Types
<1>4. <<>> \in Seq(Nat)
  OBVIOUS
<1>5. heap' \in [Blocks -> [live : BOOLEAN, rows : Seq(Nat), by : Nat]]
  <2>1. CASE Free(p)
    <3>1. PICK b \in {old[p], table} :
                heap' = IF b = NULL THEN heap ELSE [heap EXCEPT ![b].live = FALSE]
      BY <2>1 DEF Free
    <3>2. b \in Blocks \cup {NULL} /\ heap \in [Blocks -> [live : BOOLEAN, rows : Seq(Nat), by : Nat]]
      BY DEF IInv, Types
    <3> QED
      BY <3>1, <3>2
  <2>2. CASE Zero(p)
    BY <2>2 DEF Zero, Goto, IInv, Types
  <2>3. CASE ~Free(p) /\ ~Zero(p)
    <3>1. heap' = heap
      BY <2>3 DEF FillRow, CopyRow, UseCopy, GetParam, shared, Goto, IInv, Types
    <3> QED
      BY <3>1 DEF IInv, Types
  <2> QED
    BY <2>1, <2>2, <2>3
<1>6. Types'
  BY <1>1, <1>2, <1>3, <1>4, <1>5 DEF IInv, Types, history, Labels
<1>7. \A q \in Procs : pc'[q] = "bad" => q = p
  BY <1>2 DEF IInv, Types
<1>8. NoBadAccess'
  <2>1. Quiet(p) /\ ~mixed => LateRow(p) \/ NoCopy(p)
    BY ChangeFaults, ReadFaults
  <2>2. (LateRow(p) => LateRow(p)') /\ (NoCopy(p) => NoCopy(p)')
    BY <1>1 DEF LateRow, NoCopy
  <2> QED
    BY <1>1, <1>7, <2>1, <2>2 DEF NoBadAccess, Quiet, history
<1>9. CopyIsCurrent'
  <2>1. CopyIsCurrent
    BY CopyCurrentNow
  <2>2. \A q \in Procs : pc'[q] = "UseCopy" => pc[q] = "UseCopy" /\ cfg'[q] = cfg[q]
    BY <1>2, <1>3 DEF IInv, Types
  <2> QED
    BY <1>1, <2>1, <2>2 DEF CopyIsCurrent, history
<1> QED
  BY <1>2, <1>6, <1>8, <1>9 DEF Bad, IInv, Types

LEMMA StutterStep ==
  ASSUME UNCHANGED vars
  PROVE  (IInv => IInv') /\ (Bad => Bad')
<1> USE DEF vars, shared, private, history
<1>1. IInv => IInv'
  BY DEF IInv, Types, Numbered, Quiet, Apart, Changer, Using, Pointed, Before, Kept, Role,
         Begun, LoadLabels, CopyLabels, Rest, Loaded, Sized, Writer, Copied, Reader, NoHandle
<1>2. Bad => Bad'
  BY DEF Bad, Types, NoBadAccess, LateRow, NoCopy, CopyIsCurrent
<1> QED
  BY <1>1, <1>2

LEMMA StepIInv == ASSUME IInv \/ Bad, [Next]_vars PROVE IInv' \/ Bad'
<1>1. CASE UNCHANGED vars
  BY <1>1, StutterStep
<1>2. CASE Next
  <2>1. IInv
    BY <1>2 DEF Next, Bad
  <2>2. ASSUME NEW p \in Procs, NEW o \in Ops, Start(p, o) PROVE IInv'
    BY <2>1, <2>2, StartStep
  <2>3. ASSUME NEW p \in Procs, Step(p) PROVE IInv' \/ Bad'
    <3>1. CASE pc'[p] # "bad"
      BY <2>1, <2>3, <3>1, ReadStep, TestStep, FreeStep, ClearStep, SetCountStep, AllocStep,
         StoreStep, ZeroStep, EndStep, FillStep, CopyBegins, CopyAllocStep, CopyStops,
         CopyRowStep, UseCopyStep
      DEF Step
    <3>2. CASE pc'[p] = "bad"
      <4>1. Free(p) \/ Zero(p) \/ FillRow(p) \/ CopyRow(p) \/ UseCopy(p)
        BY <2>1, <2>3, <3>2
        DEF Step, ReadMarkings, ReadNothing, TestOld, Clear, SetCount, Alloc, Store,
            ZeroNothing, FillNothing, FillEnds, CopyNothing, CopyCount, CopyAlloc, CopyFails,
            CopyEnds, TestCount, ZeroCount, Emptied, OnFailure, Goto, IInv, Types
      <4> QED
        BY <2>1, <3>2, <4>1, BadStep
    <3> QED
      BY <3>1, <3>2
  <2>4. CASE GetEntry \/ GetParam
    <3>1. Bus \in Procs
      BY DEF Procs
    <3>2. CASE pc'[Bus] # "bad"
      BY <2>1, <2>4, <3>2, GetStep
    <3>3. CASE pc'[Bus] = "bad"
      <4>1. GetParam
        BY <2>1, <2>4, <3>1, <3>3 DEF GetEntry, Goto, IInv, Types
      <4> QED
        BY <2>1, <3>1, <3>3, <4>1, BadStep
    <3> QED
      BY <3>2, <3>3
  <2> QED
    BY <1>2, <2>2, <2>3, <2>4 DEF Next, Ops
<1> QED
  BY <1>1, <1>2

LEMMA AlwaysIInv == Spec => [](IInv \/ Bad)
<1>1. Init => IInv \/ Bad
  BY InitIInv
<1>2. (IInv \/ Bad) /\ [Next]_vars => (IInv \/ Bad)'
  BY StepIInv
<1> QED
  BY <1>1, <1>2, PTL DEF Spec

\* However threads load, delete, copy and read the table beside each other and run out of
\* memory, one touches memory it has not only in an operation that a change of another
\* overlapped, or after changes that overlapped and before the next that is completed by
\* itself, or in one of the cases LateRow and NoCopy.
THEOREM NeverBad == Spec => []NoBadAccess
<1>1. IInv \/ Bad => NoBadAccess
  BY DEF IInv, Bad, NoBadAccess
<1> QED
  BY <1>1, AlwaysIInv, PTL

\* However loads and deletes race, the only block lost is one a load made while another
\* change ran: any other is the table, or has been freed.
THEOREM OneTable == Spec => []NoLeak
<1>1. ASSUME IInv PROVE NoLeak
  <2> SUFFICES ASSUME \A p \in Procs : pc[p] = "idle", NEW b \in Blocks, heap[b].live,
                      heap[b].by \notin disturbed
               PROVE  b = table
    BY DEF NoLeak
  <2> QED
    BY <1>1 DEF IInv, Kept
<1>2. Bad => NoLeak
  BY DEF Bad, NoLeak
<1> QED
  BY <1>1, <1>2, AlwaysIInv, PTL

\* The copy an interface is made with, when it was made and no change fell into it, is of
\* the last load that was completed, row by row, for tables of any length and whatever
\* raced before that load.
THEOREM CopiesCurrent == Spec => []CopyIsCurrent
<1>1. IInv \/ Bad => CopyIsCurrent
  BY CopyCurrentNow DEF Bad
<1> QED
  BY <1>1, AlwaysIInv, PTL
=============================================================================
