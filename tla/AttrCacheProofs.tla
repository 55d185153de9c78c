-------------------------- MODULE AttrCacheProofs --------------------------
(***************************************************************************)
(* Proofs about AttrCache, for any number of threads, paths and nodes.     *)
(***************************************************************************)
EXTENDS AttrCache, FiniteSetTheorems, TLAPS

-----------------------------------------------------------------------------
(* Operators.                                                              *)

\* what Min and Max of FiniteSetsExt are for two numbers
LEMMA MinMaxOfTwo ==
    ASSUME NEW a \in Int, NEW b \in Int
    PROVE  /\ Min({a, b}) = IF a <= b THEN a ELSE b
           /\ Max({a, b}) = IF a >= b THEN a ELSE b
BY DEF Min, Max

\* the nodes in the table
LEMMA NodesInTable ==
    ASSUME NEW n \in Node
    PROVE  n \in NodesOf(Path) <=> \E p \in Path : table[p] = n
BY NullAssumption DEF NodesOf, Entries, Linked

\* the same after a step
LEMMA NodesInTablePrimed ==
    ASSUME NEW n \in Node
    PROVE  (n \in NodesOf(Path))' <=> \E p \in Path : table'[p] = n
BY NullAssumption DEF NodesOf, Entries, Linked

\* the entries are a finite set, so they can be counted
LEMMA EntriesFinite ==
    /\ IsFiniteSet(Entries)
    /\ Cardinality(Entries) \in Nat
    /\ \A P \in SUBSET Entries : IsFiniteSet(P) /\ Cardinality(P) \in Nat
<1>1. Entries \in SUBSET Path
  BY DEF Entries
<1>2. IsFiniteSet(Entries)
  BY <1>1, FiniteAssumption, FS_Subset
<1> QED
  BY <1>2, FS_Subset, FS_CardinalityType

-----------------------------------------------------------------------------
(* What the operations on the hash table preserve.                         *)

TableType ==
    /\ table \in [Path -> Node \cup {NoNode}]
    /\ nodecount \in Int
    /\ mem \in [Node -> {"free", "linked", "leaked"}]
    /\ ts \in [Node -> Time]

\* the table and the heap agree
Agree ==
    /\ \A n \in Node : mem[n] = "linked" <=> \E p \in Path : table[p] = n
    /\ \A p, q \in Path : Linked(p) /\ table[p] = table[q] => p = q
    /\ nodecount = Cardinality(Entries)

\* TableSound in terms of Agree, before and after a step
LEMMA SoundIsAgree ==
    /\ TableSound <=> (~ undefined => Agree)
    /\ TableSound' <=> (~ undefined' => Agree')
<1>1. TableSound <=> (~ undefined => Agree)
  BY NodesInTable DEF TableSound, Agree
<1>2. TableSound' <=> (~ undefined' => Agree')
  BY NodesInTablePrimed DEF TableSound, Agree
<1> QED
  BY <1>1, <1>2

\* hash_delete_free of a node in the table
LEMMA DeleteFreeAgrees ==
    ASSUME TableType, Agree, NEW p \in Path, Linked(p), DeleteFree(table[p])
    PROVE  TableType' /\ Agree'
<1> USE NullAssumption
<1>1. PICK n \in Node : n = table[p]
  BY DEF TableType, Linked
<1>2. table' = [table EXCEPT ![p] = NoNode]
  <2>1. {q \in Path : table[q] = n} = {p}
    BY <1>1 DEF Agree, Linked
  <2> QED
    BY <1>1, <2>1 DEF DeleteFree, Without, TableType
<1>3. /\ nodecount' = nodecount - 1
      /\ mem' = [mem EXCEPT ![n] = "free"]
      /\ ts' = [ts EXCEPT ![n] = 0]
  BY <1>1 DEF DeleteFree
<1>4. TableType'
  BY SizeAssumption, <1>2, <1>3 DEF TableType, Time
<1>5. Entries' = Entries \ {p}
  BY <1>2 DEF TableType, Entries, Linked
<1>6. nodecount' = Cardinality(Entries')
  BY <1>3, <1>5, EntriesFinite, FS_RemoveElement DEF Agree, Entries
<1>7. \A m \in Node : mem'[m] = "linked" <=> \E q \in Path : table'[q] = m
  BY <1>1, <1>2, <1>3 DEF TableType, Agree, Linked
<1>8. \A q, r \in Path : Linked(q)' /\ table'[q] = table'[r] => q = r
  BY <1>2 DEF TableType, Agree, Linked
<1> QED
  BY <1>4, <1>6, <1>7, <1>8 DEF Agree

\* hash_scan_delete of some of the entries
LEMMA ScanDeleteAgrees ==
    ASSUME TableType, Agree, NEW Gone \in SUBSET Entries, ScanDelete(Gone)
    PROVE  TableType' /\ Agree'
<1> USE NullAssumption
<1>1. Gone \subseteq Path /\ \A p \in Gone : table[p] \in Node
  BY DEF Entries, Linked, TableType
<1>2. \A p \in Path : table'[p] = IF p \in Gone THEN NoNode ELSE table[p]
  BY DEF ScanDelete, Without
<1>3. \A n \in Node : n \in NodesOf(Gone) <=> \E p \in Gone : table[p] = n
  BY DEF NodesOf
<1>4. TableType'
  BY SizeAssumption, EntriesFinite
  DEF TableType, Time, ScanDelete, Without
<1>5. Entries' = Entries \ Gone
  BY <1>1, <1>2 DEF Entries, Linked
<1>6. nodecount' = Cardinality(Entries')
  <2>1. Entries \cap Gone = Gone
    OBVIOUS
  <2> QED
    BY <1>5, <2>1, EntriesFinite, FS_Difference DEF ScanDelete, Agree
<1>7. ASSUME NEW n \in Node
      PROVE  mem'[n] = "linked" <=> \E q \in Path : table'[q] = n
  <2>1. mem'[n] = IF n \in NodesOf(Gone) THEN "leaked" ELSE mem[n]
    BY DEF ScanDelete
  <2>2. CASE \E p \in Gone : table[p] = n
    <3>1. PICK p \in Gone : table[p] = n
      BY <2>2
    <3>2. \A q \in Path : table[q] = n => q = p
      BY <1>1, <3>1 DEF Agree, Linked
    <3> QED
      BY <1>1, <1>2, <1>3, <2>1, <2>2, <3>1, <3>2
  <2>3. CASE ~ \E p \in Gone : table[p] = n
    BY <1>1, <1>2, <1>3, <2>1, <2>3 DEF Agree
  <2> QED
    BY <2>2, <2>3
<1>8. \A q, r \in Path : Linked(q)' /\ table'[q] = table'[r] => q = r
  BY <1>2 DEF Agree, Linked
<1> QED
  BY <1>4, <1>6, <1>7, <1>8 DEF Agree

\* hash_delete_free of the old node and hash_alloc_insert of a new one
LEMMA InsertAgrees ==
    ASSUME TableType, Agree, NEW p \in Path, NEW n \in Node, NEW s \in Time,
           mem[n] = "free" \/ n = table[p],
           table' = [table EXCEPT ![p] = n],
           mem' = [m \in Node |-> IF m = n THEN "linked"
                                  ELSE IF m = table[p] THEN "free" ELSE mem[m]],
           ts' = [ts EXCEPT ![n] = s],
           nodecount' = IF table[p] = NoNode THEN nodecount + 1 ELSE nodecount
    PROVE  TableType' /\ Agree'
<1> USE NullAssumption
<1>1. TableType'
  BY DEF TableType
<1>2. Entries' = Entries \cup {p}
  BY DEF TableType, Entries, Linked
<1>3. nodecount' = Cardinality(Entries')
  <2>1. p \in Entries <=> table[p] # NoNode
    BY DEF Entries, Linked
  <2> QED
    BY <1>2, <2>1, EntriesFinite, FS_AddElement DEF Agree
<1>4. \A q \in Path : q # p => table[q] # n
  BY DEF Agree, Linked
<1>5. \A q, r \in Path : Linked(q)' /\ table'[q] = table'[r] => q = r
  BY <1>4 DEF TableType, Agree, Linked
<1>6. ASSUME NEW m \in Node
      PROVE  mem'[m] = "linked" <=> \E q \in Path : table'[q] = m
  <2>1. CASE m = n
    BY <2>1 DEF TableType
  <2>2. CASE m # n /\ m = table[p]
    BY <2>2 DEF TableType, Agree, Linked
  <2>3. CASE m # n /\ m # table[p]
    BY <2>3 DEF TableType, Agree
  <2> QED
    BY <2>1, <2>2, <2>3
<1> QED
  BY <1>1, <1>3, <1>5, <1>6 DEF Agree

-----------------------------------------------------------------------------
(* The invariant.                                                          *)

\* the invariant holds of the empty cache
LEMMA InitInv == Init => IInv
<1> SUFFICES ASSUME Init PROVE IInv
  OBVIOUS
<1> USE NullAssumption, SizeAssumption
<1>1. TypeOK
  <2>1. 0 \in Time /\ 0 \in 0 .. BatchSize /\ 0 \in Int
    BY DEF Time
  <2> QED
    BY <2>1 DEF Init, TypeOK, Label
<1>2. Arguments /\ MutexHeld
  BY DEF Init, Arguments, MutexHeld, Held
<1>3. Agree
  <2>1. Entries = {}
    BY DEF Init, Entries, Linked
  <2> QED
    BY <2>1, FS_EmptySet DEF Init, Agree, Linked
<1> QED
  BY <1>1, <1>2, <1>3, SoundIsAgree DEF IInv

\* the part of TypeOK about the threads and the clock
LocalType ==
    /\ mutex \in Thread \cup {NoThread}
    /\ pc \in [Thread -> Label]
    /\ path \in [Thread -> Path \cup {NoPath}]
    /\ held \in [Thread -> Node \cup {NoNode}]
    /\ num \in [Thread -> 0 .. BatchSize]
    /\ stamp \in [Thread -> Time]
    /\ cur \in [Thread -> Time]
    /\ now \in Time
    /\ undefined \in BOOLEAN

\* A thread that returns from an operation frees the mutex it held.
LEMMA ReturnStep ==
    ASSUME LocalType, Arguments, MutexHeld, NEW t \in Thread,
           pc[t] \in Held, Unlock, Return(t), UNCHANGED <<now, undefined>>
    PROVE  LocalType' /\ Arguments' /\ MutexHeld'
<1>1. LocalType'
  BY SizeAssumption DEF LocalType, Unlock, Return, Goto, Time, Label
<1>2. Arguments'
  BY DEF LocalType, Arguments, Return, Goto
<1>3. MutexHeld'
  BY NullAssumption DEF LocalType, MutexHeld, Unlock, Return, Goto, Held
<1> QED
  BY <1>1, <1>2, <1>3

\* Every step of every thread preserves the invariant.
LEMMA InductiveStep == IInv /\ [Next]_vars => IInv'
<1> SUFFICES ASSUME IInv, [Next]_vars PROVE IInv'
  OBVIOUS
<1> USE NullAssumption, SizeAssumption
<1>0. LocalType /\ TableType /\ Arguments /\ MutexHeld
  BY DEF IInv, TypeOK, LocalType, TableType
<1>1. ~ undefined => Agree
  BY SoundIsAgree DEF IInv
<1>2. ASSUME LocalType' /\ Arguments' /\ MutexHeld',
             \/ TableType' /\ Agree'
             \/ UNCHANGED tableVars /\ (undefined => undefined')
      PROVE  IInv'
  <2>1. TableType'
    BY <1>0, <1>2 DEF TableType, tableVars
  <2>2. ~ undefined' => Agree'
    BY <1>1, <1>2 DEF Agree, tableVars, Linked, Entries
  <2> QED
    BY <1>2, <2>1, <2>2, SoundIsAgree DEF IInv, TypeOK, LocalType, TableType
<1>3. ASSUME NEW t \in Thread, Call(t) PROVE IInv'
  <2>1. ASSUME NEW p \in Path, CopyStat(t, p) PROVE IInv'
    <3>1. LocalType'
      BY <1>0, <2>1 DEF LocalType, CopyStat, Goto, Label, Lock
    <3>2. Arguments' /\ MutexHeld'
      BY <1>0, <2>1
      DEF LocalType, Arguments, MutexHeld, Held, CopyStat, Goto, Idle
    <3> QED
      BY <1>2, <2>1, <3>1, <3>2 DEF CopyStat
  <2>2. ASSUME NEW p \in Path, Set(t, p) PROVE IInv'
    <3>1. LocalType'
      BY <1>0, <2>2 DEF LocalType, Set, Goto, Label
    <3>2. Arguments' /\ MutexHeld'
      BY <1>0, <2>2
      DEF LocalType, Arguments, MutexHeld, Held, Set, Goto, Idle
    <3> QED
      BY <1>2, <2>2, <3>1, <3>2 DEF Set
  <2>3. ASSUME NEW p \in Path, Remove(t, p) PROVE IInv'
    <3>1. table[p] \in Node
      BY <1>0, <2>3 DEF TableType, Remove, Linked
    <3>2. LocalType'
      BY <1>0, <2>3, <3>1 DEF LocalType, Remove, Goto, Label, Lock
    <3>3. Arguments' /\ MutexHeld'
      BY <1>0, <2>3, <3>1
      DEF LocalType, Arguments, MutexHeld, Held, Remove, Goto, Idle
    <3> QED
      BY <1>2, <2>3, <3>2, <3>3 DEF Remove
  <2>4. CASE RemoveRaces(t)
    <3>1. LocalType'
      BY <1>0, <2>4 DEF LocalType, RemoveRaces, Goto, Label
    <3>2. Arguments' /\ MutexHeld'
      BY <1>0, <2>4
      DEF LocalType, Arguments, MutexHeld, Held, RemoveRaces, Goto, Idle
    <3> QED
      BY <1>2, <2>4, <3>1, <3>2 DEF RemoveRaces
  <2> QED
    BY <1>3, <2>1, <2>2, <2>3, <2>4 DEF Call
<1>4. ASSUME NEW t \in Thread, Acquire(t) PROVE IInv'
  <2>1. pc'[t] = HeldLabel[pc[t]] /\ HeldLabel[pc[t]] \in Held
    BY <1>0, <1>4 DEF Acquire, Goto, LocalType, HeldLabel, Lock, Held
  <2>2. LocalType'
    BY <1>0, <1>4, <2>1 DEF LocalType, Acquire, Goto, Label, locals
  <2>3. Arguments'
    BY <1>0, <1>4
    DEF LocalType, Arguments, Acquire, Goto, locals, HeldLabel, Lock
  <2>4. MutexHeld'
    BY <1>0, <1>4, <2>1 DEF LocalType, MutexHeld, Acquire, Goto
  <2> QED
    BY <1>2, <1>4, <2>2, <2>3, <2>4 DEF Acquire
<1>5. ASSUME NEW t \in Thread, CriticalStep(t) PROVE IInv'
  <2>0. (Agree /\ path[t] \in Path) \/ pc[t] = "remove!"
    BY <1>0, <1>1, <1>5
    DEF CriticalStep, CopyStatGet, CopyStatExpire, ShrinkScan, SetInsert,
        SetNoMemory, RemoveDelete, RemoveDangling, Holds, Arguments
  <2>1. CASE CopyStatGet(t)
    BY <1>0, <1>2, <2>1, ReturnStep DEF CopyStatGet, Holds, Held
  <2>2. CASE CopyStatExpire(t)
    <3>1. TableType' /\ Agree'
      BY <1>0, <2>0, <2>2, DeleteFreeAgrees DEF CopyStatExpire, Holds
    <3> QED
      BY <1>0, <1>2, <2>2, <3>1, ReturnStep DEF CopyStatExpire, Holds, Held
  <2>3. CASE ShrinkScan(t)
    <3>1. PICK Gone \in SUBSET Entries : ScanDelete(Gone)
      BY <2>3 DEF ShrinkScan
    <3>2. TableType' /\ Agree'
      BY <1>0, <2>0, <2>3, <3>1, ScanDeleteAgrees DEF ShrinkScan, Holds
    <3>3. LocalType'
      BY <1>0, <2>3
      DEF LocalType, ShrinkScan, Unlock, Goto, Label, Lock, locals
    <3>4. Arguments' /\ MutexHeld'
      BY <1>0, <2>3 DEF LocalType, Arguments, MutexHeld, Held, ShrinkScan,
        Unlock, Goto, Holds, locals
    <3>5. LocalType' /\ Arguments' /\ MutexHeld'
      BY <3>3, <3>4
    <3> QED
      BY <1>2, <3>2, <3>5
  <2>4. CASE SetInsert(t)
    <3>0. Agree /\ pc[t] = "set!"
      BY <2>0, <2>4 DEF SetInsert, Holds
    <3>1. PICK p \in Path, s \in Time : p = path[t] /\ s = stamp[t]
      BY <1>0, <2>0, <3>0 DEF LocalType
    <3>2. TableType' /\ Agree'
      <4>1. PICK n \in Node :
              /\ mem[n] = "free" \/ n = table[p]
              /\ table' = [table EXCEPT ![p] = n]
              /\ mem' = [m \in Node |->
                           IF m = n THEN "linked"
                           ELSE IF m = table[p] THEN "free" ELSE mem[m]]
              /\ ts' = [ts EXCEPT ![n] = s]
              /\ nodecount' = IF table[p] = NoNode THEN nodecount + 1
                                                   ELSE nodecount
        BY <2>4, <3>1 DEF SetInsert
      <4> QED
        BY <1>0, <3>0, <4>1, InsertAgrees
    <3> QED
      BY <1>0, <1>2, <2>4, <3>2, ReturnStep DEF SetInsert, Holds, Held
  <2>5. CASE SetNoMemory(t)
    <3>1. (TableType' /\ Agree') \/ UNCHANGED tableVars
      BY <1>0, <2>0, <2>5, DeleteFreeAgrees DEF SetNoMemory, Holds
    <3> QED
      BY <1>0, <1>2, <2>5, <3>1, ReturnStep DEF SetNoMemory, Holds, Held
  <2>6. CASE RemoveDelete(t)
    <3>1. PICK p \in Path : Linked(p) /\ held[t] = table[p]
      BY <2>6 DEF RemoveDelete, NodesOf, Entries
    <3>2. TableType' /\ Agree'
      BY <1>0, <1>1, <2>6, <3>1, DeleteFreeAgrees DEF RemoveDelete, Holds
    <3> QED
      BY <1>0, <1>2, <2>6, <3>2, ReturnStep DEF RemoveDelete, Holds, Held
  <2>7. CASE RemoveDangling(t)
    BY <1>0, <1>2, <2>7
    DEF RemoveDangling, LocalType, Arguments, MutexHeld, locals
  <2> QED
    BY <1>5, <2>1, <2>2, <2>3, <2>4, <2>5, <2>6, <2>7 DEF CriticalStep
<1>6. ASSUME NEW t \in Thread, SetCheckFull(t) PROVE IInv'
  <2>1. LocalType'
    BY <1>0, <1>6 DEF LocalType, SetCheckFull, Goto, Label, Lock, locals
  <2>2. Arguments' /\ MutexHeld'
    BY <1>0, <1>6
    DEF LocalType, Arguments, MutexHeld, Held, SetCheckFull, Goto, Holds, locals
  <2> QED
    BY <1>2, <1>6, <2>1, <2>2 DEF SetCheckFull
<1>7. ASSUME NEW t \in Thread, ShrinkCount(t) PROVE IInv'
  <2>1. Min({BatchSize, nodecount}) \in 0 .. BatchSize
    <3>1. nodecount \in Nat
      BY <1>1, <1>7, EntriesFinite DEF ShrinkCount, Holds, Agree
    <3> QED
      BY <3>1, MinMaxOfTwo
  <2>2. LocalType'
    BY <1>0, <1>7, <2>1 DEF LocalType, ShrinkCount, Goto, Label, Lock
  <2>3. Arguments' /\ MutexHeld'
    BY <1>0, <1>7
    DEF LocalType, Arguments, MutexHeld, Held, ShrinkCount, Goto, Holds
  <2> QED
    BY <1>2, <1>7, <2>2, <2>3 DEF ShrinkCount
<1>8. CASE Tick
  BY <1>0, <1>2, <1>8 DEF Tick, LocalType, Arguments, MutexHeld, Time
<1>9. CASE UNCHANGED vars
  BY <1>0, <1>2, <1>9 DEF vars, LocalType, Arguments, MutexHeld, locals
<1> QED
  BY <1>3, <1>4, <1>5, <1>6, <1>7, <1>8, <1>9 DEF Next

\* IInv is an invariant of the cache.
THEOREM Invariant == Spec => []IInv
BY InitInv, InductiveStep, PTL DEF Spec

\* Every variable stays in its type; in particular AttrCache_shrink, reading
\* the count without the mutex, never asks for more than batch_size.
THEOREM TypeCorrect == Spec => []TypeOK
<1>1. IInv => TypeOK
  BY DEF IInv
<1> QED
  BY <1>1, Invariant, PTL

\* As long as behaviour is defined, the table, the heap and the node count
\* agree, whatever the threads do.
THEOREM TableAgreesWithHeap == Spec => []TableSound
<1>1. IInv => TableSound
  BY DEF IInv
<1> QED
  BY <1>1, Invariant, PTL

\* The mutex is held exactly by the one thread in a critical section.
THEOREM MutualExclusion == Spec => []MutexHeld
<1>1. IInv => MutexHeld
  BY DEF IInv
<1> QED
  BY <1>1, Invariant, PTL

\* The table changes only in steps of the thread that holds the mutex.
THEOREM TableGuarded == Spec => ChangedUnderMutex
<1>1. ASSUME IInv, [Next]_vars
      PROVE  [\/ UNCHANGED tableVars
              \/ \E t \in Thread : mutex = t /\ pc[t] # pc'[t]]_vars
  <2> SUFFICES ASSUME Next
               PROVE  \/ UNCHANGED tableVars
                      \/ \E t \in Thread : mutex = t /\ pc[t] # pc'[t]
    BY <1>1 DEF vars
  <2>1. ASSUME NEW t \in Thread, pc[t] \in Held,
               pc' = [pc EXCEPT ![t] = "idle"] \/ pc' = [pc EXCEPT ![t] = "set"]
        PROVE  mutex = t /\ pc[t] # pc'[t]
    BY <1>1, <2>1 DEF IInv, TypeOK, MutexHeld, Held
  <2>2. ASSUME NEW t \in Thread, CriticalStep(t)
        PROVE  UNCHANGED tableVars \/ (mutex = t /\ pc[t] # pc'[t])
    <3>1. CASE CopyStatExpire(t)
      BY <2>1, <3>1 DEF CopyStatExpire, Holds, Held, Return, Goto
    <3>2. CASE ShrinkScan(t)
      BY <2>1, <3>2 DEF ShrinkScan, Holds, Held, Goto
    <3>3. CASE SetInsert(t)
      BY <2>1, <3>3 DEF SetInsert, Holds, Held, Return, Goto
    <3>4. CASE SetNoMemory(t)
      BY <2>1, <3>4 DEF SetNoMemory, Holds, Held, Return, Goto
    <3>5. CASE RemoveDelete(t)
      BY <2>1, <3>5 DEF RemoveDelete, Holds, Held, Return, Goto
    <3>6. CASE CopyStatGet(t) \/ RemoveDangling(t)
      BY <3>6 DEF CopyStatGet, RemoveDangling, tableVars
    <3> QED
      BY <2>2, <3>1, <3>2, <3>3, <3>4, <3>5, <3>6 DEF CriticalStep
  <2>3. ASSUME NEW t \in Thread,
               Call(t) \/ Acquire(t) \/ SetCheckFull(t) \/ ShrinkCount(t)
        PROVE  UNCHANGED tableVars
    BY <2>3 DEF Call, CopyStat, Set, Remove, RemoveRaces, Acquire, SetCheckFull,
      ShrinkCount
  <2>4. CASE Tick
    BY <2>4 DEF Tick
  <2> QED
    BY <2>2, <2>3, <2>4 DEF Next
<1> QED
  BY <1>1, Invariant, PTL DEF Spec, ChangedUnderMutex

-----------------------------------------------------------------------------
(* Threads that take turns.                                                *)

\* Nothing changes between a check of thread u and what relies on it, if the
\* others are idle.
LEMMA LoneStep ==
    ASSUME NEW u \in Thread, \A v \in Thread \ {u} : pc[v] = "idle",
           IInv, NothingStale,
           \/ (Call(u) /\ ~ RemoveRaces(u)) \/ Acquire(u) \/ CriticalStep(u)
           \/ SetCheckFull(u) \/ ShrinkCount(u)
    PROVE  NothingStale'
<1> USE NullAssumption, SizeAssumption
<1>0. /\ TypeOK
      /\ Agree
      /\ nodecount \in Nat
      /\ undefined = FALSE
      /\ nodecount <= MaxCount
  <2>1. TypeOK /\ undefined = FALSE /\ nodecount <= MaxCount
    BY DEF IInv, TypeOK, NothingStale, Defined, CountBounded
  <2>2. Agree
    BY <2>1, SoundIsAgree DEF IInv
  <2> QED
    BY <2>1, <2>2, EntriesFinite DEF Agree
<1>1. u \in Thread /\ pc[u] \in Label /\ DOMAIN pc = Thread
  BY <1>0 DEF TypeOK
<1>2. ASSUME nodecount' \in Nat, nodecount' <= nodecount, undefined' = FALSE,
             pc' = [pc EXCEPT ![u] = "idle"]
      PROVE  NothingStale'
  BY <1>0, <1>1, <1>2 DEF NothingStale, CountBounded, Defined
<1>2a. nodecount <= nodecount
  BY <1>0
<1>3. CASE Call(u) /\ ~ RemoveRaces(u)
  <2>1. ASSUME NEW p \in Path, CopyStat(u, p) \/ Set(u, p) PROVE NothingStale'
    BY <1>0, <1>1, <2>1
    DEF CopyStat, Set, Goto, NothingStale, CountBounded, Defined, tableVars
  <2>2. ASSUME NEW p \in Path, Remove(u, p) PROVE NothingStale'
    BY <1>0, <1>1, <2>2
    DEF TypeOK, Remove, Goto, NothingStale, CountBounded, Defined, tableVars
  <2> QED
    BY <1>3, <2>1, <2>2 DEF Call
<1>4. CASE Acquire(u)
  BY <1>0, <1>1, <1>4
  DEF Acquire, Goto, HeldLabel, Lock, NothingStale, CountBounded, Defined,
      tableVars, locals
<1>5. ASSUME NEW p \in Path, Linked(p), DeleteFree(table[p]),
             undefined' = FALSE, pc' = [pc EXCEPT ![u] = "idle"]
      PROVE  NothingStale'
  <2>1. p \in Entries
    BY <1>5 DEF Entries
  <2>2. nodecount # 0
    BY <1>0, <2>1, EntriesFinite, FS_EmptySet DEF Agree
  <2>3. nodecount' = nodecount - 1
    BY <1>5 DEF DeleteFree
  <2>4. nodecount' \in Nat /\ nodecount' <= nodecount
    BY <1>0, <2>2, <2>3
  <2> QED
    BY <1>2, <1>5, <2>4
<1>6. CASE CriticalStep(u)
  <2>0. pc[u] \notin {"idle", "remove", "remove!"} => path[u] \in Path
    BY <1>1 DEF IInv, Arguments
  <2>1. CASE CopyStatGet(u)
    BY <1>0, <1>2, <1>2a, <2>1 DEF CopyStatGet, Return, Goto, tableVars
  <2>2. CASE CopyStatExpire(u)
    BY <1>0, <1>5, <2>0, <2>2 DEF CopyStatExpire, Return, Goto, Holds
  <2>3. CASE ShrinkScan(u)
    <3>1. PICK Gone \in SUBSET Entries :
            /\ ScanDelete(Gone)
            /\ Cardinality(Gone) =
                 Max({Cardinality({p \in Entries :
                                     Deprecated(ts[table[p]], cur[u])}),
                      Min({num[u], Cardinality(Entries)})})
      BY <2>3 DEF ShrinkScan
    <3>2. num[u] \in Nat /\ num[u] > 0 /\ nodecount > 0
      BY <1>0, <1>1, <2>3 DEF TypeOK, NothingStale, ShrinkScan, Holds
    <3>3. Cardinality({p \in Entries : Deprecated(ts[table[p]], cur[u])}) \in Nat
      BY EntriesFinite
    <3>4. Cardinality(Entries) = nodecount
      BY <1>0 DEF Agree
    <3>5. Min({num[u], nodecount}) \in Nat /\ Min({num[u], nodecount}) > 0
      BY <1>0, <3>2, MinMaxOfTwo
    <3>6. Cardinality(Gone) \in Nat /\ Cardinality(Gone) > 0
      <4>1. PICK old \in Nat :
              old = Cardinality({p \in Entries :
                                   Deprecated(ts[table[p]], cur[u])})
        BY <3>3
      <4>2. PICK min \in Nat : min = Min({num[u], nodecount}) /\ min > 0
        BY <3>5
      <4>3. Cardinality(Gone) = Max({old, min})
        BY <3>1, <3>4, <4>1, <4>2
      <4>4. Max({old, min}) = IF old >= min THEN old ELSE min
        BY MinMaxOfTwo
      <4> QED
        BY <4>2, <4>3, <4>4
    <3>7. Cardinality(Gone) <= nodecount
      BY <3>4, EntriesFinite, FS_Subset
    <3>8. nodecount' = nodecount - Cardinality(Gone)
      BY <3>1 DEF ScanDelete
    <3>9. nodecount' < MaxCount /\ nodecount' <= MaxCount
      BY <1>0, <3>6, <3>7, <3>8
    <3>10. pc' = [pc EXCEPT ![u] = "set"] /\ undefined' = FALSE
      BY <1>0, <2>3 DEF ShrinkScan, Goto
    <3> QED
      BY <1>1, <3>9, <3>10 DEF NothingStale, CountBounded, Defined
  <2>4. CASE SetInsert(u)
    <3>1. nodecount < MaxCount
      BY <1>1, <2>4 DEF NothingStale, SetInsert, Holds
    <3>2. nodecount' = nodecount + 1 \/ nodecount' = nodecount
      BY <2>4 DEF SetInsert
    <3>3. nodecount' <= MaxCount
      BY <1>0, <3>1, <3>2
    <3>4. pc' = [pc EXCEPT ![u] = "idle"] /\ undefined' = FALSE
      BY <1>0, <2>4 DEF SetInsert, Return, Goto
    <3> QED
      BY <1>1, <3>3, <3>4 DEF NothingStale, CountBounded, Defined
  <2>5. CASE SetNoMemory(u)
    <3>1. CASE Linked(path[u])
      BY <1>0, <1>5, <2>0, <2>5, <3>1 DEF SetNoMemory, Return, Goto, Holds
    <3>2. CASE ~ Linked(path[u])
      BY <1>0, <1>2, <1>2a, <2>5, <3>2 DEF SetNoMemory, Return, Goto, tableVars
    <3> QED
      BY <3>1, <3>2
  <2>6. CASE RemoveDelete(u)
    <3>1. PICK p \in Path : Linked(p) /\ held[u] = table[p]
      BY <2>6 DEF RemoveDelete, NodesOf, Entries
    <3> QED
      BY <1>0, <1>5, <2>6, <3>1 DEF RemoveDelete, Return, Goto
  <2>7. ~ RemoveDangling(u)
    <3>1. pc[u] = "remove!" =>
            held[u] \in Node /\ \E p \in Path : table[p] = held[u]
      BY <1>1 DEF NothingStale, IInv, Arguments
    <3> QED
      BY <3>1, NodesInTable DEF RemoveDangling, Holds
  <2> QED
    BY <1>6, <2>1, <2>2, <2>3, <2>4, <2>5, <2>6, <2>7 DEF CriticalStep
<1>7. CASE SetCheckFull(u)
  <2>1. nodecount # MaxCount => nodecount < MaxCount
    BY <1>0
  <2> QED
    BY <1>0, <1>1, <1>7, <2>1
    DEF SetCheckFull, Goto, NothingStale, CountBounded, Defined, tableVars,
        locals
<1>8. CASE ShrinkCount(u)
  <2>1. nodecount # 0 =>
          Min({BatchSize, nodecount}) > 0 /\ nodecount > 0
    BY <1>0, MinMaxOfTwo
  <2>2. nodecount = 0 => nodecount < MaxCount
    BY <1>0
  <2> QED
    BY <1>0, <1>1, <1>8, <2>1, <2>2
    DEF TypeOK, ShrinkCount, Goto, NothingStale, CountBounded, Defined,
        tableVars
<1> QED
  BY <1>3, <1>4, <1>6, <1>7, <1>8

\* While the threads take turns, a thread that makes a step is the only one that
\* is not idle, before it or after it.
LEMMA TurnStep ==
    ASSUME IInv, NothingStale, OneAtATime, OneAtATime', [Next]_vars
    PROVE  NothingStale'
<1>1. ASSUME NEW u \in Thread,
             \/ Call(u) \/ Acquire(u) \/ CriticalStep(u)
             \/ SetCheckFull(u) \/ ShrinkCount(u)
      PROVE  NothingStale'
  <2>0. pc \in [Thread -> Label]
    BY DEF IInv, TypeOK
  <2>1. CASE Call(u)
    <3>1. PICK l \in Label \ {"idle"} : pc' = [pc EXCEPT ![u] = l]
      BY <2>1 DEF Call, CopyStat, Set, Remove, RemoveRaces, Goto, Label, Lock
    <3>2. \A v \in Thread \ {u} : pc[v] = "idle"
      BY <2>0, <3>1 DEF OneAtATime
    <3>3. ~ RemoveRaces(u)
      BY <3>2 DEF RemoveRaces, Writing, Idle
    <3> QED
      BY <2>1, <3>2, <3>3, LoneStep
  <2>2. CASE Acquire(u) \/ CriticalStep(u) \/ SetCheckFull(u) \/ ShrinkCount(u)
    <3>1. pc[u] # "idle"
      BY <2>2 DEF Acquire, Lock, CriticalStep, CopyStatGet, CopyStatExpire,
        ShrinkScan, SetInsert, SetNoMemory, RemoveDelete, RemoveDangling,
        SetCheckFull, ShrinkCount, Holds
    <3>2. \A v \in Thread \ {u} : pc[v] = "idle"
      BY <3>1 DEF OneAtATime
    <3> QED
      BY <2>2, <3>2, LoneStep
  <2> QED
    BY <1>1, <2>1, <2>2
<1>2. CASE Tick
  BY <1>2 DEF Tick, NothingStale, CountBounded, Defined, tableVars
<1>3. CASE UNCHANGED vars
  BY <1>3 DEF vars, NothingStale, CountBounded, Defined, tableVars, locals
<1> QED
  BY <1>1, <1>2, <1>3 DEF Next

\* NothingStale holds as long as the threads take turns.
LEMMA TurnsInvariant == Spec => ([]OneAtATime => []NothingStale)
<1>1. Init => NothingStale
  BY SizeAssumption DEF Init, NothingStale, CountBounded, Defined
<1>2. IInv /\ NothingStale /\ OneAtATime /\ OneAtATime' /\ [Next]_vars
        => NothingStale'
  BY TurnStep
<1> QED
  BY <1>1, <1>2, Invariant, PTL DEF Spec

\* As long as the threads take turns the cache never holds more than hash_maxcount
\* entries, and no operation uses a node that was freed or taken out of the table.
THEOREM SafeTurns == Spec => SafeInTurn
<1>1. NothingStale => CountBounded /\ Defined
  BY DEF NothingStale
<1> QED
  BY <1>1, TurnsInvariant, PTL DEF SafeInTurn
============================================================================
