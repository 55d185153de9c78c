----------------------------- MODULE AttrCache -----------------------------
(***************************************************************************)
(* The attribute cache of the client (src/src/fs/attrcache.c), used by all *)
(* fuse threads at once, on the heap nodes of its kazlib hash table.       *)
(*                                                                         *)
(* A node stands for the three allocations that live and die together: the *)
(* hnode_t, its key and its CacheEntry.  The mutex is taken and released   *)
(* where the code takes and releases it; what the code reads outside of it *)
(* is read in a step of its own.  Using a node that has been freed, or     *)
(* deleting one that is not in the table, is undefined behaviour: the      *)
(* variable "undefined" records it and nothing is modelled afterwards.     *)
(***************************************************************************)
EXTENDS Integers, FiniteSets, FiniteSetsExt

CONSTANTS
    Thread,
    Path,
    Node,        \* the memory nodes can be allocated from
    NoNode,      \* NULL
    NoPath,      \* the path of no operation
    NoThread,    \* the mutex is free
    MaxCount,    \* hash_maxcount: ATTRCACHE_MAXSIZE
    BatchSize,   \* batch_size: ATTRCACHE_DEFAULT_BATCH_SIZE
    MaxAge,      \* max_age_sec
    MaxTime      \* bound on the clock

ASSUME FiniteAssumption == IsFiniteSet(Path) /\ IsFiniteSet(Node)
ASSUME NullAssumption   ==
    NoNode \notin Node /\ NoThread \notin Thread /\ NoPath \notin Path
ASSUME SizeAssumption   ==
    MaxCount \in Nat \ {0} /\ BatchSize \in Nat \ {0} /\ MaxAge \in Nat
      /\ MaxTime \in Nat

Time == 0 .. MaxTime

VARIABLES
    table,      \* table[p]: the node hash_lookup finds for p
    nodecount,  \* hash_nodecount
    mem,        \* mem[n]: "free", "linked" (in the table), or "leaked"
    ts,         \* ts[n]: cache_creation_ts
    mutex,      \* the thread that holds mutex_modify
    pc,         \* pc[t]: the next step of thread t
    path,       \* path[t]: the path argument of t's operation
    held,       \* held[t]: hash_node in AttrCache_remove
    num,        \* num[t]: shrink_num in AttrCache_shrink
    stamp,      \* stamp[t]: cache_creation_ts of the entry t is adding
    cur,        \* cur[t]: current_time in AttrCache_shrink
    now,        \* time(NULL)
    undefined   \* TRUE once behaviour is undefined

tableVars == <<table, nodecount, mem, ts>>
locals == <<path, held, num, stamp, cur>>
vars == <<tableVars, mutex, pc, locals, now, undefined>>

\* a thread at a Lock label waits for the mutex, at a Held label it owns it
Lock == {"copy", "shrink", "set", "remove"}
Held == {"copy!", "shrink!", "set!", "remove!"}
HeldLabel == [copy |-> "copy!", shrink |-> "shrink!", set |-> "set!",
              remove |-> "remove!"]
Label == {"idle", "full?", "count?", "lookup"} \cup Lock \cup Held

TypeOK ==
    /\ table \in [Path -> Node \cup {NoNode}]
    /\ nodecount \in Int
    /\ mem \in [Node -> {"free", "linked", "leaked"}]
    /\ ts \in [Node -> Time]
    /\ mutex \in Thread \cup {NoThread}
    /\ pc \in [Thread -> Label]
    /\ path \in [Thread -> Path \cup {NoPath}]
    /\ held \in [Thread -> Node \cup {NoNode}]
    /\ num \in [Thread -> 0 .. BatchSize]
    /\ stamp \in [Thread -> Time]
    /\ cur \in [Thread -> Time]
    /\ now \in Time
    /\ undefined \in BOOLEAN

\* AttrCache_init and hash_create
Init ==
    /\ table = [p \in Path |-> NoNode]
    /\ nodecount = 0
    /\ mem = [n \in Node |-> "free"]
    /\ ts = [n \in Node |-> 0]
    /\ mutex = NoThread
    /\ pc = [t \in Thread |-> "idle"]
    /\ path = [t \in Thread |-> NoPath]
    /\ held = [t \in Thread |-> NoNode]
    /\ num = [t \in Thread |-> 0]
    /\ stamp = [t \in Thread |-> 0]
    /\ cur = [t \in Thread |-> 0]
    /\ now = 0
    /\ undefined = FALSE

-----------------------------------------------------------------------------
(* The hash table.                                                         *)

Linked(p) == table[p] # NoNode

\* the paths a scan of the table comes by
Entries == {p \in Path : Linked(p)}

\* hash_delete of the node of path p leaves this table
Without(P) == [p \in Path |-> IF p \in P THEN NoNode ELSE table[p]]

NodesOf(P) == {table[p] : p \in P \cap Entries}

\* mutant: the node is freed and stays in its chain
DeleteFree_KeepLink(n) ==
    /\ nodecount' = nodecount - 1
    /\ mem' = [mem EXCEPT ![n] = "free"]
    /\ ts' = [ts EXCEPT ![n] = 0]
    /\ UNCHANGED table

\* hash_delete_free: unlink the node and free it
DeleteFree(n) ==
    /\ table' = Without({p \in Path : table[p] = n})
    /\ nodecount' = nodecount - 1
    /\ mem' = [mem EXCEPT ![n] = "free"]
    /\ ts' = [ts EXCEPT ![n] = 0]

\* hash_scan_delete of the nodes of P, which nobody frees
ScanDelete(P) ==
    /\ table' = Without(P)
    /\ nodecount' = nodecount - Cardinality(P)
    /\ mem' = [n \in Node |-> IF n \in NodesOf(P) THEN "leaked" ELSE mem[n]]
    /\ ts' = [n \in Node |-> IF n \in NodesOf(P) THEN 0 ELSE ts[n]]

\* an entry created at time c is past its maximum age at time d
Deprecated(c, d) == c + MaxAge < d

-----------------------------------------------------------------------------
Goto(t, label) == pc' = [pc EXCEPT ![t] = label]

Idle(t) == ~ undefined /\ pc[t] = "idle"

\* Attrcache_lock_modify_mutex
Acquire(t) ==
    /\ ~ undefined
    /\ pc[t] \in Lock
    /\ mutex = NoThread
    /\ mutex' = t
    /\ Goto(t, HeldLabel[pc[t]])
    /\ UNCHANGED <<tableVars, locals, now, undefined>>

Holds(t, label) == ~ undefined /\ pc[t] = label

\* the operation returns and its local variables are gone
Return(t) ==
    /\ Goto(t, "idle")
    /\ path' = [path EXCEPT ![t] = NoPath]
    /\ held' = [held EXCEPT ![t] = NoNode]
    /\ num' = [num EXCEPT ![t] = 0]
    /\ stamp' = [stamp EXCEPT ![t] = 0]
    /\ cur' = [cur EXCEPT ![t] = 0]

\* Attrcache_unlock_modify_mutex
Unlock == mutex' = NoThread

-----------------------------------------------------------------------------
(* AttrCache_copy_stat.                                                    *)

CopyStat(t, p) ==
    /\ Idle(t)
    /\ path' = [path EXCEPT ![t] = p]
    /\ Goto(t, "copy")
    /\ UNCHANGED <<tableVars, mutex, held, num, stamp, cur, now, undefined>>

\* AttrCache_get finds an entry that is not deprecated, or nothing
CopyStatGet(t) ==
    /\ Holds(t, "copy!")
    /\ Linked(path[t]) => ~ Deprecated(ts[table[path[t]]], now)
    /\ Unlock
    /\ Return(t)
    /\ UNCHANGED <<tableVars, now, undefined>>

\* AttrCache_get deletes a deprecated entry
CopyStatExpire(t) ==
    /\ Holds(t, "copy!")
    /\ Linked(path[t])
    /\ Deprecated(ts[table[path[t]]], now)
    /\ DeleteFree(table[path[t]])
    /\ Unlock
    /\ Return(t)
    /\ UNCHANGED <<now, undefined>>

-----------------------------------------------------------------------------
(* AttrCache_set, with AttrCache_shrink.                                   *)

\* the caller creates the entry, with its time stamp, and passes it on
Set(t, p) ==
    /\ Idle(t)
    /\ path' = [path EXCEPT ![t] = p]
    /\ stamp' = [stamp EXCEPT ![t] = now]
    /\ Goto(t, "full?")
    /\ UNCHANGED <<tableVars, mutex, held, num, cur, now, undefined>>

\* mutant: off by one
SetCheckFull_OffByOne(t) ==
    /\ Holds(t, "full?")
    /\ Goto(t, IF nodecount > MaxCount THEN "count?" ELSE "set")
    /\ UNCHANGED <<tableVars, mutex, locals, now, undefined>>

\* hash_isfull, without the mutex
SetCheckFull(t) ==
    /\ Holds(t, "full?")
    /\ Goto(t, IF nodecount = MaxCount THEN "count?" ELSE "set")
    /\ UNCHANGED <<tableVars, mutex, locals, now, undefined>>

\* mutant: the batch size is taken for the number of entries
ShrinkCount_NoMinimum(t) ==
    /\ Holds(t, "count?")
    /\ num' = [num EXCEPT ![t] = nodecount]
    /\ cur' = [cur EXCEPT ![t] = now]
    /\ Goto(t, IF nodecount = 0 THEN "set" ELSE "shrink")
    /\ UNCHANGED <<tableVars, mutex, path, held, stamp, now, undefined>>

\* AttrCache_shrink reads hash_count and the clock without the mutex; there is
\* nothing to do for a count of 0
ShrinkCount(t) ==
    /\ Holds(t, "count?")
    /\ num' = [num EXCEPT ![t] = Min({BatchSize, nodecount})]
    /\ cur' = [cur EXCEPT ![t] = now]
    /\ Goto(t, IF nodecount = 0 THEN "set" ELSE "shrink")
    /\ UNCHANGED <<tableVars, mutex, path, held, stamp, now, undefined>>

\* Both scans of AttrCache_shrink: all deprecated entries, then any others, in
\* the order of the hash chains, until shrink_num entries are gone
ShrinkScan(t) ==
    /\ Holds(t, "shrink!")
    /\ LET Old == {p \in Entries : Deprecated(ts[table[p]], cur[t])}
       IN \E Gone \in SUBSET Entries :
            /\ Old \subseteq Gone
            /\ Cardinality(Gone) =
                 Max({Cardinality(Old), Min({num[t], Cardinality(Entries)})})
            /\ ScanDelete(Gone)
    /\ Unlock
    /\ Goto(t, "set")
    /\ UNCHANGED <<locals, now, undefined>>

\* hash_delete_free of the old entry, hash_alloc_insert of the new one
SetInsert(t) ==
    /\ Holds(t, "set!")
    /\ \E n \in Node :
         LET old == table[path[t]] IN
         /\ mem[n] = "free" \/ n = old
         /\ table' = [table EXCEPT ![path[t]] = n]
         /\ mem' = [m \in Node |-> IF m = n THEN "linked"
                                   ELSE IF m = old THEN "free" ELSE mem[m]]
         /\ ts' = [ts EXCEPT ![n] = stamp[t]]
         /\ nodecount' = IF old = NoNode THEN nodecount + 1 ELSE nodecount
    /\ Unlock
    /\ Return(t)
    /\ UNCHANGED <<now, undefined>>

\* mutant: the error path forgets the mutex
SetNoMemory_KeepMutex(t) ==
    /\ Holds(t, "set!")
    /\ IF Linked(path[t])
         THEN DeleteFree(table[path[t]])
         ELSE UNCHANGED tableVars
    /\ Return(t)
    /\ UNCHANGED <<mutex, now, undefined>>

\* the node cannot be allocated: the old entry is gone all the same
SetNoMemory(t) ==
    /\ Holds(t, "set!")
    /\ IF Linked(path[t])
         THEN DeleteFree(table[path[t]])
         ELSE UNCHANGED tableVars
    /\ Unlock
    /\ Return(t)
    /\ UNCHANGED <<now, undefined>>

-----------------------------------------------------------------------------
(* AttrCache_remove: the lookup is outside of the mutex.  A path that is   *)
(* not found is left alone.                                                *)

Remove(t, p) ==
    /\ Idle(t)
    /\ Linked(p)
    /\ held' = [held EXCEPT ![t] = table[p]]
    /\ Goto(t, "remove")
    /\ UNCHANGED <<tableVars, mutex, path, num, stamp, cur, now, undefined>>

\* thread u holds the mutex and is about to change a chain
Writing(u) ==
    \/ pc[u] \in {"shrink!", "set!", "remove!"}
    \/ /\ pc[u] = "copy!"
       /\ Linked(path[u])
       /\ Deprecated(ts[table[path[u]]], now)

\* the lookup walks a chain that the holder of the mutex is changing
RemoveRaces(t) ==
    /\ Idle(t)
    /\ \E u \in Thread : Writing(u)
    /\ undefined' = TRUE
    /\ \E p \in Path : path' = [path EXCEPT ![t] = p]
    /\ Goto(t, "lookup")
    /\ UNCHANGED <<tableVars, mutex, held, num, stamp, cur, now>>

\* mutant: deleted before the mutex is taken
RemoveDelete_NoMutex(t) ==
    /\ Holds(t, "remove")
    /\ held[t] \in NodesOf(Path)
    /\ DeleteFree(held[t])
    /\ Return(t)
    /\ UNCHANGED <<mutex, now, undefined>>

\* hash_delete_free of the node the lookup returned, if it is still in the
\* table: for the path looked up, or, its memory having been used again, for
\* another one
RemoveDelete(t) ==
    /\ Holds(t, "remove!")
    /\ held[t] \in NodesOf(Path)
    /\ DeleteFree(held[t])
    /\ Unlock
    /\ Return(t)
    /\ UNCHANGED <<now, undefined>>

\* the node has been freed, or is in no chain that hash_delete could find it in
RemoveDangling(t) ==
    /\ Holds(t, "remove!")
    /\ held[t] \notin NodesOf(Path)
    /\ undefined' = TRUE
    /\ UNCHANGED <<tableVars, mutex, pc, locals, now>>

-----------------------------------------------------------------------------
Tick ==
    /\ ~ undefined
    /\ now < MaxTime
    /\ now' = now + 1
    /\ UNCHANGED <<tableVars, mutex, pc, path, held, num, stamp, cur, undefined>>

Call(t) ==
    \/ \E p \in Path : CopyStat(t, p) \/ Set(t, p) \/ Remove(t, p)
    \/ RemoveRaces(t)

\* the steps of a thread that holds the mutex
CriticalStep(t) ==
    \/ CopyStatGet(t) \/ CopyStatExpire(t)
    \/ ShrinkScan(t) \/ SetInsert(t) \/ SetNoMemory(t)
    \/ RemoveDelete(t) \/ RemoveDangling(t)

Next ==
    \/ \E t \in Thread :
         \/ Call(t) \/ Acquire(t) \/ CriticalStep(t)
         \/ SetCheckFull(t) \/ ShrinkCount(t)
    \/ Tick

Spec == Init /\ [][Next]_vars

\* A thread that holds the mutex neither blocks nor waits, so it goes on.
\* Nothing is assumed of the order in which waiting threads get the mutex.
FairSpec == Spec /\ \A t \in Thread : WF_vars(CriticalStep(t))

-----------------------------------------------------------------------------
(* Properties.                                                             *)

\* The table and the heap agree as long as behaviour is defined: no entry's
\* node is freed, leaked or shared with another path, every node that counts as
\* linked is reachable, and hash_nodecount counts the entries.
TableSound ==
    ~ undefined =>
        /\ \A n \in Node : mem[n] = "linked" <=> n \in NodesOf(Path)
        /\ \A p, q \in Path : Linked(p) /\ table[p] = table[q] => p = q
        /\ nodecount = Cardinality(Entries)

\* mutex_modify is held exactly by the thread inside a critical section
MutexHeld == \A t \in Thread : mutex = t <=> pc[t] \in Held

\* an operation in progress has its argument, and AttrCache_remove a node
Arguments ==
    \A t \in Thread :
        /\ pc[t] \notin {"idle", "remove", "remove!"} => path[t] \in Path
        /\ pc[t] \in {"remove", "remove!"} => held[t] \in Node

\* the inductive invariant behind these properties
IInv == TypeOK /\ Arguments /\ MutexHeld /\ TableSound

\* Only a step of the holder of mutex_modify changes the table or an entry.
ChangedUnderMutex ==
    [][\/ UNCHANGED tableVars
       \/ \E t \in Thread : mutex = t /\ pc[t] # pc'[t]]_vars

\* every thread that gets the mutex gives it back, on the error paths too
MutexReleased ==
    \A t \in Thread : mutex = t ~> mutex # t \/ undefined

\* the threads take turns: no operation begins before the last one has returned
OneAtATime ==
    \A t, u \in Thread : pc[t] # "idle" /\ pc[u] # "idle" => t = u

CountBounded == nodecount <= MaxCount
Defined == ~ undefined

\* As long as the threads take turns, as they do under the fuse option -s, there are
\* never more entries than hash_maxcount, for AttrCache_set makes room before it
\* inserts, and no operation uses a node that was freed or taken out of the table,
\* whatever entries expire, are replaced or evicted.  Otherwise the check is stale
\* when the entry is inserted, and once past the maximum hash_isfull never holds
\* again.
SafeInTurn == []OneAtATime => [](CountBounded /\ Defined)

\* what makes both of them inductive while the threads take turns
NothingStale ==
    /\ CountBounded
    /\ Defined
    /\ \A t \in Thread :
         /\ pc[t] \in {"shrink", "shrink!"} => num[t] > 0 /\ nodecount > 0
         /\ pc[t] \in {"set", "set!"} => nodecount < MaxCount
         /\ pc[t] \in {"remove", "remove!"} => \E p \in Path : table[p] = held[t]

\* "The node must belong to this hash table" (hash_delete in hash.c): the node
\* AttrCache_remove passes on is in the table when it is deleted.  Does not
\* hold with two threads: see Remove.
RemovedNodeBelongs ==
    \A t \in Thread : pc[t] = "remove!" => held[t] \in NodesOf(Path)
============================================================================
