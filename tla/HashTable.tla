------------------------------ MODULE HashTable ------------------------------
(***************************************************************************)
(* The kazlib hash table (src/src/kazlib/hash.c) under the calls that the  *)
(* attribute cache makes of it: entries come and go, the array of chains   *)
(* is doubled and halved on the way, a full table is scanned for entries   *)
(* to drop, and in the end every node is freed.                            *)
(*                                                                         *)
(* A node is named by its key, for no key is in the table twice.  The      *)
(* links inside a chain are left out: a chain is the set of its nodes and  *)
(* a scan comes by them in any order.                                      *)
(***************************************************************************)
EXTENDS Integers, FiniteSets, FiniteSetsExt

CONSTANTS
    Key,
    NoKey,      \* NULL
    HashFun,    \* HashFun[k]: the hash value of k
    InitSize,   \* INIT_SIZE
    MaxCount,   \* hash_maxcount
    BatchSize   \* batch_size of the attribute cache

\* INIT_SIZE "must be power of two" and no less than 2 (compute_mask)
ASSUME InitSizeAssumption == InitSize \in {2, 4, 8, 16, 32, 64}
ASSUME HashFunAssumption  == HashFun \in [Key -> Nat]
ASSUME NoKeyAssumption    == NoKey \notin Key
ASSUME LimitAssumption    == MaxCount \in Nat \ {0} /\ BatchSize \in Nat \ {0}

VARIABLES
    hash,     \* hash_t
    scan,     \* hscan_t: the node returned next and the part of its chain behind it
    mode,     \* "none": there is no table; what the table is being used for
    seen,     \* the nodes the present scan has returned
    removed,  \* nodes_removed_count in AttrCache_shrink
    num       \* shrink_num in AttrCache_shrink

vars == <<hash, scan, mode, seen, removed, num>>

Chains(h) == 0 .. h.nchains - 1

\* all nodes that are linked into some chain
Linked(h) == UNION {h.table[c] : c \in Chains(h)}

\* hkey & mask: the chain a key is looked up in
Slot(h, k) == HashFun[k] % (h.mask + 1)

\* hash_lookup: the keys it finds a node for
Found(h) == {k \in Key : Slot(h, k) \in Chains(h) /\ k \in h.table[Slot(h, k)]}

\* hkey & bit, for a single bit
HasBit(k, bit) == (HashFun[k] \div bit) % 2 = 1

\* hash_create and clear_table
NewTable ==
    [table |-> [c \in 0 .. InitSize - 1 |-> {}],
     nchains |-> InitSize, mask |-> InitSize - 1,
     lowmark |-> InitSize \div 2, highmark |-> 2 * InitSize, nodecount |-> 0]

\* mutant: the bits of the old mask decide instead of the exposed one
grow_table_OldBit(h) ==
    LET high(k) == HasBit(k, h.nchains \div 2) IN
    [table |-> [c \in 0 .. 2 * h.nchains - 1 |->
                  IF c < h.nchains
                    THEN {k \in h.table[c] : ~ high(k)}
                    ELSE {k \in h.table[c - h.nchains] : high(k)}],
     nchains |-> 2 * h.nchains, mask |-> 2 * h.mask + 1,
     lowmark |-> 2 * h.lowmark, highmark |-> 2 * h.highmark,
     nodecount |-> h.nodecount]

\* grow_table with a successful realloc: every chain is split in two
grow_table(h) ==
    LET mask == 2 * h.mask + 1
        exposed == mask - h.mask
    IN [table |-> [c \in 0 .. 2 * h.nchains - 1 |->
                     IF c < h.nchains
                       THEN {k \in h.table[c] : ~ HasBit(k, exposed)}
                       ELSE {k \in h.table[c - h.nchains] : HasBit(k, exposed)}],
        nchains |-> 2 * h.nchains, mask |-> mask,
        lowmark |-> 2 * h.lowmark, highmark |-> 2 * h.highmark,
        nodecount |-> h.nodecount]

\* shrink_table: the upper half of the chains is appended to the lower half
shrink_table(h) ==
    LET half == h.nchains \div 2 IN
    [table |-> [c \in 0 .. half - 1 |-> h.table[c] \cup h.table[c + half]],
     nchains |-> half, mask |-> h.mask \div 2,
     lowmark |-> h.lowmark \div 2, highmark |-> h.highmark \div 2,
     nodecount |-> h.nodecount]

\* mutant: a table that cannot grow starts over
MadeRoom_StartOver(h) ==
    IF h.nodecount >= h.highmark THEN {NewTable, grow_table(h)} ELSE {h}

\* hash_insert makes the table larger first, unless the reallocation fails
MadeRoom(h) ==
    IF h.nodecount >= h.highmark THEN {h, grow_table(h)} ELSE {h}

\* the node is linked into the chain of its hash value
Link(h, k) ==
    [h EXCEPT !.table = [h.table EXCEPT ![Slot(h, k)] = h.table[Slot(h, k)] \cup {k}],
              !.nodecount = h.nodecount + 1]

\* the node is spliced out of the chain of its hash value
Unlink(h, k) ==
    [h EXCEPT !.table = [h.table EXCEPT ![Slot(h, k)] = h.table[Slot(h, k)] \ {k}],
              !.nodecount = h.nodecount - 1]

\* hash_delete makes the table smaller first
Dwindled(h) == h.nodecount <= h.lowmark /\ h.nodecount > InitSize

-----------------------------------------------------------------------------
(* Scans.                                                                  *)

AtEnd == [chain |-> 0, next |-> NoKey, behind |-> {}]

\* hash_scan_begin: the first node of the first chain in use, from a chain on
ScanFrom(h, from) ==
    LET used == {c \in from .. h.nchains - 1 : h.table[c] # {}} IN
    IF used = {} THEN {AtEnd}
    ELSE {[chain |-> Min(used), next |-> k, behind |-> h.table[Min(used)] \ {k}] :
             k \in h.table[Min(used)]}

\* mutant: the rest of the chain is skipped
hash_scan_next_OnePerChain(h, s) == ScanFrom(h, s.chain + 1)

\* mutant: the search starts at the present chain
hash_scan_next_SameChain(h, s) ==
    IF s.behind # {}
      THEN {[chain |-> s.chain, next |-> k, behind |-> s.behind \ {k}] : k \in s.behind}
      ELSE ScanFrom(h, s.chain)

\* hash_scan_next finds the node to return next before the caller gets to
\* delete the present one
hash_scan_next(h, s) ==
    IF s.behind # {}
      THEN {[chain |-> s.chain, next |-> k, behind |-> s.behind \ {k}] : k \in s.behind}
      ELSE ScanFrom(h, s.chain + 1)

-----------------------------------------------------------------------------
Init ==
    /\ hash = NewTable
    /\ scan = AtEnd
    /\ mode = "none"
    /\ seen = {}
    /\ removed = 0
    /\ num = 0

\* AttrCache_init
hash_create ==
    /\ mode = "none"
    /\ hash' = NewTable
    /\ mode' = "idle"
    /\ UNCHANGED <<scan, seen, removed, num>>

\* hash_alloc_insert in AttrCache_set, which has seen that the table is not full
\* and deleted the old entry of the key
hash_insert(k) ==
    /\ mode = "idle"
    /\ hash.nodecount # MaxCount
    /\ k \notin Found(hash)
    /\ \E h \in MadeRoom(hash) : hash' = Link(h, k)
    /\ UNCHANGED <<scan, mode, seen, removed, num>>

\* hash_delete_free of a node that hash_lookup returned
hash_delete(k) ==
    /\ mode = "idle"
    /\ k \in Found(hash)
    /\ hash' = Unlink(IF Dwindled(hash) THEN shrink_table(hash) ELSE hash, k)
    /\ UNCHANGED <<scan, mode, seen, removed, num>>

ScanBegin(m) ==
    /\ mode' = m
    /\ scan' \in ScanFrom(hash, 0)
    /\ seen' = {}

\* the loop is left, and the local variables with it
ScanEnd(m) ==
    /\ mode' = m
    /\ scan' = AtEnd
    /\ seen' = {}
    /\ removed' = 0
    /\ num' = 0

\* mutant: as many as there are
Shrink_All ==
    /\ mode = "idle"
    /\ hash.nodecount = MaxCount
    /\ ScanBegin("expire")
    /\ removed' = 0
    /\ num' = hash.nodecount
    /\ UNCHANGED hash

\* AttrCache_shrink, called for a full table: the scan for deprecated entries
Shrink ==
    /\ mode = "idle"
    /\ hash.nodecount = MaxCount
    /\ ScanBegin("expire")
    /\ removed' = 0
    /\ num' = Min({BatchSize, hash.nodecount})
    /\ UNCHANGED hash

\* the scan returns a node, and the loop deletes it or goes on
ScanStep(m, delete) ==
    /\ mode = m
    /\ scan.next # NoKey
    /\ scan' \in hash_scan_next(hash, scan)
    /\ seen' = seen \cup {scan.next}
    /\ IF delete THEN hash' = Unlink(hash, scan.next) ELSE UNCHANGED hash
    /\ UNCHANGED <<mode, num>>

Expire(delete) ==
    /\ ScanStep("expire", delete)
    /\ removed' = removed + (IF delete THEN 1 ELSE 0)

\* if that was not enough the first entries go, whatever their age
ExpireDone ==
    /\ mode = "expire"
    /\ scan.next = NoKey
    /\ IF removed < num
         THEN ScanBegin("evict") /\ UNCHANGED <<removed, num>>
         ELSE ScanEnd("idle")
    /\ UNCHANGED hash

Evict ==
    /\ removed < num
    /\ ScanStep("evict", TRUE)
    /\ removed' = removed + 1

EvictDone ==
    /\ mode = "evict"
    /\ removed >= num \/ scan.next = NoKey
    /\ ScanEnd("idle")
    /\ UNCHANGED hash

\* hash_free_nodes in AttrCache_deinit
hash_free_nodes ==
    /\ mode = "idle"
    /\ ScanBegin("free")
    /\ UNCHANGED <<hash, removed, num>>

\* the node is deleted and freed
FreeNode ==
    /\ ScanStep("free", TRUE)
    /\ UNCHANGED removed

\* nodecount = 0, clear_table, then hash_destroy: whatever the chains still hold
\* is gone
hash_destroy ==
    /\ mode = "free"
    /\ scan.next = NoKey
    /\ hash' = NewTable
    /\ ScanEnd("none")

Next ==
    \/ \E k \in Key : hash_insert(k) \/ hash_delete(k)
    \/ hash_create \/ Shrink \/ ExpireDone \/ Evict \/ EvictDone
    \/ \E d \in BOOLEAN : Expire(d)
    \/ hash_free_nodes \/ FreeNode \/ hash_destroy

Spec == Init /\ [][Next]_vars

-----------------------------------------------------------------------------
(* Properties.                                                             *)

HashTypeOK ==
    /\ hash.nchains \in Nat \ {0}
    /\ hash.table \in [Chains(hash) -> SUBSET Key]
    /\ {hash.mask, hash.lowmark, hash.highmark, hash.nodecount} \subseteq Nat
    /\ scan \in [chain : Nat, next : Key \cup {NoKey}, behind : SUBSET Key]
    /\ mode \in {"none", "idle", "expire", "evict", "free"}
    /\ seen \subseteq Key
    /\ removed \in 0 .. MaxCount
    /\ num \in 0 .. BatchSize

\* every set that holds 1 and, up to n, the double of what it holds has n as well
is_power_of_two(n) ==
    /\ n > 0
    /\ \A S \in SUBSET (0 .. n) :
         1 \in S /\ (\A m \in S : 2 * m <= n => 2 * m \in S) => n \in S

\* The marks are powers of two in proportion to the number of chains, and "the table
\* will never shrink beneath INIT_SIZE even if it's emptied" (hash_create), whatever
\* order of growth, failed growth and deletion.
MarksVerified ==
    /\ is_power_of_two(hash.lowmark)
    /\ hash.nchains = 2 * hash.lowmark /\ hash.highmark = 2 * hash.nchains
    /\ hash.mask = hash.nchains - 1
    /\ hash.nchains >= InitSize

\* Every node is in the chain that its hash value selects under the present mask, so
\* that hash_lookup and hash_delete come by it, and hash_nodecount counts the nodes.
ChainsVerified ==
    /\ \A c \in Chains(hash) : \A k \in hash.table[c] : Slot(hash, k) = c
    /\ hash.nodecount = Cardinality(Linked(hash))

\* What the function hash_verify looks at and the code asserts after every change:
\* no long sequence of insertions and deletions loses a node in the chain of an older
\* mask, or halves the table or a mark once too often.
hash_verify == MarksVerified /\ ChainsVerified

Scanning == {"expire", "evict", "free"}

\* The node a scan holds on to across the deletion of the one it returned is
\* still in the table, and no node is returned twice: nothing is read or freed
\* after it was freed.
ScanSound ==
    mode \in Scanning /\ scan.next # NoKey =>
        scan.next \in Found(hash) /\ scan.next \notin seen

\* A scan that has come to its end has come by every entry: AttrCache_shrink
\* overlooks no deprecated entry, and AttrCache_deinit leaves no node behind
\* when it resets the chains.
ScanComplete ==
    mode \in Scanning /\ scan.next = NoKey =>
        /\ Linked(hash) \subseteq seen
        /\ mode = "free" => Linked(hash) = {}

Contents == INSTANCE HashContents WITH keys <- Found(hash)

\* Seen through hash_lookup, the table is a set of keys that changes by the one
\* key that is inserted or deleted: resizing and clearing lose no entry and
\* bring none back.
ImplementsContents == Contents!Spec
==============================================================================
