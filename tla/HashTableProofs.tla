-------------------------- MODULE HashTableProofs --------------------------
(***************************************************************************)
(* Proofs about HashTable for every set of keys, every hash function and   *)
(* every initial size: the table stays in order, scans with deletions are  *)
(* complete, and hash_lookup sees a set that changes key by key.           *)
(***************************************************************************)
EXTENDS HashTable, FiniteSetTheorems, WellFoundedInduction, TLAPS

-----------------------------------------------------------------------------
(* Arithmetic of masks.                                                    *)

\* quotient and remainder are unique
LEMMA ModUnique ==
    ASSUME NEW a \in Nat, NEW b \in Nat \ {0}, NEW q \in Nat, NEW r \in 0 .. b - 1,
           a = q * b + r
    PROVE  a % b = r
  <1> DEFINE p == a \div b
             s == a % b
  <1>1. p \in Int /\ s \in 0 .. b - 1 /\ a = b * p + s
    OBVIOUS
  <1>2. p \in Nat
    <2>1. ASSUME p < 0 PROVE FALSE
      <3>1. b * p <= -b
        BY <1>1, <2>1
      <3> QED BY <3>1, <1>1
    <2> QED BY <1>1, <2>1
  <1>3. ASSUME p < q PROVE FALSE
    <2>1. PICK d \in Nat \ {0} : q = p + d
      BY <1>2, <1>3
    <2>2. q * b = p * b + d * b
      BY <2>1, <1>2
    <2>3. d * b >= b
      BY <2>1
    <2> QED BY <1>1, <2>2, <2>3
  <1>4. ASSUME q < p PROVE FALSE
    <2>1. PICK d \in Nat \ {0} : p = q + d
      BY <1>2, <1>4
    <2>2. p * b = q * b + d * b
      BY <2>1, <1>2
    <2>3. d * b >= b
      BY <2>1
    <2> QED BY <1>1, <2>2, <2>3
  <1>5. p = q
    BY <1>2, <1>3, <1>4
  <1> QED BY <1>1, <1>5

\* the exposed bit decides between the two halves of a table twice as large
LEMMA ModSplit ==
    ASSUME NEW h \in Nat, NEW m \in Nat \ {0}
    PROVE  h % (2 * m) = IF (h \div m) % 2 = 1 THEN (h % m) + m ELSE h % m
  <1> DEFINE q == h \div m
             r == h % m
             b == q % 2
             q2 == q \div 2
  <1>1. q \in Nat /\ r \in 0 .. m - 1 /\ h = m * q + r
    OBVIOUS
  <1>2. b \in 0 .. 1 /\ q2 \in Nat /\ q = 2 * q2 + b
    BY <1>1
  <1> HIDE DEF q, r, b, q2
  <1>3. m * q = q2 * (2 * m) + b * m
    BY <1>2
  <1> DEFINE M == 2 * m
  <1>M. M \in Nat \ {0} /\ M = 2 * m
    OBVIOUS
  <1> HIDE DEF M
  <1>4. CASE b = 1
    <2> DEFINE R == m + r
    <2>1. b * m = m
      BY <1>4
    <2>2. h = q2 * M + R /\ R \in 0 .. M - 1 /\ R = r + m
      BY <1>1, <1>2, <1>3, <1>M, <2>1
    <2> HIDE DEF R
    <2>3. h % M = R
      BY <1>2, <1>M, <2>2, ModUnique
    <2> QED BY <1>4, <1>M, <2>2, <2>3, <1>1 DEF b, q, r
  <1>5. CASE b = 0
    <2>1. b * m = 0
      BY <1>5
    <2>2. q2 * (2 * m) \in Int
      BY <1>2
    <2>3. h = q2 * (2 * m) + r
      <3>1. m * q = q2 * (2 * m)
        BY <1>3, <2>1, <2>2
      <3> QED BY <1>1, <3>1
    <2>4. r \in 0 .. 2 * m - 1
      BY <1>1
    <2>5. h % M = r
      BY <1>2, <1>M, <2>3, <2>4, ModUnique
    <2> QED BY <1>5, <1>M, <2>5, <1>1 DEF b, q, r
  <1> QED BY <1>2, <1>4, <1>5

\* the powers of two, as the least set with 1 in it that is closed under doubling
Doubling(S) == 1 \in S /\ \A m \in S : 2 * m \in S
PowerOfTwo(n) == n \in Nat /\ \A S \in SUBSET Nat : Doubling(S) => n \in S

\* the powers of two are closed under doubling
LEMMA PowerDouble ==
    ASSUME NEW n, PowerOfTwo(n)
    PROVE  PowerOfTwo(2 * n)
  BY DEF PowerOfTwo, Doubling

\* a power of two that is not 1 is twice a power of two
LEMMA PowerHalf ==
    ASSUME NEW n, PowerOfTwo(n), n # 1
    PROVE  n = 2 * (n \div 2) /\ PowerOfTwo(n \div 2) /\ n > 0
  <1> DEFINE S == {1} \cup {m \in Nat : m > 0 /\ m = 2 * (m \div 2) /\ PowerOfTwo(m \div 2)}
  <1>1. PowerOfTwo(1)
    BY DEF PowerOfTwo, Doubling
  <1>2. ASSUME NEW m \in S PROVE 2 * m \in S
    <2>1. m \in Nat /\ m > 0 /\ PowerOfTwo(m)
      <3>1. CASE m = 1
        BY <3>1, <1>1
      <3>2. CASE m # 1
        <4>1. m \in Nat /\ m > 0 /\ m = 2 * (m \div 2) /\ PowerOfTwo(m \div 2)
          BY <1>2, <3>2
        <4>2. PowerOfTwo(2 * (m \div 2))
          BY <4>1, PowerDouble
        <4> QED BY <4>1, <4>2
      <3> QED BY <3>1, <3>2
    <2>2. (2 * m) \div 2 = m /\ 2 * m \in Nat /\ 2 * m > 0
      BY <2>1
    <2> QED BY <2>1, <2>2
  <1>3. S \in SUBSET Nat /\ Doubling(S)
    BY <1>2 DEF Doubling
  <1>4. n \in S
    BY <1>3 DEF PowerOfTwo
  <1> QED BY <1>4

\* the initial marks are powers of two
LEMMA InitSizes ==
    /\ PowerOfTwo(InitSize \div 2)
    /\ InitSize \div 2 \in Nat \ {0} /\ InitSize = 2 * (InitSize \div 2)
    /\ InitSize \in Nat
  <1>1. PowerOfTwo(1)
    BY DEF PowerOfTwo, Doubling
  <1>2. PowerOfTwo(2)
    BY <1>1, PowerDouble
  <1>3. PowerOfTwo(4)
    BY <1>2, PowerDouble
  <1>4. PowerOfTwo(8)
    BY <1>3, PowerDouble
  <1>5. PowerOfTwo(16)
    BY <1>4, PowerDouble
  <1>6. PowerOfTwo(32)
    BY <1>5, PowerDouble
  <1>7. InitSize \div 2 \in {1, 2, 4, 8, 16, 32} /\ InitSize = 2 * (InitSize \div 2)
    BY InitSizeAssumption
  <1> QED BY <1>1, <1>2, <1>3, <1>4, <1>5, <1>6, <1>7, InitSizeAssumption

-----------------------------------------------------------------------------
(* Tables in order.                                                        *)

Marked(h) ==
    /\ h.mask = h.nchains - 1
    /\ h.nchains = 2 * h.lowmark
    /\ h.highmark = 2 * h.nchains
    /\ PowerOfTwo(h.lowmark)
    /\ h.lowmark >= InitSize \div 2

Typed(h) ==
    /\ DOMAIN h = {"table", "nchains", "mask", "lowmark", "highmark", "nodecount"}
    /\ h.nchains \in Nat /\ h.lowmark \in Nat /\ h.highmark \in Nat
    /\ h.nodecount \in Nat /\ h.mask \in Nat
    /\ h.table \in [0 .. h.nchains - 1 -> SUBSET Key]

Placed(h) == \A c \in 0 .. h.nchains - 1 : \A k \in h.table[c] : Slot(h, k) = c

Counted(h) == IsFiniteSet(Linked(h)) /\ h.nodecount = Cardinality(Linked(h))

\* what grow_table, shrink_table, Link and Unlink keep up
Good(h) == Typed(h) /\ Marked(h) /\ Placed(h) /\ Counted(h)

\* the chain of a key exists
LEMMA SlotInRange ==
    ASSUME NEW h, Typed(h), Marked(h), NEW k \in Key
    PROVE  Slot(h, k) \in 0 .. h.nchains - 1 /\ h.nchains > 0
           /\ Slot(h, k) = HashFun[k] % h.nchains
  <1>1. h.lowmark \in Nat /\ h.lowmark > 0 /\ h.nchains \in Nat \ {0}
    BY InitSizes DEF Typed, Marked
  <1>2. HashFun[k] \in Nat /\ h.mask + 1 = h.nchains
    BY <1>1, HashFunAssumption DEF Typed, Marked
  <1> QED BY <1>1, <1>2 DEF Slot

\* a linked node is in one of the chains
LEMMA LinkedMember ==
    ASSUME NEW h, NEW k
    PROVE  k \in Linked(h) <=> \E c \in 0 .. h.nchains - 1 : k \in h.table[c]
  BY DEF Linked, Chains

\* hash_lookup finds exactly the nodes that are linked
LEMMA FoundIsLinked ==
    ASSUME NEW h, Good(h)
    PROVE  Found(h) = Linked(h)
  <1>1. ASSUME NEW k \in Found(h) PROVE k \in Linked(h)
    BY <1>1, SlotInRange, LinkedMember DEF Found, Good, Chains
  <1>2. ASSUME NEW k \in Linked(h) PROVE k \in Found(h)
    <2>1. PICK c \in 0 .. h.nchains - 1 : k \in h.table[c]
      BY <1>2, LinkedMember
    <2>2. k \in Key
      BY <2>1 DEF Good, Typed
    <2>3. Slot(h, k) = c
      BY <2>1 DEF Good, Placed
    <2> QED BY <2>1, <2>2, <2>3 DEF Found, Chains
  <1> QED BY <1>1, <1>2

\* hash_create returns an empty table in order
LEMMA NewTableGood == Good(NewTable) /\ Linked(NewTable) = {}
  <1> DEFINE h == NewTable
  <1>1. Linked(h) = {}
    <2>1. \A c \in 0 .. h.nchains - 1 : h.table[c] = {}
      BY DEF NewTable
    <2> QED BY <2>1, LinkedMember
  <1>2. Typed(h)
    BY InitSizes DEF Typed, NewTable
  <1>3. Marked(h)
    BY InitSizes DEF Marked, NewTable
  <1>4. Placed(h)
    BY DEF Placed, NewTable
  <1>5. Counted(h)
    BY <1>1, FS_EmptySet DEF Counted, NewTable
  <1> QED BY <1>1, <1>2, <1>3, <1>4, <1>5 DEF Good

\* the table with one node more
LEMMA LinkGood ==
    ASSUME NEW h, Good(h), NEW k \in Key, k \notin Linked(h)
    PROVE  Good(Link(h, k)) /\ Linked(Link(h, k)) = Linked(h) \cup {k}
  <1> DEFINE g == Link(h, k)
             i == Slot(h, k)
  <1>1. i \in 0 .. h.nchains - 1
    BY SlotInRange DEF Good
  <1>2. /\ g.table = [h.table EXCEPT ![i] = h.table[i] \cup {k}]
        /\ g.nodecount = h.nodecount + 1 /\ g.nchains = h.nchains
        /\ g.mask = h.mask /\ g.lowmark = h.lowmark /\ g.highmark = h.highmark
        /\ DOMAIN g = {"table", "nchains", "mask", "lowmark", "highmark", "nodecount"}
    BY DEF Link, Good, Typed
  <1> HIDE DEF g, i
  <1>3. Typed(g)
    BY <1>1, <1>2 DEF Good, Typed
  <1>4. Marked(g)
    BY <1>2 DEF Good, Marked
  <1>5. \A x : Slot(g, x) = Slot(h, x)
    BY <1>2 DEF Slot
  <1>6. \A c \in 0 .. h.nchains - 1 :
          g.table[c] = IF c = i THEN h.table[c] \cup {k} ELSE h.table[c]
    BY <1>1, <1>2 DEF Good, Typed
  <1>7. Placed(g)
    BY <1>2, <1>5, <1>6 DEF Good, Placed, i
  <1>8. Linked(g) = Linked(h) \cup {k}
    <2>1. \A x : x \in Linked(g) <=> \E c \in 0 .. h.nchains - 1 : x \in g.table[c]
      BY <1>2, LinkedMember
    <2>2. \A x : x \in Linked(h) <=> \E c \in 0 .. h.nchains - 1 : x \in h.table[c]
      BY LinkedMember
    <2>3. ASSUME NEW x \in Linked(g) PROVE x \in Linked(h) \cup {k}
      BY <2>1, <2>2, <2>3, <1>6
    <2>4. ASSUME NEW x \in Linked(h) PROVE x \in Linked(g)
      BY <2>1, <2>2, <2>4, <1>6
    <2>5. k \in Linked(g)
      BY <2>1, <1>1, <1>6
    <2> QED BY <2>3, <2>4, <2>5
  <1>9. Counted(g)
    BY <1>2, <1>8, FS_AddElement DEF Good, Counted
  <1> QED BY <1>3, <1>4, <1>7, <1>8, <1>9 DEF Good, g

\* the table with one node less
LEMMA UnlinkGood ==
    ASSUME NEW h, Good(h), NEW k \in Linked(h)
    PROVE  /\ Good(Unlink(h, k))
           /\ Linked(Unlink(h, k)) = Linked(h) \ {k}
           /\ Unlink(h, k).nchains = h.nchains
           /\ Unlink(h, k).nodecount = h.nodecount - 1
           /\ \A c \in 0 .. h.nchains - 1 : Unlink(h, k).table[c] = h.table[c] \ {k}
  <1> DEFINE g == Unlink(h, k)
             i == Slot(h, k)
  <1>1. k \in Key /\ i \in 0 .. h.nchains - 1 /\ k \in h.table[i]
        /\ \A c \in 0 .. h.nchains - 1 : k \in h.table[c] => c = i
    BY FoundIsLinked DEF Found, Chains, Good, Placed
  <1>2. /\ g.table = [h.table EXCEPT ![i] = h.table[i] \ {k}]
        /\ g.nodecount = h.nodecount - 1 /\ g.nchains = h.nchains
        /\ g.mask = h.mask /\ g.lowmark = h.lowmark /\ g.highmark = h.highmark
        /\ DOMAIN g = {"table", "nchains", "mask", "lowmark", "highmark", "nodecount"}
    BY DEF Unlink, Good, Typed
  <1> HIDE DEF g, i
  <1>3. \A c \in 0 .. h.nchains - 1 : g.table[c] = h.table[c] \ {k}
    BY <1>1, <1>2 DEF Good, Typed
  <1>4. Linked(g) = Linked(h) \ {k}
    <2>1. \A x : x \in Linked(g) <=> \E c \in 0 .. h.nchains - 1 : x \in g.table[c]
      BY <1>2, LinkedMember
    <2>2. \A x : x \in Linked(h) <=> \E c \in 0 .. h.nchains - 1 : x \in h.table[c]
      BY LinkedMember
    <2> QED BY <2>1, <2>2, <1>3
  <1>5. Counted(g) /\ g.nodecount \in Nat
    <2>1. /\ IsFiniteSet(Linked(h) \ {k})
          /\ Cardinality(Linked(h) \ {k}) = Cardinality(Linked(h)) - 1
      BY FS_RemoveElement DEF Good, Counted
    <2>2. Cardinality(Linked(h) \ {k}) \in Nat
      BY <2>1, FS_CardinalityType
    <2> QED BY <1>2, <1>4, <2>1, <2>2 DEF Good, Counted
  <1>6. Typed(g)
    BY <1>1, <1>2, <1>5 DEF Good, Typed
  <1>7. Marked(g)
    BY <1>2 DEF Good, Marked
  <1>8. \A x : Slot(g, x) = Slot(h, x)
    BY <1>2 DEF Slot
  <1>9. Placed(g)
    BY <1>2, <1>3, <1>8 DEF Good, Placed
  <1> QED BY <1>2, <1>3, <1>4, <1>5, <1>6, <1>7, <1>9 DEF Good, g

\* twice as many chains hold the same nodes
LEMMA GrowGood ==
    ASSUME NEW h, Good(h)
    PROVE  Good(grow_table(h)) /\ Linked(grow_table(h)) = Linked(h)
  <1> DEFINE g == grow_table(h)
             n == h.nchains
  <1>1. n \in Nat \ {0} /\ h.mask + 1 = n /\ h.mask \in Nat
    BY InitSizes DEF Good, Typed, Marked
  <1>2. (2 * h.mask + 1) - h.mask = n
    BY <1>1
  <1>3. /\ g.nchains = 2 * n /\ g.mask = 2 * h.mask + 1
        /\ g.lowmark = 2 * h.lowmark /\ g.highmark = 2 * h.highmark
        /\ g.nodecount = h.nodecount
        /\ DOMAIN g = {"table", "nchains", "mask", "lowmark", "highmark", "nodecount"}
        /\ g.table = [c \in 0 .. 2 * n - 1 |->
                        IF c < n THEN {k \in h.table[c] : ~ HasBit(k, n)}
                                 ELSE {k \in h.table[c - n] : HasBit(k, n)}]
    BY <1>2 DEF grow_table
  <1>4. /\ \A c \in 0 .. n - 1 : g.table[c] = {k \in h.table[c] : ~ HasBit(k, n)}
        /\ \A c \in 0 .. n - 1 : g.table[c + n] = {k \in h.table[c] : HasBit(k, n)}
    <2>1. ASSUME NEW c \in 0 .. n - 1
          PROVE  g.table[c] = {k \in h.table[c] : ~ HasBit(k, n)}
      <3>1. c \in 0 .. 2 * n - 1 /\ c < n
        BY <1>1
      <3> QED BY <1>3, <3>1
    <2>2. ASSUME NEW c \in 0 .. n - 1
          PROVE  g.table[c + n] = {k \in h.table[c] : HasBit(k, n)}
      <3>1. c + n \in 0 .. 2 * n - 1 /\ ~ (c + n < n) /\ (c + n) - n = c
        BY <1>1
      <3> QED BY <1>3, <3>1
    <2> QED BY <2>1, <2>2
  <1>5. h.table \in [0 .. n - 1 -> SUBSET Key]
    BY DEF Good, Typed
  <1>6. g.table \in [0 .. 2 * n - 1 -> SUBSET Key]
    <2>1. ASSUME NEW c \in 0 .. 2 * n - 1 PROVE g.table[c] \in SUBSET Key
      <3>1. CASE c < n
        <4>1. c \in 0 .. n - 1
          BY <1>1, <3>1
        <4> QED BY <4>1, <1>4, <1>5
      <3>2. CASE ~ (c < n)
        <4>1. c - n \in 0 .. n - 1 /\ (c - n) + n = c
          BY <1>1, <3>2
        <4>2. g.table[c] = {k \in h.table[c - n] : HasBit(k, n)}
          BY <4>1, <1>4
        <4> QED BY <4>1, <4>2, <1>5
      <3> QED BY <3>1, <3>2
    <2> QED BY <2>1, <1>3
  <1> HIDE DEF g
  <1>7. Typed(g)
    <2>1. /\ g.nchains \in Nat /\ g.lowmark \in Nat /\ g.highmark \in Nat
          /\ g.nodecount \in Nat /\ g.mask \in Nat
      BY <1>1, <1>3 DEF Good, Typed
    <2> QED BY <2>1, <1>3, <1>6 DEF Typed
  <1>8. Marked(g)
    <2>1. /\ n = 2 * h.lowmark /\ h.highmark = 2 * n /\ PowerOfTwo(h.lowmark)
          /\ h.lowmark >= InitSize \div 2 /\ h.lowmark \in Nat
      BY DEF Good, Marked, Typed
    <2>2. PowerOfTwo(2 * h.lowmark)
      BY <2>1, PowerDouble
    <2>3. g.mask = g.nchains - 1 /\ g.highmark = 2 * g.nchains
      BY <1>1, <1>3, <2>1
    <2>4. g.nchains = 2 * g.lowmark /\ g.lowmark >= InitSize \div 2
      BY <1>3, <2>1, InitSizes
    <2> QED BY <1>3, <2>2, <2>3, <2>4 DEF Marked
  <1>9. ASSUME NEW k \in Key
        PROVE  Slot(g, k) = IF HasBit(k, n) THEN Slot(h, k) + n ELSE Slot(h, k)
    <2>1. HashFun[k] \in Nat
      BY HashFunAssumption
    <2>2. Slot(h, k) = HashFun[k] % n /\ Slot(g, k) = HashFun[k] % (2 * n)
      BY <1>1, <1>3, <1>7, <1>8, SlotInRange DEF Good
    <2>3. HashFun[k] % (2 * n) =
            IF (HashFun[k] \div n) % 2 = 1 THEN (HashFun[k] % n) + n ELSE HashFun[k] % n
      BY <1>1, <2>1, ModSplit
    <2> QED BY <2>2, <2>3 DEF HasBit
  <1>10. Placed(g)
    <2>1. SUFFICES ASSUME NEW c \in 0 .. 2 * n - 1, NEW k \in g.table[c]
                   PROVE  Slot(g, k) = c
      BY <1>3 DEF Placed
    <2>2. k \in Key
      BY <1>6
    <2>3. CASE c < n
      <3>1. c \in 0 .. n - 1
        BY <1>1, <2>3
      <3>2. k \in h.table[c] /\ ~ HasBit(k, n)
        BY <3>1, <1>4, <2>1
      <3>3. Slot(h, k) = c
        BY <3>1, <3>2 DEF Good, Placed
      <3> QED BY <3>2, <3>3, <1>9, <2>2
    <2>4. CASE ~ (c < n)
      <3>1. c - n \in 0 .. n - 1 /\ (c - n) + n = c
        BY <1>1, <2>4
      <3>2. k \in h.table[c - n] /\ HasBit(k, n)
        BY <3>1, <1>4, <2>1
      <3>3. Slot(h, k) = c - n
        BY <3>1, <3>2 DEF Good, Placed
      <3> QED BY <3>1, <3>2, <3>3, <1>9, <2>2
    <2> QED BY <2>3, <2>4
  <1>11. Linked(g) = Linked(h)
    <2>1. ASSUME NEW k \in Linked(g) PROVE k \in Linked(h)
      <3>1. PICK c \in 0 .. 2 * n - 1 : k \in g.table[c]
        BY <2>1, <1>3, LinkedMember
      <3>2. CASE c < n
        <4>1. c \in 0 .. n - 1
          BY <1>1, <3>2
        <4> QED BY <3>1, <4>1, <1>4, LinkedMember
      <3>3. CASE ~ (c < n)
        <4>1. c - n \in 0 .. n - 1 /\ (c - n) + n = c
          BY <1>1, <3>3
        <4>2. k \in h.table[c - n]
          BY <3>1, <4>1, <1>4
        <4> QED BY <4>1, <4>2, LinkedMember
      <3> QED BY <3>2, <3>3
    <2>2. ASSUME NEW k \in Linked(h) PROVE k \in Linked(g)
      <3>1. PICK c \in 0 .. n - 1 : k \in h.table[c]
        BY <2>2, LinkedMember
      <3>2. c \in 0 .. 2 * n - 1 /\ c + n \in 0 .. 2 * n - 1
        BY <1>1
      <3>3. k \in g.table[c] \/ k \in g.table[c + n]
        BY <3>1, <1>4
      <3>4. \E d \in 0 .. 2 * n - 1 : k \in g.table[d]
        BY <3>2, <3>3
      <3> QED BY <3>4, <1>3, LinkedMember
    <2> QED BY <2>1, <2>2
  <1>12. Counted(g)
    BY <1>3, <1>11 DEF Good, Counted
  <1> QED BY <1>7, <1>8, <1>10, <1>11, <1>12 DEF Good, g

\* half as many chains hold the same nodes, and are as many as there were at first
LEMMA ShrinkGood ==
    ASSUME NEW h, Good(h), Dwindled(h)
    PROVE  Good(shrink_table(h)) /\ Linked(shrink_table(h)) = Linked(h)
  <1> DEFINE g == shrink_table(h)
             n == h.lowmark
  <1>1. /\ n \in Nat \ {0} /\ h.nchains = 2 * n /\ h.mask = 2 * n - 1
        /\ h.highmark = 4 * n /\ PowerOfTwo(n)
    BY InitSizes DEF Good, Typed, Marked
  <1>2. n > InitSize
    BY <1>1, InitSizes DEF Dwindled, Good, Typed
  <1>3. n = 2 * (n \div 2) /\ PowerOfTwo(n \div 2) /\ n \div 2 \in Nat
    BY <1>1, <1>2, PowerHalf, InitSizes
  <1>4. h.nchains \div 2 = n /\ h.mask \div 2 = n - 1 /\ h.highmark \div 2 = 2 * n
    BY <1>1
  <1>5. /\ g.nchains = n /\ g.mask = n - 1 /\ g.lowmark = n \div 2
        /\ g.highmark = 2 * n /\ g.nodecount = h.nodecount
        /\ DOMAIN g = {"table", "nchains", "mask", "lowmark", "highmark", "nodecount"}
        /\ g.table = [c \in 0 .. n - 1 |-> h.table[c] \cup h.table[c + n]]
    BY <1>4 DEF shrink_table
  <1>6. \A c \in 0 .. n - 1 : /\ c \in 0 .. h.nchains - 1
                              /\ c + n \in 0 .. h.nchains - 1
    BY <1>1
  <1>7. \A c \in 0 .. n - 1 : g.table[c] = h.table[c] \cup h.table[c + n]
    BY <1>5
  <1>8. g.table \in [0 .. n - 1 -> SUBSET Key]
    <2>1. h.table \in [0 .. h.nchains - 1 -> SUBSET Key]
      BY DEF Good, Typed
    <2>2. \A c \in 0 .. n - 1 : h.table[c] \cup h.table[c + n] \in SUBSET Key
      BY <1>6, <2>1
    <2> QED BY <1>5, <2>2
  <1> HIDE DEF g
  <1>9. Typed(g)
    <2>1. /\ g.nchains \in Nat /\ g.lowmark \in Nat /\ g.highmark \in Nat
          /\ g.nodecount \in Nat /\ g.mask \in Nat
      <3>1. h.nodecount \in Nat
        BY DEF Good, Typed
      <3>2. n - 1 \in Nat /\ 2 * n \in Nat /\ n \div 2 \in Nat /\ n \in Nat
        BY <1>1, <1>3
      <3> QED BY <3>1, <3>2, <1>5
    <2> QED BY <2>1, <1>5, <1>8 DEF Typed
  <1>10. Marked(g)
    <2>1. n \div 2 >= InitSize \div 2
      BY <1>1, <1>2, <1>3, InitSizes
    <2>2. g.mask = g.nchains - 1 /\ g.nchains = 2 * g.lowmark
          /\ g.highmark = 2 * g.nchains
      BY <1>1, <1>3, <1>5
    <2> QED BY <1>3, <1>5, <2>1, <2>2 DEF Marked
  <1>11. ASSUME NEW k \in Key
         PROVE  /\ Slot(h, k) \in 0 .. n - 1 => Slot(g, k) = Slot(h, k)
                /\ Slot(h, k) \notin 0 .. n - 1 => Slot(g, k) = Slot(h, k) - n
    <2>1. HashFun[k] \in Nat
      BY HashFunAssumption
    <2>2. Slot(g, k) = HashFun[k] % n /\ Slot(h, k) = HashFun[k] % (2 * n)
      BY <1>1, <1>5, <1>9, <1>10, SlotInRange DEF Good
    <2>3. HashFun[k] % (2 * n) =
            IF (HashFun[k] \div n) % 2 = 1 THEN (HashFun[k] % n) + n ELSE HashFun[k] % n
      BY <1>1, <2>1, ModSplit
    <2>4. HashFun[k] % n \in 0 .. n - 1
      BY <1>1, <2>1
    <2> QED BY <2>2, <2>3, <2>4, <1>1
  <1>12. Placed(g)
    <2>1. SUFFICES ASSUME NEW c \in 0 .. n - 1, NEW k \in g.table[c]
                   PROVE  Slot(g, k) = c
      BY <1>5 DEF Placed
    <2>2. k \in Key
      BY <1>8
    <2>3. CASE k \in h.table[c]
      <3>1. Slot(h, k) = c
        BY <1>6, <2>3 DEF Good, Placed
      <3> QED BY <3>1, <2>2, <1>11
    <2>4. CASE k \in h.table[c + n]
      <3>1. Slot(h, k) = c + n
        BY <1>6, <2>4 DEF Good, Placed
      <3>2. c + n \notin 0 .. n - 1 /\ (c + n) - n = c
        BY <1>1
      <3> QED BY <3>1, <3>2, <2>2, <1>11
    <2> QED BY <2>1, <2>3, <2>4, <1>7
  <1>13. Linked(g) = Linked(h)
    <2>1. ASSUME NEW k \in Linked(g) PROVE k \in Linked(h)
      <3>1. PICK c \in 0 .. n - 1 : k \in g.table[c]
        BY <2>1, <1>5, LinkedMember
      <3>2. k \in h.table[c] \/ k \in h.table[c + n]
        BY <3>1, <1>7
      <3> QED BY <3>2, <1>6, LinkedMember
    <2>2. ASSUME NEW k \in Linked(h) PROVE k \in Linked(g)
      <3>1. PICK c \in 0 .. h.nchains - 1 : k \in h.table[c]
        BY <2>2, LinkedMember
      <3>2. \E d \in 0 .. n - 1 : c = d \/ c = d + n
        <4>1. CASE c < n
          BY <4>1, <1>1
        <4>2. CASE ~ (c < n)
          <5>1. c - n \in 0 .. n - 1 /\ c = (c - n) + n
            BY <4>2, <1>1
          <5> QED BY <5>1
        <4> QED BY <4>1, <4>2
      <3>3. PICK d \in 0 .. n - 1 : c = d \/ c = d + n
        BY <3>2
      <3>4. k \in g.table[d]
        BY <3>1, <3>3, <1>7
      <3> QED BY <3>4, <1>5, LinkedMember
    <2> QED BY <2>1, <2>2
  <1>14. Counted(g)
    BY <1>5, <1>13 DEF Good, Counted
  <1> QED BY <1>9, <1>10, <1>12, <1>13, <1>14 DEF Good, g

-----------------------------------------------------------------------------
(* Scans.                                                                  *)

\* the nodes of the chains from one on
ChainsFrom(h, from) == UNION {h.table[c] : c \in from .. h.nchains - 1}

\* the nodes a scan has yet to return
Ahead(h, s) ==
    IF s.next = NoKey THEN {}
    ELSE {s.next} \cup s.behind \cup ChainsFrom(h, s.chain + 1)

ScanOK(h, s) ==
    /\ s \in [chain : Nat, next : Key \cup {NoKey}, behind : SUBSET Key]
    /\ s.next # NoKey =>
         /\ s.chain \in 0 .. h.nchains - 1
         /\ s.next \in h.table[s.chain] /\ s.next \notin s.behind
         /\ s.behind \subseteq h.table[s.chain]

\* a set of numbers has a least one
LEMMA LeastOf ==
    ASSUME NEW S \in SUBSET Nat, S # {}
    PROVE  Min(S) \in S /\ \A y \in S : Min(S) <= y
  <1>1. PICK x \in S : \A y \in S : ~ (y < x)
    <2>1. PICK x \in S : \A y \in S : ~ (<<y, x>> \in OpToRel(<, Nat))
      BY WFMin, NatLessThanWellFounded
    <2> QED BY <2>1 DEF OpToRel
  <1>2. \A y \in S : x <= y
    BY <1>1
  <1> QED BY <1>2 DEF Min

\* hash_scan_begin stands before everything from that chain on
LEMMA ScanFromOK ==
    ASSUME NEW h, Good(h), NEW from \in Nat, NEW s \in ScanFrom(h, from)
    PROVE  ScanOK(h, s) /\ Ahead(h, s) = ChainsFrom(h, from)
  <1> DEFINE used == {c \in from .. h.nchains - 1 : h.table[c] # {}}
  <1>0. h.nchains \in Nat /\ h.table \in [0 .. h.nchains - 1 -> SUBSET Key]
    BY DEF Good, Typed
  <1>1. CASE used = {}
    <2>1. s = AtEnd
      BY <1>1 DEF ScanFrom
    <2>2. ChainsFrom(h, from) = {}
      BY <1>1 DEF ChainsFrom
    <2> QED BY <2>1, <2>2 DEF ScanOK, Ahead, AtEnd
  <1>2. CASE used # {}
    <2> DEFINE m == Min(used)
    <2>1. m \in used /\ \A y \in used : m <= y
      <3>1. used \in SUBSET Nat
        BY <1>0
      <3> QED BY <3>1, <1>2, LeastOf
    <2>2. PICK k \in h.table[m] :
            s = [chain |-> m, next |-> k, behind |-> h.table[m] \ {k}]
      BY <1>2 DEF ScanFrom
    <2> HIDE DEF m
    <2>3. m \in 0 .. h.nchains - 1 /\ h.table[m] \in SUBSET Key
      BY <1>0, <2>1
    <2>4. k \in Key /\ k # NoKey
      BY <2>3, NoKeyAssumption
    <2>5. /\ s.chain = m /\ s.next = k /\ s.behind = h.table[m] \ {k}
      BY <2>2
    <2>6. ScanOK(h, s)
      <3>1. s \in [chain : Nat, next : Key \cup {NoKey}, behind : SUBSET Key]
        BY <2>2, <2>3, <2>4
      <3> QED BY <3>1, <2>3, <2>5 DEF ScanOK
    <2>7. ASSUME NEW c \in from .. h.nchains - 1
          PROVE  h.table[c] = {} \/ c = m \/ c \in m + 1 .. h.nchains - 1
      BY <1>0, <2>1, <2>3
    <2>8. ChainsFrom(h, from) = h.table[m] \cup ChainsFrom(h, m + 1)
      <3>1. ASSUME NEW x \in ChainsFrom(h, from)
            PROVE  x \in h.table[m] \cup ChainsFrom(h, m + 1)
        <4>1. PICK c \in from .. h.nchains - 1 : x \in h.table[c]
          BY <3>1 DEF ChainsFrom
        <4> QED BY <4>1, <2>7 DEF ChainsFrom
      <3>2. ASSUME NEW x \in h.table[m] \cup ChainsFrom(h, m + 1)
            PROVE  x \in ChainsFrom(h, from)
        <4>1. PICK c \in m .. h.nchains - 1 : x \in h.table[c]
          <5>1. CASE x \in h.table[m]
            BY <5>1, <2>3, <1>0
          <5>2. CASE x \in ChainsFrom(h, m + 1)
            <6>1. PICK d \in m + 1 .. h.nchains - 1 : x \in h.table[d]
              BY <5>2 DEF ChainsFrom
            <6>2. d \in m .. h.nchains - 1
              BY <2>3
            <6> QED BY <6>1, <6>2
          <5> QED BY <3>2, <5>1, <5>2
        <4>2. c \in from .. h.nchains - 1
          BY <2>1, <2>3, <1>0
        <4> QED BY <4>1, <4>2 DEF ChainsFrom
      <3> QED BY <3>1, <3>2
    <2>9. Ahead(h, s) = {k} \cup (h.table[m] \ {k}) \cup ChainsFrom(h, m + 1)
      BY <2>4, <2>5 DEF Ahead
    <2> QED BY <2>2, <2>6, <2>8, <2>9
  <1> QED BY <1>1, <1>2

\* no node is in two chains
LEMMA OneChain ==
    ASSUME NEW h, Good(h), NEW c \in 0 .. h.nchains - 1, NEW k \in h.table[c]
    PROVE  k \notin ChainsFrom(h, c + 1)
  <1>1. SUFFICES ASSUME NEW d \in c + 1 .. h.nchains - 1, k \in h.table[d]
                 PROVE  FALSE
    BY DEF ChainsFrom
  <1>2. h.nchains \in Nat
    BY DEF Good, Typed
  <1>3. d \in 0 .. h.nchains - 1 /\ d # c
    BY <1>2
  <1> QED BY <1>1, <1>3 DEF Good, Placed

\* hash_scan_next leaves all but the node it returns
LEMMA ScanNextOK ==
    ASSUME NEW h, Good(h), NEW s, ScanOK(h, s), s.next # NoKey,
           NEW t \in hash_scan_next(h, s)
    PROVE  ScanOK(h, t) /\ Ahead(h, t) = Ahead(h, s) \ {s.next}
  <1>1. /\ s.chain \in 0 .. h.nchains - 1 /\ s.next \in h.table[s.chain]
        /\ s.next \notin s.behind /\ s.behind \subseteq h.table[s.chain]
        /\ s.chain \in Nat /\ s.behind \in SUBSET Key
    BY DEF ScanOK
  <1>2. s.next \notin ChainsFrom(h, s.chain + 1)
    BY <1>1, OneChain
  <1>3. Ahead(h, s) \ {s.next} = s.behind \cup ChainsFrom(h, s.chain + 1)
    BY <1>1, <1>2 DEF Ahead
  <1>4. CASE s.behind # {}
    <2>1. PICK k \in s.behind :
            t = [chain |-> s.chain, next |-> k, behind |-> s.behind \ {k}]
      BY <1>4 DEF hash_scan_next
    <2>2. k \in Key /\ k # NoKey
      BY <1>1, NoKeyAssumption
    <2>3. t.chain = s.chain /\ t.next = k /\ t.behind = s.behind \ {k}
      BY <2>1
    <2>4. t \in [chain : Nat, next : Key \cup {NoKey}, behind : SUBSET Key]
      BY <2>1, <2>2, <1>1
    <2>5. ScanOK(h, t)
      BY <1>1, <2>3, <2>4 DEF ScanOK
    <2>6. Ahead(h, t) = {k} \cup (s.behind \ {k}) \cup ChainsFrom(h, s.chain + 1)
      BY <2>2, <2>3 DEF Ahead
    <2> QED BY <1>3, <2>5, <2>6
  <1>5. CASE s.behind = {}
    <2>1. t \in ScanFrom(h, s.chain + 1) /\ s.chain + 1 \in Nat
      BY <1>1, <1>5 DEF hash_scan_next
    <2>2. ScanOK(h, t) /\ Ahead(h, t) = ChainsFrom(h, s.chain + 1)
      BY <2>1, ScanFromOK
    <2> QED BY <1>3, <1>5, <2>2
  <1> QED BY <1>4, <1>5

\* deleting a node that is not ahead of a scan does not disturb it
LEMMA ScanUnlink ==
    ASSUME NEW h, Good(h), NEW s, ScanOK(h, s), NEW k \in Linked(h),
           k \notin Ahead(h, s)
    PROVE  ScanOK(Unlink(h, k), s) /\ Ahead(Unlink(h, k), s) = Ahead(h, s)
  <1> DEFINE g == Unlink(h, k)
  <1>1. g.nchains = h.nchains
        /\ \A c \in 0 .. h.nchains - 1 : g.table[c] = h.table[c] \ {k}
    BY UnlinkGood
  <1> HIDE DEF g
  <1>2. CASE s.next = NoKey
    BY <1>2 DEF ScanOK, Ahead, g
  <1>3. CASE s.next # NoKey
    <2>1. /\ s.chain \in 0 .. h.nchains - 1 /\ s.next \in h.table[s.chain]
          /\ s.next \notin s.behind /\ s.behind \subseteq h.table[s.chain]
      BY <1>3 DEF ScanOK
    <2>2. k # s.next /\ k \notin s.behind /\ k \notin ChainsFrom(h, s.chain + 1)
      BY <1>3 DEF Ahead
    <2>3. ScanOK(g, s)
      BY <1>1, <2>1, <2>2 DEF ScanOK
    <2>4. ChainsFrom(g, s.chain + 1) = ChainsFrom(h, s.chain + 1)
      <3>1. h.nchains \in Nat
        BY DEF Good, Typed
      <3>2. \A c \in s.chain + 1 .. h.nchains - 1 : c \in 0 .. h.nchains - 1
        BY <2>1, <3>1
      <3>3. \A c \in s.chain + 1 .. h.nchains - 1 : g.table[c] = h.table[c]
        BY <1>1, <2>2, <3>2 DEF ChainsFrom
      <3> QED BY <1>1, <3>3 DEF ChainsFrom
    <2> QED BY <1>3, <2>3, <2>4 DEF Ahead, g
  <1> QED BY <1>2, <1>3

\* the chains from the first on hold all nodes
LEMMA AllAhead ==
    ASSUME NEW h, Good(h)
    PROVE  ChainsFrom(h, 0) = Linked(h)
  BY DEF ChainsFrom, Linked, Chains

-----------------------------------------------------------------------------
(* The inductive invariant.                                                *)

Locals ==
    /\ mode \in {"none", "idle", "expire", "evict", "free"}
    /\ seen \subseteq Key
    /\ removed \in Nat /\ num \in 0 .. BatchSize
    /\ mode \in {"expire", "evict"} => removed + hash.nodecount = MaxCount
    /\ mode \notin {"expire", "evict"} => removed = 0
    /\ mode = "none" => hash = NewTable

\* what has been returned and what is ahead of the scan make up the table
Progress ==
    /\ Ahead(hash, scan) \cap seen = {}
    /\ Linked(hash) \subseteq Ahead(hash, scan) \cup seen
    /\ mode = "free" => Linked(hash) \subseteq Ahead(hash, scan)

HInv ==
    /\ Good(hash)
    /\ Locals
    /\ mode \in Scanning => ScanOK(hash, scan) /\ Progress
    /\ mode \notin Scanning => scan = AtEnd /\ seen = {}

\* a scan at its end fits every table
LEMMA AtEndOK == \A h : ScanOK(h, AtEnd)
  BY DEF ScanOK, AtEnd

\* the invariant holds before the table is created
LEMMA HInvInit == Init => HInv
  <1> SUFFICES ASSUME Init PROVE HInv
    OBVIOUS
  <1>1. Good(hash)
    BY NewTableGood DEF Init
  <1>2. Locals
    BY LimitAssumption DEF Init, Locals
  <1>3. mode \notin Scanning /\ scan = AtEnd /\ seen = {}
    BY DEF Init, Scanning
  <1> QED BY <1>1, <1>2, <1>3 DEF HInv

\* an inserted key is found, and all others as before
LEMMA InsertStep ==
    ASSUME HInv, NEW k \in Key, hash_insert(k)
    PROVE  Good(hash') /\ Linked(hash') = Linked(hash) \cup {k} /\ k \notin Linked(hash)
  <1>1. Good(hash) /\ k \notin Linked(hash)
    BY FoundIsLinked DEF HInv, hash_insert
  <1>2. PICK h \in MadeRoom(hash) : hash' = Link(h, k)
    BY DEF hash_insert
  <1>3. Good(h) /\ Linked(h) = Linked(hash)
    BY <1>1, <1>2, GrowGood DEF MadeRoom
  <1> QED BY <1>1, <1>2, <1>3, LinkGood

\* a deleted key is not found any more, and all others as before
LEMMA DeleteStep ==
    ASSUME HInv, NEW k \in Key, hash_delete(k)
    PROVE  Good(hash') /\ Linked(hash') = Linked(hash) \ {k} /\ k \in Linked(hash)
  <1>1. Good(hash) /\ k \in Linked(hash)
    BY FoundIsLinked DEF HInv, hash_delete
  <1>2. PICK h : h = IF Dwindled(hash) THEN shrink_table(hash) ELSE hash
    OBVIOUS
  <1>3. Good(h) /\ Linked(h) = Linked(hash) /\ hash' = Unlink(h, k)
    BY <1>1, <1>2, ShrinkGood DEF hash_delete
  <1> QED BY <1>1, <1>3, UnlinkGood

\* one turn of a scan loop
LEMMA TurnStep ==
    ASSUME HInv, NEW m \in Scanning, NEW d \in BOOLEAN, ScanStep(m, d), m = "free" => d
    PROVE  /\ Good(hash') /\ ScanOK(hash', scan') /\ Progress' /\ seen' \subseteq Key
           /\ scan.next \in Linked(hash)
           /\ Linked(hash') = IF d THEN Linked(hash) \ {scan.next} ELSE Linked(hash)
           /\ hash'.nodecount = hash.nodecount - (IF d THEN 1 ELSE 0)
  <1>1. /\ mode = m /\ scan.next # NoKey /\ scan' \in hash_scan_next(hash, scan)
        /\ seen' = seen \cup {scan.next} /\ mode' = mode
        /\ Good(hash) /\ ScanOK(hash, scan) /\ Progress /\ seen \subseteq Key
    BY DEF ScanStep, HInv, Locals
  <1>2. ScanOK(hash, scan') /\ Ahead(hash, scan') = Ahead(hash, scan) \ {scan.next}
    BY <1>1, ScanNextOK
  <1>3. /\ scan.next \in Linked(hash) /\ scan.next \in Key
        /\ scan.next \in Ahead(hash, scan)
    <2>1. scan.chain \in 0 .. hash.nchains - 1 /\ scan.next \in hash.table[scan.chain]
      BY <1>1 DEF ScanOK
    <2>2. scan.next \in Key
      BY <1>1 DEF ScanOK
    <2>3. scan.next \in Linked(hash)
      BY <2>1, LinkedMember
    <2> QED BY <1>1, <2>2, <2>3 DEF Ahead
  <1>4. CASE d
    <2>1. hash' = Unlink(hash, scan.next)
      BY <1>4 DEF ScanStep
    <2>2. Good(hash') /\ Linked(hash') = Linked(hash) \ {scan.next}
          /\ hash'.nodecount = hash.nodecount - 1
      BY <1>1, <1>3, <2>1, UnlinkGood
    <2>3. ScanOK(hash', scan') /\ Ahead(hash', scan') = Ahead(hash, scan) \ {scan.next}
      BY <1>1, <1>2, <1>3, <2>1, ScanUnlink
    <2>4. Progress'
      BY <1>1, <1>3, <2>2, <2>3 DEF Progress
    <2> QED BY <1>1, <1>3, <1>4, <2>2, <2>3, <2>4
  <1>5. CASE ~ d
    <2>1. hash' = hash /\ mode # "free"
      BY <1>1, <1>5 DEF ScanStep
    <2>2. Progress'
      BY <1>1, <1>2, <1>3, <2>1 DEF Progress
    <2>3. hash.nodecount \in Nat
      BY <1>1 DEF Good, Typed
    <2> QED BY <1>1, <1>2, <1>3, <1>5, <2>1, <2>2, <2>3
  <1> QED BY <1>4, <1>5

\* the start of a scan
LEMMA BeginStep ==
    ASSUME HInv, NEW m, ScanBegin(m), hash' = hash
    PROVE  Good(hash') /\ ScanOK(hash', scan') /\ Progress' /\ seen' \subseteq Key
  <1>1. Good(hash) /\ scan' \in ScanFrom(hash, 0) /\ seen' = {}
    BY DEF HInv, ScanBegin
  <1>2. ScanOK(hash, scan') /\ Ahead(hash, scan') = Linked(hash)
    BY <1>1, ScanFromOK, AllAhead
  <1> QED BY <1>1, <1>2 DEF Progress

\* every step keeps the invariant
LEMMA HInvStep == HInv /\ [Next]_vars => HInv'
  <1> SUFFICES ASSUME HInv, [Next]_vars PROVE HInv'
    OBVIOUS
  <1>0. /\ Good(hash) /\ Locals
        /\ mode \in Scanning => ScanOK(hash, scan) /\ Progress
        /\ mode \notin Scanning => scan = AtEnd /\ seen = {}
    BY DEF HInv
  <1>c. hash.nodecount \in Nat
    BY <1>0 DEF Good, Typed
  <1>1. CASE UNCHANGED vars
    <2>1. /\ hash' = hash /\ scan' = scan /\ mode' = mode /\ seen' = seen
          /\ removed' = removed /\ num' = num
      BY <1>1 DEF vars
    <2> QED BY <1>0, <2>1 DEF HInv, Locals, Progress
  <1>2. ASSUME NEW k \in Key, hash_insert(k) PROVE HInv'
    <2>1. Good(hash')
      BY <1>2, InsertStep
    <2>2. mode = "idle" /\ UNCHANGED <<scan, mode, seen, removed, num>>
      BY <1>2 DEF hash_insert
    <2>3. Locals'
      BY <1>0, <2>2 DEF Locals
    <2> QED BY <1>0, <2>1, <2>2, <2>3 DEF HInv, Scanning
  <1>3. ASSUME NEW k \in Key, hash_delete(k) PROVE HInv'
    <2>1. Good(hash')
      BY <1>3, DeleteStep
    <2>2. mode = "idle" /\ UNCHANGED <<scan, mode, seen, removed, num>>
      BY <1>3 DEF hash_delete
    <2>3. Locals'
      BY <1>0, <2>2 DEF Locals
    <2> QED BY <1>0, <2>1, <2>2, <2>3 DEF HInv, Scanning
  <1>4. ASSUME hash_create PROVE HInv'
    <2>1. /\ mode = "none" /\ mode' = "idle" /\ hash' = NewTable
          /\ UNCHANGED <<scan, seen, removed, num>>
      BY <1>4 DEF hash_create
    <2>2. Locals'
      BY <1>0, <2>1 DEF Locals
    <2> QED BY <1>0, <2>1, <2>2, NewTableGood DEF HInv, Scanning
  <1>5. ASSUME Shrink PROVE HInv'
    <2>1. /\ mode' = "expire" /\ hash' = hash /\ removed' = 0
          /\ num' = Min({BatchSize, hash.nodecount}) /\ hash.nodecount = MaxCount
          /\ ScanBegin("expire")
      BY <1>5 DEF Shrink, ScanBegin
    <2>2. Good(hash') /\ ScanOK(hash', scan') /\ Progress' /\ seen' \subseteq Key
      BY <2>1, BeginStep
    <2>3. num' \in 0 .. BatchSize
      <3>1. {BatchSize, hash.nodecount} \in SUBSET Nat
        BY <1>c, LimitAssumption
      <3>2. /\ Min({BatchSize, hash.nodecount}) \in {BatchSize, hash.nodecount}
            /\ \A y \in {BatchSize, hash.nodecount} : Min({BatchSize, hash.nodecount}) <= y
        BY <3>1, LeastOf
      <3> QED BY <2>1, <3>1, <3>2, LimitAssumption
    <2>4. Locals'
      BY <1>c, <2>1, <2>2, <2>3 DEF Locals
    <2> QED BY <2>1, <2>2, <2>4 DEF HInv, Scanning
  <1>6. ASSUME NEW d \in BOOLEAN, Expire(d) PROVE HInv'
    <2>1. /\ ScanStep("expire", d) /\ mode = "expire" /\ mode' = mode /\ num' = num
          /\ removed' = removed + (IF d THEN 1 ELSE 0)
      BY <1>6 DEF Expire, ScanStep
    <2>2. /\ Good(hash') /\ ScanOK(hash', scan') /\ Progress' /\ seen' \subseteq Key
          /\ hash'.nodecount = hash.nodecount - (IF d THEN 1 ELSE 0)
      BY <2>1, TurnStep DEF Scanning
    <2>3. Locals'
      BY <1>0, <1>c, <2>1, <2>2 DEF Locals
    <2> QED BY <2>1, <2>2, <2>3 DEF HInv, Scanning
  <1>7. ASSUME ExpireDone PROVE HInv'
    <2>1. mode = "expire" /\ hash' = hash
      BY <1>7 DEF ExpireDone
    <2>2. CASE removed < num
      <3>1. ScanBegin("evict") /\ mode' = "evict" /\ removed' = removed /\ num' = num
        BY <1>7, <2>2 DEF ExpireDone, ScanBegin
      <3>2. Good(hash') /\ ScanOK(hash', scan') /\ Progress' /\ seen' \subseteq Key
        BY <2>1, <3>1, BeginStep
      <3>3. Locals'
        BY <1>0, <2>1, <3>1, <3>2 DEF Locals
      <3> QED BY <3>1, <3>2, <3>3 DEF HInv, Scanning
    <2>3. CASE ~ (removed < num)
      <3>1. mode' = "idle" /\ scan' = AtEnd /\ seen' = {} /\ removed' = 0 /\ num' = 0
        BY <1>7, <2>3 DEF ExpireDone, ScanEnd
      <3>2. Locals'
        BY <1>0, <2>1, <3>1, LimitAssumption DEF Locals
      <3> QED BY <1>0, <2>1, <3>1, <3>2 DEF HInv, Scanning
    <2> QED BY <2>2, <2>3
  <1>8. ASSUME Evict PROVE HInv'
    <2>1. /\ ScanStep("evict", TRUE) /\ mode = "evict" /\ mode' = mode /\ num' = num
          /\ removed' = removed + 1
      BY <1>8 DEF Evict, ScanStep
    <2>2. /\ Good(hash') /\ ScanOK(hash', scan') /\ Progress' /\ seen' \subseteq Key
          /\ hash'.nodecount = hash.nodecount - 1
      BY <2>1, TurnStep DEF Scanning
    <2>3. Locals'
      BY <1>0, <1>c, <2>1, <2>2 DEF Locals
    <2> QED BY <2>1, <2>2, <2>3 DEF HInv, Scanning
  <1>9. ASSUME EvictDone PROVE HInv'
    <2>1. /\ mode' = "idle" /\ scan' = AtEnd /\ seen' = {} /\ removed' = 0 /\ num' = 0
          /\ hash' = hash
      BY <1>9 DEF EvictDone, ScanEnd
    <2>2. Locals'
      BY <1>0, <2>1, LimitAssumption DEF Locals
    <2> QED BY <1>0, <2>1, <2>2 DEF HInv, Scanning
  <1>10. ASSUME hash_free_nodes PROVE HInv'
    <2>1. /\ ScanBegin("free") /\ mode = "idle" /\ mode' = "free" /\ hash' = hash
          /\ removed' = removed /\ num' = num
      BY <1>10 DEF hash_free_nodes, ScanBegin
    <2>2. Good(hash') /\ ScanOK(hash', scan') /\ Progress' /\ seen' \subseteq Key
      BY <2>1, BeginStep
    <2>3. Locals'
      BY <1>0, <2>1, <2>2 DEF Locals
    <2> QED BY <2>1, <2>2, <2>3 DEF HInv, Scanning
  <1>11. ASSUME FreeNode PROVE HInv'
    <2>1. /\ ScanStep("free", TRUE) /\ mode = "free" /\ mode' = mode /\ num' = num
          /\ removed' = removed
      BY <1>11 DEF FreeNode, ScanStep
    <2>2. /\ Good(hash') /\ ScanOK(hash', scan') /\ Progress' /\ seen' \subseteq Key
      BY <2>1, TurnStep DEF Scanning
    <2>3. Locals'
      BY <1>0, <2>1, <2>2 DEF Locals
    <2> QED BY <2>1, <2>2, <2>3 DEF HInv, Scanning
  <1>12. ASSUME hash_destroy PROVE HInv'
    <2>1. /\ mode' = "none" /\ scan' = AtEnd /\ seen' = {} /\ removed' = 0 /\ num' = 0
          /\ hash' = NewTable
      BY <1>12 DEF hash_destroy, ScanEnd
    <2>2. Locals'
      BY <2>1, LimitAssumption DEF Locals
    <2> QED BY <2>1, <2>2, NewTableGood DEF HInv, Scanning
  <1> QED
    BY <1>1, <1>2, <1>3, <1>4, <1>5, <1>6, <1>7, <1>8, <1>9, <1>10, <1>11, <1>12
    DEF Next

-----------------------------------------------------------------------------
(* Theorems.                                                               *)

\* The inductive invariant holds throughout.
THEOREM HashInductive == Spec => []HInv
  BY HInvInit, HInvStep, PTL DEF Spec

\* The control structure keeps its types, whatever is inserted, deleted and
\* scanned in which order: no count of hash_t goes below zero.
THEOREM HashTypeCorrect == Spec => []HashTypeOK
  <1>1. HInv => HashTypeOK
    <2> SUFFICES ASSUME HInv PROVE HashTypeOK
      OBVIOUS
    <2>1. Typed(hash) /\ Marked(hash) /\ Locals
      BY DEF HInv, Good
    <2>2. hash.nchains \in Nat \ {0}
      BY <2>1, InitSizes DEF Typed, Marked
    <2>3. scan \in [chain : Nat, next : Key \cup {NoKey}, behind : SUBSET Key]
      BY AtEndOK DEF HInv, ScanOK
    <2>4. removed \in 0 .. MaxCount
      <3>1. hash.nodecount \in Nat
        BY <2>1 DEF Typed
      <3> QED BY <2>1, <3>1, LimitAssumption DEF Locals
    <2> QED BY <2>1, <2>2, <2>3, <2>4 DEF HashTypeOK, Typed, Locals, Chains
  <1> QED BY <1>1, HashInductive, PTL

\* A number that every doubling set holds is in every set that doubles up to it.
LEMMA PowerBounded ==
    ASSUME NEW n, PowerOfTwo(n), n > 0
    PROVE  is_power_of_two(n)
  <1> SUFFICES ASSUME NEW S \in SUBSET (0 .. n), 1 \in S,
                      \A m \in S : 2 * m <= n => 2 * m \in S
               PROVE  n \in S
    BY DEF is_power_of_two
  <1> n \in Nat
    BY DEF PowerOfTwo
  <1> DEFINE T == S \cup {m \in Nat : m > n}
  <1>1. T \in SUBSET Nat
    <2>1. \A m \in 0 .. n : m \in Nat
      OBVIOUS
    <2> QED BY <2>1
  <1>2. 1 \in T /\ \A m \in T : 2 * m \in T
    <2> SUFFICES ASSUME NEW m \in T PROVE 2 * m \in T
      OBVIOUS
    <2>1. m \in Nat /\ 2 * m \in Nat
      OBVIOUS
    <2>2. CASE 2 * m <= n
      BY <2>1, <2>2
    <2>3. CASE 2 * m > n
      BY <2>1, <2>3
    <2> QED BY <2>1, <2>2, <2>3
  <1>3. n \in T
    BY <1>1, <1>2 DEF PowerOfTwo, Doubling
  <1> QED BY <1>3

\* Whatever the sequence of insertions, deletions and failed growths, what hash_verify
\* asserts holds: every node is in the chain of its hash value and counted, and the
\* marks and the size keep to their powers of two from the initial size up.
THEOREM TableVerified == Spec => []hash_verify
  <1>1. HInv => MarksVerified
    <2> SUFFICES ASSUME HInv PROVE MarksVerified
      OBVIOUS
    <2>1. Typed(hash) /\ Marked(hash)
      BY DEF HInv, Good
    <2>2. hash.lowmark \in Nat /\ hash.lowmark > 0 /\ hash.nchains >= InitSize
      BY <2>1, InitSizes DEF Typed, Marked
    <2>3. is_power_of_two(hash.lowmark)
      BY <2>1, <2>2, PowerBounded DEF Marked
    <2> QED BY <2>1, <2>2, <2>3 DEF Marked, MarksVerified
  <1>2. HInv => ChainsVerified
    BY DEF HInv, Good, Placed, Counted, ChainsVerified, Chains
  <1> QED BY <1>1, <1>2, HashInductive, PTL DEF hash_verify

\* A scan never touches a node that was deleted, and returns none twice.
THEOREM ScansSound == Spec => []ScanSound
  <1>1. HInv => ScanSound
    <2> SUFFICES ASSUME HInv, mode \in Scanning, scan.next # NoKey
                 PROVE  scan.next \in Found(hash) /\ scan.next \notin seen
      BY DEF ScanSound
    <2>1. Good(hash) /\ ScanOK(hash, scan) /\ Progress
      BY DEF HInv
    <2>2. scan.chain \in 0 .. hash.nchains - 1 /\ scan.next \in hash.table[scan.chain]
      BY <2>1 DEF ScanOK
    <2>3. scan.next \in Linked(hash)
      BY <2>2, LinkedMember
    <2>4. scan.next \in Ahead(hash, scan)
      BY DEF Ahead
    <2> QED BY <2>1, <2>3, <2>4, FoundIsLinked DEF Progress
  <1> QED BY <1>1, HashInductive, PTL

\* A scan comes by every entry; hash_free_nodes leaves no node in the chains it
\* resets.
THEOREM ScansComplete == Spec => []ScanComplete
  <1>1. HInv => ScanComplete
    BY DEF HInv, Progress, Ahead, ScanComplete
  <1> QED BY <1>1, HashInductive, PTL

\* Through hash_lookup the table is a set that changes by the key that is
\* inserted or deleted.
THEOREM HashRefinement == Spec => ImplementsContents
  <1>1. Init => Contents!Init
    BY NewTableGood, FoundIsLinked DEF Init, Contents!Init
  <1>2. HInv /\ HInv' /\ [Next]_vars => [Contents!Next]_(Found(hash))
    <2> SUFFICES ASSUME HInv, HInv', [Next]_vars
                 PROVE  Contents!Next \/ Found(hash)' = Found(hash)
      OBVIOUS
    <2>0. /\ Good(hash) /\ Good(hash') /\ Found(hash) = Linked(hash)
          /\ Found(hash') = Linked(hash')
      BY FoundIsLinked DEF HInv
    <2>u. ASSUME hash' = hash PROVE Found(hash)' = Found(hash)
      BY <2>u DEF Found, Slot, Chains
    <2>r. ASSUME NEW k \in Key, k \in Linked(hash), Linked(hash') = Linked(hash) \ {k}
          PROVE  Contents!Next
      BY <2>0, <2>r DEF Contents!Next, Contents!Remove
    <2>t. ASSUME NEW m \in Scanning, NEW d \in BOOLEAN, ScanStep(m, d), m = "free" => d
          PROVE  Contents!Next \/ Found(hash)' = Found(hash)
      <3>1. /\ scan.next \in Linked(hash)
            /\ Linked(hash') = IF d THEN Linked(hash) \ {scan.next} ELSE Linked(hash)
        BY <2>t, TurnStep
      <3>2. scan.next \in Key
        BY <2>0, <3>1 DEF Found
      <3>3. CASE d
        BY <3>1, <3>2, <3>3, <2>r
      <3>4. CASE ~ d
        BY <3>4, <2>t, <2>u DEF ScanStep
      <3> QED BY <3>3, <3>4
    <2>1. ASSUME NEW k \in Key, hash_insert(k) PROVE Contents!Next
      <3>1. Linked(hash') = Linked(hash) \cup {k} /\ k \notin Linked(hash)
        BY <2>1, InsertStep
      <3> QED BY <2>0, <3>1 DEF Contents!Next, Contents!Add
    <2>2. ASSUME NEW k \in Key, hash_delete(k) PROVE Contents!Next
      <3>1. Linked(hash') = Linked(hash) \ {k} /\ k \in Linked(hash)
        BY <2>2, DeleteStep
      <3> QED BY <3>1, <2>r
    <2>3. ASSUME hash_create PROVE hash' = hash
      BY <2>3 DEF hash_create, HInv, Locals
    <2>4. ASSUME hash_destroy PROVE Found(hash)' = Found(hash)
      <3>1. hash' = NewTable /\ Linked(hash) = {}
        BY <2>4 DEF hash_destroy, HInv, Progress, Ahead, Scanning
      <3>2. Found(hash') = Found(hash)
        BY <2>0, <3>1, NewTableGood
      <3> QED BY <3>2
    <2>5. ASSUME NEW d \in BOOLEAN, Expire(d)
          PROVE  Contents!Next \/ Found(hash)' = Found(hash)
      BY <2>5, <2>t DEF Expire, Scanning
    <2>6. ASSUME Evict PROVE Contents!Next \/ Found(hash)' = Found(hash)
      BY <2>6, <2>t DEF Evict, Scanning
    <2>7. ASSUME FreeNode PROVE Contents!Next \/ Found(hash)' = Found(hash)
      BY <2>7, <2>t DEF FreeNode, Scanning
    <2>8. ASSUME Shrink \/ ExpireDone \/ EvictDone \/ hash_free_nodes \/ UNCHANGED vars
          PROVE  hash' = hash
      BY <2>8 DEF Shrink, ExpireDone, EvictDone, hash_free_nodes, vars
    <2> QED
      BY <2>u, <2>1, <2>2, <2>3, <2>4, <2>5, <2>6, <2>7, <2>8 DEF Next
  <1> QED BY <1>1, <1>2, HashInductive, PTL DEF Spec, ImplementsContents, Contents!Spec
============================================================================
