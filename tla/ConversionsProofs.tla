-------------------------- MODULE ConversionsProofs --------------------------
(***************************************************************************)
(* What is proved about the conversions for every length of data, every    *)
(* path and every time.  The inductive invariant says, for each kind of    *)
(* journey, which conversion made each of its stations.                    *)
(***************************************************************************)
EXTENDS Conversions, TLAPS

\* Appending a value to a sequence of any values.
LEMMA Appended ==
    ASSUME NEW s, \E S : s \in Seq(S), NEW x
    PROVE  /\ \E S : Append(s, x) \in Seq(S)
           /\ Len(s) \in Nat
           /\ Len(Append(s, x)) = Len(s) + 1
           /\ \A i \in 1 .. Len(s) : Append(s, x)[i] = s[i]
           /\ Append(s, x)[Len(s) + 1] = x
<1>1. PICK S : s \in Seq(S)
  OBVIOUS
<1>2. s \in Seq(S \cup {x}) /\ x \in S \cup {x}
  BY <1>1
<1>3. Append(s, x) \in Seq(S \cup {x})
  BY <1>2
<1>4. Len(s) \in Nat /\ Len(Append(s, x)) = Len(s) + 1
  BY <1>2
<1>5. \A i \in 1 .. Len(s) : Append(s, x)[i] = s[i]
  BY <1>2
<1>6. Append(s, x)[Len(s) + 1] = x
  BY <1>2
<1> QED
  BY <1>3, <1>4, <1>5, <1>6

\* A station of a journey is appended to what there is.
LEMMA NextStation ==
    ASSUME NEW x, \E S : trip \in Seq(S), Becomes(x)
    PROVE  /\ kind' = kind
           /\ \E S : trip' \in Seq(S)
           /\ Len(trip) \in Nat
           /\ Len(trip') = Len(trip) + 1
           /\ \A i \in 1 .. Len(trip) : trip'[i] = trip[i]
           /\ trip'[Len(trip) + 1] = x
<1>1. kind' = kind /\ trip' = Append(trip, x)
  BY DEF Becomes
<1>2. /\ \E S : Append(trip, x) \in Seq(S)
      /\ Len(trip) \in Nat
      /\ Len(Append(trip, x)) = Len(trip) + 1
      /\ \A i \in 1 .. Len(trip) : Append(trip, x)[i] = trip[i]
      /\ Append(trip, x)[Len(trip) + 1] = x
  BY Appended, Zenon
<1> QED
  BY <1>1, <1>2, Zenon

-----------------------------------------------------------------------------
(* The operators.                                                          *)

\* With "/" exported the joined path is a byte longer than its buffer, otherwise it
\* fills it, and it ends with a separator only if the request is "/" or does.
LEMMA FullPath ==
    ASSUME NEW d \in Folder, NEW r \in Request
    PROVE  LET j == path_join(d, r)
               extra == IF Root(d) THEN 1 ELSE 0
           IN /\ j.written = j.buffer + extra
              /\ j.separators = 1 + extra
              /\ j.path \in Request
<1>1. /\ d.len \in Nat /\ d.first = TRUE /\ d.last \in BOOLEAN /\ d.len # 0
      /\ d.last => d.len = 1
      /\ d.len = 1 => d.last
  BY DEF Folder, Path
<1>2. r.len \in Nat /\ r.first = TRUE /\ r.last \in BOOLEAN /\ r.len # 0
  BY DEF Request, Path
<1>3. ~ add_seperator(d, r)
  BY <1>1, <1>2 DEF add_seperator
<1>4. lenpathjoined(d, r) = (IF d.last THEN d.len ELSE d.len + 1) + (r.len - 1)
  BY <1>1, <1>2 DEF lenpathjoined
<1>5. path_join(d, r) =
        [buffer |-> (IF d.last THEN d.len ELSE d.len + 1) + (r.len - 1) + 1,
         written |-> d.len + 0 + r.len + 1,
         path |-> [len |-> d.len + 0 + r.len, first |-> TRUE, last |-> r.last],
         separators |-> (IF d.last THEN 1 ELSE 0) + 0 + 1]
  BY <1>1, <1>2, <1>3, <1>4 DEF path_join
<1>6. d.len + 0 + r.len \in Nat /\ d.len + 0 + r.len # 0 /\ d.len + 0 + r.len # 1
  BY <1>1, <1>2
<1>7. path_join(d, r).path \in Request
  BY <1>2, <1>5, <1>6 DEF Request, Path
<1>8. Root(d) <=> d.last
  BY <1>1 DEF Root
<1>9. CASE d.last
  <2>1. /\ path_join(d, r).written = d.len + r.len + 1
        /\ path_join(d, r).buffer = d.len + (r.len - 1) + 1
        /\ path_join(d, r).separators = 2
    BY <1>1, <1>2, <1>5, <1>9
  <2> QED
    BY <1>1, <1>2, <1>7, <1>8, <1>9, <2>1
<1>10. CASE ~ d.last
  <2>1. /\ path_join(d, r).written = d.len + r.len + 1
        /\ path_join(d, r).buffer = d.len + 1 + (r.len - 1) + 1
        /\ path_join(d, r).separators = 1
    BY <1>1, <1>2, <1>5, <1>10
  <2> QED
    BY <1>1, <1>2, <1>7, <1>8, <1>10, <2>1
<1> QED
  BY <1>1, <1>9, <1>10

\* The path of a directory entry always fits.
LEMMA EntryPath ==
    ASSUME NEW p \in Request, NEW n \in Name
    PROVE  LET j == path_join(p, n) IN j.written = j.buffer /\ j.separators = 1
<1>1. p.len \in Nat /\ p.first = TRUE /\ p.last \in BOOLEAN /\ p.len # 0
  BY DEF Request, Path
<1>2. n.len \in Nat /\ n.first = FALSE /\ n.last = FALSE /\ n.len # 0
  BY DEF Name, Path
<1>3. CASE p.last
  <2>1. ~ add_seperator(p, n) /\ lenpathjoined(p, n) = p.len + n.len
    BY <1>1, <1>2, <1>3 DEF add_seperator, lenpathjoined
  <2>2. /\ path_join(p, n).buffer = p.len + n.len + 1
        /\ path_join(p, n).written = p.len + 0 + n.len + 1
        /\ path_join(p, n).separators = 1 + 0 + 0
    BY <1>1, <1>2, <1>3, <2>1 DEF path_join
  <2> QED
    BY <1>1, <1>2, <2>2
<1>4. CASE ~ p.last
  <2>1. add_seperator(p, n) /\ lenpathjoined(p, n) = p.len + 1 + n.len
    BY <1>1, <1>2, <1>4 DEF add_seperator, lenpathjoined
  <2>2. /\ path_join(p, n).buffer = p.len + 1 + n.len + 1
        /\ path_join(p, n).written = p.len + 1 + n.len + 1
        /\ path_join(p, n).separators = 0 + 1 + 0
    BY <1>1, <1>2, <1>4, <2>1 DEF path_join
  <2> QED
    BY <1>1, <1>2, <2>2
<1> QED
  BY <1>1, <1>3, <1>4

\* A single run of literals exceeds the buffer by at most two bytes, and not from
\* 24500 bytes on.
LEMMA LiteralsExcess ==
    ASSUME NEW n \in Nat, n > 100
    PROVE  /\ Literals(n) <= n + n \div 250 + 2
           /\ n >= 24500 => Literals(n) <= n + n \div 250
<1>1. Literals(n) = n + 2 + (n - 15) \div 255
  BY DEF Literals
<1>2. (n - 15) \div 255 <= n \div 250
  OBVIOUS
<1>3. n >= 24500 => (n - 15) \div 255 + 2 <= n \div 250
  OBVIOUS
<1>4. (n - 15) \div 255 \in Int /\ n \div 250 \in Int
  OBVIOUS
<1> QED
  BY <1>1, <1>2, <1>3, <1>4

\* What is written past the end of the block's buffer is bounded.
Bounded(b) ==
    b.len > b.allocated =>
        /\ b.compression = "LZ4" /\ b.len > b.size
        /\ b.len <= b.allocated + 2
        /\ b.size < 24500

\* The payload p as it arrives.
Arrived(p) == [len |-> p.len, bytes |-> IF p.len = 0 THEN "" ELSE "data"]

\* The block b holds the payload p.
Holds(p, b) == b.size = p.len /\ DataBlock_get_data(b) = Arrived(p) /\ Bounded(b)

\* What DataBlock_set_data makes of a payload, and what is read from it.
LEMMA BlockOf ==
    ASSUME NEW p \in Payload
    PROVE  Holds(p, DataBlock_set_data(p))
<1>1. p.len \in Nat /\ p.lz4 \in Nat /\ p.lz4 <= Literals(p.len) /\ p.bytes = "data"
  <2>1. p.len \in Nat /\ p.lz4 \in 1 .. Literals(p.len) /\ p.bytes = "data" /\ p.lz4 \in Nat
    BY DEF Payload
  <2>2. Literals(p.len) \in Int
    BY <2>1 DEF Literals
  <2> QED
    BY <2>1, <2>2
<1>2. CASE p.len = 0
  BY <1>2 DEF DataBlock_set_data, DataBlock_create, DataBlock_get_data,
              get_uncompressed_data, Holds, Bounded, Arrived
<1>3. CASE p.len # 0 /\ p.len > 100 /\ p.memory
  <2>1. DataBlock_set_data(p) =
          [size |-> p.len, bytes |-> "data", coded |-> TRUE, len |-> p.lz4,
           compression |-> "LZ4", allocated |-> p.len + p.len \div 250]
    BY <1>1, <1>3 DEF DataBlock_set_data, set_lz4_compressed_data, Coded
  <2>2. DataBlock_get_data(DataBlock_set_data(p)) = [len |-> p.len, bytes |-> "data"]
    BY <2>1 DEF DataBlock_get_data, get_lz4_compressed_data
  <2>3. /\ Literals(p.len) <= p.len + p.len \div 250 + 2
        /\ p.len >= 24500 => Literals(p.len) <= p.len + p.len \div 250
    BY <1>1, <1>3, LiteralsExcess
  <2>4. Literals(p.len) \in Int /\ p.len \div 250 \in Nat
    BY <1>1 DEF Literals
  <2>5. p.lz4 > p.len + p.len \div 250 =>
          p.lz4 > p.len /\ p.lz4 <= p.len + p.len \div 250 + 2 /\ p.len < 24500
    BY <1>1, <2>3, <2>4
  <2> QED
    BY <1>3, <2>1, <2>2, <2>5 DEF Holds, Bounded, Arrived
<1>4. CASE p.len # 0 /\ ~ (p.len > 100 /\ p.memory)
  <2>1. DataBlock_set_data(p) =
          [size |-> p.len, bytes |-> "data", coded |-> FALSE, len |-> p.len,
           compression |-> "NONE", allocated |-> p.len]
    BY <1>1, <1>4 DEF DataBlock_set_data, Uncompressed
  <2>2. DataBlock_get_data(DataBlock_set_data(p)) = [len |-> p.len, bytes |-> "data"]
    BY <2>1 DEF DataBlock_get_data, get_uncompressed_data
  <2>3. ~ (p.len > p.len)
    BY <1>1
  <2> QED
    BY <1>4, <2>1, <2>2, <2>3 DEF Holds, Bounded, Arrived
<1>5. \/ p.len = 0
      \/ p.len # 0 /\ p.len > 100 /\ p.memory
      \/ p.len # 0 /\ ~ (p.len > 100 /\ p.memory)
  OBVIOUS
<1> QED
  BY <1>2, <1>3, <1>4, <1>5

\* Rounding down.
LEMMA Rounded ==
    ASSUME NEW n \in Nat
    PROVE  (n \div 1000) * 1000 = n - (n % 1000)
<1>1. n % 1000 = n - 1000 * (n \div 1000)
  OBVIOUS
<1> QED
  BY <1>1

\* A second has a whole number of microseconds.
LEMMA Thousands ==
    Billion \in Nat /\ \E k \in Nat : Billion = 1000 * k
<1>1. Billion = 1000 * 1000000
  BY SMT DEF Billion
<1> QED
  BY <1>1, SMT

\* A time of which the microseconds were taken comes back with these, and from
\* then on unchanged.
LEMMA Micros ==
    ASSUME NEW t \in Time
    PROVE  LET u == LocalTime(t.sec, t.nsec \div 1000) IN
           /\ u = Truncated(t)
           /\ LocalTime(u.sec, u.nsec \div 1000) = u
<1>1. t.nsec \in Nat
  <2>1. t.nsec \in 0 .. Billion - 1
    BY SMT DEF Time
  <2> QED
    BY <2>1, Thousands, SMT
<1>2. (t.nsec \div 1000) * 1000 = t.nsec - (t.nsec % 1000)
  BY <1>1, Rounded
<1>3. (((t.nsec \div 1000) * 1000) \div 1000) * 1000 = (t.nsec \div 1000) * 1000
  BY <1>1
<1> QED
  BY <1>2, <1>3 DEF LocalTime, Truncated

\* Of a mode, each class of users gets its three bits.
LEMMA ClassBits ==
    ASSUME NEW n \in Nat
    PROVE  Bits(PermissionSet(n)) = n % 8
<1>1. Bits(PermissionSet(n)) = If(HasBit(n, 4), 4) + If(HasBit(n, 2), 2) + If(HasBit(n, 1), 1)
  BY Zenon DEF Bits, PermissionSet
<1>2. /\ HasBit(n, 4) <=> (n \div 4) % 2 = 1
      /\ HasBit(n, 2) <=> (n \div 2) % 2 = 1
      /\ HasBit(n, 1) <=> n % 2 = 1
  BY DEF HasBit
<1>3. (IF (n \div 4) % 2 = 1 THEN 4 ELSE 0)
        + (IF (n \div 2) % 2 = 1 THEN 2 ELSE 0) + (IF n % 2 = 1 THEN 1 ELSE 0) = n % 8
  OBVIOUS
<1> QED BY <1>1, <1>2, <1>3 DEF If

\* The nine permission bits of a mode come back, and only these
\* (Permissions_create, Permissions_to_bitmask).
LEMMA NineBits ==
    ASSUME NEW n \in Nat
    PROVE  Permissions_to_bitmask(Permissions_create(n)) = n % 512
<1>2. n \div 64 \in Nat /\ n \div 8 \in Nat
  OBVIOUS
<1>3. /\ Bits(PermissionSet(n \div 64)) = (n \div 64) % 8
      /\ Bits(PermissionSet(n \div 8)) = (n \div 8) % 8
      /\ Bits(PermissionSet(n)) = n % 8
  BY <1>2, ClassBits
<1>4. 64 * ((n \div 64) % 8) + 8 * ((n \div 8) % 8) + (n % 8) = n % 512
  <2>1. PICK a \in Nat : a = n \div 8 OBVIOUS
  <2>2. PICK b \in Nat : b = n \div 64 OBVIOUS
  <2>3. PICK c \in Nat : c = n \div 512 OBVIOUS
  <2>4. n = 8 * a + (n % 8) BY <2>1
  <2>5. b = a \div 8 BY <2>1, <2>2
  <2>6. a = 8 * b + (a % 8) BY <2>5
  <2>7. c = b \div 8 BY <2>2, <2>3
  <2>8. b = 8 * c + (b % 8) BY <2>7
  <2>9. n = 512 * c + (n % 512) BY <2>3
  <2> QED BY <2>1, <2>2, <2>4, <2>6, <2>8, <2>9
<1>5. Permissions_to_bitmask(Permissions_create(n)) =
        64 * Bits(PermissionSet(n \div 64)) + 8 * Bits(PermissionSet(n \div 8))
          + Bits(PermissionSet(n))
  BY Zenon DEF Permissions_to_bitmask, Permissions_create
<1> QED BY <1>3, <1>4, <1>5

\* The bit of the owner's permission to write is among the nine.
LEMMA OwnerWrite ==
    ASSUME NEW n \in Nat
    PROVE  HasBit(n % 512, 128) <=> HasBit(n, 128)
<1>1. PICK a \in Nat : a = n \div 128 OBVIOUS
<1>2. PICK c \in Nat : c = n \div 512 OBVIOUS
<1>3. PICK b \in Nat : b = (n % 512) \div 128 OBVIOUS
<1>4. a = 4 * c + b BY <1>1, <1>2, <1>3
<1>5. a % 2 = b % 2 BY <1>4
<1> QED BY <1>1, <1>3, <1>5 DEF HasBit

\* What ServeDir_op_create makes of the nine bits that were asked for.
Writable(bits) == bits + If(~HasBit(bits, S_IWUSR), S_IWUSR)

\* A file type comes back, and a mode without a type is one of a regular file
\* (FileType_from_local, FileType_to_local).
LEMMA TypeBack ==
    ASSUME NEW type \in FileTypes \cup {"none"}
    PROVE  FileType_to_local(FileType_from_local(type))
             = IF type = "none" THEN "S_IFREG" ELSE type
<1>1. CASE type = "S_IFDIR" BY <1>1 DEF FileType_from_local, FileType_to_local
<1>2. CASE type = "S_IFCHR" BY <1>2 DEF FileType_from_local, FileType_to_local
<1>3. CASE type = "S_IFBLK" BY <1>3 DEF FileType_from_local, FileType_to_local
<1>4. CASE type = "S_IFIFO" BY <1>4 DEF FileType_from_local, FileType_to_local
<1>5. CASE type = "S_IFLNK" BY <1>5 DEF FileType_from_local, FileType_to_local
<1>6. CASE type = "S_IFSOCK" BY <1>6 DEF FileType_from_local, FileType_to_local
<1>7. CASE type \in {"S_IFREG", "none"}
  BY <1>7 DEF FileType_from_local, FileType_to_local
<1> QED BY <1>1, <1>2, <1>3, <1>4, <1>5, <1>6, <1>7 DEF FileTypes

\* the flags of open that are not the access mode
Effects == {O.CREAT, O.EXCL, O.TRUNC, O.APPEND}

\* The flags of open come back: the access mode, and the four others one by one
\* (OpenFlags_from_bitmask, OpenFlags_to_bitmask).
LEMMA FlagsBack ==
    ASSUME NEW n \in Nat
    PROVE  LET m == OpenFlags_to_bitmask(OpenFlags_from_bitmask(n)) IN
           /\ m % 4 = n % 4
           /\ \A b \in Effects : HasBit(m, b) <=> HasBit(n, b)
           /\ m < 2048
<1> DEFINE flags == OpenFlags_from_bitmask(n)
           m == OpenFlags_to_bitmask(flags)
           Bit(b) == IF (n \div b) % 2 = 1 THEN 1 ELSE 0
<1>1. /\ flags.RDONLY = HasBit(n, 0) /\ flags.WRONLY = HasBit(n, 1)
      /\ flags.RDWR = HasBit(n, 2) /\ flags.CREAT = HasBit(n, 64)
      /\ flags.EXCL = HasBit(n, 128) /\ flags.TRUNC = HasBit(n, 512)
      /\ flags.APPEND = HasBit(n, 1024)
  <2>1. /\ O.RDONLY = 0 /\ O.WRONLY = 1 /\ O.RDWR = 2 /\ O.CREAT = 64 /\ O.EXCL = 128
        /\ O.TRUNC = 512 /\ O.APPEND = 1024
        /\ DOMAIN O = {"RDONLY", "WRONLY", "RDWR", "CREAT", "EXCL", "TRUNC", "APPEND"}
    BY DEF O
  <2>2. \A f \in DOMAIN O : flags[f] = HasBit(n, O[f])
    BY Zenon DEF OpenFlags_from_bitmask
  <2>3. /\ flags.RDONLY = HasBit(n, O.RDONLY) /\ flags.WRONLY = HasBit(n, O.WRONLY)
        /\ flags.RDWR = HasBit(n, O.RDWR) /\ flags.CREAT = HasBit(n, O.CREAT)
        /\ flags.EXCL = HasBit(n, O.EXCL) /\ flags.TRUNC = HasBit(n, O.TRUNC)
        /\ flags.APPEND = HasBit(n, O.APPEND)
    <3> HIDE DEF flags
    <3> QED BY <2>1, <2>2
  <2> HIDE DEF flags
  <2> QED BY <2>1, <2>3
<1>s. m = If(HasBit(n, 0), 0) + If(HasBit(n, 1), 1) + If(HasBit(n, 2), 2)
          + If(HasBit(n, 64), 64) + If(HasBit(n, 128), 128) + If(HasBit(n, 512), 512)
          + If(HasBit(n, 1024), 1024)
  <2>1. /\ O.RDONLY = 0 /\ O.WRONLY = 1 /\ O.RDWR = 2 /\ O.CREAT = 64 /\ O.EXCL = 128
        /\ O.TRUNC = 512 /\ O.APPEND = 1024
    BY DEF O
  <2>2. m = If(flags.RDONLY, O.RDONLY) + If(flags.WRONLY, O.WRONLY)
            + If(flags.RDWR, O.RDWR) + If(flags.CREAT, O.CREAT)
            + If(flags.EXCL, O.EXCL) + If(flags.TRUNC, O.TRUNC)
            + If(flags.APPEND, O.APPEND)
    BY Zenon DEF OpenFlags_to_bitmask
  <2> HIDE DEF flags, m
  <2> QED BY <1>1, <2>1, <2>2
<1>2. PICK a \in {0, 1} : a = IF n % 2 = 1 THEN 1 ELSE 0 OBVIOUS
<1>3. PICK c \in {0, 1} : c = Bit(2) OBVIOUS
<1>4. PICK d \in {0, 1} : d = Bit(64) OBVIOUS
<1>5. PICK e \in {0, 1} : e = Bit(128) OBVIOUS
<1>6. PICK f \in {0, 1} : f = Bit(512) OBVIOUS
<1>7. PICK g \in {0, 1} : g = Bit(1024) OBVIOUS
<1> HIDE DEF flags, m
<1>8. m = 0 + a + 2 * c + 64 * d + 128 * e + 512 * f + 1024 * g
  BY <1>s, <1>2, <1>3, <1>4, <1>5, <1>6, <1>7 DEF If, HasBit
<1>9. m % 4 = a + 2 * c /\ m < 2048
  BY <1>8
<1>10. n % 4 = a + 2 * c
  BY <1>2, <1>3
<1>11. /\ (m \div 64) % 2 = d /\ (m \div 128) % 2 = e
       /\ (m \div 512) % 2 = f /\ (m \div 1024) % 2 = g
  BY <1>8
<1>12. /\ HasBit(m, 64) <=> HasBit(n, 64)
       /\ HasBit(m, 128) <=> HasBit(n, 128)
       /\ HasBit(m, 512) <=> HasBit(n, 512)
       /\ HasBit(m, 1024) <=> HasBit(n, 1024)
  BY <1>4, <1>5, <1>6, <1>7, <1>11 DEF HasBit
<1>13. \A b \in Effects : HasBit(m, b) <=> HasBit(n, b)
  BY <1>12 DEF Effects, O
<1> QED BY <1>9, <1>10, <1>13 DEF m, flags

\* An unsigned number that crosses as a signed one is the same again.
LEMMA Wrapped ==
    ASSUME NEW n \in Unsigned
    PROVE  (IF n < SignBit THEN n ELSE n - 2 * SignBit) % (2 * SignBit) = n
<1>1. PICK w \in Nat : w = 2 * SignBit /\ w > 0 BY SignBitAssumption
<1>2. n \in Nat /\ n < w BY <1>1, SignBitAssumption DEF Unsigned
<1>3. n % w = n BY <1>1, <1>2
<1>4. (n - w) % w = n BY <1>1, <1>2
<1> QED BY <1>1, <1>3, <1>4

\* And so are all the numbers of statfs (StatFs_create, Rhizofs_statfs).
LEMMA StatFsBack ==
    ASSUME NEW st \in [StatFsFields -> Unsigned]
    PROVE  StatFs_copy(StatFs_create(st)) = st
<1>1. \A f \in StatFsFields : StatFs_copy(StatFs_create(st))[f] = st[f]
  <2> SUFFICES ASSUME NEW f \in StatFsFields PROVE StatFs_copy(StatFs_create(st))[f] = st[f]
    OBVIOUS
  <2>1. st[f] \in Unsigned OBVIOUS
  <2>2. StatFs_copy(StatFs_create(st))[f] =
          (IF st[f] < SignBit THEN st[f] ELSE st[f] - 2 * SignBit) % (2 * SignBit)
    BY Zenon DEF StatFs_copy, StatFs_create
  <2> QED BY <2>1, <2>2, Wrapped
<1>2. StatFs_copy(StatFs_create(st)) = [f \in StatFsFields |-> StatFs_copy(StatFs_create(st))[f]]
  BY Zenon DEF StatFs_copy
<1>3. st = [f \in StatFsFields |-> st[f]] OBVIOUS
<1> QED BY <1>1, <1>2, <1>3

\* The table of mapping.c, row by row.
LEMMA Table ==
    /\ DOMAIN errno_map = 1 .. 17
    /\ errno_map[1] = <<"NONE", "0">> /\ errno_map[2] = <<"PERM", "EPERM">>
    /\ errno_map[3] = <<"NOENT", "ENOENT">> /\ errno_map[4] = <<"NOMEM", "ENOMEM">>
    /\ errno_map[5] = <<"ACCES", "EACCES">> /\ errno_map[6] = <<"BUSY", "EBUSY">>
    /\ errno_map[7] = <<"EXIST", "EEXIST">> /\ errno_map[8] = <<"NOTDIR", "ENOTDIR">>
    /\ errno_map[9] = <<"ISDIR", "EISDIR">> /\ errno_map[10] = <<"INVAL", "EINVAL">>
    /\ errno_map[11] = <<"FBIG", "EFBIG">> /\ errno_map[12] = <<"NOSPC", "ENOSPC">>
    /\ errno_map[13] = <<"ROFS", "EROFS">> /\ errno_map[14] = <<"SPIPE", "ESPIPE">>
    /\ errno_map[15] = <<"UNKNOWN", "EIO">>
    /\ errno_map[16] = <<"INVALID_REQUEST", "EINVAL">>
    /\ errno_map[17] = <<"UNSERIALIZABLE", "EIO">>
  BY DEF errno_map

\* The entries of the table, one by one.
LEMMA Columns ==
    /\ errno_map[1][1] = "NONE" /\ errno_map[1][2] = "0"
    /\ errno_map[2][1] = "PERM" /\ errno_map[2][2] = "EPERM"
    /\ errno_map[3][1] = "NOENT" /\ errno_map[3][2] = "ENOENT"
    /\ errno_map[4][1] = "NOMEM" /\ errno_map[4][2] = "ENOMEM"
    /\ errno_map[5][1] = "ACCES" /\ errno_map[5][2] = "EACCES"
    /\ errno_map[6][1] = "BUSY" /\ errno_map[6][2] = "EBUSY"
    /\ errno_map[7][1] = "EXIST" /\ errno_map[7][2] = "EEXIST"
    /\ errno_map[8][1] = "NOTDIR" /\ errno_map[8][2] = "ENOTDIR"
    /\ errno_map[9][1] = "ISDIR" /\ errno_map[9][2] = "EISDIR"
    /\ errno_map[10][1] = "INVAL" /\ errno_map[10][2] = "EINVAL"
    /\ errno_map[11][1] = "FBIG" /\ errno_map[11][2] = "EFBIG"
    /\ errno_map[12][1] = "NOSPC" /\ errno_map[12][2] = "ENOSPC"
    /\ errno_map[13][1] = "ROFS" /\ errno_map[13][2] = "EROFS"
    /\ errno_map[14][1] = "SPIPE" /\ errno_map[14][2] = "ESPIPE"
    /\ errno_map[15][1] = "UNKNOWN" /\ errno_map[15][2] = "EIO"
    /\ errno_map[16][1] = "INVALID_REQUEST" /\ errno_map[16][2] = "EINVAL"
    /\ errno_map[17][1] = "UNSERIALIZABLE" /\ errno_map[17][2] = "EIO"
  BY Table

\* A protocol error number is in one row only.
LEMMA ProtocolOnce ==
    \A i, j \in 1 .. 17 : errno_map[i][1] = errno_map[j][1] => i = j
  BY Columns

\* In the first fifteen rows, so is a local one.
LEMMA LocalOnce ==
    \A i, j \in 1 .. 15 : errno_map[i][2] = errno_map[j][2] => i = j
  BY Columns

\* A local error number of the table has a first row.
LEMMA FirstRow ==
    ASSUME NEW e, InColumn(2, e)
    PROVE  \E i \in DOMAIN errno_map :
             errno_map[i][2] = e /\ \A j \in 1 .. i - 1 : errno_map[j][2] # e
<1>1. PICK i \in 1 .. 17 : errno_map[i][2] = e
  BY Table DEF InColumn
<1>2. PICK k \in 1 .. 15 : errno_map[k][2] = e
  <2>1. CASE i \in 1 .. 15 BY <1>1, <2>1
  <2>2. CASE i = 16 BY <1>1, <2>2, Columns
  <2>3. CASE i = 17 BY <1>1, <2>3, Columns
  <2> QED BY <2>1, <2>2, <2>3
<1>3. \A j \in 1 .. k - 1 : j \in 1 .. 15 /\ j # k OBVIOUS
<1>4. \A j \in 1 .. k - 1 : errno_map[j][2] # e
  BY <1>2, <1>3, LocalOnce
<1>5. k \in DOMAIN errno_map BY Table
<1> QED BY <1>2, <1>4, <1>5

\* The search for a protocol error number finds its row.
LEMMA ProtocolRow ==
    ASSUME NEW i \in DOMAIN errno_map
    PROVE  Row(1, errno_map[i][1]) = i
<1>1. i \in 1 .. 17 /\ \A j \in 1 .. i - 1 : j \in 1 .. 17 /\ j # i BY Table
<1>2. \A j \in 1 .. i - 1 : errno_map[j][1] # errno_map[i][1]
  BY <1>1, ProtocolOnce
<1> DEFINE P(k) == errno_map[k][1] = errno_map[i][1] /\ \A j \in 1 .. k - 1 : errno_map[j][1] # errno_map[i][1]
<1>3. P(i) BY <1>2
<1>4. \A k \in DOMAIN errno_map : P(k) => k = i
  BY <1>1, Table, ProtocolOnce
<1>5. Row(1, errno_map[i][1]) = CHOOSE k \in DOMAIN errno_map : P(k)
  BY DEF Row
<1> HIDE DEF P
<1> QED BY <1>3, <1>4, <1>5

\* An error number of the table comes back, any other one becomes EIO
\* (Errno_from_local, Errno_to_local).
LEMMA ErrnoBack ==
    ASSUME NEW e
    PROVE  Errno_to_local(Errno_from_local(e)) = IF InColumn(2, e) THEN e ELSE "EIO"
<1>1. CASE InColumn(2, e)
  <2> DEFINE r == Row(2, e)
  <2>1. r \in DOMAIN errno_map /\ errno_map[r][2] = e
    BY <1>1, FirstRow DEF Row
  <2>2. Errno_from_local(e) = errno_map[r][1] BY <1>1 DEF Errno_from_local
  <2> HIDE DEF r
  <2>3. InColumn(1, errno_map[r][1]) BY <2>1 DEF InColumn
  <2>4. Row(1, errno_map[r][1]) = r BY <2>1, ProtocolRow
  <2>5. Errno_to_local(errno_map[r][1]) = e
    BY <2>1, <2>3, <2>4, Zenon DEF Errno_to_local
  <2> QED BY <1>1, <2>2, <2>5
<1>2. CASE ~ InColumn(2, e)
  <2>1. Errno_from_local(e) = "UNKNOWN" BY <1>2 DEF Errno_from_local
  <2>2. 15 \in DOMAIN errno_map /\ errno_map[15][1] = "UNKNOWN" BY Table, Columns
  <2>3. Row(1, "UNKNOWN") = 15 BY <2>2, ProtocolRow
  <2>4. Errno_to_local("UNKNOWN") = errno_map[15][2]
    BY <2>2, <2>3, Zenon DEF Errno_to_local, InColumn
  <2> QED BY <1>2, <2>1, <2>4, Columns
<1> QED BY <1>1, <1>2

\* The microseconds of a time are fewer than a million.
LEMMA Millionth ==
    ASSUME NEW t \in Time
    PROVE  t.nsec \div 1000 \in Microseconds
<1>1. t.nsec \in 0 .. Billion - 1
  BY SMT DEF Time
<1>2. PICK k \in Nat : Billion = 1000 * k
  BY Thousands
<1>3. Billion \div 1000 = k
  BY <1>2, SMT
<1>4. t.nsec \div 1000 \in 0 .. k - 1
  BY <1>1, <1>2, SMT
<1> QED
  BY <1>3, <1>4 DEF Microseconds

-----------------------------------------------------------------------------
(* The inductive invariant.                                                *)

IsSequence == (\E S : trip \in Seq(S)) /\ Len(trip) \in 1 .. 7

DataTrip ==
    kind = "data" =>
        /\ trip[1] \in Payloads
        /\ Len(trip) >= 2 => trip[2] = DataBlock_set_data(trip[1])
        /\ Len(trip) = 3 => trip[3] = DataBlock_get_data(trip[2])
        /\ Len(trip) <= 3

PathTrip ==
    kind = "path" =>
        /\ trip[1] \in Folders
        /\ Len(trip) >= 2 => \E path \in Requests : trip[2] = path_join(trip[1], path)
        /\ Len(trip) = 3 => \E path \in Requests \cup {trip[2].path}, name \in Names :
                               trip[3] = path_join(path, name)
        /\ Len(trip) <= 3

\* the times of a stat and of what is sent for it
Stamped(attrs, stat) == attrs.timestamps = TimeSet(stat.atime, stat.mtime, stat.ctime)

Shown(stat, ts) ==
    /\ stat.atime = LocalTime(ts.access_sec, ts.access_usec)
    /\ stat.mtime = LocalTime(ts.modify_sec, ts.modify_usec)

TimesTrip ==
    kind = "attrs" =>
        /\ trip[1] \in Stats
        /\ Len(trip) >= 2 => Stamped(trip[2], trip[1])
        /\ Len(trip) >= 3 => Shown(trip[3], trip[2].timestamps)
        /\ Len(trip) >= 4 => \/ trip[4] = TimeSet(trip[3].atime, trip[3].mtime, trip[3].ctime)
                             \/ \E now \in Times : trip[4] = TimeSet(now, now, now)
        /\ Len(trip) >= 5 => Shown(trip[5], trip[4])
        /\ Len(trip) >= 6 => Stamped(trip[6], trip[5])
        /\ Len(trip) >= 7 => Shown(trip[7], trip[6].timestamps)

\* what the first two conversions of a file's attributes made
ShownTrip ==
    kind = "attrs" =>
        /\ Len(trip) >= 2 => trip[2] = Attrs_create(trip[1])
        /\ Len(trip) >= 3 => trip[3] = Attrs_copy_to_stat(trip[2], "caller")

SentMode(mode) ==
    [permissions |-> Permissions_create(mode.bits),
     filetype |-> FileType_from_local(mode.type)]

UsedMode(sent) ==
    [bits |-> Permissions_to_bitmask(sent.permissions),
     type |-> FileType_to_local(sent.filetype)]

ModeTrip ==
    kind = "mode" =>
        /\ trip[1] \in Modes
        /\ Len(trip) >= 2 => trip[2] = SentMode(trip[1])
        /\ Len(trip) = 3 => trip[3] = UsedMode(trip[2])

CreateTrip ==
    kind = "create" =>
        /\ trip[1] \in Modes
        /\ Len(trip) >= 2 => trip[2] = Permissions_create(trip[1].bits)
        /\ Len(trip) = 3 => trip[3] = Writable(Permissions_to_bitmask(trip[2]))

FlagTrip ==
    kind = "flags" =>
        /\ trip[1] \in Flags
        /\ Len(trip) >= 2 => trip[2] = OpenFlags_from_bitmask(trip[1])
        /\ Len(trip) = 3 => trip[3] = OpenFlags_to_bitmask(trip[2])

ErrnoTrip ==
    kind = "errno" =>
        /\ Len(trip) >= 2 => trip[2] = Errno_from_local(trip[1])
        /\ Len(trip) = 3 => trip[3] = Errno_to_local(trip[2])

StatFsTrip ==
    kind = "statfs" =>
        /\ trip[1] \in StatVfss
        /\ Len(trip) >= 2 => trip[2] = StatFs_create(trip[1])
        /\ Len(trip) = 3 => trip[3] = StatFs_copy(trip[2])

IInv ==
    /\ IsSequence /\ DataTrip /\ PathTrip /\ TimesTrip
    /\ ShownTrip /\ ModeTrip /\ CreateTrip /\ FlagTrip /\ ErrnoTrip /\ StatFsTrip

\* Every journey starts as the invariant says.
LEMMA Starts == Init => IInv
<1> SUFFICES ASSUME Init PROVE IInv
  OBVIOUS
<1>1. \E x : trip = <<x>>
  BY DEF Init
<1>2. PICK x : trip = <<x>>
  BY <1>1
<1>3. trip \in Seq({x}) /\ Len(trip) = 1 /\ trip[1] = x
  BY <1>2
<1>4. IsSequence
  BY <1>3 DEF IsSequence
<1>5. kind = "data" => trip[1] \in Payloads
  BY <1>3 DEF Init
<1>6. kind = "path" => trip[1] \in Folders
  BY <1>3 DEF Init
<1>7. kind = "attrs" => trip[1] \in Stats
  BY <1>3 DEF Init
<1>8. DataTrip /\ PathTrip /\ TimesTrip
  BY <1>3, <1>5, <1>6, <1>7 DEF DataTrip, PathTrip, TimesTrip
<1>9. (kind \in {"mode", "create"} => trip[1] \in Modes) /\ (kind = "flags" => trip[1] \in Flags)
  BY <1>3 DEF Init
<1>10. kind = "statfs" => trip[1] \in StatVfss
  BY <1>3 DEF Init
<1>11. ShownTrip /\ ModeTrip /\ CreateTrip /\ FlagTrip /\ ErrnoTrip /\ StatFsTrip
  BY <1>3, <1>9, <1>10 DEF ShownTrip, ModeTrip, CreateTrip, FlagTrip, ErrnoTrip, StatFsTrip
<1> QED
  BY <1>4, <1>8, <1>11 DEF IInv

\* What one more station leaves as it was.
LEMMA OneMore ==
    ASSUME IInv, NEW x, Becomes(x), Len(trip) < 7
    PROVE  /\ kind' = kind
           /\ Len(trip) \in 1 .. 6
           /\ Len(trip') = Len(trip) + 1
           /\ \A i \in 1 .. Len(trip) : trip'[i] = trip[i]
           /\ trip'[Len(trip) + 1] = x
           /\ IsSequence'
<1>1. (\E S : trip \in Seq(S)) /\ Len(trip) \in 1 .. 7
  BY DEF IInv, IsSequence
<1>2. /\ kind' = kind
      /\ \E S : trip' \in Seq(S)
      /\ Len(trip') = Len(trip) + 1
      /\ \A i \in 1 .. Len(trip) : trip'[i] = trip[i]
      /\ trip'[Len(trip) + 1] = x
  BY <1>1, NextStation
<1>3. Len(trip) \in 1 .. 6 /\ Len(trip') \in 1 .. 7
  BY <1>1, <1>2
<1> QED
  BY <1>2, <1>3 DEF IsSequence

\* A journey of data goes on as the invariant says; no other journey becomes one.
LEMMA DataKept ==
    ASSUME IInv, Next PROVE DataTrip'
<1> SUFFICES ASSUME kind' = "data" PROVE DataTrip'
  BY DEF DataTrip
<1>1. kind = "data" /\ (SetData \/ WriteData \/ ReadData)
  BY DEF Next, Becomes, At, SendAttrs, ShowAttrs, Rhizofs_utimens, ServeDir_op_utimens,
         SendMode, UseMode, Rhizofs_create, ServeDir_op_create, SendFlags, UseFlags, Response_set_errno,
         Response_get_errno, SendStatFs, ShowStatFs, SetData, WriteData, ReadData,
         ServeDir_fullpath, JoinEntry
<1>2. trip[1] \in Payloads /\ trip[1] \in Payload
  BY <1>1, DataAssumption DEF IInv, DataTrip
<1>3. CASE SetData
  <2>1. Len(trip) = 1 /\ Becomes(DataBlock_set_data(trip[1]))
    BY <1>3 DEF SetData, At
  <2>2. Len(trip') = 2 /\ trip'[1] = trip[1] /\ trip'[2] = DataBlock_set_data(trip[1])
    BY <2>1, OneMore
  <2> QED
    BY <1>2, <2>2 DEF DataTrip
<1>4. CASE WriteData \/ ReadData
  <2>1. Len(trip) = 2 /\ trip[2] = DataBlock_set_data(trip[1])
    BY <1>1, <1>4 DEF WriteData, ReadData, At, IInv, DataTrip
  <2>2. trip[2].size = trip[1].len /\ trip[1].len \in Nat
    <3>1. Holds(trip[1], trip[2])
      BY <1>2, <2>1, BlockOf
    <3>2. trip[1].len \in Nat
      BY <1>2 DEF Payload
    <3> QED
      BY <3>1, <3>2 DEF Holds
  <2>3. \A more \in Buffers :
          DataBlock_get_data_noalloc(trip[2], trip[1].len + more) = DataBlock_get_data(trip[2])
    BY <2>2, DataAssumption DEF DataBlock_get_data_noalloc
  <2>4. Becomes(DataBlock_get_data(trip[2]))
    BY <1>4, <2>3 DEF WriteData, ReadData
  <2>5. /\ Len(trip') = 3 /\ trip'[1] = trip[1] /\ trip'[2] = trip[2]
        /\ trip'[3] = DataBlock_get_data(trip[2])
    BY <2>1, <2>4, OneMore
  <2> QED
    BY <1>2, <2>1, <2>5 DEF DataTrip
<1> QED
  BY <1>1, <1>3, <1>4

\* Paths go on as the invariant says.
LEMMA PathKept ==
    ASSUME IInv, Next PROVE PathTrip'
<1> SUFFICES ASSUME kind' = "path" PROVE PathTrip'
  BY DEF PathTrip
<1>1. kind = "path" /\ (ServeDir_fullpath \/ JoinEntry)
  BY DEF Next, Becomes, At, SendAttrs, ShowAttrs, Rhizofs_utimens, ServeDir_op_utimens,
         SendMode, UseMode, Rhizofs_create, ServeDir_op_create, SendFlags, UseFlags, Response_set_errno,
         Response_get_errno, SendStatFs, ShowStatFs, SetData, WriteData, ReadData,
         ServeDir_fullpath, JoinEntry
<1>2. trip[1] \in Folders
  BY <1>1 DEF IInv, PathTrip
<1>3. CASE ServeDir_fullpath
  <2>1. PICK path \in Requests : Becomes(path_join(trip[1], path))
    BY <1>3 DEF ServeDir_fullpath
  <2>2. Len(trip) = 1
    BY <1>3 DEF ServeDir_fullpath, At
  <2>3. Len(trip') = 2 /\ trip'[1] = trip[1] /\ trip'[2] = path_join(trip[1], path)
    BY <2>1, <2>2, OneMore
  <2> QED
    BY <1>2, <2>1, <2>3 DEF PathTrip
<1>4. CASE JoinEntry
  <2>1. PICK path \in Requests \cup {trip[2].path}, name \in Names :
          Becomes(path_join(path, name))
    BY <1>4 DEF JoinEntry
  <2>2. Len(trip) = 2
    BY <1>4 DEF JoinEntry, At
  <2>3. /\ Len(trip') = 3 /\ trip'[1] = trip[1] /\ trip'[2] = trip[2]
        /\ trip'[3] = path_join(path, name)
    BY <2>1, <2>2, OneMore
  <2>4. \E r \in Requests : trip[2] = path_join(trip[1], r)
    BY <1>1, <2>2 DEF IInv, PathTrip
  <2> QED
    BY <1>2, <2>1, <2>3, <2>4 DEF PathTrip
<1> QED
  BY <1>1, <1>3, <1>4

\* And so do the times of a file.
LEMMA TimesKept ==
    ASSUME IInv, Next PROVE TimesTrip'
<1> SUFFICES ASSUME kind' = "attrs" PROVE TimesTrip'
  BY DEF TimesTrip
<1>1. /\ kind = "attrs"
      /\ SendAttrs \/ ShowAttrs \/ Rhizofs_utimens \/ ServeDir_op_utimens
  BY DEF Next, Becomes, At, SendAttrs, ShowAttrs, Rhizofs_utimens, ServeDir_op_utimens,
         SendMode, UseMode, Rhizofs_create, ServeDir_op_create, SendFlags, UseFlags, Response_set_errno,
         Response_get_errno, SendStatFs, ShowStatFs, SetData, WriteData, ReadData,
         ServeDir_fullpath, JoinEntry
<1>2. /\ trip[1] \in Stats
      /\ Len(trip) >= 2 => Stamped(trip[2], trip[1])
      /\ Len(trip) >= 3 => Shown(trip[3], trip[2].timestamps)
      /\ Len(trip) >= 4 => \/ trip[4] = TimeSet(trip[3].atime, trip[3].mtime, trip[3].ctime)
                           \/ \E now \in Times : trip[4] = TimeSet(now, now, now)
      /\ Len(trip) >= 5 => Shown(trip[5], trip[4])
      /\ Len(trip) >= 6 => Stamped(trip[6], trip[5])
  BY <1>1 DEF IInv, TimesTrip
<1>3. CASE SendAttrs
  <2>1. (Len(trip) = 1 \/ Len(trip) = 5) /\ Becomes(Attrs_create(trip[Len(trip)]))
    BY <1>3 DEF SendAttrs, At
  <2>2. \A stat : Stamped(Attrs_create(stat), stat)
    BY DEF Stamped, Attrs_create
  <2>3. CASE Len(trip) = 1
    <3>1. Len(trip') = 2 /\ trip'[1] = trip[1] /\ trip'[2] = Attrs_create(trip[1])
      BY <2>1, <2>3, OneMore
    <3> QED
      BY <1>2, <2>2, <3>1 DEF TimesTrip
  <2>4. CASE Len(trip) = 5
    <3>1. /\ Len(trip') = 6 /\ trip'[6] = Attrs_create(trip[5])
          /\ \A i \in 1 .. 5 : trip'[i] = trip[i]
      BY <2>1, <2>4, OneMore
    <3>2. /\ trip'[1] = trip[1] /\ trip'[2] = trip[2] /\ trip'[3] = trip[3]
          /\ trip'[4] = trip[4] /\ trip'[5] = trip[5]
      BY <3>1
    <3>3. Stamped(trip'[6], trip'[5])
      BY <2>2, <3>1, <3>2
    <3> QED
      BY <1>2, <2>4, <3>1, <3>2, <3>3 DEF TimesTrip
  <2> QED
    BY <2>1, <2>3, <2>4
<1>4. CASE ShowAttrs
  <2>1. /\ Len(trip) = 2 \/ Len(trip) = 6
        /\ Becomes(Attrs_copy_to_stat(trip[Len(trip)], "caller"))
    BY <1>4 DEF ShowAttrs, At
  <2>2. \A attrs : Shown(Attrs_copy_to_stat(attrs, "caller"), attrs.timestamps)
    BY DEF Shown, Attrs_copy_to_stat
  <2>3. CASE Len(trip) = 2
    <3>1. /\ Len(trip') = 3 /\ trip'[1] = trip[1] /\ trip'[2] = trip[2]
          /\ trip'[3] = Attrs_copy_to_stat(trip[2], "caller")
      BY <2>1, <2>3, OneMore
    <3>2. Shown(trip'[3], trip'[2].timestamps)
      BY <2>2, <3>1
    <3> QED
      BY <1>2, <2>3, <3>1, <3>2 DEF TimesTrip
  <2>4. CASE Len(trip) = 6
    <3>1. /\ Len(trip') = 7 /\ trip'[7] = Attrs_copy_to_stat(trip[6], "caller")
          /\ \A i \in 1 .. 6 : trip'[i] = trip[i]
      BY <2>1, <2>4, OneMore
    <3>2. /\ trip'[1] = trip[1] /\ trip'[2] = trip[2] /\ trip'[3] = trip[3]
          /\ trip'[4] = trip[4] /\ trip'[5] = trip[5] /\ trip'[6] = trip[6]
      BY <3>1
    <3>3. Shown(trip'[7], trip'[6].timestamps)
      BY <2>2, <3>1, <3>2
    <3> QED
      BY <1>2, <2>4, <3>1, <3>2, <3>3 DEF TimesTrip
  <2> QED
    BY <2>1, <2>3, <2>4
<1>5. CASE Rhizofs_utimens
  <2>1. Len(trip) = 3
    BY <1>5 DEF Rhizofs_utimens, At
  <2>2. PICK ts : /\ Becomes(ts)
                  /\ \/ ts = TimeSet(trip[3].atime, trip[3].mtime, trip[3].ctime)
                     \/ \E now \in Times : ts = TimeSet(now, now, now)
    BY <1>5 DEF Rhizofs_utimens
  <2>3. /\ Len(trip') = 4 /\ trip'[4] = ts
        /\ trip'[1] = trip[1] /\ trip'[2] = trip[2] /\ trip'[3] = trip[3]
    BY <2>1, <2>2, OneMore
  <2> QED
    BY <1>2, <2>1, <2>2, <2>3 DEF TimesTrip
<1>6. CASE ServeDir_op_utimens
  <2>1. Len(trip) = 4
    BY <1>6 DEF ServeDir_op_utimens, At
  <2> DEFINE File(now) == [trip[1] EXCEPT
             !.atime = LocalTime(trip[4].access_sec, trip[4].access_usec),
             !.mtime = LocalTime(trip[4].modify_sec, trip[4].modify_usec),
             !.ctime = now]
  <2>2. PICK now \in Times : Becomes(File(now))
    BY <1>6 DEF ServeDir_op_utimens
  <2>3. Shown(File(now), trip[4])
    BY <1>2, TimeAssumption DEF Shown
  <2> HIDE DEF File
  <2>4. /\ Len(trip') = 5 /\ trip'[5] = File(now)
        /\ \A i \in 1 .. 4 : trip'[i] = trip[i]
    BY <2>1, <2>2, OneMore
  <2>5. trip'[1] = trip[1] /\ trip'[2] = trip[2] /\ trip'[3] = trip[3] /\ trip'[4] = trip[4]
    BY <2>4
  <2>6. Shown(trip'[5], trip'[4])
    BY <2>3, <2>4, <2>5
  <2> QED
    BY <1>2, <2>1, <2>4, <2>5, <2>6 DEF TimesTrip
<1> QED
  BY <1>1, <1>3, <1>4, <1>5, <1>6

\* A mode is sent and used.
LEMMA ModeKept ==
    ASSUME IInv, Next PROVE ModeTrip'
<1> SUFFICES ASSUME kind' = "mode" PROVE ModeTrip'
  BY DEF ModeTrip
<1>1. kind = "mode" /\ (SendMode \/ UseMode)
  BY DEF Next, Becomes, At, SendAttrs, ShowAttrs, Rhizofs_utimens, ServeDir_op_utimens,
         SendMode, UseMode, Rhizofs_create, ServeDir_op_create, SendFlags, UseFlags, Response_set_errno,
         Response_get_errno, SendStatFs, ShowStatFs, SetData, WriteData, ReadData,
         ServeDir_fullpath, JoinEntry
<1>2. trip[1] \in Modes
  BY <1>1 DEF IInv, ModeTrip
<1>3. CASE SendMode
  <2>1. Len(trip) = 1 /\ Becomes(SentMode(trip[1]))
    BY <1>3 DEF SendMode, At, SentMode
  <2>2. Len(trip') = 2 /\ trip'[1] = trip[1] /\ trip'[2] = SentMode(trip[1])
    BY <2>1, OneMore
  <2> QED
    BY <1>2, <2>2 DEF ModeTrip
<1>4. CASE UseMode
  <2>1. Len(trip) = 2 /\ Becomes(UsedMode(trip[2])) /\ trip[2] = SentMode(trip[1])
    BY <1>1, <1>4 DEF UseMode, At, UsedMode, IInv, ModeTrip
  <2>2. /\ Len(trip') = 3 /\ trip'[1] = trip[1] /\ trip'[2] = trip[2]
        /\ trip'[3] = UsedMode(trip[2])
    BY <2>1, OneMore
  <2> QED
    BY <1>2, <2>1, <2>2 DEF ModeTrip
<1> QED
  BY <1>1, <1>3, <1>4

\* So is the mode of create, with the permission to write added.
LEMMA CreateKept ==
    ASSUME IInv, Next PROVE CreateTrip'
<1> SUFFICES ASSUME kind' = "create" PROVE CreateTrip'
  BY DEF CreateTrip
<1>1. kind = "create" /\ (Rhizofs_create \/ ServeDir_op_create)
  BY DEF Next, Becomes, At, SendAttrs, ShowAttrs, Rhizofs_utimens, ServeDir_op_utimens,
         SendMode, UseMode, Rhizofs_create, ServeDir_op_create, SendFlags, UseFlags, Response_set_errno,
         Response_get_errno, SendStatFs, ShowStatFs, SetData, WriteData, ReadData,
         ServeDir_fullpath, JoinEntry
<1>2. trip[1] \in Modes
  BY <1>1 DEF IInv, CreateTrip
<1>3. CASE Rhizofs_create
  <2>1. Len(trip) = 1 /\ Becomes(Permissions_create(trip[1].bits))
    BY <1>3 DEF Rhizofs_create, At
  <2>2. Len(trip') = 2 /\ trip'[1] = trip[1] /\ trip'[2] = Permissions_create(trip[1].bits)
    BY <2>1, OneMore
  <2> QED
    BY <1>2, <2>2 DEF CreateTrip
<1>4. CASE ServeDir_op_create
  <2>1. Len(trip) = 2 /\ Becomes(Writable(Permissions_to_bitmask(trip[2]))) /\ trip[2] = Permissions_create(trip[1].bits)
    BY <1>1, <1>4 DEF ServeDir_op_create, At, Writable, IInv, CreateTrip
  <2>2. /\ Len(trip') = 3 /\ trip'[1] = trip[1] /\ trip'[2] = trip[2]
        /\ trip'[3] = Writable(Permissions_to_bitmask(trip[2]))
    BY <2>1, OneMore
  <2> QED
    BY <1>2, <2>1, <2>2 DEF CreateTrip
<1> QED
  BY <1>1, <1>3, <1>4

\* So are the flags of open.
LEMMA FlagKept ==
    ASSUME IInv, Next PROVE FlagTrip'
<1> SUFFICES ASSUME kind' = "flags" PROVE FlagTrip'
  BY DEF FlagTrip
<1>1. kind = "flags" /\ (SendFlags \/ UseFlags)
  BY DEF Next, Becomes, At, SendAttrs, ShowAttrs, Rhizofs_utimens, ServeDir_op_utimens,
         SendMode, UseMode, Rhizofs_create, ServeDir_op_create, SendFlags, UseFlags, Response_set_errno,
         Response_get_errno, SendStatFs, ShowStatFs, SetData, WriteData, ReadData,
         ServeDir_fullpath, JoinEntry
<1>2. trip[1] \in Flags
  BY <1>1 DEF IInv, FlagTrip
<1>3. CASE SendFlags
  <2>1. Len(trip) = 1 /\ Becomes(OpenFlags_from_bitmask(trip[1]))
    BY <1>3 DEF SendFlags, At
  <2>2. Len(trip') = 2 /\ trip'[1] = trip[1] /\ trip'[2] = OpenFlags_from_bitmask(trip[1])
    BY <2>1, OneMore
  <2> QED
    BY <1>2, <2>2 DEF FlagTrip
<1>4. CASE UseFlags
  <2>1. Len(trip) = 2 /\ Becomes(OpenFlags_to_bitmask(trip[2])) /\ trip[2] = OpenFlags_from_bitmask(trip[1])
    BY <1>1, <1>4 DEF UseFlags, At, IInv, FlagTrip
  <2>2. /\ Len(trip') = 3 /\ trip'[1] = trip[1] /\ trip'[2] = trip[2]
        /\ trip'[3] = OpenFlags_to_bitmask(trip[2])
    BY <2>1, OneMore
  <2> QED
    BY <1>2, <2>1, <2>2 DEF FlagTrip
<1> QED
  BY <1>1, <1>3, <1>4

\* So is an error number.
LEMMA ErrnoKept ==
    ASSUME IInv, Next PROVE ErrnoTrip'
<1> SUFFICES ASSUME kind' = "errno" PROVE ErrnoTrip'
  BY DEF ErrnoTrip
<1>1. kind = "errno" /\ (Response_set_errno \/ Response_get_errno)
  BY DEF Next, Becomes, At, SendAttrs, ShowAttrs, Rhizofs_utimens, ServeDir_op_utimens,
         SendMode, UseMode, Rhizofs_create, ServeDir_op_create, SendFlags, UseFlags, Response_set_errno,
         Response_get_errno, SendStatFs, ShowStatFs, SetData, WriteData, ReadData,
         ServeDir_fullpath, JoinEntry
<1>3. CASE Response_set_errno
  <2>1. Len(trip) = 1 /\ Becomes(Errno_from_local(trip[1]))
    BY <1>3 DEF Response_set_errno, At
  <2>2. Len(trip') = 2 /\ trip'[1] = trip[1] /\ trip'[2] = Errno_from_local(trip[1])
    BY <2>1, OneMore
  <2> QED
    BY <2>2 DEF ErrnoTrip
<1>4. CASE Response_get_errno
  <2>1. Len(trip) = 2 /\ Becomes(Errno_to_local(trip[2])) /\ trip[2] = Errno_from_local(trip[1])
    BY <1>1, <1>4 DEF Response_get_errno, At, IInv, ErrnoTrip
  <2>2. /\ Len(trip') = 3 /\ trip'[1] = trip[1] /\ trip'[2] = trip[2]
        /\ trip'[3] = Errno_to_local(trip[2])
    BY <2>1, OneMore
  <2> QED
    BY <2>1, <2>2 DEF ErrnoTrip
<1> QED
  BY <1>1, <1>3, <1>4

\* And so are the numbers of statfs.
LEMMA StatFsKept ==
    ASSUME IInv, Next PROVE StatFsTrip'
<1> SUFFICES ASSUME kind' = "statfs" PROVE StatFsTrip'
  BY DEF StatFsTrip
<1>1. kind = "statfs" /\ (SendStatFs \/ ShowStatFs)
  BY DEF Next, Becomes, At, SendAttrs, ShowAttrs, Rhizofs_utimens, ServeDir_op_utimens,
         SendMode, UseMode, Rhizofs_create, ServeDir_op_create, SendFlags, UseFlags, Response_set_errno,
         Response_get_errno, SendStatFs, ShowStatFs, SetData, WriteData, ReadData,
         ServeDir_fullpath, JoinEntry
<1>2. trip[1] \in StatVfss
  BY <1>1 DEF IInv, StatFsTrip
<1>3. CASE SendStatFs
  <2>1. Len(trip) = 1 /\ Becomes(StatFs_create(trip[1]))
    BY <1>3 DEF SendStatFs, At
  <2>2. Len(trip') = 2 /\ trip'[1] = trip[1] /\ trip'[2] = StatFs_create(trip[1])
    BY <2>1, OneMore
  <2> QED
    BY <1>2, <2>2 DEF StatFsTrip
<1>4. CASE ShowStatFs
  <2>1. Len(trip) = 2 /\ Becomes(StatFs_copy(trip[2])) /\ trip[2] = StatFs_create(trip[1])
    BY <1>1, <1>4 DEF ShowStatFs, At, IInv, StatFsTrip
  <2>2. /\ Len(trip') = 3 /\ trip'[1] = trip[1] /\ trip'[2] = trip[2]
        /\ trip'[3] = StatFs_copy(trip[2])
    BY <2>1, OneMore
  <2> QED
    BY <1>2, <2>1, <2>2 DEF StatFsTrip
<1> QED
  BY <1>1, <1>3, <1>4

\* The attributes of a file are sent and shown once, before its times are set.
LEMMA ShownKept ==
    ASSUME IInv, Next PROVE ShownTrip'
<1> SUFFICES ASSUME kind' = "attrs" PROVE ShownTrip'
  BY DEF ShownTrip
<1>1. /\ kind = "attrs"
      /\ SendAttrs \/ ShowAttrs \/ Rhizofs_utimens \/ ServeDir_op_utimens
  BY DEF Next, Becomes, At, SendAttrs, ShowAttrs, Rhizofs_utimens, ServeDir_op_utimens,
         SendMode, UseMode, Rhizofs_create, ServeDir_op_create, SendFlags, UseFlags, Response_set_errno,
         Response_get_errno, SendStatFs, ShowStatFs, SetData, WriteData, ReadData,
         ServeDir_fullpath, JoinEntry
<1>2. /\ Len(trip) >= 2 => trip[2] = Attrs_create(trip[1])
      /\ Len(trip) >= 3 => trip[3] = Attrs_copy_to_stat(trip[2], "caller")
  BY <1>1 DEF IInv, ShownTrip
<1>3. CASE Len(trip) = 1
  <2>1. Becomes(Attrs_create(trip[1]))
    BY <1>1, <1>3 DEF SendAttrs, ShowAttrs, Rhizofs_utimens, ServeDir_op_utimens, At
  <2>2. Len(trip') = 2 /\ trip'[1] = trip[1] /\ trip'[2] = Attrs_create(trip[1])
    BY <1>3, <2>1, OneMore
  <2> QED
    BY <2>2 DEF ShownTrip
<1>4. CASE Len(trip) = 2
  <2>1. Becomes(Attrs_copy_to_stat(trip[2], "caller"))
    BY <1>1, <1>4 DEF SendAttrs, ShowAttrs, Rhizofs_utimens, ServeDir_op_utimens, At
  <2>2. /\ Len(trip') = 3 /\ trip'[1] = trip[1] /\ trip'[2] = trip[2]
        /\ trip'[3] = Attrs_copy_to_stat(trip[2], "caller")
    BY <1>4, <2>1, OneMore
  <2> QED
    BY <1>2, <1>4, <2>2 DEF ShownTrip
<1>5. CASE Len(trip) \in 3 .. 6
  <2>1. PICK x : Becomes(x)
    BY <1>1, Zenon DEF SendAttrs, ShowAttrs, Rhizofs_utimens, ServeDir_op_utimens
  <2>2. Len(trip) < 7 /\ Len(trip) >= 3
    <3>1. \A n \in 3 .. 6 : n < 7 /\ n >= 3
      OBVIOUS
    <3> QED
      BY <1>5, <3>1, Zenon
  <2>3. \A i \in 1 .. Len(trip) : trip'[i] = trip[i]
    BY <2>1, <2>2, OneMore
  <2>4. trip'[1] = trip[1] /\ trip'[2] = trip[2] /\ trip'[3] = trip[3]
    BY <1>5, <2>3
  <2> QED
    BY <1>2, <1>5, <2>4 DEF ShownTrip
<1>6. Len(trip) \in 1 .. 6
  <2>1. \/ Len(trip) = 1 \/ Len(trip) = 2 \/ Len(trip) = 3
        \/ Len(trip) = 4 \/ Len(trip) = 5 \/ Len(trip) = 6
    BY <1>1, Zenon DEF SendAttrs, ShowAttrs, Rhizofs_utimens, ServeDir_op_utimens, At
  <2> QED
    BY <2>1
<1> QED
  BY <1>3, <1>4, <1>5, <1>6

\* Every step keeps the invariant.
LEMMA Inductive == IInv /\ [Next]_Conversions => IInv'
<1>0. SUFFICES ASSUME IInv, [Next]_Conversions PROVE IInv'
  OBVIOUS
<1>1. CASE Next
  <2>1. /\ \E x : Becomes(x)
        /\ \E k : At(k, 1) \/ At(k, 2) \/ At(k, 3) \/ At(k, 4) \/ At(k, 5) \/ At(k, 6)
    <3>1. CASE SendAttrs \/ ShowAttrs \/ Rhizofs_utimens \/ ServeDir_op_utimens
      BY <3>1, Zenon DEF SendAttrs, ShowAttrs, Rhizofs_utimens, ServeDir_op_utimens
    <3>2. CASE \/ SendMode \/ UseMode \/ Rhizofs_create \/ ServeDir_op_create
               \/ SendFlags \/ UseFlags \/ SendStatFs \/ ShowStatFs
               \/ Response_set_errno \/ Response_get_errno
      BY <3>2, Zenon DEF SendMode, UseMode, Rhizofs_create, ServeDir_op_create, SendFlags, UseFlags, SendStatFs, ShowStatFs,
                         Response_set_errno, Response_get_errno
    <3>3. CASE SetData \/ WriteData \/ ReadData \/ ServeDir_fullpath \/ JoinEntry
      BY <3>3, Zenon DEF SetData, WriteData, ReadData, ServeDir_fullpath, JoinEntry
    <3> QED
      BY <1>1, <3>1, <3>2, <3>3 DEF Next
  <2>2. Len(trip) < 7
    <3>1. \/ Len(trip) = 1 \/ Len(trip) = 2 \/ Len(trip) = 3
          \/ Len(trip) = 4 \/ Len(trip) = 5 \/ Len(trip) = 6
      BY <2>1, Zenon DEF At
    <3>2. Len(trip) \in 1 .. 7
      BY <1>0 DEF IInv, IsSequence
    <3>3. Len(trip) # 7
      BY <3>1
    <3>4. \A n \in 1 .. 7 : n # 7 => n < 7
      OBVIOUS
    <3> QED
      BY <3>2, <3>3, <3>4, Zenon
  <2>3. PICK x : Becomes(x)
    BY <2>1
  <2>4. IsSequence'
    BY <1>0, <2>2, <2>3, OneMore
  <2> QED
    BY <1>0, <1>1, <2>4, DataKept, PathKept, TimesKept, ShownKept, ModeKept,
       CreateKept, FlagKept, ErrnoKept, StatFsKept
    DEF IInv
<1>2. CASE UNCHANGED Conversions
  <2>1. kind' = kind /\ trip' = trip
    BY <1>2 DEF Conversions
  <2> QED
    BY <1>0, <2>1 DEF IInv, IsSequence, DataTrip, PathTrip, TimesTrip, ShownTrip, ModeTrip,
                      CreateTrip, FlagTrip, ErrnoTrip, StatFsTrip
<1> QED
  BY <1>0, <1>1, <1>2

\* Every journey goes as the invariant says.
LEMMA Invariant == Spec => []IInv
  BY Starts, Inductive, PTL DEF Spec

-----------------------------------------------------------------------------
(* The properties.                                                         *)

\* Data of any length, compressed or not, arrives as it was sent
\* (DataBlock_set_data, DataBlock_get_data, DataBlock_get_data_noalloc).
THEOREM DataAlwaysArrives == Spec => []DataArrives
<1>1. IInv => DataArrives
  <2> SUFFICES ASSUME IInv, kind = "data", Len(trip) = 3
               PROVE  trip[3] = Arrived(trip[1])
    BY DEF DataArrives, Arrived
  <2>1. /\ trip[1] \in Payload /\ trip[2] = DataBlock_set_data(trip[1])
        /\ trip[3] = DataBlock_get_data(trip[2])
    BY DataAssumption DEF IInv, DataTrip
  <2>2. Holds(trip[1], trip[2])
    BY <2>1, BlockOf
  <2> QED
    BY <2>1, <2>2 DEF Holds
<1> QED
  BY <1>1, Invariant, PTL

\* Whatever the data, set_lz4_compressed_data writes at most two bytes past its
\* buffer, and none for data of 24500 bytes or more.
THEOREM OverrunAlwaysBounded == Spec => []OverrunBounded
<1>1. IInv => OverrunBounded
  <2> SUFFICES ASSUME IInv, kind = "data", Len(trip) >= 2
               PROVE  OverrunBounded
    BY DEF OverrunBounded
  <2>1. trip[1] \in Payload /\ trip[2] = DataBlock_set_data(trip[1])
    BY DataAssumption DEF IInv, DataTrip
  <2>2. Holds(trip[1], trip[2])
    BY <2>1, BlockOf
  <2> QED
    BY <2>2 DEF Holds, Bounded, OverrunBounded
<1> QED
  BY <1>1, Invariant, PTL

\* Whatever the directory, the path and the name, path_join fills its buffer
\* exactly unless "/" is exported, and then exceeds it by one byte.
THEOREM JoinAlwaysFits == Spec => []JoinFits
<1>1. IInv => JoinFits
  <2> SUFFICES ASSUME IInv, kind = "path", Len(trip) >= 2
               PROVE  JoinFits
    <3>1. Len(trip) \in Nat
      BY DEF IInv, IsSequence
    <3> QED
      BY <3>1 DEF JoinFits
  <2>1. trip[1] \in Folder
    BY PathAssumption DEF IInv, PathTrip
  <2>2. PICK r \in Request : trip[2] = path_join(trip[1], r)
    BY PathAssumption DEF IInv, PathTrip
  <2>3. /\ trip[2].written = trip[2].buffer + (IF Root(trip[1]) THEN 1 ELSE 0)
        /\ trip[2].separators = 1 + (IF Root(trip[1]) THEN 1 ELSE 0)
        /\ trip[2].path \in Request
    BY <2>1, <2>2, FullPath
  <2>4. ASSUME Len(trip) = 3
        PROVE  trip[3].written = trip[3].buffer /\ trip[3].separators = 1
    <3>1. PICK path \in Request, name \in Name : trip[3] = path_join(path, name)
      BY <2>3, <2>4, PathAssumption DEF IInv, PathTrip
    <3> QED
      BY <3>1, EntryPath
  <2> QED
    BY <2>3, <2>4 DEF JoinFits
<1> QED
  BY <1>1, Invariant, PTL

\* For every time of a file: what getattr showed and utimens set again is what
\* getattr shows afterwards.
THEOREM TimesNeverDrift == Spec => []TimesDoNotDrift
<1>1. IInv => TimesDoNotDrift
  <2> SUFFICES ASSUME IInv, kind = "attrs", Len(trip) = 7
               PROVE  TimesDoNotDrift
    BY DEF TimesDoNotDrift
  <2>1. /\ trip[1] \in Stats
        /\ Stamped(trip[2], trip[1])
        /\ Shown(trip[3], trip[2].timestamps)
        /\ \/ trip[4] = TimeSet(trip[3].atime, trip[3].mtime, trip[3].ctime)
           \/ \E now \in Times : trip[4] = TimeSet(now, now, now)
        /\ Shown(trip[5], trip[4])
        /\ Stamped(trip[6], trip[5])
        /\ Shown(trip[7], trip[6].timestamps)
    BY DEF IInv, TimesTrip
  <2>2. trip[1].atime \in Time /\ trip[1].mtime \in Time
    BY <2>1, TimeAssumption
  <2> DEFINE Back(t) == LocalTime(t.sec, t.nsec \div 1000)
  <2>3. \A t \in Time : Back(t) = Truncated(t) /\ Back(Back(t)) = Back(t)
    BY Micros
  <2>4. ASSUME NEW a, NEW m, NEW c
        PROVE  /\ LocalTime(TimeSet(a, m, c).access_sec, TimeSet(a, m, c).access_usec) = Back(a)
               /\ LocalTime(TimeSet(a, m, c).modify_sec, TimeSet(a, m, c).modify_usec) = Back(m)
    BY DEF TimeSet
  <2> HIDE DEF Back
  <2>5. trip[3].atime = Back(trip[1].atime) /\ trip[3].mtime = Back(trip[1].mtime)
    BY <2>1, <2>4 DEF Shown, Stamped
  <2>6. trip[7].atime = Back(trip[5].atime) /\ trip[7].mtime = Back(trip[5].mtime)
    BY <2>1, <2>4 DEF Shown, Stamped
  <2>7. CASE trip[4] = TimeSet(trip[3].atime, trip[3].mtime, trip[3].ctime)
    <3>1. trip[5].atime = Back(trip[3].atime) /\ trip[5].mtime = Back(trip[3].mtime)
      BY <2>1, <2>4, <2>7 DEF Shown
    <3>2. trip[7].atime = trip[3].atime /\ trip[7].mtime = trip[3].mtime
      BY <2>2, <2>3, <2>5, <2>6, <3>1
    <3> QED
      BY <3>2 DEF TimesDoNotDrift
  <2>8. ASSUME NEW now \in Times, trip[4] = TimeSet(now, now, now)
        PROVE  TimesDoNotDrift
    <3>1. trip[5].atime = Back(now) /\ trip[5].mtime = Back(now)
      BY <2>1, <2>4, <2>8 DEF Shown
    <3>2. now \in Time
      BY <2>8, TimeAssumption
    <3>3. trip[7].atime = Truncated(now) /\ trip[7].mtime = Truncated(now)
      BY <2>3, <2>6, <3>1, <3>2
    <3> QED
      BY <3>3 DEF TimesDoNotDrift
  <2> QED
    BY <2>1, <2>7, <2>8
<1> QED
  BY <1>1, Invariant, PTL

\* For every mask of flags: the server opens with the access mode and the effects
\* that were asked for, and with nothing else.
THEOREM AlwaysOpensAsAsked == Spec => []OpensAsAsked
<1>1. IInv => OpensAsAsked
  <2> SUFFICES ASSUME IInv, kind = "flags", Len(trip) = 3
               PROVE  OpensAsAsked
    BY DEF OpensAsAsked
  <2>1. /\ trip[1] \in Nat
        /\ trip[3] = OpenFlags_to_bitmask(OpenFlags_from_bitmask(trip[1]))
    <3>1. Len(trip) >= 2
      <4>1. \A n \in {3} : n >= 2
        OBVIOUS
      <4> QED
        BY <4>1, Zenon
    <3>2. /\ trip[1] \in Flags /\ trip[2] = OpenFlags_from_bitmask(trip[1])
          /\ trip[3] = OpenFlags_to_bitmask(trip[2])
      BY <3>1, Zenon DEF IInv, FlagTrip
    <3> QED
      BY <3>2, FlagAssumption, Zenon
  <2> QED
    BY <2>1, FlagsBack DEF OpensAsAsked, Effects
<1> QED
  BY <1>1, Invariant, PTL

\* Whatever the error number and however large the numbers of a file system, an
\* answer arrives as the table says, and statfs as the server's numbers.
THEOREM AnswersAlwaysArrive == Spec => []AnswersArrive
<1>1. IInv => AnswersArrive
  <2> SUFFICES ASSUME IInv PROVE AnswersArrive
    OBVIOUS
  <2>1. ASSUME kind = "errno", Len(trip) = 3
        PROVE  trip[3] = IF InColumn(2, trip[1]) THEN trip[1] ELSE "EIO"
    <3>1. trip[3] = Errno_to_local(Errno_from_local(trip[1]))
      BY <2>1 DEF IInv, ErrnoTrip
    <3> QED
      BY <3>1, ErrnoBack
  <2>2. ASSUME kind = "statfs", Len(trip) = 3
        PROVE  trip[3] = trip[1]
    <3>1. /\ trip[1] \in [StatFsFields -> Unsigned]
          /\ trip[3] = StatFs_copy(StatFs_create(trip[1]))
      BY <2>2, StatVfsAssumption DEF IInv, StatFsTrip
    <3> QED
      BY <3>1, StatFsBack
  <2> QED
    BY <2>1, <2>2, Zenon DEF AnswersArrive
<1> QED
  BY <1>1, Invariant, PTL

\* Whatever a file's attributes and whatever mode is asked for: size, type, the nine
\* bits, the times down to the microsecond and the ownership arrive on the other
\* side, a file is created with the bits that were asked for and the owner's
\* permission to write (ServeDir_op_create), and no time goes back with a million microseconds or more.
THEOREM FilesAlwaysLookAlike == Spec => []FilesLookAlike
<1>1. IInv => FilesLookAlike
  <2> SUFFICES ASSUME IInv PROVE FilesLookAlike
    OBVIOUS
  <2>l. Len(trip) \in 1 .. 7
    BY DEF IInv, IsSequence
  <2>1. ASSUME kind = "attrs", Len(trip) >= 3
        PROVE  /\ trip[3].size = trip[1].size /\ trip[3].type = trip[1].type
               /\ trip[3].bits = trip[1].bits % 512
               /\ trip[3].atime = Truncated(trip[1].atime)
               /\ trip[3].mtime = Truncated(trip[1].mtime)
               /\ trip[3].ctime = Truncated(trip[1].ctime)
               /\ (trip[3].uid = "caller") <=> (trip[1].uid = "srv")
    <3>1. /\ trip[2] = Attrs_create(trip[1])
          /\ trip[3] = Attrs_copy_to_stat(trip[2], "caller")
          /\ trip[1] \in Stats
      BY <2>l, <2>1 DEF IInv, ShownTrip, TimesTrip
    <3>2. PICK s \in Stats : s = trip[1]
      BY <3>1
    <3>3. PICK a : a = Attrs_create(s)
      OBVIOUS
    <3>4. /\ a.size = s.size /\ a.permissions = Permissions_create(s.bits)
          /\ a.timestamps = TimeSet(s.atime, s.mtime, s.ctime)
          /\ a.filetype = FileType_from_local(s.type)
          /\ a.is_owner <=> s.uid = "srv"
      BY <3>3 DEF Attrs_create
    <3>5. trip[3] = Attrs_copy_to_stat(a, "caller")
      BY <3>1, <3>2, <3>3
    <3>6. /\ trip[3].size = a.size
          /\ trip[3].type = FileType_to_local(a.filetype)
          /\ trip[3].bits = Permissions_to_bitmask(a.permissions)
          /\ trip[3].uid = IF a.is_owner THEN "caller" ELSE "root"
          /\ trip[3].atime = LocalTime(a.timestamps.access_sec, a.timestamps.access_usec)
          /\ trip[3].mtime = LocalTime(a.timestamps.modify_sec, a.timestamps.modify_usec)
          /\ trip[3].ctime = LocalTime(a.timestamps.creation_sec, a.timestamps.creation_usec)
      BY <3>5 DEF Attrs_copy_to_stat
    <3>7. /\ trip[3].atime = LocalTime(s.atime.sec, s.atime.nsec \div 1000)
          /\ trip[3].mtime = LocalTime(s.mtime.sec, s.mtime.nsec \div 1000)
          /\ trip[3].ctime = LocalTime(s.ctime.sec, s.ctime.nsec \div 1000)
      BY <3>4, <3>6 DEF TimeSet
    <3>8. s.atime \in Time /\ s.mtime \in Time /\ s.ctime \in Time
      BY TimeAssumption
    <3>9. /\ trip[3].atime = Truncated(s.atime)
          /\ trip[3].mtime = Truncated(s.mtime)
          /\ trip[3].ctime = Truncated(s.ctime)
      BY <3>7, <3>8, Micros
    <3>10. s.type \in FileTypes /\ s.bits \in Nat
      BY StatAssumption
    <3>11. trip[3].bits = s.bits % 512
      BY <3>4, <3>6, <3>10, NineBits
    <3>12. trip[3].type = s.type
      <4>1. s.type # "none"
        BY <3>10 DEF FileTypes
      <4> QED
        BY <3>4, <3>6, <3>10, <4>1, TypeBack
    <3>13. (trip[3].uid = "caller") <=> (s.uid = "srv")
      BY <3>4, <3>6
    <3> QED
      BY <3>2, <3>4, <3>6, <3>9, <3>11, <3>12, <3>13
  <2>2. ASSUME kind = "attrs", Len(trip) >= 4
        PROVE  {trip[4].access_usec, trip[4].modify_usec} \subseteq Microseconds
    <3>1. Len(trip) >= 3
      BY <2>l, <2>2
    <3>2. trip[1] \in Stats /\ trip[1].atime \in Time /\ trip[1].mtime \in Time
      BY <2>2, TimeAssumption DEF IInv, TimesTrip
    <3>3. trip[3].atime = Truncated(trip[1].atime) /\ trip[3].mtime = Truncated(trip[1].mtime)
      BY <2>1, <2>2, <3>1
    <3>4. \A t \in Time : Truncated(t) \in Time
      <4> SUFFICES ASSUME NEW t \in Time PROVE Truncated(t) \in Time
        OBVIOUS
      <4>1. t.sec \in Int /\ t.nsec \in 0 .. Billion - 1
        BY SMT DEF Time
      <4>2. t.nsec - (t.nsec % 1000) \in 0 .. Billion - 1
        BY <4>1, Thousands, SMT
      <4> QED
        BY <4>1, <4>2, Zenon DEF Time, Truncated
    <3>5. PICK a \in Time, m \in Time : \E c : trip[4] = TimeSet(a, m, c)
      <4>1. CASE trip[4] = TimeSet(trip[3].atime, trip[3].mtime, trip[3].ctime)
        BY <3>2, <3>3, <3>4, <4>1
      <4>2. CASE \E now \in Times : trip[4] = TimeSet(now, now, now)
        BY <4>2, TimeAssumption
      <4> QED
        BY <2>2, <4>1, <4>2 DEF IInv, TimesTrip
    <3>6. trip[4].access_usec = a.nsec \div 1000 /\ trip[4].modify_usec = m.nsec \div 1000
      BY <3>5 DEF TimeSet
    <3> QED
      BY <3>6, Millionth
  <2>3. ASSUME kind = "mode", Len(trip) = 3
        PROVE  /\ trip[3].bits = trip[1].bits % 512
               /\ trip[3].type = IF trip[1].type = "none" THEN "S_IFREG" ELSE trip[1].type
    <3>1. /\ trip[1] \in Modes /\ trip[2] = SentMode(trip[1])
          /\ trip[3] = UsedMode(trip[2])
      BY <2>3 DEF IInv, ModeTrip
    <3>2. trip[1].type \in FileTypes \cup {"none"} /\ trip[1].bits \in Nat
      BY <3>1, ModeAssumption
    <3>3. /\ trip[3].bits = Permissions_to_bitmask(Permissions_create(trip[1].bits))
          /\ trip[3].type = FileType_to_local(FileType_from_local(trip[1].type))
      BY <3>1 DEF SentMode, UsedMode
    <3> QED
      BY <3>2, <3>3, NineBits, TypeBack
  <2>4. ASSUME kind = "create", Len(trip) = 3
        PROVE  trip[3] = (trip[1].bits % 512) + If(~HasBit(trip[1].bits, 128), 128)
    <3>1. /\ trip[1] \in Modes /\ trip[2] = Permissions_create(trip[1].bits)
          /\ trip[3] = Writable(Permissions_to_bitmask(trip[2]))
      BY <2>4 DEF IInv, CreateTrip
    <3>2. trip[1].bits \in Nat
      BY <3>1, ModeAssumption
    <3>3. Permissions_to_bitmask(trip[2]) = trip[1].bits % 512
      BY <3>1, <3>2, NineBits
    <3>4. HasBit(trip[1].bits % 512, 128) <=> HasBit(trip[1].bits, 128)
      BY <3>2, OwnerWrite
    <3> QED
      BY <3>1, <3>3, <3>4, Zenon DEF Writable, If, S_IWUSR
  <2> QED
    BY <2>1, <2>2, <2>3, <2>4, ZenonT(60) DEF FilesLookAlike
<1> QED
  BY <1>1, Invariant, PTL

=============================================================================
