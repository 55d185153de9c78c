----------------------------- MODULE Conversions -----------------------------
(***************************************************************************)
(* What a value goes through on its way between a system call on one side  *)
(* and one on the other.  A journey starts with any value of one kind, and *)
(* a step applies the next conversion of the code to what the last one     *)
(* made; trip is everything the value has been.                            *)
(***************************************************************************)
EXTENDS Mapping, DataBlock, PathJoin

CONSTANTS
    Stats,     \* of files on the server
    Times,     \* that gettimeofday may return
    Modes,     \* of mkdir, create, chmod, access and mknod
    Flags,     \* of open
    Errnos,    \* of the server's system calls
    StatVfss,  \* of the exported file system
    Payloads,  \* of read and write
    Buffers,   \* what the application may ask for beyond what there is to read
    Folders,   \* exported directories, as realpath returns them
    Requests,  \* paths in requests, which begin with a separator
    Names      \* of directory entries

Billion == 1000000000

Time == [sec : Int, nsec : 0 .. Billion - 1]

FileTypes == {"S_IFDIR", "S_IFCHR", "S_IFBLK", "S_IFIFO", "S_IFLNK", "S_IFREG", "S_IFSOCK"}

ASSUME TimeAssumption ==
    /\ Times \subseteq Time
    /\ \A s \in Stats : {s.atime, s.mtime, s.ctime} \subseteq Time

ASSUME StatAssumption == \A s \in Stats : s.type \in FileTypes /\ s.bits \in Nat

\* the mode of mkdir and chmod has no type
ASSUME ModeAssumption ==
    \A m \in Modes : m.type \in FileTypes \cup {"none"} /\ m.bits \in Nat

ASSUME FlagAssumption == Flags \subseteq Nat

ASSUME StatVfsAssumption == StatVfss \subseteq [StatFsFields -> Unsigned]

ASSUME DataAssumption == Payloads \subseteq Payload /\ Buffers \subseteq Nat

ASSUME PathAssumption ==
    Folders \subseteq Folder /\ Requests \subseteq Request /\ Names \subseteq Name

VARIABLES kind, trip

Conversions == <<kind, trip>>

Init ==
    /\ \/ kind = "attrs"  /\ \E x \in Stats : trip = <<x>>
       \/ kind = "mode"   /\ \E x \in Modes : trip = <<x>>
       \/ kind = "create" /\ \E x \in Modes : trip = <<x>>
       \/ kind = "flags"  /\ \E x \in Flags : trip = <<x>>
       \/ kind = "errno"  /\ \E x \in Errnos : trip = <<x>>
       \/ kind = "statfs" /\ \E x \in StatVfss : trip = <<x>>
       \/ kind = "data"   /\ \E x \in Payloads : trip = <<x>>
       \/ kind = "path"   /\ \E x \in Folders : trip = <<x>>

At(k, n) == kind = k /\ Len(trip) = n

Becomes(x) == trip' = Append(trip, x) /\ UNCHANGED kind

-----------------------------------------------------------------------------
(* getattr and readdir, and utimens with the times they returned           *)

SendAttrs ==
    /\ At("attrs", 1) \/ At("attrs", 5)
    /\ Becomes(Attrs_create(trip[Len(trip)]))

ShowAttrs ==
    /\ At("attrs", 2) \/ At("attrs", 6)
    /\ Becomes(Attrs_copy_to_stat(trip[Len(trip)], "caller"))

\* mutant: the microseconds are rounded up
Rhizofs_utimens_Rounded ==
    /\ At("attrs", 3)
    /\ LET up(t) == [t EXCEPT !.nsec = (@ + 1000) % 1000000000] IN
       Becomes(TimeSet(up(trip[3].atime), up(trip[3].mtime), trip[3].ctime))

\* Rhizofs_utimens, with times or without
Rhizofs_utimens ==
    /\ At("attrs", 3)
    /\ \/ Becomes(TimeSet(trip[3].atime, trip[3].mtime, trip[3].ctime))
       \/ \E now \in Times : Becomes(TimeSet(now, now, now))

\* ServeDir_op_utimens, and what utimes makes of the file; the time of the change
\* is the server's own
ServeDir_op_utimens ==
    /\ At("attrs", 4)
    /\ \E now \in Times :
         Becomes([trip[1] EXCEPT
             !.atime = LocalTime(trip[4].access_sec, trip[4].access_usec),
             !.mtime = LocalTime(trip[4].modify_sec, trip[4].modify_usec),
             !.ctime = now])

-----------------------------------------------------------------------------
(* requests with a mode, open, answers with an error, statfs               *)

SendMode ==
    /\ At("mode", 1)
    /\ Becomes([permissions |-> Permissions_create(trip[1].bits),
                filetype |-> FileType_from_local(trip[1].type)])

UseMode ==
    /\ At("mode", 2)
    /\ Becomes([bits |-> Permissions_to_bitmask(trip[2].permissions),
                type |-> FileType_to_local(trip[2].filetype)])

Rhizofs_create == At("create", 1) /\ Becomes(Permissions_create(trip[1].bits))

\* mutant: the file is created just as asked for
ServeDir_op_create_AsAsked ==
    At("create", 2) /\ Becomes(Permissions_to_bitmask(trip[2]))

\* create_mode, to which S_IWUSR is always added
ServeDir_op_create ==
    /\ At("create", 2)
    /\ LET asked == Permissions_to_bitmask(trip[2]) IN
       Becomes(asked + If(~HasBit(asked, S_IWUSR), S_IWUSR))

SendFlags == At("flags", 1) /\ Becomes(OpenFlags_from_bitmask(trip[1]))
UseFlags  == At("flags", 2) /\ Becomes(OpenFlags_to_bitmask(trip[2]))

Response_set_errno == At("errno", 1) /\ Becomes(Errno_from_local(trip[1]))
Response_get_errno == At("errno", 2) /\ Becomes(Errno_to_local(trip[2]))

SendStatFs == At("statfs", 1) /\ Becomes(StatFs_create(trip[1]))
ShowStatFs == At("statfs", 2) /\ Becomes(StatFs_copy(trip[2]))

-----------------------------------------------------------------------------
(* data and paths                                                          *)

\* Request_set_data and Response_set_data
SetData == At("data", 1) /\ Becomes(DataBlock_set_data(trip[1]))

\* ServeDir_op_write
WriteData == At("data", 2) /\ Becomes(DataBlock_get_data(trip[2]))

\* Rhizofs_read: the server has sent at most what was asked for
ReadData ==
    /\ At("data", 2)
    /\ \E more \in Buffers :
         Becomes(DataBlock_get_data_noalloc(trip[2], trip[1].len + more))

ServeDir_fullpath ==
    /\ At("path", 1)
    /\ \E path \in Requests : Becomes(path_join(trip[1], path))

\* an entry of the directory: of the full path in ServeDir_op_readdir, of the path
\* of the request in Rhizofs_readdir
JoinEntry ==
    /\ At("path", 2)
    /\ \E path \in Requests \cup {trip[2].path}, name \in Names :
         Becomes(path_join(path, name))

Next ==
    \/ SendAttrs \/ ShowAttrs \/ Rhizofs_utimens \/ ServeDir_op_utimens
    \/ SendMode \/ UseMode \/ Rhizofs_create \/ ServeDir_op_create
    \/ SendFlags \/ UseFlags
    \/ Response_set_errno \/ Response_get_errno
    \/ SendStatFs \/ ShowStatFs
    \/ SetData \/ WriteData \/ ReadData
    \/ ServeDir_fullpath \/ JoinEntry

Spec == Init /\ [][Next]_Conversions

-----------------------------------------------------------------------------
(* Properties.                                                             *)

Microseconds == 0 .. (Billion \div 1000) - 1

Truncated(t) == [sec |-> t.sec, nsec |-> t.nsec - (t.nsec % 1000)]

\* The client shows a file of the server with its size, type, nine permission bits
\* and times down to the microsecond, as the caller's if it is the server user's;
\* mkdir, chmod, access and mknod give the server the type and the bits that were
\* asked for; a created file has those bits too, and the owner may always write it,
\* or the first write, which opens it again, would be refused.  The bits above the
\* nine are lost both ways.  Times go back to the server with less
\* than a second of microseconds, for utimes refuses others.
FilesLookAlike ==
    /\ kind = "attrs" /\ Len(trip) >= 3 =>
          /\ trip[3].size = trip[1].size /\ trip[3].type = trip[1].type
          /\ trip[3].bits = trip[1].bits % 512
          /\ trip[3].mtime = Truncated(trip[1].mtime)
          /\ trip[3].ctime = Truncated(trip[1].ctime)
          /\ (trip[3].uid = "caller") <=> (trip[1].uid = "srv")
    /\ kind = "attrs" /\ Len(trip) >= 4 =>
          {trip[4].access_usec, trip[4].modify_usec} \subseteq Microseconds
    /\ kind = "mode" /\ Len(trip) = 3 =>
          /\ trip[3].bits = trip[1].bits % 512
          /\ trip[3].type = IF trip[1].type = "none" THEN "S_IFREG" ELSE trip[1].type
    /\ kind = "create" /\ Len(trip) = 3 =>
          trip[3] = (trip[1].bits % 512) + If(~HasBit(trip[1].bits, 128), 128)

\* A program that reads a file's times and sets them again (cp -p, rsync) finds
\* them unchanged afterwards, as often as it does so: they do not drift.
TimesDoNotDrift ==
    kind = "attrs" /\ Len(trip) = 7 =>
        \/ trip[7].atime = trip[3].atime /\ trip[7].mtime = trip[3].mtime
        \/ \E now \in Times : trip[7].atime = Truncated(now) /\ trip[7].mtime = Truncated(now)

\* The server opens a file with the access mode and the effects that the
\* application asked for, and nothing else, although O_RDONLY has no bit.
OpensAsAsked ==
    kind = "flags" /\ Len(trip) = 3 =>
        /\ trip[3] % 4 = trip[1] % 4
        /\ \A b \in {O.CREAT, O.EXCL, O.TRUNC, O.APPEND} :
               HasBit(trip[3], b) <=> HasBit(trip[1], b)
        /\ trip[3] < 2048

\* An error never turns into a success nor a success into an error: an error of
\* the table arrives as itself, every other one as EIO.  statfs shows the server's
\* numbers, which cross as signed ones, also with the highest bit set.
AnswersArrive ==
    /\ kind = "errno" /\ Len(trip) = 3 =>
          trip[3] = IF InColumn(2, trip[1]) THEN trip[1] ELSE "EIO"
    /\ kind = "statfs" /\ Len(trip) = 3 => trip[3] = trip[1]

\* Data arrives as it was sent: empty, below and above the threshold of the
\* compression, compressed or not because there was no memory.
DataArrives ==
    kind = "data" /\ Len(trip) = 3 =>
        trip[3] = [len |-> trip[1].len,
                   bytes |-> IF trip[1].len = 0 THEN "" ELSE "data"]

\* The compressed data fits its buffer: set_lz4_compressed_data sizes it "to prevent
\* writes outside the allocated memory area".
CompressedFits ==
    kind = "data" /\ Len(trip) >= 2 => trip[2].len <= trip[2].allocated

\* The compressor writes past the buffer only if the data does not get smaller,
\* never by more than two bytes, and not from 24500 bytes on, where the 0.4%
\* make up for the token and the first byte of the length.
OverrunBounded ==
    kind = "data" /\ Len(trip) >= 2 /\ trip[2].len > trip[2].allocated =>
        /\ trip[2].compression = "LZ4" /\ trip[2].len > trip[2].size
        /\ trip[2].len <= trip[2].allocated + 2
        /\ trip[2].size < 24500

Root(path) == path.len = 1 /\ path.last

\* A joined path fits its buffer exactly and has one separator where its parts
\* meet, except when "/" itself is exported: there the path of a request is
\* written one byte past the end, with two separators.
JoinFits ==
    kind = "path" =>
        /\ Len(trip) >= 2 =>
              LET extra == IF Root(trip[1]) THEN 1 ELSE 0 IN
              /\ trip[2].written = trip[2].buffer + extra
              /\ trip[2].separators = 1 + extra
        /\ Len(trip) = 3 => trip[3].written = trip[3].buffer /\ trip[3].separators = 1
=============================================================================
