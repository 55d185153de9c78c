------------------------------- MODULE Mapping -------------------------------
(***************************************************************************)
(* The conversions between what the system calls of either side use and    *)
(* what travels in a message (src/src/mapping.c): error numbers,           *)
(* permissions, file types, open flags, attributes, file system            *)
(* statistics.  Masks are numbers; error numbers and types have their      *)
(* names.                                                                  *)
(***************************************************************************)
EXTENDS Integers, Sequences

CONSTANT SignBit  \* the weight of the highest bit of an int64 and of an unsigned long

ASSUME SignBitAssumption == SignBit \in Nat \ {0}

\* the bit b of a mask; O_RDONLY is no bit at all
HasBit(mask, b) == b # 0 /\ (mask \div b) % 2 = 1

If(b, v) == IF b THEN v ELSE 0

-----------------------------------------------------------------------------
\* the error numbers, in the order of the table: protocol, local
errno_map == <<
    <<"NONE", "0">>, <<"PERM", "EPERM">>, <<"NOENT", "ENOENT">>, <<"NOMEM", "ENOMEM">>,
    <<"ACCES", "EACCES">>, <<"BUSY", "EBUSY">>, <<"EXIST", "EEXIST">>,
    <<"NOTDIR", "ENOTDIR">>, <<"ISDIR", "EISDIR">>, <<"INVAL", "EINVAL">>,
    <<"FBIG", "EFBIG">>, <<"NOSPC", "ENOSPC">>, <<"ROFS", "EROFS">>,
    <<"SPIPE", "ESPIPE">>, <<"UNKNOWN", "EIO">>, <<"INVALID_REQUEST", "EINVAL">>,
    <<"UNSERIALIZABLE", "EIO">> >>

\* the first row whose column c is e
Row(c, e) ==
    CHOOSE i \in DOMAIN errno_map :
        errno_map[i][c] = e /\ \A j \in 1 .. i - 1 : errno_map[j][c] # e

InColumn(c, e) == \E i \in DOMAIN errno_map : errno_map[i][c] = e

\* mutant: what is not in the table is no error
Errno_from_local_None(lerrno) ==
    IF InColumn(2, lerrno) THEN errno_map[Row(2, lerrno)][1] ELSE "NONE"

Errno_from_local(lerrno) ==
    IF InColumn(2, lerrno) THEN errno_map[Row(2, lerrno)][1] ELSE "UNKNOWN"

Errno_to_local(perrno) ==
    IF InColumn(1, perrno) THEN errno_map[Row(1, perrno)][2] ELSE "EIO"

-----------------------------------------------------------------------------
\* the bits of one class of users
PermissionSet(bits) ==
    [read |-> HasBit(bits, 4), write |-> HasBit(bits, 2), execute |-> HasBit(bits, 1)]

Permissions_create(mode) ==
    [owner |-> PermissionSet(mode \div 64), group |-> PermissionSet(mode \div 8),
     world |-> PermissionSet(mode)]

Bits(permset) == If(permset.read, 4) + If(permset.write, 2) + If(permset.execute, 1)

Permissions_to_bitmask(permissions) ==
    64 * Bits(permissions.owner) + 8 * Bits(permissions.group) + Bits(permissions.world)

\* the owner's permission to write
S_IWUSR == 128

FileType_to_local(filetype) ==
    CASE filetype = "FT_DIRECTORY"        -> "S_IFDIR"
      [] filetype = "FT_CHARACTER_DEVICE" -> "S_IFCHR"
      [] filetype = "FT_BLOCK_DEVICE"     -> "S_IFBLK"
      [] filetype = "FT_FIFO"             -> "S_IFIFO"
      [] filetype = "FT_SYMLINK"          -> "S_IFLNK"
      [] filetype = "FT_SOCKET"           -> "S_IFSOCK"
      [] OTHER                            -> "S_IFREG"

\* the type of a mode, which may have none
FileType_from_local(type) ==
    CASE type = "S_IFDIR"  -> "FT_DIRECTORY"
      [] type = "S_IFLNK"  -> "FT_SYMLINK"
      [] type = "S_IFBLK"  -> "FT_BLOCK_DEVICE"
      [] type = "S_IFIFO"  -> "FT_FIFO"
      [] type = "S_IFSOCK" -> "FT_SOCKET"
      [] type = "S_IFCHR"  -> "FT_CHARACTER_DEVICE"
      [] OTHER             -> "FT_REGULAR_FILE"

-----------------------------------------------------------------------------
O == [RDONLY |-> 0, WRONLY |-> 1, RDWR |-> 2, CREAT |-> 64, EXCL |-> 128,
      TRUNC |-> 512, APPEND |-> 1024]

OpenFlags_from_bitmask(flags) == [f \in DOMAIN O |-> HasBit(flags, O[f])]

\* mutant: whoever asked for both reading and writing gets both bits
OpenFlags_to_bitmask_Both(openflags) ==
    If(openflags.WRONLY \/ openflags.RDWR, O.WRONLY) + If(openflags.RDWR, O.RDWR)
    + If(openflags.CREAT, O.CREAT) + If(openflags.EXCL, O.EXCL)
    + If(openflags.TRUNC, O.TRUNC) + If(openflags.APPEND, O.APPEND)

OpenFlags_to_bitmask(openflags) ==
    If(openflags.RDONLY, O.RDONLY) + If(openflags.WRONLY, O.WRONLY)
    + If(openflags.RDWR, O.RDWR) + If(openflags.CREAT, O.CREAT)
    + If(openflags.EXCL, O.EXCL) + If(openflags.TRUNC, O.TRUNC)
    + If(openflags.APPEND, O.APPEND)

-----------------------------------------------------------------------------
\* A stat has [size, type, bits, nlink, uid, gid, atime, mtime, ctime], a time
\* [sec, nsec]; a TimeSet is reduced to its six numbers.

TimeSet(a, m, c) ==
    [access_sec |-> a.sec, access_usec |-> a.nsec \div 1000, modify_sec |-> m.sec,
     modify_usec |-> m.nsec \div 1000, creation_sec |-> c.sec,
     creation_usec |-> c.nsec \div 1000]

\* the server's user is "srv", and "srvgrp" one of the groups of getgroups
Attrs_create(stat) ==
    [size |-> stat.size, permissions |-> Permissions_create(stat.bits),
     timestamps |-> TimeSet(stat.atime, stat.mtime, stat.ctime),
     filetype |-> FileType_from_local(stat.type),
     is_owner |-> stat.uid = "srv", is_in_group |-> stat.gid = "srvgrp"]

LocalTime(sec, usec) == [sec |-> sec, nsec |-> usec * 1000]

\* Attrs_copy_to_stat, and the owner that Rhizofs_convert_attrs_stat sets
Attrs_copy_to_stat(attrs, caller) ==
    LET ts == attrs.timestamps IN
    [size |-> attrs.size, type |-> FileType_to_local(attrs.filetype),
     bits |-> Permissions_to_bitmask(attrs.permissions), nlink |-> 1,
     uid |-> IF attrs.is_owner THEN caller ELSE "root",
     gid |-> IF attrs.is_in_group THEN caller ELSE "root",
     atime |-> LocalTime(ts.access_sec, ts.access_usec),
     mtime |-> LocalTime(ts.modify_sec, ts.modify_usec),
     ctime |-> LocalTime(ts.creation_sec, ts.creation_usec)]

-----------------------------------------------------------------------------
StatFsFields == {"bsize", "frsize", "blocks", "bfree", "bavail", "files", "ffree",
                 "favail", "fsid", "flag", "namemax"}

\* what an unsigned long holds
Unsigned == 0 .. 2 * SignBit - 1

\* every field of the statvfs, an unsigned number, to an int64
StatFs_create(st) ==
    [f \in StatFsFields |-> IF st[f] < SignBit THEN st[f] ELSE st[f] - 2 * SignBit]

\* and back, in Rhizofs_statfs
StatFs_copy(stfs) == [f \in StatFsFields |-> stfs[f] % (2 * SignBit)]
=============================================================================
