------------------------------ MODULE DataBlock ------------------------------
(***************************************************************************)
(* The data of a read or a write in a message (src/src/datablock.c).  The  *)
(* bytes themselves are kept as one value; what matters is how many they   *)
(* are, how many LZ4 makes of them, and how large the buffers are.  LZ4 is *)
(* external: it makes at least one byte, and for data without any          *)
(* repetition a single run of literals.                                    *)
(***************************************************************************)
EXTENDS Integers

\* one token, the bytes that extend the length from 15 on, the bytes themselves
Literals(len) == 1 + (IF len < 15 THEN 0 ELSE 1 + (len - 15) \div 255) + len

\* A payload has [bytes, len, lz4, memory]: lz4 is what LZ4_compress returns for it,
\* and memory says whether set_lz4_compressed_data gets its buffer.
Payload ==
    {p \in [bytes : {"data"}, len : Nat, lz4 : Nat, memory : BOOLEAN] :
        p.lz4 \in 1 .. Literals(p.len)}

\* a block has [size, bytes, coded, len, compression, allocated]: len bytes in a
\* buffer of allocated bytes, coded by LZ4 or not; size is what they decode to
DataBlock_create ==
    [size |-> 0, bytes |-> "", coded |-> FALSE, len |-> 0, compression |-> "NONE",
     allocated |-> 0]

Coded(payload, extra_mem_size) ==
    [size |-> payload.len, bytes |-> payload.bytes, coded |-> TRUE,
     len |-> payload.lz4, compression |-> "LZ4",
     allocated |-> payload.len + extra_mem_size]

set_lz4_compressed_data(payload) == Coded(payload, payload.len \div 250)

Uncompressed(payload) ==
    [size |-> payload.len, bytes |-> payload.bytes, coded |-> FALSE,
     len |-> payload.len, compression |-> "NONE", allocated |-> payload.len]

\* mutant: a block that could not be compressed is still said to be
DataBlock_set_data_Marked(payload) ==
    IF payload.len = 0 THEN DataBlock_create
    ELSE IF payload.len > 100 /\ payload.memory THEN set_lz4_compressed_data(payload)
    ELSE [Uncompressed(payload) EXCEPT !.compression =
              IF payload.len > 100 THEN "LZ4" ELSE "NONE"]

\* Both callers ask for LZ4.  An empty block stays as DataBlock_create made it, and
\* what is not worth compressing or cannot be is stored as it is.
DataBlock_set_data(payload) ==
    IF payload.len = 0 THEN DataBlock_create
    ELSE IF payload.len > 100 /\ payload.memory THEN set_lz4_compressed_data(payload)
    ELSE Uncompressed(payload)

Failure == [len |-> -1, bytes |-> ""]

get_uncompressed_data(block) == [len |-> block.len, bytes |-> block.bytes]

\* LZ4_uncompress makes size bytes and uses up the block, if LZ4_compress made it
get_lz4_compressed_data(block) ==
    IF block.coded THEN [len |-> block.size, bytes |-> block.bytes] ELSE Failure

\* in a buffer that is allocated for it
DataBlock_get_data(block) ==
    IF block.compression = "NONE" THEN get_uncompressed_data(block)
    ELSE get_lz4_compressed_data(block)

\* in a buffer of data_len bytes
DataBlock_get_data_noalloc(block, data_len) ==
    IF data_len < block.size THEN Failure ELSE DataBlock_get_data(block)
=============================================================================
