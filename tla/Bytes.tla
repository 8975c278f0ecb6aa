------------------------------- MODULE Bytes -------------------------------
(* The buffers of src/src/core/utils.cpp: sequences of bytes, and uint32_t   *)
(* in network order.                                                        *)
EXTENDS Integers, Sequences

Byte == 0 .. 255

\* n bytes from a 0-based position on: std::span::subspan, std::copy_n.
Slice(bytes, pos, n) == SubSeq(bytes, pos + 1, pos + n)

\* ByteWriter::write_u32.
WriteU32(n) ==
  <<n \div 16777216, (n \div 65536) % 256, (n \div 256) % 256, n % 256>>

\* ByteReader::readU32 at a cursor, if there are four bytes left: a set of one
\* value, or none where the code throws.
ReadU32(bytes, cursor) ==
  {16777216 * bytes[cursor + 1] + 65536 * bytes[cursor + 2]
     + 256 * bytes[cursor + 3] + bytes[cursor + 4] :
       ok \in {n \in {cursor + 4} : n <= Len(bytes)}}

\* ByteReader::readRemaining.
ReadRemaining(bytes, cursor) == Slice(bytes, cursor, Len(bytes) - cursor)
=============================================================================
