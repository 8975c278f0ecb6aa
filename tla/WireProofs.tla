----------------------------- MODULE WireProofs -----------------------------
(* Theorems of Wire, for every script of a peer and every place where its   *)
(* connection is cut: the layouts can be read back, the session reads what  *)
(* the peer sent, and the peer what the client means.                       *)
EXTENDS Wire, LibraryProofs

\* A number and its lowest byte.
LEMMA LowestByte ==
  ASSUME NEW n \in Nat, NEW q, q = n \div 256, NEW r, r = n % 256
  PROVE  q \in Nat /\ r \in 0 .. 255 /\ n = 256 * q + r
  <1>1. q \in Nat /\ r \in 0 .. 255
    BY SMT
  <1>2. QED
    BY <1>1, SMT

\* A number and its two lowest bytes.
LEMMA LowestTwo ==
  ASSUME NEW n \in Nat,
         NEW q, q = n \div 65536
  PROVE  q \in Nat /\ 65536 * q <= n /\ n < 65536 * q + 65536
  <1>1. q \in Nat
    BY SMT
  <1>2. QED
    BY <1>1, SMT

\* A number and its three lowest bytes.
LEMMA LowestThree ==
  ASSUME NEW n \in Nat, NEW q, q = n \div 16777216
  PROVE  q \in Nat /\ 16777216 * q <= n /\ n < 16777216 * q + 16777216
  <1>1. q \in Nat
    BY SMT
  <1>2. QED
    BY <1>1, SMT

\* The four bytes of a number, put together, are the number.
LEMMA BytesOfU32 ==
  ASSUME NEW n \in Nat,
         NEW q1, q1 = n \div 256, NEW q2, q2 = n \div 65536, NEW q3, q3 = n \div 16777216,
         NEW r0, r0 = n % 256, NEW r1, r1 = q1 % 256, NEW r2, r2 = q2 % 256
  PROVE  16777216 * q3 + 65536 * r2 + 256 * r1 + r0 = n
  <1>1. q1 \in Nat /\ r0 \in 0 .. 255 /\ n = 256 * q1 + r0
    BY LowestByte, SMT
  <1>2. q2 \in Nat /\ 65536 * q2 <= n /\ n < 65536 * q2 + 65536
    BY LowestTwo, SMT
  <1>3. q3 \in Nat /\ 16777216 * q3 <= n /\ n < 16777216 * q3 + 16777216
    BY LowestThree, SMT
  <1>4. q1 \div 256 \in Nat /\ r1 \in 0 .. 255 /\ q1 = 256 * (q1 \div 256) + r1
    BY <1>1, LowestByte, SMT
  <1>5. q2 \div 256 \in Nat /\ r2 \in 0 .. 255 /\ q2 = 256 * (q2 \div 256) + r2
    BY <1>2, LowestByte, SMT
  <1>6. q1 \div 256 = q2
    BY <1>1, <1>2, <1>4, SMT
  <1>7. q2 \div 256 = q3
    BY <1>2, <1>3, <1>5, SMT
  <1>8. q1 = 256 * q2 + r1 /\ q2 = 256 * q3 + r2
    BY <1>4, <1>5, <1>6, <1>7, SMT
  <1>9. QED
    BY <1>1, <1>2, <1>3, <1>4, <1>5, <1>8, SMT

\* What ByteWriter::write_u32 writes, ByteReader::readU32 reads, for every
\* uint32_t: lengths, piece indices and offsets keep their value.
THEOREM ReadUndoesWrite ==
  ASSUME NEW n \in Nat, n < 256 * 16777216
  PROVE  WriteU32(n) \in Seq(Byte) /\ ReadU32(WriteU32(n), 0) = {n}
  <1> DEFINE q1 == n \div 256
             q2 == n \div 65536
             q3 == n \div 16777216
             r0 == n % 256
             r1 == q1 % 256
             r2 == q2 % 256
  <1>1. WriteU32(n) = <<q3, r2, r1, r0>>
    BY SMT DEF WriteU32
  <1>2. /\ q1 = n \div 256 /\ q2 = n \div 65536 /\ q3 = n \div 16777216
        /\ r0 = n % 256 /\ r1 = q1 % 256 /\ r2 = q2 % 256
    BY SMT
  <1> HIDE DEF q1, q2, q3, r0, r1, r2
  <1>3. /\ 16777216 * q3 + 65536 * r2 + 256 * r1 + r0 = n
        /\ q3 \in Byte /\ r2 \in Byte /\ r1 \in Byte /\ r0 \in Byte
    <2>1. 16777216 * q3 + 65536 * r2 + 256 * r1 + r0 = n
      BY <1>2, BytesOfU32, SMT
    <2>2. q3 \in Byte
      BY <1>2, LowestThree, SMT DEF Byte
    <2>3. q1 \in Nat /\ q2 \in Nat /\ r0 \in Byte
      BY <1>2, LowestByte, LowestTwo, SMT DEF Byte
    <2>4. r1 \in Byte /\ r2 \in Byte
      BY <1>2, <2>3, LowestByte, SMT DEF Byte
    <2>5. QED
      BY <2>1, <2>2, <2>3, <2>4, SMT
  <1>4. ReadU32(<<q3, r2, r1, r0>>, 0)
          = {16777216 * q3 + 65536 * r2 + 256 * r1 + r0}
    BY SMT DEF ReadU32
  <1>5. <<q3, r2, r1, r0>> \in Seq(Byte)
    BY <1>3, SMT
  <1>6. QED
    BY <1>1, <1>3, <1>4, <1>5, SMT
-----------------------------------------------------------------------------
\* Two strings of bytes in a row.
LEMMA Joined ==
  ASSUME NEW k \in Nat, NEW n \in Nat, NEW sum, sum = k + n,
         NEW s \in ByteStrings(k), NEW t \in ByteStrings(n)
  PROVE  s \o t \in ByteStrings(sum)
  BY SMT DEF ByteStrings

LEMMA JoinedFirst ==
  ASSUME NEW k \in Nat, NEW n \in Nat,
         NEW s \in ByteStrings(k), NEW t \in ByteStrings(n), NEW i \in 1 .. k
  PROVE  (s \o t)[i] = s[i]
  BY SMT DEF ByteStrings

LEMMA JoinedSecond ==
  ASSUME NEW k \in Nat, NEW n \in Nat,
         NEW s \in ByteStrings(k), NEW t \in ByteStrings(n), NEW i \in 1 .. n
  PROVE  (s \o t)[k + i] = t[i]
  BY SMT DEF ByteStrings

LEMMA OneByte ==
  ASSUME NEW b \in Byte
  PROVE  <<b>> \in ByteStrings(1) /\ <<b>>[1] = b
  BY SMT DEF ByteStrings

LEMMA SameBytes ==
  ASSUME NEW n \in Nat, NEW s \in ByteStrings(n), NEW t \in ByteStrings(n),
         \A i \in 1 .. n : s[i] = t[i]
  PROVE  s = t
  BY SMT DEF ByteStrings

\* A slice of a string of bytes.
LEMMA Sliced ==
  ASSUME NEW k \in Nat, NEW s \in ByteStrings(k),
         NEW pos \in Nat, NEW n \in Nat, pos + n <= k
  PROVE  /\ Slice(s, pos, n) \in ByteStrings(n)
         /\ \A i \in 1 .. n : Slice(s, pos, n)[i] = s[pos + i]
  <1>1. \A i \in pos + 1 .. pos + n : s[i] \in Byte
    BY SMT DEF ByteStrings
  <1>2. /\ SubSeq(s, pos + 1, pos + n) \in Seq(Byte)
        /\ Len(SubSeq(s, pos + 1, pos + n))
             = IF pos + 1 <= pos + n THEN (pos + n) - (pos + 1) + 1 ELSE 0
        /\ \A i \in 1 .. (pos + n) - (pos + 1) + 1 :
             SubSeq(s, pos + 1, pos + n)[i] = s[(pos + 1) + i - 1]
    BY <1>1, SubSeqProperties, SMT
  <1>3. QED
    BY <1>2, SMT DEF Slice, ByteStrings

\* A slice is the field that is there.
LEMMA SliceIs ==
  ASSUME NEW k \in Nat, NEW s \in ByteStrings(k), NEW pos \in Nat,
         NEW n \in Nat, pos + n <= k, NEW t \in ByteStrings(n),
         \A i \in 1 .. n : s[pos + i] = t[i]
  PROVE  Slice(s, pos, n) = t
  <1>1. /\ Slice(s, pos, n) \in ByteStrings(n)
        /\ \A i \in 1 .. n : Slice(s, pos, n)[i] = s[pos + i]
    BY Sliced
  <1>2. \A i \in 1 .. n : Slice(s, pos, n)[i] = t[i]
    BY <1>1
  <1>3. QED
    BY <1>1, <1>2, SameBytes

\* A field of a handshake.
LEMMA FieldIs ==
  ASSUME NEW s \in ByteStrings(68), NEW pos \in Nat, NEW n \in Nat, pos + n <= 68,
         NEW t \in ByteStrings(n), \A i \in 1 .. n : s[pos + i] = t[i]
  PROVE  Slice(s, pos, n) = t
  BY SliceIs

\* Where the fields of a packed handshake are.
LEMMA PackedFields ==
  ASSUME NEW h \in Handshakes
  PROVE  /\ Packed(h) \in ByteStrings(68)
         /\ Packed(h)[1] = h.pstrlen
         /\ \A i \in 1 .. 19 : Packed(h)[1 + i] = h.pstr[i]
         /\ \A i \in 1 .. 20 : Packed(h)[28 + i] = h.infoHash[i]
  <1> DEFINE a == <<h.pstrlen>>
             p == h.pstr
             r == h.reserved
             x == h.infoHash
             y == h.peerId
  <1>1. /\ p \in ByteStrings(19) /\ r \in ByteStrings(8)
        /\ x \in ByteStrings(20) /\ y \in ByteStrings(20)
    BY DEF Handshakes
  <1>2. a \in ByteStrings(1) /\ a[1] = h.pstrlen
    <2>1. h.pstrlen \in Byte
      BY DEF Handshakes
    <2>2. QED
      BY <2>1, OneByte
  <1>3. Packed(h) = a \o p \o r \o x \o y
    BY DEF Packed
  <1> HIDE DEF a, p, r, x, y
  <1>4. /\ 1 \in Nat /\ 8 \in Nat /\ 19 \in Nat /\ 20 \in Nat /\ 28 \in Nat /\ 48 \in Nat
    BY SMT
  <1>5. /\ 20 = 1 + 19 /\ 28 = 20 + 8 /\ 48 = 28 + 20 /\ 68 = 48 + 20
    BY SMT
  <1> DEFINE b == a \o p
             c == b \o r
             d == c \o x
             f == d \o y
  <1>6. b \in ByteStrings(20) /\ \A i \in 1 .. 1 : b[i] = a[i]
    <2>1. b \in ByteStrings(20)
      BY <1>4, <1>5, <1>1, <1>2, Joined, ZenonT(30)
    <2>2. ASSUME NEW i \in 1 .. 1 PROVE b[i] = a[i]
      BY <1>4, <1>1, <1>2, JoinedFirst, ZenonT(30)
    <2>3. QED
      BY <2>1, <2>2
  <1>7. ASSUME NEW i \in 1 .. 19 PROVE b[1 + i] = p[i]
    BY 1 \in Nat, 19 \in Nat, <1>1, <1>2, JoinedSecond, ZenonT(60)
  <1> HIDE DEF b
  <1>8. c \in ByteStrings(28) /\ \A i \in 1 .. 20 : c[i] = b[i]
    <2>1. c \in ByteStrings(28)
      BY <1>4, <1>5, <1>1, <1>2, Joined, <1>6, ZenonT(30)
    <2>2. ASSUME NEW i \in 1 .. 20 PROVE c[i] = b[i]
      BY <1>4, <1>6, <1>1, <1>2, JoinedFirst, ZenonT(30)
    <2>3. QED
      BY <2>1, <2>2
  <1> HIDE DEF c
  <1>9. d \in ByteStrings(48) /\ \A i \in 1 .. 28 : d[i] = c[i]
    <2>1. d \in ByteStrings(48)
      BY <1>4, <1>5, <1>1, <1>2, Joined, <1>8, ZenonT(30)
    <2>2. ASSUME NEW i \in 1 .. 28 PROVE d[i] = c[i]
      BY <1>4, <1>8, <1>1, <1>2, JoinedFirst, ZenonT(30)
    <2>3. QED
      BY <2>1, <2>2
  <1>10. ASSUME NEW i \in 1 .. 20 PROVE d[28 + i] = x[i]
    BY <1>4, <1>8, <1>1, <1>2, JoinedSecond, ZenonT(30)
  <1> HIDE DEF d
  <1>11. f \in ByteStrings(68) /\ \A i \in 1 .. 48 : f[i] = d[i]
    <2>1. f \in ByteStrings(68)
      BY <1>4, <1>5, <1>1, <1>2, Joined, <1>9, ZenonT(30)
    <2>2. ASSUME NEW i \in 1 .. 48 PROVE f[i] = d[i]
      BY <1>4, <1>9, <1>1, <1>2, JoinedFirst, ZenonT(30)
    <2>3. QED
      BY <2>1, <2>2
  <1> HIDE DEF f
  <1>12. f[1] = a[1]
    BY <1>6, <1>8, <1>9, <1>11, SMT
  <1>13. ASSUME NEW i \in 1 .. 19 PROVE f[1 + i] = p[i]
    <2>1. 1 + i \in 1 .. 20 /\ 1 + i \in 1 .. 28 /\ 1 + i \in 1 .. 48
      BY SMT
    <2>2. QED
      BY <2>1, <1>7, <1>8, <1>9, <1>11, ZenonT(30)
  <1>14. ASSUME NEW i \in 1 .. 20 PROVE f[28 + i] = x[i]
    <2>1. 28 + i \in 1 .. 48
      BY SMT
    <2>2. QED
      BY <2>1, <1>10, <1>11, ZenonT(30)
  <1>15. Packed(h) = f
    BY <1>3 DEF b, c, d, f
  <1>16. QED
    BY <1>11, <1>12, <1>13, <1>14, <1>15, <1>2 DEF p, x

\* verifyHandshake accepts exactly the handshakes of its protocol and its
\* torrent, whatever the reserved bytes and the peer's id are: the offsets
\* written by hand in it are those of struct HandshakePacket.
THEOREM VerifyReadsTheFields ==
  ASSUME NEW h \in Handshakes
  PROVE  VerifyHandshake(Packed(h)) <=>
           h.pstrlen = 19 /\ h.pstr = Protocol /\ h.infoHash = InfoHash
  <1> DEFINE e == Packed(h)
             p == h.pstr
             x == h.infoHash
  <1>1. e \in ByteStrings(68) /\ e[1] = h.pstrlen
    BY PackedFields, ZenonT(30)
  <1>2. \A i \in 1 .. 19 : e[1 + i] = p[i]
    BY PackedFields, ZenonT(30)
  <1>3. \A i \in 1 .. 20 : e[28 + i] = x[i]
    BY PackedFields, ZenonT(30)
  <1>4. p \in ByteStrings(19) /\ x \in ByteStrings(20)
    BY DEF Handshakes
  <1> HIDE DEF e, p, x
  <1>5. Slice(e, 1, 19) = p
    <2>1. 1 \in Nat /\ 19 \in Nat /\ 1 + 19 <= 68
      BY SMT
    <2>2. QED
      BY <1>1, <1>2, <1>4, <2>1, FieldIs, ZenonT(30)
  <1>6. Slice(e, 28, 20) = x
    <2>1. 28 \in Nat /\ 20 \in Nat /\ 28 + 20 <= 68
      BY SMT
    <2>2. QED
      BY <1>1, <1>3, <1>4, <2>1, FieldIs, ZenonT(30)
  <1>7. QED
    BY <1>1, <1>5, <1>6 DEF VerifyHandshake, e, p, x

-----------------------------------------------------------------------------
\* A handshake in front of other bytes is still read as itself.
LEMMA HandshakeFirst ==
  ASSUME NEW s \in ByteStrings(68), NEW t \in Seq(Byte)
  PROVE  Slice(s \o t, 0, 68) = s
  <1>1. Len(t) \in Nat /\ t \in ByteStrings(Len(t))
    BY SMT DEF ByteStrings
  <1>2. 68 \in Nat /\ 0 \in Nat /\ 68 + Len(t) \in Nat /\ 0 + 68 <= 68 + Len(t)
    BY <1>1, SMT
  <1>3. s \o t \in ByteStrings(68 + Len(t))
    BY <1>1, <1>2, Joined, ZenonT(30)
  <1>4. ASSUME NEW i \in 1 .. 68 PROVE (s \o t)[0 + i] = s[i]
    <2>1. 0 + i = i
      BY SMT
    <2>2. (s \o t)[i] = s[i]
      BY <1>1, <1>2, JoinedFirst, ZenonT(30)
    <2>3. QED
      BY <2>1, <2>2, ZenonT(30)
  <1> DEFINE u == s \o t
             m == 68 + Len(t)
  <1>5. /\ u \in ByteStrings(m) /\ m \in Nat /\ 0 + 68 <= m
        /\ \A i \in 1 .. 68 : u[0 + i] = s[i]
    BY <1>2, <1>3, <1>4
  <1> HIDE DEF u, m
  <1>6. Slice(u, 0, 68) = s
    <2>1. /\ Slice(u, 0, 68) \in ByteStrings(68)
          /\ \A i \in 1 .. 68 : Slice(u, 0, 68)[i] = u[0 + i]
      BY <1>2, <1>5, Sliced, ZenonT(30)
    <2>2. \A i \in 1 .. 68 : Slice(u, 0, 68)[i] = s[i]
      BY <1>5, <2>1
    <2>3. QED
      BY <1>2, <2>1, <2>2, SameBytes
  <1>7. QED
    BY <1>6 DEF u

-----------------------------------------------------------------------------
(* Frames are bytes *)

\* The numbers that fit are those below 2^32.
LEMMA U32Below ==
  ASSUME NEW n \in U32
  PROVE  n \in Nat /\ n < 256 * 16777216
  <1> DEFINE q == n \div 16777216
  <1>1. n \in Nat /\ q \in Byte
    BY DEF U32
  <1>2. q = n \div 16777216
    OBVIOUS
  <1> HIDE DEF q
  <1>3. n < 16777216 * q + 16777216
    BY <1>1, <1>2, LowestThree
  <1>4. QED
    BY <1>1, <1>3 DEF Byte

LEMMA BelowU32 ==
  ASSUME NEW n \in Nat, n < 256 * 16777216
  PROVE  n \in U32
  <1> DEFINE q == n \div 16777216
  <1>1. q = n \div 16777216
    OBVIOUS
  <1> HIDE DEF q
  <1>2. q \in Nat /\ 16777216 * q <= n
    BY <1>1, LowestThree
  <1>3. q \in Byte
    BY <1>2 DEF Byte
  <1>4. QED
    BY <1>1, <1>3 DEF U32

LEMMA U32Bytes ==
  ASSUME NEW n \in U32
  PROVE  /\ WriteU32(n) \in Seq(Byte) /\ Len(WriteU32(n)) = 4
         /\ ReadU32(WriteU32(n), 0) = {n}
  <1>1. n \in Nat /\ n < 256 * 16777216
    BY U32Below
  <1>2. WriteU32(n) \in Seq(Byte) /\ ReadU32(WriteU32(n), 0) = {n}
    BY <1>1, ReadUndoesWrite
  <1>3. Len(WriteU32(n)) = 4
    BY DEF WriteU32
  <1>4. QED
    BY <1>2, <1>3

\* The fields of a message, written behind each other.
FieldBytes(fields) == [i \in DOMAIN fields |-> WriteU32(fields[i])]

LEMMA FieldsAreBytes ==
  ASSUME NEW fields \in Seq(U32)
  PROVE  FieldBytes(fields) \in Seq(Seq(Byte)) /\ Len(FieldBytes(fields)) = Len(fields)
  <1>1. \A i \in 1 .. Len(fields) : WriteU32(fields[i]) \in Seq(Byte)
    BY U32Bytes
  <1> DEFINE B == Seq(Byte)
  <1>2. \A i \in 1 .. Len(fields) : WriteU32(fields[i]) \in B
    BY <1>1
  <1> HIDE DEF B
  <1>3. FieldBytes(fields) \in Seq(B) /\ Len(FieldBytes(fields)) = Len(fields)
    BY <1>2 DEF FieldBytes
  <1>4. QED
    BY <1>3 DEF B

\* The values of a message, well-formed or not.
AnyMessage == [id : Byte \cup {KEEP_ALIVE}, fields : Seq(U32), data : Seq(Byte)]

LEMMA PayloadIsBytes ==
  ASSUME NEW m \in AnyMessage
  PROVE  /\ Payload(m) = FlattenSeq(FieldBytes(m.fields)) \o m.data
         /\ Payload(m) \in Seq(Byte) /\ Len(Payload(m)) \in Nat
  <1>1. m.fields \in Seq(U32) /\ m.data \in Seq(Byte)
    BY DEF AnyMessage
  <1>2. FieldBytes(m.fields) \in Seq(Seq(Byte))
    BY <1>1, FieldsAreBytes
  <1>3. FlattenSeq(FieldBytes(m.fields)) \in Seq(Byte)
    BY <1>2, FlattenType
  <1>4. Payload(m) = FlattenSeq(FieldBytes(m.fields)) \o m.data
    BY Zenon DEF Payload, FieldBytes
  <1> DEFINE a == FlattenSeq(FieldBytes(m.fields))
             d == m.data
             p == Payload(m)
  <1>5. a \in Seq(Byte) /\ d \in Seq(Byte) /\ p = a \o d
    BY <1>1, <1>3, <1>4
  <1> HIDE DEF a, d, p
  <1>6. p \in Seq(Byte) /\ Len(p) \in Nat
    BY <1>5
  <1>7. QED
    BY <1>4, <1>6 DEF p

\* What follows the length in a frame.
Body(m) == IF m.id = KEEP_ALIVE THEN << >> ELSE <<m.id>> \o Payload(m)

LEMMA FrameIsLengthAndBody ==
  ASSUME NEW m \in Messages
  PROVE  /\ m \in AnyMessage
         /\ Body(m) \in Seq(Byte) /\ Len(Body(m)) \in U32
         /\ Len(Body(m)) = IF m.id = KEEP_ALIVE THEN 0 ELSE Len(Payload(m)) + 1
         /\ m.id # KEEP_ALIVE => m.id \in Byte
         /\ Frame(m) = WriteU32(Len(Body(m))) \o Body(m)
         /\ Frame(m) \in Seq(Byte) /\ Len(Frame(m)) = 4 + Len(Body(m))
  <1>1. /\ m \in AnyMessage /\ Len(Payload(m)) + 1 \in U32
        /\ m.id # KEEP_ALIVE => m.id \in Byte
    BY DEF Messages, AnyMessage
  <1>2. Payload(m) \in Seq(Byte) /\ Len(Payload(m)) \in Nat
    BY <1>1, PayloadIsBytes
  <1>3. /\ Body(m) \in Seq(Byte) /\ Len(Body(m)) \in U32
        /\ Len(Body(m)) = IF m.id = KEEP_ALIVE THEN 0 ELSE Len(Payload(m)) + 1
        /\ Frame(m) = WriteU32(Len(Body(m))) \o Body(m)
    <2>1. CASE m.id = KEEP_ALIVE
      <3>1. Body(m) = << >>
        BY <2>1 DEF Body
      <3>2. Len(Body(m)) = 0 /\ Body(m) \in Seq(Byte)
        BY <3>1
      <3>3. 0 \in U32
        BY BelowU32
      <3>4. Frame(m) = WriteU32(0)
        BY <2>1 DEF Frame
      <3>5. WriteU32(0) \o << >> = WriteU32(0)
        BY <3>3, U32Bytes, ConcatEmptySeq
      <3>6. Frame(m) = WriteU32(Len(Body(m))) \o Body(m)
        BY <3>1, <3>2, <3>4, <3>5, Zenon
      <3>7. QED
        BY <2>1, <3>2, <3>3, <3>6
    <2>2. CASE m.id # KEEP_ALIVE
      <3> DEFINE p == Payload(m)
      <3>1. Body(m) = <<m.id>> \o p /\ p \in Seq(Byte) /\ <<m.id>> \in Seq(Byte)
        BY <1>1, <1>2, <2>2 DEF Body
      <3>2. Frame(m) = (WriteU32(Len(p) + 1) \o <<m.id>>) \o p
        BY <2>2, Zenon DEF Frame
      <3>3. WriteU32(Len(p) + 1) \in Seq(Byte)
        BY <1>1, U32Bytes
      <3> HIDE DEF p
      <3>4. Body(m) \in Seq(Byte) /\ Len(Body(m)) = Len(p) + 1
        BY <3>1
      <3> DEFINE u == WriteU32(Len(p) + 1)
                 i == <<m.id>>
      <3>5. u \in Seq(Byte) /\ i \in Seq(Byte)
        BY <3>1, <3>3
      <3> HIDE DEF u, i
      <3>6. (u \o i) \o p = u \o (i \o p)
        BY <3>1, <3>5, ConcatAssociative
      <3>7. Frame(m) = WriteU32(Len(Body(m))) \o Body(m)
        BY <3>1, <3>2, <3>4, <3>6, Zenon DEF u, i
      <3>8. Len(Body(m)) \in U32
        BY <1>1, <3>4 DEF p
      <3>9. QED
        BY <2>2, <3>4, <3>7, <3>8 DEF p
    <2>3. QED
      BY <2>1, <2>2
  <1>4. Frame(m) \in Seq(Byte) /\ Len(Frame(m)) = 4 + Len(Body(m))
    <2> DEFINE u == WriteU32(Len(Body(m)))
               b == Body(m)
               f == Frame(m)
    <2>1. u \in Seq(Byte) /\ Len(u) = 4 /\ b \in Seq(Byte) /\ f = u \o b
      BY <1>3, U32Bytes
    <2> HIDE DEF u, b, f
    <2>2. u \o b \in Seq(Byte) /\ Len(u \o b) = Len(u) + Len(b)
      BY <2>1, ConcatProperties
    <2>3. QED
      BY <2>1, <2>2 DEF f, b
  <1>5. QED
    BY <1>1, <1>3, <1>4

\* The frames of a sequence of messages.
FramesOf(messages) == [i \in DOMAIN messages |-> Frame(messages[i])]

LEMMA FramesAreBytes ==
  ASSUME NEW messages \in Seq(Messages)
  PROVE  /\ FramesOf(messages) \in Seq(Seq(Byte))
         /\ Len(FramesOf(messages)) = Len(messages)
         /\ Frames(messages) = FlattenSeq(FramesOf(messages))
         /\ Frames(messages) \in Seq(Byte)
  <1> DEFINE B == Seq(Byte)
  <1>1. \A i \in 1 .. Len(messages) : Frame(messages[i]) \in B
    <2>1. \A i \in 1 .. Len(messages) : messages[i] \in Messages
      BY ElementOfSeq
    <2>2. QED
      BY <2>1, FrameIsLengthAndBody
  <1> HIDE DEF B
  <1>2. /\ FramesOf(messages) \in Seq(B)
        /\ Len(FramesOf(messages)) = Len(messages)
    BY <1>1, LenProperties DEF FramesOf
  <1>3. Frames(messages) = FlattenSeq(FramesOf(messages))
    BY Zenon DEF Frames, FramesOf
  <1>4. FramesOf(messages) \in Seq(Seq(Byte))
    BY <1>2 DEF B
  <1>5. FlattenSeq(FramesOf(messages)) \in Seq(Byte)
    BY <1>4, FlattenType
  <1>6. QED
    BY <1>2, <1>3, <1>4, <1>5, Zenon

-----------------------------------------------------------------------------
(* Where things are in the stream *)

\* The bytes x stand in w, p bytes from its start.
Part(w, p, x) ==
  /\ w \in Seq(Byte) /\ x \in Seq(Byte) /\ p \in Nat
  /\ Len(x) \in Nat /\ Len(w) \in Nat /\ p + Len(x) <= Len(w)
  /\ \A i \in 1 .. Len(x) : w[p + i] = x[i]

LEMMA WholePart ==
  ASSUME NEW w \in Seq(Byte)
  PROVE  Part(w, 0, w)
  BY DEF Part

Joins(x, u, v) == u \in Seq(Byte) /\ v \in Seq(Byte) /\ x = u \o v

LEMMA JoinsType ==
  ASSUME NEW x, NEW u, NEW v, Joins(x, u, v)
  PROVE  x \in Seq(Byte) /\ Len(x) = Len(u) + Len(v)
  BY ConcatProperties DEF Joins

LEMMA JoinsAssociative ==
  ASSUME NEW x, NEW y, NEW z, NEW xy, Joins(xy, x, y), NEW xyz, Joins(xyz, xy, z),
         NEW yz, Joins(yz, y, z)
  PROVE  Joins(xyz, x, yz)
  <1>1. x \in Seq(Byte) /\ y \in Seq(Byte) /\ z \in Seq(Byte) /\ yz \in Seq(Byte)
    BY JoinsType DEF Joins
  <1>2. xyz = (x \o y) \o z /\ yz = y \o z
    BY DEF Joins
  <1>3. (x \o y) \o z = x \o (y \o z)
    BY <1>1, ConcatAssociative, SMTT(30)
  <1>4. QED
    BY <1>1, <1>2, <1>3, Zenon DEF Joins

LEMMA PartsOfPart ==
  ASSUME NEW w, NEW p, NEW x, Part(w, p, x), NEW u, NEW v, Joins(x, u, v)
  PROVE  Part(w, p, u) /\ Part(w, p + Len(u), v) /\ Len(x) = Len(u) + Len(v)
  <1> u \in Seq(Byte) /\ v \in Seq(Byte) /\ x = u \o v
    BY DEF Joins
  <1>1. /\ Len(u) \in Nat /\ Len(v) \in Nat /\ Len(x) = Len(u) + Len(v)
        /\ \A i \in 1 .. Len(u) + Len(v) : x[i] = IF i <= Len(u) THEN u[i] ELSE v[i - Len(u)]
    BY ConcatProperties
  <1>2. /\ w \in Seq(Byte) /\ p \in Nat /\ Len(w) \in Nat /\ p + (Len(u) + Len(v)) <= Len(w)
        /\ \A i \in 1 .. Len(u) + Len(v) : w[p + i] = x[i]
    BY <1>1 DEF Part
  <1> DEFINE k == Len(u)
             n == Len(v)
  <1>3. /\ k \in Nat /\ n \in Nat
        /\ \A i \in 1 .. k + n : w[p + i] = IF i <= k THEN u[i] ELSE v[i - k]
    BY <1>1, <1>2
  <1> HIDE DEF k, n
  <1>4. ASSUME NEW i \in 1 .. k PROVE w[p + i] = u[i]
    <2>1. i \in 1 .. k + n /\ i <= k
      BY <1>3
    <2>2. w[p + i] = IF i <= k THEN u[i] ELSE v[i - k]
      BY <1>3, <2>1
    <2>3. QED
      BY <2>1, <2>2
  <1>5. ASSUME NEW i \in 1 .. n PROVE w[(p + k) + i] = v[i]
    <2>1. k + i \in 1 .. k + n /\ ~(k + i <= k) /\ (k + i) - k = i /\ (p + k) + i = p + (k + i)
      BY <1>2, <1>3
    <2>2. w[p + (k + i)] = IF k + i <= k THEN u[k + i] ELSE v[(k + i) - k]
      BY <1>3, <2>1
    <2>3. QED
      BY <2>1, <2>2
  <1>6. p + k <= Len(w) /\ p + k \in Nat /\ (p + k) + n <= Len(w)
    BY <1>2, <1>3 DEF k, n
  <1>7. QED
    BY <1>1, <1>2, <1>3, <1>4, <1>5, <1>6 DEF Part, k, n

LEMMA PartsOfWhole ==
  ASSUME NEW u \in Seq(Byte), NEW v \in Seq(Byte), NEW y, y = u \o v
  PROVE  /\ y \in Seq(Byte) /\ Len(y) = Len(u) + Len(v)
         /\ Part(y, 0, u) /\ Part(y, Len(u), v)
  <1> DEFINE k == Len(u)
             n == Len(v)
  <1>1. /\ y \in Seq(Byte) /\ k \in Nat /\ n \in Nat /\ Len(y) = k + n
        /\ \A i \in 1 .. k + n : y[i] = IF i <= k THEN u[i] ELSE v[i - k]
    BY ConcatProperties
  <1> HIDE DEF k, n
  <1>2. ASSUME NEW i \in 1 .. k PROVE y[0 + i] = u[i]
    BY <1>1
  <1>3. ASSUME NEW i \in 1 .. n PROVE y[k + i] = v[i]
    <2>1. k + i \in 1 .. k + n /\ ~(k + i <= k) /\ (k + i) - k = i
      BY <1>1
    <2>2. y[k + i] = IF k + i <= k THEN u[k + i] ELSE v[(k + i) - k]
      BY <1>1, <2>1
    <2>3. QED
      BY <2>1, <2>2
  <1>4. 0 + k <= k + n /\ k + n \in Nat
    BY <1>1
  <1>5. QED
    BY <1>1, <1>2, <1>3, <1>4 DEF Part, k, n

LEMMA PartIsSlice ==
  ASSUME NEW w, NEW p, NEW x, Part(w, p, x), NEW n, n = Len(x)
  PROVE  Slice(w, p, n) = x
  <1>1. /\ w \in Seq(Byte) /\ x \in Seq(Byte) /\ p \in Nat /\ n \in Nat /\ Len(w) \in Nat
        /\ p + n <= Len(w) /\ \A i \in 1 .. n : w[p + i] = x[i]
    BY DEF Part
  <1>2. w \in ByteStrings(Len(w)) /\ x \in ByteStrings(n)
    BY <1>1 DEF ByteStrings
  <1> DEFINE k == Len(w)
  <1>3. k \in Nat /\ w \in ByteStrings(k) /\ p + n <= k
    BY <1>1, <1>2
  <1> HIDE DEF k
  <1>4. /\ Slice(w, p, n) \in ByteStrings(n)
        /\ \A i \in 1 .. n : Slice(w, p, n)[i] = w[p + i]
    BY <1>1, <1>3, Sliced
  <1>5. \A i \in 1 .. n : Slice(w, p, n)[i] = x[i]
    BY <1>1, <1>4
  <1>6. QED
    BY <1>1, <1>2, <1>4, <1>5, SameBytes

\* A frame in the stream: its length, its id and its payload are where run()
\* looks for them.
LEMMA FrameInStream ==
  ASSUME NEW m \in Messages, NEW w, NEW p, Part(w, p, Frame(m)),
         NEW l, l = Len(Body(m))
  PROVE  /\ p \in Nat /\ l \in Nat /\ Len(w) \in Nat /\ p + 4 + l <= Len(w)
         /\ l \in U32 /\ Slice(w, p, 4) = WriteU32(l)
         /\ m.id # KEEP_ALIVE =>
              /\ l = Len(Payload(m)) + 1
              /\ w[p + 4 + 1] = m.id
              /\ Slice(w, p + 4 + 1, l - 1) = Payload(m)
         /\ m.id = KEEP_ALIVE => l = 0
  <1> DEFINE u == WriteU32(l)
             b == Body(m)
  <1>1. /\ Frame(m) = u \o b /\ u \in Seq(Byte) /\ Len(u) = 4 /\ b \in Seq(Byte)
        /\ Len(b) = l /\ l \in Nat /\ l \in U32
    <2>1. l \in U32 /\ Frame(m) = WriteU32(l) \o Body(m) /\ Body(m) \in Seq(Byte)
      BY FrameIsLengthAndBody
    <2>2. WriteU32(l) \in Seq(Byte) /\ Len(WriteU32(l)) = 4 /\ l \in Nat
      BY <2>1, U32Bytes, U32Below
    <2>3. QED
      BY <2>1, <2>2
  <1>2. m.id = KEEP_ALIVE => l = 0
    BY FrameIsLengthAndBody
  <1>3. Part(w, p, u) /\ Part(w, p + 4, b)
    <2> HIDE DEF u, b
    <2>0. Joins(Frame(m), u, b)
      BY <1>1 DEF Joins
    <2>1. Part(w, p, u) /\ Part(w, p + Len(u), b)
      BY <2>0, PartsOfPart
    <2>2. QED
      BY <1>1, <2>1
  <1>4. Slice(w, p, 4) = u
    <2> HIDE DEF u
    <2>1. 4 = Len(u)
      BY <1>1
    <2>2. QED
      BY <1>3, <2>1, PartIsSlice
  <1>5. p \in Nat /\ Len(w) \in Nat /\ p + 4 + l <= Len(w)
    <2>1. p \in Nat
      BY <1>3 DEF Part
    <2>2. Len(w) \in Nat /\ (p + 4) + Len(b) <= Len(w)
      BY <1>3 DEF Part
    <2>3. QED
      BY <1>1, <2>1, <2>2
  <1>6. ASSUME m.id # KEEP_ALIVE
        PROVE  /\ l = Len(Payload(m)) + 1
               /\ w[p + 4 + 1] = m.id /\ Slice(w, p + 4 + 1, l - 1) = Payload(m)
    <2> DEFINE i == <<m.id>>
               y == Payload(m)
    <2>1. /\ i \in Seq(Byte) /\ Len(i) = 1 /\ i[1] = m.id /\ y \in Seq(Byte) /\ b = i \o y
          /\ Len(y) = l - 1 /\ l = Len(y) + 1
      <3>1. m.id \in Byte /\ m \in AnyMessage /\ l = Len(Payload(m)) + 1
        BY <1>6, FrameIsLengthAndBody
      <3>2. Payload(m) \in Seq(Byte) /\ Len(Payload(m)) \in Nat
        BY <3>1, PayloadIsBytes
      <3>3. Body(m) = <<m.id>> \o Payload(m)
        BY <1>6 DEF Body
      <3>4. <<m.id>> \in Seq(Byte) /\ Len(<<m.id>>) = 1 /\ <<m.id>>[1] = m.id
        BY <3>1
      <3>5. Len(Payload(m)) = l - 1
        BY <3>1, <3>2
      <3>6. QED
        BY <3>1, <3>2, <3>3, <3>4, <3>5, Zenon
    <2> HIDE DEF i, y, b
    <2>2. Part(w, p + 4, i) /\ Part(w, (p + 4) + 1, y)
      <3>0. Joins(b, i, y)
        BY <2>1 DEF Joins
      <3>1. Part(w, p + 4, i) /\ Part(w, (p + 4) + Len(i), y)
        BY <1>3, <3>0, PartsOfPart
      <3>2. QED
        BY <2>1, <3>1
    <2>3. w[p + 4 + 1] = m.id
      BY <2>1, <2>2 DEF Part
    <2>4. Slice(w, p + 4 + 1, l - 1) = y
      <3>1. l - 1 = Len(y)
        BY <2>1
      <3>2. QED
        BY <2>2, <3>1, PartIsSlice
    <2>5. QED
      BY <2>1, <2>3, <2>4 DEF y
  <1>7. QED
    BY <1>1, <1>2, <1>4, <1>5, <1>6

-----------------------------------------------------------------------------
(* Decoding *)

LEMMA ReadPart ==
  ASSUME NEW n \in U32, NEW w, NEW p, Part(w, p, WriteU32(n))
  PROVE  ReadU32(w, p) = {n}
  <1> DEFINE x == WriteU32(n)
  <1>1. Len(x) = 4 /\ ReadU32(x, 0) = {n} /\ Part(w, p, x)
    BY U32Bytes
  <1> HIDE DEF x
  <1>2. 16777216 * x[1] + 65536 * x[2] + 256 * x[3] + x[4] = n
    <2>1. ReadU32(x, 0) = {16777216 * x[1] + 65536 * x[2] + 256 * x[3] + x[4]}
      BY <1>1, SMT DEF ReadU32
    <2>2. QED
      BY <1>1, <2>1, SMT
  <1>3. /\ w[p + 1] = x[1] /\ w[p + 2] = x[2] /\ w[p + 3] = x[3] /\ w[p + 4] = x[4]
        /\ p + 4 <= Len(w)
    BY <1>1 DEF Part
  <1>4. ReadU32(w, p) = {16777216 * w[p + 1] + 65536 * w[p + 2] + 256 * w[p + 3] + w[p + 4]}
    <2>1. {k \in {p + 4} : k <= Len(w)} = {p + 4}
      BY <1>3
    <2> DEFINE value == 16777216 * w[p + 1] + 65536 * w[p + 2] + 256 * w[p + 3] + w[p + 4]
    <2>2. ReadU32(w, p) = {value : ok \in {k \in {p + 4} : k <= Len(w)}}
      BY SMT DEF ReadU32
    <2> HIDE DEF value
    <2>3. ReadU32(w, p) = {value}
      BY <2>1, <2>2
    <2>4. QED
      BY <2>3, SMT DEF value
  <1>5. QED
    BY <1>2, <1>3, <1>4, SMT

\* A PIECE with its two fields.
LEMMA PiecePayload ==
  ASSUME NEW m \in AnyMessage, Len(m.fields) = 2
  PROVE  /\ ReadU32(Payload(m), 0) = {m.fields[1]}
         /\ ReadU32(Payload(m), 4) = {m.fields[2]}
         /\ ReadRemaining(Payload(m), 8) = m.data
         /\ Len(Payload(m)) >= 8
         /\ m.fields = <<m.fields[1], m.fields[2]>>
  <1> DEFINE f1 == m.fields[1]
             f2 == m.fields[2]
             u1 == WriteU32(f1)
             u2 == WriteU32(f2)
             u == u1 \o u2
             d == m.data
             y == Payload(m)
  <1>1. m.fields \in Seq(U32) /\ d \in Seq(Byte)
    BY DEF AnyMessage
  <1>2. f1 \in U32 /\ f2 \in U32 /\ m.fields = <<f1, f2>>
    BY <1>1
  <1>3. /\ u1 \in Seq(Byte) /\ Len(u1) = 4 /\ u2 \in Seq(Byte) /\ Len(u2) = 4
        /\ u \in Seq(Byte) /\ Len(u) = 8
    <2>1. u1 \in Seq(Byte) /\ Len(u1) = 4 /\ u2 \in Seq(Byte) /\ Len(u2) = 4
      BY <1>2, U32Bytes
    <2> HIDE DEF u1, u2
    <2>2. u1 \o u2 \in Seq(Byte) /\ Len(u1 \o u2) = Len(u1) + Len(u2)
      BY <2>1, ConcatProperties
    <2>3. QED
      BY <2>1, <2>2
  <1>4. y = u \o d /\ y \in Seq(Byte)
    <2>1. FieldBytes(m.fields) \in Seq(Seq(Byte)) /\ Len(FieldBytes(m.fields)) = 2
      BY <1>1, FieldsAreBytes
    <2>2. FieldBytes(m.fields)[1] = u1 /\ FieldBytes(m.fields)[2] = u2
      BY <1>1 DEF FieldBytes
    <2>3. FlattenSeq(FieldBytes(m.fields)) = FieldBytes(m.fields)[1] \o FieldBytes(m.fields)[2]
      BY <2>1, FlattenTwo
    <2>4. y = FlattenSeq(FieldBytes(m.fields)) \o d /\ y \in Seq(Byte)
      BY PayloadIsBytes
    <2>5. QED
      BY <2>2, <2>3, <2>4, Zenon
  <1> HIDE DEF y, d, u1, u2, f1, f2
  <1>5. Part(y, 0, u1) /\ Part(y, 4, u2) /\ Part(y, 8, d) /\ Len(y) = 8 + Len(d)
    <2>1. Part(y, 0, u) /\ Part(y, Len(u), d) /\ Len(y) = Len(u) + Len(d)
      <3> HIDE DEF u
      <3> QED
        BY <1>1, <1>3, <1>4, PartsOfWhole
    <2>2. ASSUME NEW p, p = 0
          PROVE  Part(y, p, u1) /\ Part(y, p + Len(u1), u2)
      <3>1. Part(y, p, u)
        BY <2>1, <2>2
      <3>2. Joins(u, u1, u2)
        BY <1>3 DEF Joins
      <3> HIDE DEF u
      <3>3. QED
        BY <3>1, <3>2, PartsOfPart
    <2>3. Part(y, 0, u1) /\ Part(y, 0 + Len(u1), u2)
      BY <2>2
    <2>4. 0 + Len(u1) = 4 /\ Len(u) = 8
      BY <1>3
    <2>5. QED
      BY <1>3, <2>1, <2>3, <2>4
  <1>6. ReadU32(y, 0) = {f1} /\ ReadU32(y, 4) = {f2}
    BY <1>2, <1>5, ReadPart DEF u1, u2
  <1>7. ReadRemaining(y, 8) = d /\ Len(y) >= 8
    <2>1. Len(d) \in Nat
      BY <1>1
    <2>2. Len(y) - 8 = Len(d) /\ Len(y) >= 8
      BY <1>5, <2>1
    <2>3. Slice(y, 8, Len(y) - 8) = d
      BY <1>5, <2>2, PartIsSlice
    <2>4. QED
      BY <2>2, <2>3 DEF ReadRemaining
  <1>8. QED
    BY <1>2, <1>6, <1>7 DEF y, d, f1, f2

\* _handleMessage makes of a payload what the peer meant, or throws.
LEMMA DecodedAsSeen ==
  ASSUME NEW m \in Messages, m.id # KEEP_ALIVE
  PROVE  /\ CutShort(m) => Decode(m.id, Payload(m)) = {}
         /\ ~CutShort(m) => Decode(m.id, Payload(m)) = {SeenAs(m)}
         /\ SeenAs(m) \in AnyMessage
  <1>1. /\ m \in AnyMessage /\ m.id \in Byte
        /\ m.id = PIECE => Len(m.fields) = 2 \/ CutShort(m)
    <2>1. m \in AnyMessage /\ m.id \in Byte
      BY FrameIsLengthAndBody
    <2>2. m.id = PIECE => Len(m.fields) = 2 \/ CutShort(m)
      BY DEF Messages
    <2>3. QED
      BY <2>1, <2>2
  <1>2. Payload(m) \in Seq(Byte) /\ Len(Payload(m)) \in Nat
    BY <1>1, PayloadIsBytes
  <1>3. CASE m.id # PIECE
    <2>1. ~CutShort(m) /\ SeenAs(m) = Message(m.id, << >>, Payload(m))
      BY <1>3 DEF CutShort, SeenAs
    <2>2. Decode(m.id, Payload(m)) = {Message(m.id, << >>, Payload(m))}
      BY <1>3 DEF Decode
    <2>3. << >> \in Seq(U32)
      OBVIOUS
    <2>4. Message(m.id, << >>, Payload(m)) \in AnyMessage
      BY <1>1, <1>2, <2>3 DEF Message, AnyMessage
    <2>5. QED
      BY <2>1, <2>2, <2>4
  <1>4. CASE m.id = PIECE
    <2>1. SeenAs(m) = m
      BY <1>4 DEF SeenAs
    <2>2. ASSUME CutShort(m) PROVE Decode(m.id, Payload(m)) = {}
      <3>1. Len(Payload(m)) < 8
        BY <2>2 DEF CutShort
      <3>2. ReadU32(Payload(m), 4) = {}
        BY <1>2, <3>1 DEF ReadU32
      <3>3. ReadU32(Payload(m), 0) \X ReadU32(Payload(m), 4) = {}
        BY <3>2
      <3>4. QED
        BY <1>4, <3>3 DEF Decode
    <2>3. ASSUME ~CutShort(m) PROVE Decode(m.id, Payload(m)) = {m}
      <3>1. Len(m.fields) = 2
        BY <1>1, <1>4, <2>3
      <3>2. /\ ReadU32(Payload(m), 0) = {m.fields[1]}
            /\ ReadU32(Payload(m), 4) = {m.fields[2]}
            /\ ReadRemaining(Payload(m), 8) = m.data
            /\ m.fields = <<m.fields[1], m.fields[2]>>
        BY <1>1, <3>1, PiecePayload
      <3>3. ReadU32(Payload(m), 0) \X ReadU32(Payload(m), 4) = {m.fields}
        BY <3>2
      <3>4. Decode(m.id, Payload(m)) = {Message(m.id, m.fields, m.data)}
        BY <1>4, <3>2, <3>3 DEF Decode
      <3>5. Message(m.id, m.fields, m.data) = m
        BY <1>1 DEF Message, AnyMessage
      <3>6. QED
        BY <3>4, <3>5
    <2>4. QED
      BY <1>1, <2>1, <2>2, <2>3
  <1>5. QED
    BY <1>3, <1>4

-----------------------------------------------------------------------------
(* What holds of a session *)

\* The types, with the sequences the connection carries, and the verdict.
WireShape ==
  /\ script \in Scripts
  /\ stream = Packed(script.handshake) \o Frames(script.messages)
  /\ arrived \in 0 .. Len(stream)
  /\ taken \in 0 .. arrived
  /\ pc \in {"hello", "handshake", "length", "body", "done"}
  /\ length \in Nat
  /\ sent \in Seq(Byte) /\ meant \in Seq(Messages)
  /\ pc \in {"hello", "handshake"} => taken = 0 /\ meant = << >> /\ handled = << >>
  /\ pc = "hello" => sent = << >>
  /\ VerifiedIsTheSameTorrent

\* What the first k messages are handled as, and where they end in the stream.
Heards == [i \in DOMAIN script.messages |-> Heard(i)]
HeardFirst(k) == FlattenFirst(Heards, k)
Place(k) == HandshakeLength + Len(FlattenFirst(FramesOf(script.messages), k))

\* What the client has sent is its handshake and its messages.
AsMeant == sent = Packed(OwnHandshake) \o Frames(meant)

\* run() is at the beginning of a frame, or behind its length.
InStep(k) ==
  /\ AsMeant
  /\ \A j \in 1 .. k : ~CutShort(script.messages[j])
  /\ \/ pc = "length" /\ taken = Place(k)
     \/ /\ pc = "body"
        /\ k < Len(script.messages)
        /\ taken = Place(k) + 4
        /\ length = Len(Body(script.messages[k + 1]))
        /\ script.messages[k + 1].id # KEEP_ALIVE

\* The peer's handshake was cut off, and run() will find nothing more to read.
Lost == closed /\ pc = "length" /\ taken = arrived

\* A session whose own handshake never went out may handle anything, and writes
\* nothing.
WireInv ==
  /\ pc = "handshake" => Greeted
  /\ Greeted =>
       /\ AsMeant
       /\ \E k \in 0 .. Len(script.messages) :
            /\ handled = HeardFirst(k)
            /\ pc \in {"length", "body"} => Lost \/ InStep(k)

\* A script's handshake and messages.
LEMMA ScriptFacts ==
  ASSUME script \in Scripts
  PROVE  script.handshake \in Handshakes /\ script.messages \in Seq(Messages)
  BY WireAssumption

\* The stream is the handshake and the frames behind it.
LEMMA StreamFacts ==
  ASSUME script \in Scripts, stream = Packed(script.handshake) \o Frames(script.messages)
  PROVE  /\ stream \in Seq(Byte) /\ Len(stream) \in Nat
         /\ Part(stream, 0, Packed(script.handshake))
         /\ Part(stream, HandshakeLength, Frames(script.messages))
         /\ Len(stream) = HandshakeLength + Len(Frames(script.messages))
  <1> DEFINE u == Packed(script.handshake)
             v == Frames(script.messages)
  <1>1. u \in Seq(Byte) /\ Len(u) = HandshakeLength
    <2>1. u \in ByteStrings(68)
      BY ScriptFacts, PackedFields
    <2>2. QED
      BY <2>1 DEF ByteStrings, HandshakeLength
  <1>2. v \in Seq(Byte)
    BY ScriptFacts, FramesAreBytes
  <1>3. stream = u \o v
    OBVIOUS
  <1> HIDE DEF u, v
  <1>4. /\ stream \in Seq(Byte) /\ Len(stream) = Len(u) + Len(v)
        /\ Part(stream, 0, u) /\ Part(stream, Len(u), v)
    BY <1>1, <1>2, <1>3, PartsOfWhole
  <1>5. Len(stream) \in Nat
    BY <1>4
  <1>6. QED
    BY <1>1, <1>4, <1>5 DEF u, v

\* Where a message's frame is.
LEMMA FrameAt ==
  ASSUME script \in Scripts, stream = Packed(script.handshake) \o Frames(script.messages),
         NEW k \in 0 .. Len(script.messages) - 1, NEW n, n = k + 1
  PROVE  /\ script.messages[n] \in Messages
         /\ Part(stream, Place(k), Frame(script.messages[n]))
         /\ Place(n) = Place(k) + 4 + Len(Body(script.messages[n]))
  <1> DEFINE ms == script.messages
             F == FramesOf(ms)
             before == FlattenFirst(F, k)
             upTo == FlattenFirst(F, n)
             f == Frame(ms[n])
             whole == Frames(ms)
  <1>1. /\ ms \in Seq(Messages) /\ n \in 1 .. Len(ms) /\ ms[n] \in Messages
        /\ Len(ms) \in Nat
    BY ScriptFacts
  <1>2. /\ F \in Seq(Seq(Byte)) /\ Len(F) = Len(ms) /\ whole = FlattenSeq(F)
    BY <1>1, FramesAreBytes
  <1>3. F[n] = f
    BY <1>1 DEF FramesOf
  <1>4. k \in 0 .. Len(F) - 1 /\ n \in 0 .. Len(F)
    BY <1>1, <1>2
  <1>5. f \in Seq(Byte) /\ Len(f) = 4 + Len(Body(ms[n])) /\ Len(Body(ms[n])) \in Nat
    <2>1. /\ Frame(ms[n]) \in Seq(Byte) /\ Len(Frame(ms[n])) = 4 + Len(Body(ms[n]))
          /\ Len(Body(ms[n])) \in U32
      BY <1>1, FrameIsLengthAndBody
    <2>2. Len(Body(ms[n])) \in Nat
      BY <2>1, U32Below
    <2>3. QED
      BY <2>1, <2>2
  <1>6. before \in Seq(Byte) /\ upTo = before \o f
    <2> HIDE DEF F, f
    <2>1. before \in Seq(Byte) /\ upTo = before \o F[n]
      BY <1>2, <1>4, FirstNext
    <2>2. QED
      BY <1>3, <2>1, Zenon
  <1>7. PICK rest \in Seq(Byte) : upTo \in Seq(Byte) /\ whole = upTo \o rest
    <2> HIDE DEF F, whole
    <2>1. \E rest \in Seq(Byte) : upTo \in Seq(Byte) /\ FlattenSeq(F) = upTo \o rest
      BY <1>2, <1>4, FirstAndRest
    <2>2. QED
      BY <1>2, <2>1, Zenon
  <1>8. Part(stream, HandshakeLength, whole)
    BY StreamFacts
  <1> HIDE DEF whole, upTo, before, f
  <1>9. Part(stream, HandshakeLength, upTo)
    <2>1. Joins(whole, upTo, rest)
      BY <1>7 DEF Joins
    <2>2. QED
      BY <1>8, <2>1, PartsOfPart
  <1>10. Part(stream, HandshakeLength + Len(before), f) /\ Len(upTo) = Len(before) + Len(f)
    <2>1. Joins(upTo, before, f)
      BY <1>5, <1>6 DEF Joins
    <2> DEFINE p == HandshakeLength
    <2>2. Part(stream, p, upTo)
      BY <1>9
    <2> HIDE DEF p
    <2>3. Part(stream, p + Len(before), f) /\ Len(upTo) = Len(before) + Len(f)
      BY <2>1, <2>2, PartsOfPart
    <2>4. QED
      BY <2>3 DEF p
  <1>11. Place(k) = HandshakeLength + Len(before) /\ Place(n) = HandshakeLength + Len(upTo)
    BY DEF Place, before, upTo
  <1>12. Len(before) \in Nat
    BY <1>6
  <1>13. Place(n) = Place(k) + 4 + Len(Body(ms[n]))
    BY <1>5, <1>10, <1>11, <1>12 DEF HandshakeLength
  <1>14. QED
    BY <1>1, <1>10, <1>11, <1>13 DEF f

\* The last message ends the stream, the first follows the handshake.
LEMMA PlacesEnds ==
  ASSUME script \in Scripts, stream = Packed(script.handshake) \o Frames(script.messages)
  PROVE  Place(0) = HandshakeLength /\ Place(Len(script.messages)) = Len(stream)
  <1> DEFINE F == FramesOf(script.messages)
  <1>1. /\ F \in Seq(Seq(Byte)) /\ Len(F) = Len(script.messages)
        /\ Frames(script.messages) = FlattenSeq(F)
    BY ScriptFacts, FramesAreBytes
  <1>2. FlattenFirst(F, 0) = << >> /\ FlattenFirst(F, Len(F)) = FlattenSeq(F)
    <2> HIDE DEF F
    <2>1. FlattenFirst(F, 0) = << >>
      BY FirstNone
    <2>2. FlattenFirst(F, Len(F)) = FlattenSeq(F)
      BY <1>1, FirstAll
    <2>3. QED
      BY <2>1, <2>2
  <1>3. Place(0) = HandshakeLength
    <2>1. Len(FlattenFirst(F, 0)) = 0
      BY <1>2
    <2>2. QED
      BY <2>1 DEF Place, HandshakeLength
  <1>4. Place(Len(script.messages)) = HandshakeLength + Len(Frames(script.messages))
    BY <1>1, <1>2, Zenon DEF Place
  <1>5. QED
    BY <1>3, <1>4, StreamFacts

-----------------------------------------------------------------------------
(* What the messages are handled as *)

LEMMA HeardsType ==
  ASSUME script \in Scripts
  PROVE  Heards \in Seq(Seq(AnyMessage)) /\ Len(Heards) = Len(script.messages)
  <1> DEFINE Q == Seq(AnyMessage)
             ms == script.messages
  <1>1. ms \in Seq(Messages)
    BY ScriptFacts
  <1>2. ASSUME NEW i \in 1 .. Len(ms) PROVE Heard(i) \in Q
    <2>1. ms[i] \in Messages
      BY <1>1
    <2>2. ms[i].id # KEEP_ALIVE => SeenAs(ms[i]) \in AnyMessage
      BY <2>1, DecodedAsSeen
    <2>3. << >> \in Q /\ (ms[i].id # KEEP_ALIVE => <<SeenAs(ms[i])>> \in Q)
      BY <2>2
    <2> HIDE DEF Q
    <2>4. QED
      BY <2>3 DEF Heard
  <1> HIDE DEF Q
  <1>3. Heards \in Seq(Q) /\ Len(Heards) = Len(ms)
    <2>1. Heards = [i \in 1 .. Len(ms) |-> Heard(i)] /\ Len(ms) \in Nat
      BY <1>1 DEF Heards
    <2>2. QED
      BY <1>2, <2>1
  <1>4. QED
    BY <1>3 DEF Q

\* One message further.
LEMMA HeardNext ==
  ASSUME script \in Scripts, NEW k \in 0 .. Len(script.messages) - 1, NEW n, n = k + 1,
         \A j \in 1 .. k : ~CutShort(script.messages[j])
  PROVE  /\ script.messages[n].id = KEEP_ALIVE => HeardFirst(n) = HeardFirst(k)
         /\ script.messages[n].id # KEEP_ALIVE /\ ~CutShort(script.messages[n]) =>
              HeardFirst(n) = Append(HeardFirst(k), SeenAs(script.messages[n]))
  <1> DEFINE ms == script.messages
             m == ms[n]
             a == HeardFirst(k)
  <1>1. Heards \in Seq(Seq(AnyMessage)) /\ Len(Heards) = Len(ms) /\ ms \in Seq(Messages)
    BY HeardsType, ScriptFacts
  <1>2. k \in 0 .. Len(Heards) - 1 /\ n \in 1 .. Len(ms) /\ n \in DOMAIN ms /\ m \in Messages
    BY <1>1
  <1>3. a \in Seq(AnyMessage) /\ HeardFirst(n) = a \o Heards[n]
    BY <1>1, <1>2, FirstNext DEF HeardFirst
  <1>4. Heards[n] = Heard(n)
    BY <1>2 DEF Heards
  <1> HIDE DEF a
  <1>5. CASE m.id = KEEP_ALIVE
    <2>1. Heard(n) = << >>
      BY <1>5 DEF Heard
    <2>2. a \o << >> = a
      BY <1>3, ConcatEmptySeq
    <2>3. QED
      BY <1>3, <1>4, <1>5, <2>1, <2>2 DEF a
  <1>6. CASE m.id # KEEP_ALIVE
    <2> SUFFICES ASSUME ~CutShort(m)
                 PROVE  HeardFirst(n) = Append(a, SeenAs(m))
      BY <1>6 DEF a
    <2>1. ~ \E j \in 1 .. n : CutShort(ms[j])
      <3> SUFFICES ASSUME NEW j \in 1 .. n PROVE ~CutShort(ms[j])
        OBVIOUS
      <3>1. CASE j = n
        BY <3>1
      <3>2. CASE j # n
        <4>1. j \in 1 .. k
          BY <3>2
        <4>2. QED
          BY <4>1
      <3>3. QED
        BY <3>1, <3>2
    <2>2. Heard(n) = <<SeenAs(m)>>
      BY <1>6, <2>1 DEF Heard
    <2>3. SeenAs(m) \in AnyMessage
      BY <1>2, <1>6, DecodedAsSeen
    <2>4. Append(a, SeenAs(m)) = a \o <<SeenAs(m)>>
      BY <1>3, <2>3, AppendIsConcat
    <2>5. QED
      BY <1>3, <1>4, <2>2, <2>4, Zenon
  <1>7. QED
    BY <1>5, <1>6

LEMMA PrefixOfConcat ==
  ASSUME NEW S, NEW a \in Seq(S), NEW b \in Seq(S), NEW ab, ab = a \o b
  PROVE  IsPrefix(a, ab)
  <1>1. Len(a) \in Nat /\ Len(b) \in Nat /\ ab \in Seq(S) /\ Len(ab) = Len(a) + Len(b)
    BY ConcatProperties
  <1>2. Len(a) <= Len(ab)
    BY <1>1
  <1>3. SubSeq(ab, 1, Len(a)) = SubSeq(a, 1, Len(a))
    <2>1. CASE Len(a) = 0
      BY <2>1
    <2>2. CASE Len(a) # 0
      <3>1. 1 \in 1 .. Len(a) /\ Len(a) \in 1 .. Len(a)
        BY <1>1, <2>2
      <3>2. QED
        BY <3>1, SubSeqOfConcat1
    <2>3. QED
      BY <2>1, <2>2
  <1>4. QED
    BY <1>2, <1>3 DEF IsPrefix

\* What is handled so far is the beginning of what there is to handle.
LEMMA HeardFirstIsPrefix ==
  ASSUME script \in Scripts, NEW k \in 0 .. Len(script.messages)
  PROVE  IsPrefix(HeardFirst(k), Readable)
  <1>1. Heards \in Seq(Seq(AnyMessage)) /\ Len(Heards) = Len(script.messages)
    BY HeardsType
  <1>2. PICK rest \in Seq(AnyMessage) :
          /\ FlattenFirst(Heards, k) \in Seq(AnyMessage)
          /\ FlattenSeq(Heards) = FlattenFirst(Heards, k) \o rest
    BY <1>1, FirstAndRest
  <1>3. Readable = FlattenSeq(Heards)
    BY Zenon DEF Readable, Heards
  <1> DEFINE a == FlattenFirst(Heards, k)
             ab == FlattenSeq(Heards)
  <1>4. a \in Seq(AnyMessage) /\ rest \in Seq(AnyMessage) /\ ab = a \o rest
    BY <1>2
  <1> HIDE DEF a, ab
  <1>5. IsPrefix(a, ab)
    BY <1>4, PrefixOfConcat
  <1>6. QED
    BY <1>3, <1>5 DEF HeardFirst, a, ab

-----------------------------------------------------------------------------
(* What the client sends *)

Blocks == [pieceIndex : U32, offset : U32, length : U32]

\* A request, laid out by hand, is the frame of the message it is meant to be.
LEMMA RequestIsAFrame ==
  ASSUME NEW b \in Blocks
  PROVE  /\ RequestMessage(b) \in Messages
         /\ Frame(RequestMessage(b)) = RequestBytes(b)
  <1> DEFINE m == RequestMessage(b)
             u1 == WriteU32(b.pieceIndex)
             u2 == WriteU32(b.offset)
             u3 == WriteU32(b.length)
             y == Payload(m)
  <1>1. /\ m.id = REQUEST /\ m.data = << >>
        /\ m.fields = <<b.pieceIndex, b.offset, b.length>>
        /\ m = [id |-> REQUEST, fields |-> <<b.pieceIndex, b.offset, b.length>>, data |-> << >>]
    BY DEF RequestMessage, Message
  <1>2. b.pieceIndex \in U32 /\ b.offset \in U32 /\ b.length \in U32
    BY DEF Blocks
  <1>3. m.fields \in Seq(U32) /\ Len(m.fields) = 3
    BY <1>1, <1>2
  <1>4. m \in AnyMessage
    <2>1. REQUEST \in Byte \cup {KEEP_ALIVE} /\ << >> \in Seq(Byte)
      BY DEF REQUEST, Byte
    <2>2. QED
      BY <1>1, <1>3, <2>1 DEF AnyMessage
  <1>5. /\ u1 \in Seq(Byte) /\ Len(u1) = 4 /\ u2 \in Seq(Byte) /\ Len(u2) = 4
        /\ u3 \in Seq(Byte) /\ Len(u3) = 4
    BY <1>2, U32Bytes
  <1>6. y = ((u1 \o u2) \o u3) \o << >>
    <2> DEFINE F == FieldBytes(m.fields)
    <2>1. F \in Seq(Seq(Byte)) /\ Len(F) = 3
      BY <1>3, FieldsAreBytes
    <2>2. F[1] = u1 /\ F[2] = u2 /\ F[3] = u3
      <3>1. m.fields[1] = b.pieceIndex /\ m.fields[2] = b.offset /\ m.fields[3] = b.length
        BY <1>1
      <3>2. DOMAIN m.fields = 1 .. 3
        BY <1>3
      <3> HIDE DEF m
      <3>3. QED
        BY <3>1, <3>2 DEF FieldBytes
    <2>3. y = FlattenSeq(F) \o m.data
      BY <1>4, PayloadIsBytes
    <2> HIDE DEF F
    <2>4. FlattenSeq(F) = (F[1] \o F[2]) \o F[3]
      BY <2>1, FlattenThree
    <2>5. QED
      BY <1>1, <2>2, <2>3, <2>4, Zenon
  <1> HIDE DEF u1, u2, u3
  <1> DEFINE u12 == u1 \o u2
             u123 == u12 \o u3
  <1>7. /\ Joins(u12, u1, u2) /\ Joins(u123, u12, u3)
        /\ y = u123 /\ Len(y) = 12
    <2>1. Joins(u12, u1, u2)
      BY <1>5 DEF Joins
    <2>2. u12 \in Seq(Byte) /\ Len(u12) = 8
      <3> HIDE DEF u12
      <3> QED
        <4>1. u12 \in Seq(Byte) /\ Len(u12) = Len(u1) + Len(u2)
          BY <2>1, JoinsType
        <4>2. QED
          BY <1>5, <4>1
    <2>3. Joins(u123, u12, u3)
      <3> HIDE DEF u12
      <3> QED
        BY <1>5, <2>2 DEF Joins
    <2>4. u123 \in Seq(Byte) /\ Len(u123) = 12
      <3> HIDE DEF u12, u123
      <3> QED
        <4>1. u123 \in Seq(Byte) /\ Len(u123) = Len(u12) + Len(u3)
          BY <2>3, JoinsType
        <4>2. QED
          BY <1>5, <2>2, <4>1
    <2>5. u123 \o << >> = u123
      <3> HIDE DEF u123
      <3> QED
        BY <2>4, ConcatEmptySeq
    <2>6. y = u123
      BY <1>6, <2>5, Zenon
    <2>7. QED
      BY <2>1, <2>3, <2>4, <2>6, Zenon
  <1> HIDE DEF y
  <1>8. m \in Messages
    <2>1. Len(Payload(m)) + 1 = 13 /\ 13 \in U32
      BY <1>7, BelowU32 DEF y
    <2>2. m.id # PIECE
      BY <1>1 DEF REQUEST, PIECE
    <2> HIDE DEF m
    <2>3. QED
      BY <1>4, <2>1, <2>2 DEF Messages, AnyMessage
  <1>9. Frame(m) = (WriteU32(13) \o <<REQUEST>>) \o y
    <2>1. m.id # KEEP_ALIVE
      BY <1>1 DEF REQUEST, KEEP_ALIVE
    <2>2. Len(y) + 1 = 13
      BY <1>7
    <2> HIDE DEF m
    <2>3. Frame(m) = (WriteU32(Len(Payload(m)) + 1) \o <<m.id>>) \o Payload(m)
      BY <2>1, Zenon DEF Frame
    <2>4. m.id = REQUEST
      BY <1>1
    <2>5. QED
      BY <2>2, <2>3, <2>4, Zenon DEF y
  <1>10. RequestBytes(b) = (((WriteU32(13) \o <<REQUEST>>) \o u1) \o u2) \o u3
    BY Zenon DEF RequestBytes, u1, u2, u3
  <1> DEFINE p == WriteU32(13) \o <<REQUEST>>
  <1>11. p \in Seq(Byte)
    <2>1. WriteU32(13) \in Seq(Byte)
      BY BelowU32, U32Bytes
    <2>2. <<REQUEST>> \in Seq(Byte)
      BY DEF REQUEST, Byte
    <2>3. QED
      BY <2>1, <2>2, ConcatProperties
  <1> HIDE DEF p
  <1>12. ((p \o u1) \o u2) \o u3 = p \o u123
    <2> DEFINE pu == p \o u1
               puu == pu \o u2
               puuu == puu \o u3
    <2>1. Joins(pu, p, u1) /\ pu \in Seq(Byte)
      <3>1. Joins(pu, p, u1)
        BY <1>5, <1>11 DEF Joins
      <3> HIDE DEF pu
      <3>2. QED
        BY <3>1, JoinsType
    <2> HIDE DEF pu, u12, u123
    <2>2. Joins(puu, pu, u2) /\ puu \in Seq(Byte)
      <3>1. Joins(puu, pu, u2)
        BY <1>5, <2>1 DEF Joins
      <3> HIDE DEF puu
      <3>2. QED
        BY <3>1, JoinsType
    <2> HIDE DEF puu
    <2>3. Joins(puuu, puu, u3)
      BY <1>5, <2>2 DEF Joins
    <2> HIDE DEF puuu
    <2>4. Joins(puu, p, u12)
      BY <1>7, <2>1, <2>2, JoinsAssociative
    <2>5. Joins(puuu, p, u123)
      BY <1>7, <2>3, <2>4, JoinsAssociative
    <2>6. puuu = p \o u123
      BY <2>5 DEF Joins
    <2>7. QED
      BY <2>6, Zenon DEF pu, puu, puuu
  <1>13. Frame(m) = RequestBytes(b)
    BY <1>7, <1>9, <1>10, <1>12, Zenon DEF p
  <1>14. QED
    BY <1>8, <1>13

LEMMA MessageType ==
  ASSUME NEW i \in Byte \cup {KEEP_ALIVE}, NEW f \in Seq(U32), NEW d \in Seq(Byte)
  PROVE  /\ Message(i, f, d) \in AnyMessage /\ Message(i, f, d).id = i
         /\ Message(i, f, d).fields = f /\ Message(i, f, d).data = d
  BY DEF Message, AnyMessage

\* INTERESTED has nothing behind its id.
LEMMA InterestedIsAFrame ==
  LET m == Message(INTERESTED, << >>, << >>)
  IN  m \in Messages /\ Frame(m) = WriteU32(1) \o <<INTERESTED>>
  <1> DEFINE m == Message(INTERESTED, << >>, << >>)
  <1>2. m \in AnyMessage /\ m.id = INTERESTED /\ m.fields = << >> /\ m.data = << >>
    <2>1. ASSUME NEW e, e = << >>
          PROVE  /\ Message(INTERESTED, e, e) \in AnyMessage
                 /\ Message(INTERESTED, e, e).id = INTERESTED
                 /\ Message(INTERESTED, e, e).fields = e
                 /\ Message(INTERESTED, e, e).data = e
      <3>1. INTERESTED \in Byte \cup {KEEP_ALIVE} /\ e \in Seq(Byte) /\ e \in Seq(U32)
        BY <2>1 DEF INTERESTED, Byte
      <3>2. QED
        BY <3>1, MessageType
    <2>2. QED
      BY <2>1, Zenon
  <1> HIDE DEF m
  <1>3. Payload(m) = << >>
    <2>1. FieldBytes(<< >>) = << >>
      BY DEF FieldBytes
    <2>2. FlattenSeq(FieldBytes(m.fields)) = << >>
      BY <1>2, <2>1, FlattenNothing, Zenon
    <2>3. << >> \o << >> = << >>
      BY ConcatEmptySeq, EmptySeq
    <2>4. Payload(m) = FlattenSeq(FieldBytes(m.fields)) \o m.data
      BY <1>2, PayloadIsBytes
    <2>5. QED
      BY <1>2, <2>2, <2>3, <2>4, Zenon
  <1>4. Len(Payload(m)) + 1 = 1 /\ 1 \in U32
    BY <1>3, BelowU32
  <1>5. m \in Messages
    <2>1. m.id # PIECE
      BY <1>2 DEF INTERESTED, PIECE
    <2>2. QED
      BY <1>2, <1>4, <2>1 DEF Messages, AnyMessage
  <1>6. Frame(m) = WriteU32(1) \o <<INTERESTED>>
    <2>1. m.id # KEEP_ALIVE
      BY <1>2 DEF INTERESTED, KEEP_ALIVE
    <2>2. Frame(m) = WriteU32(Len(Body(m))) \o Body(m) /\ Body(m) = <<m.id>> \o Payload(m)
      BY <1>5, <2>1, FrameIsLengthAndBody DEF Body
    <2>3. <<INTERESTED>> \o << >> = <<INTERESTED>>
      OBVIOUS
    <2>4. Body(m) = <<INTERESTED>> /\ Len(<<INTERESTED>>) = 1
      BY <1>2, <1>3, <2>2, <2>3
    <2>5. QED
      BY <2>2, <2>4, Zenon
  <1>7. QED
    BY <1>5, <1>6 DEF m

\* Messages added to those meant are frames added to those sent.
LEMMA FramesAdd ==
  ASSUME NEW a \in Seq(Messages), NEW b \in Seq(Messages)
  PROVE  a \o b \in Seq(Messages) /\ Frames(a \o b) = Frames(a) \o Frames(b)
  <1> DEFINE ab == a \o b
             B == Seq(Byte)
  <1>1. /\ ab \in Seq(Messages) /\ Len(ab) = Len(a) + Len(b)
        /\ \A i \in 1 .. Len(a) + Len(b) : ab[i] = IF i <= Len(a) THEN a[i] ELSE b[i - Len(a)]
        /\ Len(a) \in Nat /\ Len(b) \in Nat
    BY ConcatProperties
  <1> HIDE DEF ab
  <1> DEFINE fa == FramesOf(a)
             fb == FramesOf(b)
             fab == FramesOf(ab)
  <1>2. /\ fa \in Seq(B) /\ fb \in Seq(B) /\ fab \in Seq(B)
        /\ Len(fa) = Len(a) /\ Len(fb) = Len(b) /\ Len(fab) = Len(ab)
    BY <1>1, FramesAreBytes
  <1>3. /\ \A i \in 1 .. Len(a) : fa[i] = Frame(a[i])
        /\ \A i \in 1 .. Len(b) : fb[i] = Frame(b[i])
        /\ \A i \in 1 .. Len(ab) : fab[i] = Frame(ab[i])
    BY <1>1 DEF FramesOf
  <1> HIDE DEF fa, fb, fab, B
  <1>4. /\ fa \o fb \in Seq(B) /\ Len(fa \o fb) = Len(fab)
        /\ \A i \in 1 .. Len(a) + Len(b) :
             (fa \o fb)[i] = IF i <= Len(a) THEN fa[i] ELSE fb[i - Len(a)]
    <2>1. /\ fa \o fb \in Seq(B) /\ Len(fa \o fb) = Len(fa) + Len(fb)
          /\ \A i \in 1 .. Len(fa) + Len(fb) :
               (fa \o fb)[i] = IF i <= Len(fa) THEN fa[i] ELSE fb[i - Len(fa)]
      BY <1>2, ConcatProperties
    <2>2. QED
      BY <1>1, <1>2, <2>1, Zenon
  <1>5. ASSUME NEW i \in 1 .. Len(fab) PROVE fab[i] = (fa \o fb)[i]
    <2>1. i \in 1 .. Len(a) + Len(b) /\ i \in 1 .. Len(ab)
      BY <1>1, <1>2
    <2>2. CASE i <= Len(a)
      <3>1. i \in 1 .. Len(a) /\ ab[i] = a[i]
        BY <1>1, <2>1, <2>2
      <3>2. QED
        BY <1>3, <1>4, <2>1, <2>2, <3>1
    <2>3. CASE ~(i <= Len(a))
      <3>1. i - Len(a) \in 1 .. Len(b) /\ ab[i] = b[i - Len(a)]
        BY <1>1, <2>1, <2>3
      <3>2. QED
        BY <1>3, <1>4, <2>1, <2>3, <3>1
    <2>4. QED
      BY <2>2, <2>3
  <1>6. fab = fa \o fb
    BY <1>2, <1>4, <1>5, SeqEqual
  <1>7. FlattenSeq(fa \o fb) = FlattenSeq(fa) \o FlattenSeq(fb)
    BY <1>2, FlattenConcat DEF B
  <1>8. Frames(ab) = FlattenSeq(fab) /\ Frames(a) = FlattenSeq(fa) /\ Frames(b) = FlattenSeq(fb)
    BY <1>1, FramesAreBytes DEF fa, fb, fab
  <1>9. Frames(ab) = Frames(a) \o Frames(b)
    BY <1>6, <1>7, <1>8, Zenon
  <1>10. QED
    BY <1>1, <1>9 DEF ab

LEMMA RepeatType ==
  ASSUME NEW b \in Byte, NEW n \in Nat
  PROVE  Repeat(b, n) \in ByteStrings(n)
  <1> DEFINE f == Repeat(b, n)
  <1>1. f = [i \in 1 .. n |-> b]
    BY DEF Repeat
  <1>2. f \in [1 .. n -> Byte]
    BY <1>1
  <1>3. f \in Seq(Byte)
    BY <1>2, SeqDef
  <1>4. Len(f) = n
    BY <1>2, <1>3, LenProperties
  <1>5. QED
    BY <1>3, <1>4 DEF ByteStrings

LEMMA OwnHandshakeType ==
  /\ OwnHandshake \in Handshakes
  /\ OwnHandshake.pstrlen = 19 /\ OwnHandshake.pstr = Protocol
  /\ OwnHandshake.infoHash = InfoHash
  <1>1. Repeat(0, 8) \in ByteStrings(8)
    <2>1. 0 \in Byte /\ 8 \in Nat
      BY DEF Byte
    <2>2. QED
      BY <2>1, RepeatType
  <1>2. Protocol \in ByteStrings(19) /\ InfoHash \in ByteStrings(20) /\ PeerId \in ByteStrings(20)
    BY WireAssumption
  <1>3. 19 \in Byte
    BY DEF Byte
  <1>4. QED
    BY <1>1, <1>2, <1>3 DEF OwnHandshake, Handshakes

LEMMA FramesOfNone == Frames(<< >>) = << >>
  <1>1. FramesOf(<< >>) = << >>
    BY DEF FramesOf
  <1>2. Frames(<< >>) = FlattenSeq(FramesOf(<< >>))
    BY Zenon DEF Frames, FramesOf
  <1>3. QED
    BY <1>1, <1>2, FlattenNothing, Zenon

LEMMA FramesOfOne ==
  ASSUME NEW m \in Messages
  PROVE  <<m>> \in Seq(Messages) /\ Frames(<<m>>) = Frame(m)
  <1> DEFINE ms == <<m>>
             F == FramesOf(ms)
  <1>1. ms \in Seq(Messages) /\ Len(ms) = 1 /\ ms[1] = m
    OBVIOUS
  <1> HIDE DEF ms
  <1>2. Len(F) = 1 /\ Frames(ms) = FlattenSeq(F)
    BY <1>1, FramesAreBytes
  <1>3. F[1] = Frame(m)
    BY <1>1 DEF FramesOf
  <1> HIDE DEF F
  <1>4. FlattenSeq(F) = F[1]
    BY <1>2, FlattenOne
  <1>5. QED
    BY <1>1, <1>2, <1>3, <1>4, Zenon DEF ms

\* Requests laid out one by one are the frames of their messages.
LEMMA RequestsAreFrames ==
  ASSUME NEW blocks \in Seq(Blocks),
         NEW new, new = [i \in DOMAIN blocks |-> RequestMessage(blocks[i])]
  PROVE  /\ new \in Seq(Messages)
         /\ Frames(new) = FlattenSeq([i \in DOMAIN blocks |-> RequestBytes(blocks[i])])
  <1>1. \A i \in DOMAIN blocks :
          /\ RequestMessage(blocks[i]) \in Messages
          /\ Frame(RequestMessage(blocks[i])) = RequestBytes(blocks[i])
    <2>1. \A i \in DOMAIN blocks : blocks[i] \in Blocks
      OBVIOUS
    <2>2. QED
      BY <2>1, RequestIsAFrame
  <1>2. DOMAIN blocks = 1 .. Len(blocks) /\ Len(blocks) \in Nat
    OBVIOUS
  <1>3. new \in Seq(Messages) /\ DOMAIN new = DOMAIN blocks
    BY <1>1, <1>2
  <1>4. FramesOf(new) = [i \in DOMAIN blocks |-> RequestBytes(blocks[i])]
    BY <1>1, <1>3 DEF FramesOf
  <1>5. Frames(new) = FlattenSeq(FramesOf(new))
    BY Zenon DEF Frames, FramesOf
  <1>6. QED
    BY <1>3, <1>4, <1>5, Zenon

LEMMA AskedType ==
  ASSUME meant \in Seq(Messages)
  PROVE  Asked \in Nat
  <1>1. DOMAIN meant = 1 .. Len(meant) /\ Len(meant) \in Nat
    OBVIOUS
  <1>2. IsFiniteSet(1 .. Len(meant))
    BY <1>1, FS_Interval
  <1>3. {i \in DOMAIN meant : meant[i].id = REQUEST} \subseteq 1 .. Len(meant)
    BY <1>1
  <1>4. QED
    BY <1>2, <1>3, FS_Subset, FS_CardinalityType DEF Asked

\* What a message is answered with is messages, and their frames.
LEMMA AnswerAdds ==
  ASSUME meant \in Seq(Messages), sent \in Seq(Byte), NEW id, Answer(id)
  PROVE  \E new \in Seq(Messages) :
           meant' = meant \o new /\ sent' = sent \o Frames(new)
  <1>1. CASE UNCHANGED <<sent, meant>>
    <2>1. << >> \in Seq(Messages) /\ meant \o << >> = meant /\ sent \o << >> = sent
      BY EmptySeq, ConcatEmptySeq
    <2>2. meant' = meant \o << >> /\ sent' = sent \o Frames(<< >>)
      BY <1>1, <2>1, FramesOfNone
    <2>3. QED
      BY <2>1, <2>2
  <1>2. CASE Fill
    <2>1. PICK n \in 0 .. Len(Requests) - Asked :
            LET blocks == SubSeq(Requests, Asked + 1, Asked + n)
            IN  /\ n > 0 => Greeted
                /\ sent' = sent \o FlattenSeq([i \in DOMAIN blocks |-> RequestBytes(blocks[i])])
                /\ meant' = meant \o [i \in DOMAIN blocks |-> RequestMessage(blocks[i])]
      BY <1>2, Zenon DEF Fill
    <2> DEFINE blocks == SubSeq(Requests, Asked + 1, Asked + n)
               new == [i \in DOMAIN blocks |-> RequestMessage(blocks[i])]
    <2>2. blocks \in Seq(Blocks)
      <3>1. Asked \in Nat
        BY AskedType
      <3>2. Requests \in Seq(Blocks)
        BY WireAssumption DEF Blocks
      <3> DEFINE a == Asked
      <3>3. a \in Nat /\ Len(Requests) \in Nat /\ n \in Nat /\ a + n <= Len(Requests)
        BY <3>1, <3>2
      <3> HIDE DEF a
      <3>4. \A i \in a + 1 .. a + n : Requests[i] \in Blocks
        BY <3>2, <3>3
      <3>5. SubSeq(Requests, a + 1, a + n) \in Seq(Blocks)
        BY <3>3, <3>4, SubSeqProperties
      <3>6. QED
        BY <3>5 DEF a
    <2>3. /\ sent' = sent \o FlattenSeq([i \in DOMAIN blocks |-> RequestBytes(blocks[i])])
          /\ meant' = meant \o new
      BY <2>1, Zenon
    <2> HIDE DEF blocks
    <2>4. /\ new \in Seq(Messages)
          /\ Frames(new) = FlattenSeq([i \in DOMAIN blocks |-> RequestBytes(blocks[i])])
      BY <2>2, RequestsAreFrames
    <2> HIDE DEF new
    <2>5. QED
      BY <2>3, <2>4, Zenon
  <1>3. CASE /\ sent' = sent \o WriteU32(1) \o <<INTERESTED>>
             /\ meant' = Append(meant, Message(INTERESTED, << >>, << >>))
    <2> DEFINE m == Message(INTERESTED, << >>, << >>)
               u == WriteU32(1)
               i == <<INTERESTED>>
               su == sent \o u
               ui == u \o i
    <2>1. m \in Messages /\ Frame(m) = ui
      BY InterestedIsAFrame
    <2>2. u \in Seq(Byte) /\ i \in Seq(Byte)
      <3>1. u \in Seq(Byte)
        BY BelowU32, U32Bytes
      <3>2. i \in Seq(Byte)
        BY DEF INTERESTED, Byte
      <3>3. QED
        BY <3>1, <3>2
    <2>3. sent' = su \o i /\ meant' = Append(meant, m)
      BY <1>3
    <2> HIDE DEF m, u, i
    <2>4. Joins(su, sent, u) /\ Joins(ui, u, i)
      BY <2>2 DEF Joins
    <2>5. Joins(sent', su, i)
      <3>1. su \in Seq(Byte)
        <4> HIDE DEF su
        <4> QED
          BY <2>4, JoinsType
      <3>2. QED
        BY <2>2, <2>3, <3>1 DEF Joins
    <2> HIDE DEF su, ui
    <2>6. Joins(sent', sent, ui)
      BY <2>4, <2>5, JoinsAssociative
    <2>7. <<m>> \in Seq(Messages) /\ Frames(<<m>>) = Frame(m)
      BY <2>1, FramesOfOne
    <2>8. sent' = sent \o ui
      BY <2>6 DEF Joins
    <2>9. meant' = meant \o <<m>>
      BY <2>1, <2>3, AppendIsConcat
    <2>10. QED
      BY <2>1, <2>7, <2>8, <2>9, Zenon
  <1>4. QED
    BY <1>1, <1>2, <1>3, Zenon DEF Answer

\* A session whose handshake never went out answers nothing.
LEMMA SilentAnswer ==
  ASSUME meant \in Seq(Messages), sent = << >>, NEW id, Answer(id)
  PROVE  sent' = << >>
  <1>1. ~Greeted
    BY DEF Greeted
  <1>2. CASE UNCHANGED <<sent, meant>>
    BY <1>2
  <1>3. CASE Fill
    <2>1. PICK n \in 0 .. Len(Requests) - Asked :
            LET blocks == SubSeq(Requests, Asked + 1, Asked + n)
            IN  /\ n > 0 => Greeted
                /\ sent' = sent \o FlattenSeq([i \in DOMAIN blocks |-> RequestBytes(blocks[i])])
                /\ meant' = meant \o [i \in DOMAIN blocks |-> RequestMessage(blocks[i])]
      BY <1>3, Zenon DEF Fill
    <2> DEFINE blocks == SubSeq(Requests, Asked + 1, Asked + n)
               bytes == [i \in DOMAIN blocks |-> RequestBytes(blocks[i])]
    <2>2. sent' = sent \o FlattenSeq(bytes) /\ (n > 0 => Greeted)
      BY <2>1, Zenon
    <2>3. blocks = << >>
      <3>1. Asked \in Nat
        BY AskedType
      <3>2. n \in Nat
        BY <2>1
      <3> HIDE DEF blocks
      <3>3. n = 0
        BY <1>1, <2>2, <3>2
      <3> USE DEF blocks
      <3>4. QED
        BY <3>1, <3>3, SubSeqEmpty
    <2> HIDE DEF blocks
    <2>4. bytes = << >>
      BY <2>3
    <2> HIDE DEF bytes
    <2>5. FlattenSeq(bytes) = << >>
      BY <2>4, FlattenNothing
    <2>6. QED
      BY <2>2, <2>5
  <1>4. QED
    BY <1>1, <1>2, <1>3, Zenon DEF Answer

LEMMA AnswerAsMeant ==
  ASSUME meant \in Seq(Messages), sent \in Seq(Byte), NEW id, Answer(id)
  PROVE  /\ meant' \in Seq(Messages) /\ sent' \in Seq(Byte)
         /\ AsMeant => AsMeant'
  <1>1. PICK new \in Seq(Messages) : meant' = meant \o new /\ sent' = sent \o Frames(new)
    BY AnswerAdds
  <1> DEFINE p == Packed(OwnHandshake)
             a == Frames(meant)
             b == Frames(new)
             ab == Frames(meant')
  <1>2. a \in Seq(Byte) /\ b \in Seq(Byte)
    BY FramesAreBytes
  <1>3. meant' \in Seq(Messages) /\ ab = a \o b
    BY <1>1, FramesAdd
  <1>4. p \in Seq(Byte)
    BY OwnHandshakeType, PackedFields DEF ByteStrings
  <1> HIDE DEF a, b, ab, p
  <1>5. sent' \in Seq(Byte)
    <2>1. Joins(sent', sent, b)
      BY <1>1, <1>2 DEF Joins, b
    <2>2. QED
      BY <2>1, JoinsType
  <1>6. ASSUME sent = p \o a PROVE sent' = p \o ab
    <2>1. Joins(sent, p, a) /\ Joins(sent', sent, b) /\ Joins(ab, a, b)
      BY <1>1, <1>2, <1>3, <1>4, <1>6 DEF Joins, b
    <2>2. Joins(sent', p, ab)
      BY <2>1, JoinsAssociative
    <2>3. QED
      BY <2>2 DEF Joins
  <1>7. QED
    BY <1>3, <1>5, <1>6 DEF AsMeant, p, a, ab

-----------------------------------------------------------------------------
(* The types, for every peer *)

\* Bytes that are there can be read, as bytes, and four of them as a number.
LEMMA SliceType ==
  ASSUME NEW s \in Seq(Byte), NEW pos \in Nat, NEW n \in Nat, pos + n <= Len(s)
  PROVE  Slice(s, pos, n) \in ByteStrings(n)
  <1>1. Len(s) \in Nat /\ s \in ByteStrings(Len(s))
    BY DEF ByteStrings
  <1> DEFINE k == Len(s)
  <1>2. k \in Nat /\ s \in ByteStrings(k) /\ pos + n <= k
    BY <1>1
  <1> HIDE DEF k
  <1>3. QED
    BY <1>2, Sliced

LEMMA ReadType ==
  ASSUME NEW s \in ByteStrings(4), NEW n \in ReadU32(s, 0)
  PROVE  n \in Nat
  <1>1. s \in Seq(Byte) /\ Len(s) = 4
    BY DEF ByteStrings
  <1>2. n = 16777216 * s[1] + 65536 * s[2] + 256 * s[3] + s[4]
    BY SMT DEF ReadU32
  <1>3. \A i \in 1 .. Len(s) : s[i] \in Byte
    BY <1>1, ElementOfSeq
  <1>4. s[1] \in 0 .. 255 /\ s[2] \in 0 .. 255 /\ s[3] \in 0 .. 255 /\ s[4] \in 0 .. 255
    BY <1>1, <1>3 DEF Byte
  <1> DEFINE a == s[1]
             b == s[2]
             c == s[3]
             d == s[4]
             k == n
  <1>5. /\ a \in 0 .. 255 /\ b \in 0 .. 255 /\ c \in 0 .. 255 /\ d \in 0 .. 255
        /\ k = 16777216 * a + 65536 * b + 256 * c + d
    BY <1>2, <1>4, SMT
  <1> HIDE DEF a, b, c, d, k
  <1>6. k \in Nat
    BY <1>5, SMT
  <1>7. QED
    BY <1>6, SMT DEF k

LEMMA WireShapeInit == WireInit => WireShape
  <1> SUFFICES ASSUME WireInit PROVE WireShape
    OBVIOUS
  <1>1. /\ script \in Scripts
        /\ stream = Packed(script.handshake) \o Frames(script.messages)
    BY DEF WireInit
  <1>2. Len(stream) \in Nat
    BY <1>1, StreamFacts
  <1>3. sent \in Seq(Byte) /\ meant \in Seq(Messages)
    <2>1. sent = << >> /\ meant = << >>
      BY DEF WireInit
    <2>2. QED
      BY <2>1, EmptySeq
  <1>4. arrived \in 0 .. Len(stream) /\ taken \in 0 .. arrived
    BY <1>2 DEF WireInit
  <1>5. QED
    BY <1>1, <1>3, <1>4 DEF WireInit, WireShape, VerifiedIsTheSameTorrent

\* The verdict on the handshake a script begins with.
LEMMA VerdictIsRight ==
  ASSUME WireShape
  PROVE  VerifyHandshake(Slice(stream, 0, 68)) <=>
           /\ script.handshake.pstrlen = 19
           /\ script.handshake.pstr = Protocol
           /\ script.handshake.infoHash = InfoHash
  <1> DEFINE h == script.handshake
             packed == Packed(h)
             rest == Frames(script.messages)
  <1>1. h \in Handshakes /\ rest \in Seq(Byte)
    BY ScriptFacts, FramesAreBytes DEF WireShape
  <1>2. packed \in ByteStrings(68)
    BY <1>1, PackedFields
  <1>3. stream = packed \o rest
    BY DEF WireShape
  <1>4. VerifyHandshake(packed) <=>
          h.pstrlen = 19 /\ h.pstr = Protocol /\ h.infoHash = InfoHash
    BY <1>1, VerifyReadsTheFields
  <1> HIDE DEF packed, rest
  <1>5. Slice(stream, 0, 68) = packed
    BY <1>1, <1>2, <1>3, HandshakeFirst
  <1>6. QED
    BY <1>4, <1>5

LEMMA WireShapeStep == WireShape /\ [WireNext]_wireVars => WireShape'
  <1> SUFFICES ASSUME WireShape, [WireNext]_wireVars
               PROVE  WireShape'
    OBVIOUS
  <1>0. stream \in Seq(Byte) /\ Len(stream) \in Nat
    BY StreamFacts DEF WireShape
  <1> USE DEF WireShape, VerifiedIsTheSameTorrent
  <1>1. CASE UNCHANGED wireVars
    BY <1>1 DEF wireVars, peerVars
  <1>2. CASE Arrive
    BY <1>0, <1>2 DEF Arrive
  <1>3. CASE Close
    BY <1>3 DEF Close
  <1>4. CASE SendHandshake
    <2>1. Packed(OwnHandshake) \in Seq(Byte)
      BY OwnHandshakeType, PackedFields DEF ByteStrings
    <2>2. QED
      BY <1>4, <2>1 DEF SendHandshake, peerVars
  <1>5. CASE SendFails
    BY <1>5 DEF SendFails, peerVars
  <1>6. CASE ReadHandshake
    <2>1. /\ taken = 0 /\ pc' = "length" /\ UNCHANGED <<script, stream, arrived, length, sent, meant>>
          /\ verdict' = {VerifyHandshake(Slice(stream, taken, 68))} /\ taken' = taken + 68
          /\ arrived - taken >= 68
      BY <1>6 DEF ReadHandshake, peerVars, HandshakeLength, Available
    <2>2. \A v \in verdict' : v <=> VerifyHandshake(Slice(stream, 0, 68))
      BY <2>1
    <2>3. VerifiedIsTheSameTorrent'
      BY <2>1, <2>2, VerdictIsRight
    <2>4. taken' \in 0 .. arrived'
      BY <1>0, <2>1
    <2>5. QED
      BY <2>1, <2>3, <2>4
  <1>7. CASE ReadHandshakeFails
    <2>1. arrived \in 0 .. arrived
      BY <1>0
    <2>2. QED
      BY <1>7, <2>1 DEF ReadHandshakeFails, peerVars
  <1>8. CASE ReadMsgLen
    <2>1. /\ arrived - taken >= 4 /\ taken' = taken + 4
          /\ UNCHANGED <<script, stream, arrived, verdict, handled, sent, meant>>
      BY <1>8 DEF ReadMsgLen, Available, peerVars
    <2>2. PICK n \in ReadU32(Slice(stream, taken, 4), 0) : length' = n /\ pc' = AfterLength(n)
      BY <1>8 DEF ReadMsgLen
    <2>3. n \in Nat
      <3>1. taken \in Nat /\ taken + 4 <= Len(stream)
        BY <1>0, <2>1
      <3>2. Slice(stream, taken, 4) \in ByteStrings(4)
        BY <1>0, <3>1, SliceType
      <3>3. QED
        BY <2>2, <3>2, ReadType
    <2>4. taken' \in 0 .. arrived'
      BY <1>0, <2>1
    <2>5. pc' \in {"length", "body"}
      BY <2>2 DEF AfterLength
    <2>6. QED
      BY <2>1, <2>2, <2>3, <2>4, <2>5
  <1>9. CASE ReadBody
    <2>1. /\ arrived - taken >= length /\ taken' = taken + length
          /\ UNCHANGED <<script, stream, arrived, length, verdict>>
      BY <1>9 DEF ReadBody, Available, peerVars
    <2>2. /\ pc' \in {"length", "done"}
          /\ UNCHANGED <<sent, meant>> \/ Answer(stream[taken + 1])
      BY <1>9 DEF ReadBody
    <2>3. sent' \in Seq(Byte) /\ meant' \in Seq(Messages)
      BY <2>2, AnswerAsMeant
    <2>4. taken' \in 0 .. arrived'
      BY <1>0, <2>1
    <2>5. QED
      BY <2>1, <2>2, <2>3, <2>4
  <1>10. CASE ReadFails
    <2>1. arrived \in 0 .. arrived
      BY <1>0
    <2>2. QED
      BY <1>10, <2>1 DEF ReadFails, peerVars
  <1>11. QED
    BY <1>1, <1>2, <1>3, <1>4, <1>5, <1>6, <1>7, <1>8, <1>9, <1>10 DEF WireNext, Session

\* A session has never read more than has arrived, whatever lengths it is sent,
\* and what it writes is bytes.
THEOREM SessionShape == WireSpec => []WireShape
  BY WireShapeInit, WireShapeStep, PTL DEF WireSpec

\* Type correctness of a session and its connection, for every script.
THEOREM WireTypeCorrect == WireSpec => []WireTypeOK
  <1>1. WireShape => WireTypeOK
    BY DEF WireShape, WireTypeOK
  <1>2. QED
    BY <1>1, SessionShape, PTL

\* Whatever bytes follow and however they are cut up by the connection, the
\* verdict on a peer is that on its handshake's protocol and hash.
THEOREM VerdictsAreRight == WireSpec => []VerifiedIsTheSameTorrent
  <1>1. WireShape => VerifiedIsTheSameTorrent
    BY DEF WireShape
  <1>2. QED
    BY <1>1, SessionShape, PTL

-----------------------------------------------------------------------------
(* The messages, both ways *)

LEMMA SameScript ==
  ASSUME script' = script, NEW k
  PROVE  HeardFirst(k)' = HeardFirst(k) /\ Place(k)' = Place(k)
  BY DEF HeardFirst, Heards, Heard, Place

LEMMA NoneHeard ==
  ASSUME script \in Scripts
  PROVE  /\ 0 \in 0 .. Len(script.messages) /\ Len(script.messages) \in Nat
         /\ HeardFirst(0) = << >>
  <1>1. Len(script.messages) \in Nat
    BY ScriptFacts
  <1>2. HeardFirst(0) = << >>
    BY FirstNone DEF HeardFirst
  <1>3. QED
    BY <1>1, <1>2

LEMMA OwnHandshakeAsMeant ==
  ASSUME NEW s, s = Packed(OwnHandshake), NEW ms, ms = << >>
  PROVE  s = Packed(OwnHandshake) \o Frames(ms)
  <1> DEFINE p == Packed(OwnHandshake)
  <1>1. p \in Seq(Byte)
    BY OwnHandshakeType, PackedFields DEF ByteStrings
  <1> HIDE DEF p
  <1>2. p \o << >> = p
    BY <1>1, ConcatEmptySeq
  <1>3. Frames(ms) = << >>
    BY FramesOfNone
  <1>4. s = p
    BY DEF p
  <1>5. QED
    BY <1>2, <1>3, <1>4, Zenon DEF p

LEMMA WireInvInit == WireShape /\ WireInit => WireInv
  <1> SUFFICES ASSUME WireShape, WireInit PROVE WireInv
    OBVIOUS
  <1>1. ~Greeted /\ pc = "hello"
    BY DEF WireInit, Greeted
  <1>2. QED
    BY <1>1 DEF WireInv

\* A length is read.
LEMMA ReadMsgLenKeepsInv ==
  ASSUME WireShape, WireInv, Greeted, ReadMsgLen
  PROVE  WireInv'
  <1>1. /\ pc = "length" /\ arrived - taken >= 4 /\ taken' = taken + 4
        /\ UNCHANGED <<script, stream, arrived, closed, handled, sent, meant>>
    BY DEF ReadMsgLen, Available, peerVars
  <1>2. PICK n \in ReadU32(Slice(stream, taken, 4), 0) : length' = n /\ pc' = AfterLength(n)
    BY DEF ReadMsgLen
  <1>3. /\ script \in Scripts
        /\ stream = Packed(script.handshake) \o Frames(script.messages)
        /\ arrived \in Nat /\ taken \in Nat /\ arrived <= Len(stream) /\ taken <= arrived
        /\ Len(stream) \in Nat /\ Len(script.messages) \in Nat
    BY StreamFacts, NoneHeard DEF WireShape
  <1>4. PICK k \in 0 .. Len(script.messages) : handled = HeardFirst(k) /\ (Lost \/ InStep(k))
    BY <1>1 DEF WireInv
  <1>5. AsMeant /\ AsMeant'
    BY <1>1 DEF WireInv, AsMeant
  <1>6. pc' \in {"length", "body"}
    BY <1>2 DEF AfterLength
  <1>7. ASSUME NEW j \in 0 .. Len(script.messages), handled = HeardFirst(j), Lost' \/ InStep(j)'
        PROVE  WireInv'
    <2>1. j \in 0 .. Len(script'.messages) /\ handled' = HeardFirst(j)'
      BY <1>1, <1>7, SameScript
    <2>2. QED
      BY <1>5, <1>6, <1>7, <2>1 DEF WireInv
  <1>8. ~Lost
    BY <1>1, <1>3 DEF Lost
  <1>9. CASE InStep(k)
    <2> DEFINE m == script.messages[k + 1]
               l == Len(Body(m))
    <2>1. /\ AsMeant /\ taken = Place(k)
          /\ \A j \in 1 .. k : ~CutShort(script.messages[j])
      BY <1>1, <1>9 DEF InStep
    <2>2. k \in 0 .. Len(script.messages) - 1
      <3>1. CASE k = Len(script.messages)
        <4>1. taken = Len(stream)
          BY <1>3, <2>1, <3>1, PlacesEnds
        <4>2. QED
          BY <1>1, <1>3, <4>1
      <3>2. QED
        BY <1>3, <3>1
    <2>3. /\ m \in Messages /\ Part(stream, Place(k), Frame(m))
          /\ Place(k + 1) = Place(k) + 4 + l
      <3>1. \A j : j = k + 1 =>
              /\ script.messages[j] \in Messages
              /\ Part(stream, Place(k), Frame(script.messages[j]))
              /\ Place(j) = Place(k) + 4 + Len(Body(script.messages[j]))
        BY <1>3, <2>2, FrameAt
      <3>2. QED
        BY <3>1
    <2>4. /\ l \in U32 /\ Slice(stream, Place(k), 4) = WriteU32(l)
          /\ m.id = KEEP_ALIVE => l = 0
          /\ m.id # KEEP_ALIVE => l = Len(Payload(m)) + 1
      <3> HIDE DEF m
      <3> QED
        BY <2>3, FrameInStream
    <2>5. n = l
      <3> HIDE DEF l
      <3>1. ReadU32(WriteU32(l), 0) = {l}
        BY <2>4, U32Bytes
      <3>2. QED
        BY <1>2, <2>1, <2>4, <3>1
    <2>6. /\ \A j \in 1 .. k : ~CutShort(script'.messages[j])
          /\ AsMeant' /\ taken' = Place(k) + 4
      BY <1>1, <1>5, <2>1
    <2>7. CASE m.id = KEEP_ALIVE
      <3>1. l = 0 /\ pc' = "length"
        BY <1>2, <2>4, <2>5, <2>7 DEF AfterLength
      <3>2. HeardFirst(k + 1) = HeardFirst(k)
        <4>1. \A j : j = k + 1 =>
                (script.messages[j].id = KEEP_ALIVE => HeardFirst(j) = HeardFirst(k))
          BY <1>3, <2>1, <2>2, HeardNext
        <4>2. QED
          BY <2>7, <4>1
      <3>3. ~CutShort(m)
        BY <2>7 DEF CutShort, KEEP_ALIVE, PIECE
      <3>4. Place(k) \in Nat
        BY <2>3 DEF Part
      <3>5. taken' = Place(k + 1)
        BY <2>3, <2>6, <3>1, <3>4
      <3>6. \A j \in 1 .. k + 1 : ~CutShort(script'.messages[j])
        <4> SUFFICES ASSUME NEW j \in 1 .. k + 1 PROVE ~CutShort(script'.messages[j])
          OBVIOUS
        <4>1. j \in 1 .. k \/ j = k + 1
          OBVIOUS
        <4>2. QED
          BY <1>1, <2>6, <3>3, <4>1
      <3>7. Place(k + 1)' = Place(k + 1)
        BY <1>1, SameScript
      <3>8. InStep(k + 1)'
        BY <2>6, <3>1, <3>5, <3>6, <3>7 DEF InStep
      <3>9. k + 1 \in 0 .. Len(script.messages)
        BY <2>2
      <3>10. QED
        BY <1>4, <1>7, <3>2, <3>8, <3>9
    <2>8. CASE m.id # KEEP_ALIVE
      <3>1. pc' = "body" /\ length' = l
        <4>1. m \in Messages /\ l # 0
          <5>1. m \in AnyMessage
            BY <2>3, FrameIsLengthAndBody
          <5>2. Len(Payload(m)) \in Nat
            BY <5>1, PayloadIsBytes
          <5>3. QED
            BY <2>3, <2>4, <2>8, <5>2
        <4>2. QED
          BY <1>2, <2>5, <4>1 DEF AfterLength
      <3>2. k < Len(script'.messages) /\ script'.messages[k + 1] = m
        BY <1>1, <1>3, <2>2
      <3>3. Place(k)' = Place(k)
        BY <1>1, SameScript
      <3>4. InStep(k)'
        BY <2>6, <2>8, <3>1, <3>2, <3>3 DEF InStep
      <3>5. QED
        BY <1>4, <1>7, <3>4
    <2>9. QED
      BY <2>7, <2>8
  <1>10. QED
    BY <1>4, <1>8, <1>9

\* A body is read, and is the next message's.
LEMMA ReadBodyKeepsInv ==
  ASSUME WireShape, WireInv, Greeted, ReadBody
  PROVE  WireInv'
  <1>1. /\ pc = "body" /\ arrived - taken >= length /\ taken' = taken + length
        /\ UNCHANGED <<script, stream, arrived, closed>>
    BY DEF ReadBody, Available, peerVars
  <1> DEFINE id == stream[taken + 1]
             payload == Slice(stream, taken + 1, length - 1)
  <1>2. /\ Decode(id, payload) = {} =>
             pc' = "done" /\ UNCHANGED <<handled, sent, meant>>
        /\ Decode(id, payload) # {} =>
             /\ \E d \in Decode(id, payload) : handled' = Append(handled, d)
             /\ Answer(id)
             /\ pc' = "length"
    BY DEF ReadBody
  <1>3. /\ script \in Scripts
        /\ stream = Packed(script.handshake) \o Frames(script.messages)
        /\ arrived \in Nat /\ taken \in Nat /\ arrived <= Len(stream) /\ taken <= arrived
        /\ length \in Nat /\ sent \in Seq(Byte) /\ meant \in Seq(Messages)
        /\ Len(stream) \in Nat /\ Len(script.messages) \in Nat
    BY StreamFacts, NoneHeard DEF WireShape
  <1>4. PICK k \in 0 .. Len(script.messages) : handled = HeardFirst(k) /\ (Lost \/ InStep(k))
    BY <1>1 DEF WireInv
  <1>5. ~Lost
    BY <1>1, <1>3 DEF Lost
  <1> DEFINE m == script.messages[k + 1]
             l == Len(Body(m))
  <1>6. /\ AsMeant /\ taken = Place(k) + 4 /\ length = l /\ m.id # KEEP_ALIVE
        /\ \A j \in 1 .. k : ~CutShort(script.messages[j])
        /\ k \in 0 .. Len(script.messages) - 1
    <2>1. InStep(k) /\ pc # "length"
      BY <1>1, <1>4, <1>5
    <2>2. /\ AsMeant /\ taken = Place(k) + 4 /\ k < Len(script.messages)
          /\ length = l /\ m.id # KEEP_ALIVE
          /\ \A j \in 1 .. k : ~CutShort(script.messages[j])
      BY <2>1 DEF InStep
    <2>3. k \in 0 .. Len(script.messages) - 1
      BY <1>3, <2>2
    <2>4. QED
      BY <2>2, <2>3
  <1>7. /\ m \in Messages /\ Part(stream, Place(k), Frame(m))
        /\ Place(k + 1) = Place(k) + 4 + l
    <2>1. \A j : j = k + 1 =>
            /\ script.messages[j] \in Messages
            /\ Part(stream, Place(k), Frame(script.messages[j]))
            /\ Place(j) = Place(k) + 4 + Len(Body(script.messages[j]))
      BY <1>3, <1>6, FrameAt
    <2>2. QED
      BY <2>1
  <1>8. id = m.id /\ payload = Payload(m)
    <2> HIDE DEF m
    <2>1. /\ stream[Place(k) + 4 + 1] = m.id
          /\ Slice(stream, Place(k) + 4 + 1, l - 1) = Payload(m)
      BY <1>6, <1>7, FrameInStream, SMTT(30)
    <2>2. QED
      BY <1>6, <2>1
  <1> HIDE DEF id, payload
  <1>9. CASE CutShort(m)
    <2>1. pc' = "done" /\ UNCHANGED <<handled, sent, meant>>
      <3>1. Decode(m.id, Payload(m)) = {}
        BY <1>6, <1>7, <1>9, DecodedAsSeen
      <3>2. QED
        BY <1>2, <1>8, <3>1
    <2>2. AsMeant'
      BY <1>6, <2>1 DEF AsMeant
    <2>3. k \in 0 .. Len(script'.messages) /\ handled' = HeardFirst(k)'
      BY <1>1, <1>4, <2>1, SameScript
    <2>4. QED
      BY <2>1, <2>2, <2>3 DEF WireInv
  <1>10. CASE ~CutShort(m)
    <2>1. handled' = Append(handled, SeenAs(m)) /\ Answer(id) /\ pc' = "length"
      <3>1. Decode(m.id, Payload(m)) = {SeenAs(m)}
        BY <1>6, <1>7, <1>10, DecodedAsSeen
      <3>2. QED
        BY <1>2, <1>8, <3>1
    <2>2. AsMeant'
      BY <1>3, <1>6, <2>1, AnswerAsMeant
    <2>3. handled' = HeardFirst(k + 1)
      <3>1. \A j : j = k + 1 =>
              (script.messages[j].id # KEEP_ALIVE /\ ~CutShort(script.messages[j]) =>
                 HeardFirst(j) = Append(HeardFirst(k), SeenAs(script.messages[j])))
        BY <1>3, <1>6, HeardNext
      <3>2. QED
        BY <1>4, <1>6, <1>10, <2>1, <3>1
    <2>4. taken' = Place(k + 1)
      <3>1. Place(k) \in Nat
        BY <1>7 DEF Part
      <3>2. QED
        BY <1>1, <1>6, <1>7, <3>1
    <2>5. /\ Place(k + 1)' = Place(k + 1) /\ HeardFirst(k + 1)' = HeardFirst(k + 1)
          /\ k + 1 \in 0 .. Len(script'.messages)
      BY <1>1, <1>6, SameScript
    <2>6. \A j \in 1 .. k + 1 : ~CutShort(script'.messages[j])
      <3> SUFFICES ASSUME NEW j \in 1 .. k + 1 PROVE ~CutShort(script'.messages[j])
        OBVIOUS
      <3>1. j \in 1 .. k \/ j = k + 1
        OBVIOUS
      <3>2. QED
        BY <1>1, <1>6, <1>10, <3>1
    <2>7. InStep(k + 1)'
      BY <2>1, <2>2, <2>4, <2>5, <2>6 DEF InStep
    <2>8. QED
      BY <2>1, <2>2, <2>3, <2>5, <2>7 DEF WireInv
  <1>11. QED
    BY <1>9, <1>10

\* The steps that read no frame.
LEMMA OtherStepsKeepInv ==
  ASSUME WireShape, WireInv, Greeted,
         \/ UNCHANGED wireVars \/ Arrive \/ Close
         \/ ReadHandshake \/ ReadHandshakeFails \/ ReadFails
  PROVE  WireInv'
  <1>1. /\ script' = script /\ stream' = stream /\ handled' = handled
        /\ UNCHANGED <<sent, meant>>
        /\ script \in Scripts
        /\ stream = Packed(script.handshake) \o Frames(script.messages)
        /\ pc \in {"hello", "handshake"} => taken = 0 /\ meant = << >> /\ handled = << >>
    BY DEF WireShape, wireVars, peerVars, Arrive, Close, ReadHandshake,
           ReadHandshakeFails, ReadFails
  <1>2. PICK k \in 0 .. Len(script.messages) :
          /\ handled = HeardFirst(k)
          /\ pc \in {"length", "body"} => Lost \/ InStep(k)
    BY DEF WireInv
  <1>3. \A j \in 0 .. Len(script.messages) :
          /\ j \in 0 .. Len(script'.messages) /\ Place(j)' = Place(j)
          /\ handled = HeardFirst(j) => handled' = HeardFirst(j)'
    BY <1>1, SameScript
  <1>4. AsMeant /\ AsMeant' /\ Greeted'
    BY <1>1 DEF WireInv, AsMeant, Greeted
  <1>6. ASSUME UNCHANGED <<pc, taken, length>>, closed => closed',
               taken = arrived /\ closed => arrived' = arrived
        PROVE  WireInv'
    <2>1. Lost => Lost'
      BY <1>6 DEF Lost
    <2>2. InStep(k) => InStep(k)'
      BY <1>1, <1>3, <1>4, <1>6 DEF InStep
    <2>3. QED
      BY <1>2, <1>3, <1>4, <1>6, <2>1, <2>2 DEF WireInv
  <1>7. CASE UNCHANGED wireVars
    BY <1>6, <1>7 DEF wireVars, peerVars
  <1>8. CASE Arrive
    BY <1>6, <1>8 DEF Arrive
  <1>9. CASE Close
    BY <1>6, <1>9 DEF Close
  <1>10. CASE ReadHandshake
    <2>1. pc = "handshake" /\ pc' = "length" /\ taken' = taken + HandshakeLength
      BY <1>10 DEF ReadHandshake
    <2>2. taken' = Place(0) /\ handled = HeardFirst(0) /\ 0 \in 0 .. Len(script.messages)
      BY <1>1, <2>1, PlacesEnds, NoneHeard DEF HandshakeLength
    <2>3. InStep(0)'
      BY <1>3, <1>4, <2>1, <2>2 DEF InStep
    <2>4. QED
      BY <1>3, <1>4, <2>1, <2>2, <2>3 DEF WireInv
  <1>11. CASE ReadHandshakeFails
    <2>1. Lost' /\ pc' = "length"
      BY <1>11 DEF ReadHandshakeFails, Fails, Lost, peerVars
    <2>2. QED
      BY <1>2, <1>3, <1>4, <2>1 DEF WireInv
  <1>12. CASE ReadFails
    <2>1. pc' = "done"
      BY <1>12 DEF ReadFails
    <2>2. QED
      BY <1>2, <1>3, <1>4, <2>1 DEF WireInv
  <1>13. QED
    BY <1>7, <1>8, <1>9, <1>10, <1>11, <1>12

\* The session's handshake goes out before anything is read.
LEMMA GreetingKeepsInv ==
  ASSUME WireShape, WireInv, SendHandshake
  PROVE  WireInv'
  <1>1. /\ sent' = Packed(OwnHandshake) /\ meant' = << >> /\ handled' = << >>
        /\ pc' = "handshake" /\ script' = script /\ script \in Scripts
    BY DEF SendHandshake, WireShape, peerVars
  <1>2. AsMeant'
    BY <1>1, OwnHandshakeAsMeant, Zenon DEF AsMeant
  <1>3. Greeted'
    <2>1. Packed(OwnHandshake) \in ByteStrings(68)
      BY OwnHandshakeType, PackedFields
    <2> DEFINE p == Packed(OwnHandshake)
    <2>2. Len(p) = 68
      BY <2>1 DEF ByteStrings
    <2>3. sent' = p
      BY <1>1
    <2> HIDE DEF p
    <2>4. p # << >>
      <3>1. Len(<< >>) = 0 /\ 68 # 0
        OBVIOUS
      <3>2. QED
        BY <2>2, <3>1, Zenon
    <2>5. QED
      BY <2>3, <2>4 DEF Greeted
  <1>4. 0 \in 0 .. Len(script'.messages) /\ handled' = HeardFirst(0)'
    BY <1>1, NoneHeard, SameScript
  <1>5. QED
    BY <1>1, <1>2, <1>3, <1>4 DEF WireInv

\* If it does not, nothing of the session ever goes out.
LEMMA UngreetedKeepsInv ==
  ASSUME WireShape, WireInv, ~Greeted, [WireNext]_wireVars, ~SendHandshake
  PROVE  WireInv'
  <1>1. sent = << >> /\ pc # "handshake"
    BY DEF WireInv, Greeted
  <1>2. CASE ReadBody
    <2>1. UNCHANGED <<sent, meant>> \/ Answer(stream[taken + 1])
      BY <1>2 DEF ReadBody
    <2>2. sent' = << >>
      BY <1>1, <2>1, SilentAnswer DEF WireShape
    <2>3. pc' # "handshake"
      BY <1>2 DEF ReadBody
    <2>4. QED
      BY <2>2, <2>3 DEF WireInv, Greeted
  <1>3. CASE ~ReadBody
    <2>1. sent' = sent /\ pc' # "handshake"
      BY <1>1, <1>3 DEF WireNext, Session, wireVars, Arrive, Close, SendFails, ReadHandshake,
                        ReadHandshakeFails, ReadMsgLen, AfterLength, ReadFails
    <2>2. QED
      BY <1>1, <2>1 DEF WireInv, Greeted
  <1>4. QED
    BY <1>2, <1>3

\* A session whose handshake went out is in step with its peer, or its connection
\* is closed and it will handle nothing more; one whose handshake did not has
\* written nothing.
THEOREM SessionsKeepInStep == WireSpec => []WireInv
  <1>1. WireShape /\ WireInv /\ [WireNext]_wireVars => WireInv'
    <2> SUFFICES ASSUME WireShape, WireInv, [WireNext]_wireVars PROVE WireInv'
      OBVIOUS
    <2>1. CASE SendHandshake
      BY <2>1, GreetingKeepsInv
    <2>2. CASE ~Greeted /\ ~SendHandshake
      BY <2>2, UngreetedKeepsInv
    <2>3. CASE Greeted /\ ~SendHandshake
      <3>1. ~SendFails
        BY <2>3 DEF SendFails, WireShape, Greeted
      <3>2. QED
        BY <2>3, <3>1, ReadMsgLenKeepsInv, ReadBodyKeepsInv, OtherStepsKeepInv
           DEF WireNext, Session
    <2>4. QED
      BY <2>1, <2>2, <2>3
  <1>2. QED
    BY <1>1, SessionShape, WireInvInit, WireShapeInit, PTL DEF WireSpec

\* Whatever peers send and wherever the connection is cut, a session whose
\* handshake went out handles the messages sent, in their order and with their
\* fields.
THEOREM MessagesAreHandledAsSent == WireSpec => []HandledAreSent
  <1>1. WireShape /\ WireInv => HandledAreSent
    BY HeardFirstIsPrefix DEF WireShape, WireInv, HandledAreSent
  <1>2. QED
    BY <1>1, SessionShape, SessionsKeepInStep, PTL

\* What the client writes is a handshake that peers verify and the messages it
\* means, however many blocks it asks for and whatever their numbers are.
THEOREM PeersUnderstandTheClient == WireSpec => []PeerUnderstands
  <1>1. ASSUME WireShape, AsMeant PROVE VerifyHandshake(Slice(sent, 0, HandshakeLength))
    <2> DEFINE p == Packed(OwnHandshake)
               rest == Frames(meant)
    <2>1. /\ p \in ByteStrings(68) /\ rest \in Seq(Byte)
          /\ VerifyHandshake(p)
      <3>1. OwnHandshake \in Handshakes
        BY OwnHandshakeType
      <3>2. VerifyHandshake(p)
        BY <3>1, VerifyReadsTheFields DEF OwnHandshake
      <3>3. meant \in Seq(Messages)
        BY <1>1 DEF WireShape
      <3>4. QED
        BY <3>1, <3>2, <3>3, PackedFields, FramesAreBytes
    <2>2. sent = p \o rest
      BY <1>1 DEF AsMeant
    <2> HIDE DEF p, rest
    <2>3. Slice(sent, 0, 68) = p
      BY <2>1, <2>2, HandshakeFirst
    <2>4. QED
      BY <2>1, <2>3 DEF HandshakeLength
  <1>2. WireShape /\ WireInv => PeerUnderstands
    BY <1>1 DEF WireInv, PeerUnderstands, AsMeant
  <1>3. QED
    BY <1>2, SessionShape, SessionsKeepInStep, PTL
=============================================================================
