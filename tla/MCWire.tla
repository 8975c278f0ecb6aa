------------------------------- MODULE MCWire -------------------------------
(* An instance of Wire: handshakes that fit and that do not, scripts of up   *)
(* to two messages.                                                         *)
EXTENDS Wire

MCProtocol == [i \in 1 .. 19 |-> 64 + i]
MCInfoHash == [i \in 1 .. 20 |-> 128 + i]
MCPeerId == [i \in 1 .. 20 |-> 200 + i]

Good == [pstrlen |-> 19, pstr |-> MCProtocol, reserved |-> Repeat(7, 8),
         infoHash |-> MCInfoHash, peerId |-> Repeat(9, 20)]

\* One byte off: the length, either end of the text, either end of the hash;
\* the hash one field early; and one that begins as a frame does, with an
\* UNCHOKE of one byte too many.
Bad ==
  {[Good EXCEPT !.pstrlen = 18], [Good EXCEPT !.pstr[1] = 0],
   [Good EXCEPT !.pstr[19] = 0], [Good EXCEPT !.infoHash[1] = 0],
   [Good EXCEPT !.infoHash[20] = 0],
   [Good EXCEPT !.reserved = SubSeq(MCInfoHash, 1, 8),
                !.infoHash = SubSeq(MCInfoHash, 9, 20) \o Repeat(0, 8)],
   [Good EXCEPT !.pstrlen = 0,
                !.pstr = <<0, 0, 2, UNCHOKE, 0>> \o SubSeq(MCProtocol, 6, 19)]}

\* Fields on both sides of each byte, blocks of no and of some bytes, messages
\* of no use to the client, and a PIECE that is cut short.
TestMessages ==
  {Message(KEEP_ALIVE, << >>, << >>), Message(0, << >>, << >>),
   Message(UNCHOKE, << >>, << >>), Message(4, <<258>>, << >>),
   Message(BITFIELD, << >>, <<192>>), Message(20, << >>, <<0, 0, 0, 1>>),
   Message(PIECE, <<0, 0>>, <<255, 0>>), Message(PIECE, <<65793, 16909060>>, << >>),
   Message(PIECE, <<1>>, <<0, 0>>)}

OneHandshake ==
  {[handshake |-> Good, messages |-> s] : s \in BoundedSeq(TestMessages, 2)}

ManyHandshakes ==
  {[handshake |-> h, messages |-> <<Message(PIECE, <<1, 2>>, <<3>>)>>] : h \in Bad}

TestScripts == OneHandshake \cup ManyHandshakes

TwoRequests ==
  <<[pieceIndex |-> 0, offset |-> 16384, length |-> 16384],
    [pieceIndex |-> 16909060, offset |-> 0, length |-> 1]>>
=============================================================================
