----------------------------- MODULE MCClient ------------------------------
(* An instance of the whole run for TLC. *)
EXTENDS Client, TLC

Text(s) == StringValue(s, 1)

PlainInfo(pieceLength, fileLength, pieces) ==
  PIECE_LENGTH :> IntValue(pieceLength) @@ LENGTH :> IntValue(fileLength)
    @@ NAME :> Text("name") @@ PIECES :> StringValue("hashes", pieces)

Root(info, url) ==
  ANNOUNCE :> Text(url) @@ COMMENT :> Text("comment")
    @@ CREATION_DATE :> IntValue(1) @@ INFO :> DictValue(info)

File(map) == [readable |-> TRUE, root |-> DictValue(map)]

\* A dict without one of its keys, or with another type under it.
Damaged(map) ==
  UNION {{[l \in DOMAIN map \ {k} |-> map[l]], [map EXCEPT ![k] = DictValue(<< >>)]} :
           k \in DOMAIN map}

\* Piece and file lengths around the instance's 2^32, and around zero.
Sizes == {File(Root(PlainInfo(pl, fl, n), "url")) :
            pl \in -1 .. 6, fl \in -1 .. 10, n \in 0 .. 9}

Usual == PlainInfo(3, 7, 6)

Broken ==
  {File(Root(info, "url")) : info \in Damaged(Usual)}
    \cup {File(map) : map \in Damaged(Root(Usual, "url"))}
    \cup {[readable |-> FALSE, root |-> NoValue], [readable |-> TRUE, root |-> NoValue],
          [readable |-> TRUE, root |-> IntValue(1)]}

\* The info dict of a torrent for closed trackers has one key more.
Private == File(Root(Usual @@ "private" :> IntValue(1), "url"))

TestTorrents == Sizes \cup Broken \cup {File(Root(Usual, "not a url")), Private}

Body(n) == DictValue("interval" :> IntValue(1) @@ "peers" :> StringValue("peers", n))

TestResponses ==
  {[status |-> s, body |-> b] :
     s \in {200, 404}, b \in {Body(0), Body(6), Body(3), NoValue, IntValue(1)}}
    \cup {[status |-> 200, body |-> DictValue(d)] : d \in Damaged(Body(6).map)}

Urls == {"url"}
=============================================================================
