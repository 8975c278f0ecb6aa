----------------------------- MODULE BlockLease -----------------------------
(***************************************************************************)
(* What the peer sessions and the manager they share promise together      *)
(* while connections and peers are good: a block is leased to one session  *)
(* at a time, comes back or is received, and is never leased again once it *)
(* was received; a piece is final from the step on that receives the last  *)
(* of its blocks.                                                          *)
(***************************************************************************)
EXTENDS FiniteSets

CONSTANTS
  Sessions,
  Block,          \* blocks of the torrent
  PieceOf(_),     \* the piece a block belongs to
  Free, Got       \* owners that are no session

VARIABLES
  owner,   \* of each block: Free, the session it is leased to, or Got
  final    \* the pieces that are verified

vars == <<owner, final>>

Init ==
  /\ owner = [blk \in Block |-> Free]
  /\ final = {}

Lease(s, blk) ==
  /\ owner[blk] = Free
  /\ owner' = [owner EXCEPT ![blk] = s]
  /\ UNCHANGED final

GiveBack(s, blk) ==
  /\ owner[blk] = s
  /\ owner' = [owner EXCEPT ![blk] = Free]
  /\ UNCHANGED final

\* The pieces all of whose blocks are there.
Whole(own) ==
  {PieceOf(blk) : blk \in {b \in Block :
     \A c \in Block : PieceOf(c) = PieceOf(b) => own[c] = Got}}

Receive(s, blk) ==
  /\ owner[blk] = s
  /\ owner' = [owner EXCEPT ![blk] = Got]
  /\ final' = Whole(owner')

Next ==
  \E s \in Sessions, blk \in Block :
    Lease(s, blk) \/ GiveBack(s, blk) \/ Receive(s, blk)

Spec == Init /\ [][Next]_vars
=============================================================================
