----------------------------- MODULE Completion -----------------------------
(***************************************************************************)
(* What a download promises to whoever watches it, with nothing of how it  *)
(* is done: pieces are finished one at a time, the progress reported never *)
(* overtakes them, and the end is announced once, after the last of them.  *)
(* A step may do any of the three, or several at once: the piece manager   *)
(* does all of them in one locked call, the threads around it see them one *)
(* after the other.                                                        *)
(***************************************************************************)
EXTENDS Naturals

VARIABLES
  total,      \* pieces of the torrent
  done,       \* pieces finished
  reported,   \* pieces the progress display has been told of
  announced   \* announcements of the end

vars == <<total, done, reported, announced>>

Init ==
  /\ total \in Nat
  /\ done = 0
  /\ reported = 0
  /\ announced = 0

\* The number of pieces is settled before the first is finished.
Settle == done' = 0 \/ total' = total

Finish == done' = done \/ (done' = done + 1 /\ done' <= total')

Report == reported' = reported \/ (reported' = reported + 1 /\ reported' <= done')

\* The end is only announced after a last piece.
Announce ==
  announced' = announced
    \/ (announced = 0 /\ announced' = 1 /\ done' > 0 /\ done' = total')

Next == Settle /\ Finish /\ Report /\ Announce

Spec == Init /\ [][Next]_vars
=============================================================================
