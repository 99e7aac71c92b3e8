----------------------------- MODULE SatbMark -----------------------------
(***************************************************************************)
(* What the mark stage promises (the snapshot-at-the-beginning contract    *)
(* the comments of object.c state): it marks what was reachable when it    *)
(* began, nothing else and for good; it ends when all of that is marked,   *)
(* and it does end.                                                        *)
(***************************************************************************)
CONSTANTS Snapshot, Roots

VARIABLES marked, over

Init == marked = Roots /\ over = FALSE

Mark ==
  /\ \E o \in Snapshot \ marked : marked' = marked \cup {o}
  /\ UNCHANGED over

Stop ==
  /\ ~over
  /\ over' = TRUE
  /\ UNCHANGED marked

End == Snapshot \subseteq marked /\ Stop

Next == Mark \/ End

(* Its safety, and the part of it that is only about the marks: they are   *)
(* those of the snapshot and stay.                                         *)
SafeSpec == Init /\ [][Next]_<<marked, over>>
SoundSpec == Init /\ [][Mark \/ Stop]_<<marked, over>>

MSpec == SafeSpec /\ WF_<<marked, over>>(Next)
=============================================================================
