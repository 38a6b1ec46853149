----------------------------- MODULE SharedBoard -----------------------------
(***************************************************************************)
(* What is left of the promise of BikeBoard when several processes run the *)
(* ingest job over one file and one collection.  They overwrite each       *)
(* other, so a snapshot need not be added to the newest table; but it is   *)
(* added to one that was the newest, and a batch shows one snapshot as a   *)
(* whole.  Once a save is torn and nobody is left to repair it, it is over.*)
(***************************************************************************)
EXTENDS Naturals

CONSTANTS Tracked, Documented, W, Stamp

VARIABLES hist,   \* hist[s]: the window of s, as in BikeBoard
          seen,   \* the tables that were ever saved
          board,  \* board[s]: the window the document of s was forecast from
          over    \* the service has come to its end

vars == <<hist, seen, board, over>>

Alone == INSTANCE BikeBoard WITH last <- {}

Init == /\ hist \in [Tracked -> Alone!Window]
        /\ seen = {hist}
        /\ board \in [Documented -> Alone!Window]
        /\ over = FALSE

\* One snapshot, which lists the stations R, is added to the table t, which
\* may be an old one by now.
Record(t, R, h) ==
    /\ ~over
    /\ hist' = Alone!Extend(t, R, h)
    /\ seen' = seen \cup {hist'}
    /\ UNCHANGED <<board, over>>

\* The board shows the table t with that snapshot, all its stations at once.
Publish(t, R, h) ==
    /\ ~over
    /\ R \subseteq Documented
    /\ board' = Alone!Overlay(board, Alone!Extend(t, R, h), R)
    /\ over' \in BOOLEAN
    /\ UNCHANGED <<hist, seen>>

End == /\ ~over
       /\ over' = TRUE
       /\ UNCHANGED <<hist, seen, board>>

Next == \/ \E t \in seen, R \in SUBSET Tracked, h \in Stamp :
              Record(t, R, h) \/ Publish(t, R, h)
        \/ End

Spec == Init /\ [][Next]_vars
=============================================================================
