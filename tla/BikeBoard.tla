------------------------------ MODULE BikeBoard ------------------------------
(***************************************************************************)
(* What the bike pipeline promises, with no processes, files or network.   *)
(*                                                                         *)
(* The server keeps, for every station it tracks, a window of its most     *)
(* recent observations; the dashboard's board (the Firestore collection    *)
(* DublinBikes) shows, for every station that has a document, the forecast *)
(* made from a window.  A window stands for its forecast: the forecast is  *)
(* a function of the window.                                               *)
(***************************************************************************)
EXTENDS Naturals

CONSTANTS Tracked,      \* the stations with a window
          Documented,   \* the stations with a document
          W,            \* the length of a window
          Stamp         \* what tells one observation from another

VARIABLES hist,   \* hist[s]: the window of s
          last,   \* the stations of the newest snapshot in the history
          board   \* board[s]: the window the document of s was forecast from

vars == <<hist, last, board>>

Window == [1..W -> Stamp]

\* Faulty variant: the newest observation enters at the front.
SlideFront(w, h) == [i \in 1..W |-> IF i > 1 THEN w[i - 1] ELSE h]

\* The newest observation enters at the end and the oldest one drops out.
Slide(w, h) == [i \in 1..W |-> IF i < W THEN w[i + 1] ELSE h]

\* Every station of R gains the observation h; the others keep their window.
Extend(table, R, h) ==
    [s \in Tracked |-> IF s \in R THEN Slide(table[s], h) ELSE table[s]]

\* The documents of R take their station's window; the others stay.
Overlay(docs, table, R) ==
    [s \in Documented |-> IF s \in R THEN table[s] ELSE docs[s]]

Init == /\ hist \in [Tracked -> Window]
        /\ last = {}
        /\ board \in [Documented -> Window]

\* One snapshot, which lists the stations R, is added to the history.
Record(R, h) == /\ hist' = Extend(hist, R, h)
                /\ last' = R
                /\ UNCHANGED board

\* The board shows the history of every station of the newest snapshot, all
\* at once, or not at all where one of them has no document.
Publish == /\ last \subseteq Documented
           /\ board' = Overlay(board, hist, last)
           /\ UNCHANGED <<hist, last>>

Next == \/ \E R \in SUBSET Tracked : \E h \in Stamp : Record(R, h)
        \/ Publish

Spec == Init /\ [][Next]_vars
=============================================================================
