-------------------------- MODULE MCFirestoreClient --------------------------
(***************************************************************************)
(* Two queries, as the bikes page has, the first with two listeners, as    *)
(* when the page is opened again above itself.                             *)
(***************************************************************************)
EXTENDS FirestoreClient

MCQueryOf == [l \in Listener |-> IF l = "swaps" THEN "swaps" ELSE "bikes"]

MCInitially == [q \in Query |-> IF q = "bikes" THEN 1 ELSE 0]
\* No documents yet: the first event has nothing to show.
MCNothing == [q \in Query |-> 0]
=============================================================================
