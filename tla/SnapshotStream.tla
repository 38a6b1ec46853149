--------------------------- MODULE SnapshotStream ---------------------------
(***************************************************************************)
(* What a page of the app may rely on when it listens to Firestore         *)
(* queries: every listener of a query is shown the device's copy of its    *)
(* documents, the copy only moves on to versions that were published, and  *)
(* it survives a lost connection, a listener that is removed and added     *)
(* again, and a restart of the app.                                        *)
(***************************************************************************)
EXTENDS Integers

CONSTANTS Query, Listener, QueryOf

VARIABLES published,  \* newest version of the documents of a query
          held,       \* the version the device has a copy of
          on,         \* listeners that are registered
          shown       \* version of the listener's last event

Silent == -1

Init == /\ published \in [Query -> {0, 1}]
        /\ held = [q \in Query |-> 0]
        /\ on = {}
        /\ shown = [l \in Listener |-> Silent]

Publish(q) ==
    /\ published'[q] > published[q]
    /\ published' = [published EXCEPT ![q] = published'[q]]
    /\ UNCHANGED <<held, on, shown>>

\* The copy moves on, and every listener that has had an event is told; so
\* are some that have been waiting for their first one.
Fetch ==
    /\ DOMAIN held' = Query
    /\ \A q \in Query : held[q] <= held'[q] /\ held'[q] <= published[q]
    /\ \E first \in SUBSET {l \in on : shown[l] = Silent} :
          shown' = [l \in Listener |->
                       IF shown[l] # Silent \/ l \in first
                       THEN held'[QueryOf[l]] ELSE Silent]
    /\ UNCHANGED <<published, on>>

Subscribe(l) ==
    /\ on' = on \cup {l}
    /\ shown' \in {shown, [shown EXCEPT ![l] = held[QueryOf[l]]]}
    /\ UNCHANGED <<published, held>>

\* One listener is removed, or the app ends with all of them.
Unsubscribe(gone) ==
    /\ on' = on \ gone
    /\ shown' = [l \in Listener |-> IF l \in gone THEN Silent ELSE shown[l]]
    /\ UNCHANGED <<published, held>>

Next == \/ \E q \in Query : Publish(q)
        \/ Fetch
        \/ \E l \in Listener \ on : Subscribe(l)
        \/ \E gone \in SUBSET on : Unsubscribe(gone)

vars == <<published, held, on, shown>>

Spec == Init /\ [][Next]_vars
=============================================================================
