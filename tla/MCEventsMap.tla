----------------------------- MODULE MCEventsMap -----------------------------
(***************************************************************************)
(* Venues as the documents name them and choices as the dropdown does; two *)
(* venues share a stop.                                                    *)
(***************************************************************************)
EXTENDS EventsMap

MCVenue == {"3Arena", "Aviva Stadium"}
MCChoice == {"No Bus Stops", "3Arena", "Aviva Stadium"}
MCNear == [v \in MCVenue |->
              IF v = "3Arena" THEN {"Ringsend", "Irishtown Road"}
                              ELSE {"Haddington Road", "Irishtown Road"}]
=============================================================================
