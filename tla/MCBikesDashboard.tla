-------------------------- MODULE MCBikesDashboard --------------------------
(***************************************************************************)
(* Two stations, and an occupancy on each side of and on the thresholds.   *)
(***************************************************************************)
EXTENDS BikesDashboard

CONSTANTS s1, s2

MCOrder == <<s1, s2>>
=============================================================================
