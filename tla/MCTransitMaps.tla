--------------------------- MODULE MCTransitMaps ---------------------------
(***************************************************************************)
(* Two Luas stops; three bus stops of which the cap leaves out one, and    *)
(* two busy stops, one of them left out and one with a plain marker.       *)
(***************************************************************************)
EXTENDS TransitMaps

MCLuasStops == <<"TAL", "BEL">>
MCBusStops == <<"b1", "b2", "b3">>
MCBusiest == <<[stop |-> "b3", trips |-> 12], [stop |-> "b1", trips |-> 30]>>
=============================================================================
