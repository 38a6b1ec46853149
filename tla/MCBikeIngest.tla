---------------------------- MODULE MCBikeIngest ----------------------------
(***************************************************************************)
(* Small instances of BikeIngest.  A process, a station and a source are   *)
(* model values.                                                           *)
(***************************************************************************)
EXTENDS BikeIngest

CONSTANTS p1, p2, s1, s2, s3, primary, secondary
=============================================================================
