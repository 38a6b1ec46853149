------------------------- MODULE MCBikeIngestShared -------------------------
(***************************************************************************)
(* Small instances of BikeIngestShared.                                    *)
(***************************************************************************)
EXTENDS BikeIngestShared

CONSTANTS p1, p2, s1, s2, s3, primary, secondary
=============================================================================
