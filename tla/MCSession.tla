----------------------------- MODULE MCSession -----------------------------
(***************************************************************************)
(* One page besides the overview: what the menu tells apart is whether an  *)
(* entry is the overview, to which logging out resets it.                  *)
(***************************************************************************)
EXTENDS Session

MCItem == {Overview, "Luas"}
=============================================================================
