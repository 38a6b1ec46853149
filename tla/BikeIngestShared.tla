-------------------------- MODULE BikeIngestShared --------------------------
(***************************************************************************)
(* The ingest job of BikeIngest, run by any number of processes, and what  *)
(* they keep together: the promise of SharedBoard.  The tables saved so    *)
(* far are a history variable; no step depends on it.                      *)
(***************************************************************************)
EXTENDS BikeIngest

VARIABLE tables   \* history: every table that was ever saved

SharedInit == Init /\ tables = {saved}

SharedNext == Next /\ tables' = tables \cup {saved'}

SharedSpec == SharedInit /\ [][SharedNext]_<<vars, tables>>

SB == INSTANCE SharedBoard WITH hist <- saved, seen <- tables, over <- Silenced

\* However many processes share the file: every save adds one snapshot to a
\* table that was saved before, a batch shows one such table for all stations
\* of its snapshot or none, and after a torn save that nobody can repair the
\* file and the documents stay as they are for good.
KeepsSharedPromise == SB!Spec
=============================================================================
