----------------------------- MODULE BikeIngest -----------------------------
(***************************************************************************)
(* The Django server's periodic job (DublinBikes/views.py, scheduler.py,   *)
(* API_Handler, DataTransformer/views.py, predictionApp/views.py), run by  *)
(* every server process of a machine against one CSV file of recent        *)
(* observations and one Firestore collection.                              *)
(*                                                                         *)
(* One cycle of the job: pick a source at random, GET its snapshot, read   *)
(* the CSV and slide every listed station's window, truncate and rewrite   *)
(* the CSV, commit one batch of document updates.  An observation is the   *)
(* stamp of the snapshot it came from: the source, and the harvest time.   *)
(* No two sources are compared by the code, here or anywhere.              *)
(***************************************************************************)
EXTENDS Naturals

CONSTANTS Proc,         \* server processes
          Station,      \* stations a source may list
          Tracked,      \* the rows of the two CSV files
          Documented,   \* the stations with a Firestore document
          W,            \* length of a window: 20
          Source,       \* the endpoints a cycle chooses from
          MaxClock      \* bound: snapshots the sources publish

ASSUME WindowAssumption == W \in Nat \ {0}
ASSUME StationAssumption == Tracked \subseteq Station /\ Documented \subseteq Station
ASSUME ClockAssumption == MaxClock \in Nat
ASSUME SourceAssumption == "file" \notin Source

VARIABLES clock,    \* time of the newest snapshot any source published
          feed,     \* feed[src]: time of the snapshot src serves
          pc,       \* pc[p]: where p's job is
          source,   \* source[p]: the endpoint p's cycle chose
          resp,     \* resp[p]: the answer p's cycle works on
          frame,    \* frame[p]: recent_df in p's memory, after the slides
          csv,      \* whether StationID_Recent_Observations.csv is complete
          saved,    \* its rows when it is, the last complete ones when not
          last,     \* history: the stations that table was saved for
          board     \* board[s]: the window the document of s shows

vars == <<clock, feed, pc, source, resp, frame, csv, saved, last, board>>

Time == 0..MaxClock

\* The observations of the file the server starts with.
Old == [source |-> "file", time |-> 0]

Stamp == {Old} \cup [source : Source, time : Time]

BB == INSTANCE BikeBoard WITH hist <- saved

Window == BB!Window
Table == [Tracked -> Window]

\* The file is empty once truncated, and garbled where a shorter table lies
\* over the start of a longer one.
FileState == {"whole", "empty", "garbled"}

Phase == {"idle", "fetching", "transforming", "opening", "flushing",
          "committing", "down"}

\* A snapshot: its stamp, the stations it lists, whether one has no stand.
Answer == [stamp : Stamp, stations : SUBSET Station, standless : BOOLEAN]

Blank == [s \in Tracked |-> [i \in 1..W |-> Old]]
NoAnswer == [stamp |-> Old, stations |-> {}, standless |-> FALSE]

TypeOK ==
    /\ clock \in Time
    /\ feed \in [Source -> Time]
    /\ pc \in [Proc -> Phase]
    /\ source \in [Proc -> Source]
    /\ resp \in [Proc -> Answer]
    /\ frame \in [Proc -> Table]
    /\ csv \in FileState
    /\ saved \in Table
    /\ last \subseteq Tracked
    /\ board \in [Documented -> Window]

Init ==
    /\ clock = 0
    /\ feed = [src \in Source |-> 0]
    /\ pc = [p \in Proc |-> "idle"]
    /\ source \in [Proc -> Source]
    /\ resp = [p \in Proc |-> NoAnswer]
    /\ frame = [p \in Proc |-> Blank]
    /\ csv = "whole"
    /\ saved = Blank
    /\ last = {}
    /\ board = [s \in Documented |-> [i \in 1..W |-> Old]]

-----------------------------------------------------------------------------
(* The world outside the server.                                           *)

\* A source publishes a newer snapshot; the two do so independently.
Refresh(src) ==
    /\ clock < MaxClock
    /\ clock' = clock + 1
    /\ feed' = [feed EXCEPT ![src] = clock']
    /\ UNCHANGED <<pc, source, resp, frame, csv, saved, last, board>>

Goto(p, phase) == pc' = [pc EXCEPT ![p] = phase]

\* p's job is over: its local variables are gone.
Leave(p, phase) ==
    /\ Goto(p, phase)
    /\ resp' = [resp EXCEPT ![p] = NoAnswer]
    /\ frame' = [frame EXCEPT ![p] = Blank]

\* A process dies at any point of its cycle: killed, or replaced by the
\* development server's autoreloader.
Crash(p) ==
    /\ pc[p] # "down"
    /\ Leave(p, "down")
    /\ UNCHANGED <<clock, feed, source, csv, saved, last, board>>

\* apps.ready() starts a fresh scheduler; nothing of the old cycle survives
\* but the files.
Restart(p) ==
    /\ pc[p] = "down"
    /\ Goto(p, "idle")
    /\ UNCHANGED <<clock, feed, source, resp, frame, csv, saved, last, board>>

-----------------------------------------------------------------------------
(* One cycle of bikeAvailability.                                          *)

\* The interval trigger fires.  The scheduler keeps one instance of the job
\* per process, so a cycle begins only where none is running; the random
\* choice of the source comes first.
Fire(p) ==
    /\ pc[p] = "idle"
    /\ \E src \in Source : source' = [source EXCEPT ![p] = src]
    /\ Goto(p, "fetching")
    /\ UNCHANGED <<clock, feed, resp, frame, csv, saved, last, board>>

\* requests.get returns 200 or 201 with the source's current snapshot.
Respond(p) ==
    /\ pc[p] = "fetching"
    /\ \E R \in (SUBSET Station) \ {{}} : \E standless \in BOOLEAN :
          resp' = [resp EXCEPT ![p] =
                      [stamp |-> [source |-> source[p], time |-> feed[source[p]]],
                       stations |-> R, standless |-> standless]]
    /\ Goto(p, "transforming")
    /\ UNCHANGED <<clock, feed, source, frame, csv, saved, last, board>>

\* Another status code is printed; a network or JSON error is raised to the
\* scheduler, which logs it.  Either way the cycle is over.
FetchFails(p) ==
    /\ pc[p] = "fetching"
    /\ Leave(p, "idle")
    /\ UNCHANGED <<clock, feed, source, csv, saved, last, board>>

\* Faulty variant: stations without a row are not looked up.
TransformableUnchecked(p) == csv = "whole" /\ ~resp[p].standless

\* The file parses, every station has its rows and a stand to divide by.
Transformable(p) ==
    /\ csv = "whole"
    /\ resp[p].stations \subseteq Tracked
    /\ ~resp[p].standless

\* Faulty variant: the windows are those the process has in memory, not the
\* file's.
TransformFromMemory(p) ==
    /\ pc[p] = "transforming"
    /\ Transformable(p)
    /\ frame' = [frame EXCEPT ![p] =
                    BB!Extend(@, resp[p].stations, resp[p].stamp)]
    /\ Goto(p, "opening")
    /\ UNCHANGED <<clock, feed, source, resp, csv, saved, last, board>>

\* transformBikeData up to line 64: the CSV is read and every listed
\* station's window slides, in memory only.
Transform(p) ==
    /\ pc[p] = "transforming"
    /\ Transformable(p)
    /\ frame' = [frame EXCEPT ![p] =
                    BB!Extend(saved, resp[p].stations, resp[p].stamp)]
    /\ Goto(p, "opening")
    /\ UNCHANGED <<clock, feed, source, resp, csv, saved, last, board>>

\* Faulty variant: the exception is swallowed and the cycle goes on to commit.
TransformSwallows(p) ==
    /\ pc[p] = "transforming"
    /\ ~Transformable(p)
    /\ resp' = [resp EXCEPT ![p].stations = @ \cap Tracked]
    /\ Goto(p, "committing")
    /\ UNCHANGED <<clock, feed, source, frame, csv, saved, last, board>>

\* Faulty variant: the cycle is tried again until the file parses.
TransformRetries(p) ==
    /\ pc[p] = "transforming"
    /\ ~Transformable(p)
    /\ UNCHANGED vars

\* read_csv, a KeyError or a ZeroDivisionError ends the cycle: no other
\* station's update is kept either.
TransformRaises(p) ==
    /\ pc[p] = "transforming"
    /\ ~Transformable(p)
    /\ Leave(p, "idle")
    /\ UNCHANGED <<clock, feed, source, csv, saved, last, board>>

\* to_csv opens the file for writing, which truncates it ...
OpenCsv(p) ==
    /\ pc[p] = "opening"
    /\ csv' = "empty"
    /\ Goto(p, "flushing")
    /\ UNCHANGED <<clock, feed, source, resp, frame, saved, last, board>>

\* ... and the table, smaller than one buffer, goes out when it is closed.
\* Over another process's table the tail of a longer one may stay behind.
FlushCsv(p) ==
    /\ pc[p] = "flushing"
    /\ \/ /\ csv' = "whole"
          /\ saved' = frame[p]
          /\ last' = resp[p].stations
       \/ /\ csv # "empty"
          /\ csv' = "garbled"
          /\ UNCHANGED <<saved, last>>
    /\ Goto(p, "committing")
    /\ UNCHANGED <<clock, feed, source, resp, frame, board>>

\* Faulty variant: the documents show the file as it is by then.
CommitFromFile(p) ==
    /\ pc[p] = "committing"
    /\ resp[p].stations \subseteq Documented
    /\ board' = BB!Overlay(board, saved, resp[p].stations)
    /\ Leave(p, "idle")
    /\ UNCHANGED <<clock, feed, source, csv, saved, last>>

\* batch.commit: an update of every listed document, all or none.
Commit(p) ==
    /\ pc[p] = "committing"
    /\ resp[p].stations \subseteq Documented
    /\ board' = BB!Overlay(board, frame[p], resp[p].stations)
    /\ Leave(p, "idle")
    /\ UNCHANGED <<clock, feed, source, csv, saved, last>>

\* A document that does not exist fails the batch, and so may the network;
\* the windows were saved already.
CommitFails(p) ==
    /\ pc[p] = "committing"
    /\ Leave(p, "idle")
    /\ UNCHANGED <<clock, feed, source, csv, saved, last, board>>

-----------------------------------------------------------------------------
Local(p) == \/ Fire(p)
            \/ Transform(p) \/ TransformRaises(p)
            \/ OpenCsv(p) \/ FlushCsv(p)
            \/ Commit(p) \/ CommitFails(p)

Next == \/ \E src \in Source : Refresh(src)
        \/ \E p \in Proc : \/ Local(p)
                           \/ Respond(p) \/ FetchFails(p)
                           \/ Crash(p) \/ Restart(p)

Spec == Init /\ [][Next]_vars

\* A process that is up keeps executing its own code.  Nothing makes the
\* source answer: requests.get has no timeout.
FairSpec == Spec /\ \A p \in Proc : WF_vars(Local(p))

-----------------------------------------------------------------------------
(* Properties.                                                             *)

\* Every save adds one snapshot to the history the file already held: the
\* stations it lists gain that one observation, the others keep theirs.
SavesExtendHistory ==
    [][saved' # saved =>
          \E p \in Proc :
             saved' = BB!Extend(saved, resp[p].stations, resp[p].stamp)]_vars

\* The windows, the saves and the commits are those of the abstract board:
\* every save is one snapshot more, and a commit shows the history as it is
\* saved, whole batch by whole batch, whatever crashes or fails.  A cycle may
\* fetch the snapshot of the cycle before once more.
ImplementsBoard == BB!Spec

\* Observation h is an older one than k: of the same source and harvested
\* earlier, or of the file the server started with.
Older(h, k) ==
    \/ h = Old /\ k # Old
    \/ h.source = k.source /\ h.time < k.time

\* In a window no observation stands behind a newer one of its source, however
\* the cycles alternate between the sources, fail or crash.
WindowInSourceOrder ==
    \A s \in Tracked : \A i, j \in 1..W :
        i < j => ~Older(saved[s][j], saved[s][i])

\* The newest observation a document shows is never older than one of the same
\* source in the window it showed before, also where the cycles in between
\* used another source or were not committed.
BoardNeverRegresses ==
    [][\A s \in Documented : \A i \in 1..W :
          ~Older(board'[s][W], board[s][i])]_vars

\* The windows are in harvest order, oldest first, as "the 20 most-recent
\* observations" would be.
WindowInHarvestOrder ==
    \A s \in Tracked : \A i, j \in 1..W :
        i < j => saved[s][i].time <= saved[s][j].time

\* Nothing is left that could write the file or the board again.
Silenced ==
    /\ csv # "whole"
    /\ \A p \in Proc : pc[p] \notin {"opening", "flushing", "committing"}

\* A save interrupted after the truncation ends the service for good: no
\* cycle, restart or new snapshot ever changes the file or the board again.
LossIsPermanent ==
    [][Silenced => Silenced' /\ UNCHANGED <<csv, saved, board>>]_vars

\* A process always finishes the cycle it is in, unless it waits for the
\* source for ever or is down for good: no error path keeps the single
\* instance of the job busy.
CyclesEnd ==
    \A p \in Proc : \/ []<>(pc[p] = "idle")
                    \/ <>[](pc[p] = "fetching")
                    \/ <>[](pc[p] = "down")
=============================================================================
