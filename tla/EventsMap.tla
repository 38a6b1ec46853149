------------------------------ MODULE EventsMap ------------------------------
(***************************************************************************)
(* The events map of the Flutter app (dublin_events_map.dart): two         *)
(* dropdowns, each of which starts another run of the asynchronous         *)
(* getMarkerData, while earlier runs may still be waiting for their icons. *)
(*                                                                         *)
(* A run reads the date filter before its first await, and the snapshot    *)
(* and the bus stop filter after its last one.  All runs wait for the same *)
(* asset manifest, so they come back in the order they were started.  What *)
(* a run changes is shown by the next build, for which it does not ask.    *)
(*                                                                         *)
(* The first snapshot may be empty, as a client gives it that is offline   *)
(* and has no local copy; a run that then comes back changes nothing.      *)
(***************************************************************************)
EXTENDS Integers, Sequences

CONSTANTS Venue,        \* location_name of the documents
          StopChoice,   \* the entries of the bus stop dropdown
          Near,         \* Near[v]: nearest_bus_stops of venue v
          MaxRuns,      \* bound: runs waiting at once
          MaxVersion    \* bound: changes of the documents

ASSUME NearAssumption == Near = [v \in Venue |-> Near[v]]
ASSUME NoStopsAssumption == "No Bus Stops" \in StopChoice \ Venue
ASSUME BoundsAssumption == MaxRuns \in Nat /\ MaxVersion \in Nat \ {0}

VARIABLES docs,     \* version of the collection DublinEvents
          open,     \* the page is in the tree
          first,    \* history: the snapshot it was opened with
          snap,     \* version of widget.snapshot, 0 when it has no documents
          filter,   \* dropdownvalue
          stop,     \* stopDdropdownvalue
          runs,     \* noOfDays of each getMarkerData that is waiting
          events,   \* the event markers: the days and the version listed
          stops,    \* busStopMarkers
          screen    \* what the last build showed

page == <<open, first>>
vars == <<docs, page, snap, filter, stop, runs, events, stops, screen>>

DateFilter == {"All Upcoming Events", "Next 1 Week", "Next 2 Weeks", "Next 3 Weeks"}
Version == 1..MaxVersion
BusStop == UNION {Near[v] : v \in Venue}

\* Faulty variant: three weeks are read as a month of four.
DaysOfFourWeeks(f) == CASE f = "Next 1 Week" -> 7
                        [] f = "Next 2 Weeks" -> 14
                        [] f = "Next 3 Weeks" -> 28
                        [] OTHER -> 30

\* noOfDays of a date filter.
Days(f) == CASE f = "Next 1 Week" -> 7
             [] f = "Next 2 Weeks" -> 14
             [] f = "Next 3 Weeks" -> 21
             [] OTHER -> 30

\* The stops near the venue an entry of the bus stop dropdown names.
NearOf(c) == IF c \in Venue THEN Near[c] ELSE {}

\* A map without event markers, and one that lists the next days of version
\* v for every venue.
None == [days |-> 0, version |-> 0]
Listing == [days : {0, 7, 14, 21, 30}, version : 0..MaxVersion]

Screen == [filter : DateFilter, stop : StopChoice, events : Listing,
           stops : SUBSET BusStop]

Blank == [filter |-> "All Upcoming Events", stop |-> "No Bus Stops",
          events |-> None, stops |-> {}]

Build(f, c, es, ss) ==
    screen' = [filter |-> f, stop |-> c, events |-> es, stops |-> ss]

-----------------------------------------------------------------------------
Fresh(opened, version, waiting) ==
    /\ open' = opened
    /\ first' = version
    /\ snap' = version
    /\ filter' = "All Upcoming Events"
    /\ stop' = "No Bus Stops"
    /\ runs' = waiting
    /\ events' = None
    /\ stops' = {}
    /\ screen' = Blank

Init == /\ docs = 1
        /\ open = FALSE
        /\ first = 0
        /\ snap = 0
        /\ filter = "All Upcoming Events"
        /\ stop = "No Bus Stops"
        /\ runs = << >>
        /\ events = None
        /\ stops = {}
        /\ screen = Blank

\* Somebody writes the collection.
Update == /\ docs < MaxVersion
          /\ docs' = docs + 1
          /\ UNCHANGED <<page, snap, filter, stop, runs, events, stops, screen>>

\* The first event of the stream, which has the documents, an older local copy
\* of them, or nothing: initState starts a run, then the map is built without
\* markers.
Open == /\ ~open
        /\ \E v \in 0..docs : Fresh(TRUE, v, << 30 >>)
        /\ UNCHANGED docs

\* A later event of the stream builds the page with the new snapshot.
Deliver == /\ open
           /\ snap' \in (snap + 1)..docs
           /\ Build(filter, stop, events, stops)
           /\ UNCHANGED <<docs, page, filter, stop, runs, events, stops>>

\* The map was created, or the window resized.
Rebuild == /\ open
           /\ Build(filter, stop, events, stops)
           /\ UNCHANGED <<docs, page, snap, filter, stop, runs, events, stops>>

\* Faulty variant: the markers are left as they are.
SelectDaysOnly(f) ==
    /\ open
    /\ Len(runs) < MaxRuns
    /\ filter' = f
    /\ Build(f, stop, events, stops)
    /\ UNCHANGED <<docs, page, snap, stop, runs, events, stops>>

\* The date dropdown: the run starts inside setState, and the build that
\* follows shows the markers from before it.
SelectDays(f) ==
    /\ open
    /\ Len(runs) < MaxRuns
    /\ filter' = f
    /\ runs' = Append(runs, Days(f))
    /\ Build(f, stop, events, stops)
    /\ UNCHANGED <<docs, page, snap, stop, events, stops>>

\* Faulty variant: the stops of the venue before are kept.
SelectMoreStops(c) ==
    /\ open
    /\ Len(runs) < MaxRuns
    /\ stop' = c
    /\ runs' = Append(runs, Days(filter))
    /\ Build(filter, c, events, stops)
    /\ UNCHANGED <<docs, page, snap, filter, events, stops>>

\* The bus stop dropdown clears the stops and starts a run.
SelectStop(c) ==
    /\ open
    /\ Len(runs) < MaxRuns
    /\ stops' = {}
    /\ stop' = c
    /\ runs' = Append(runs, Days(filter))
    /\ Build(filter, c, events, {})
    /\ UNCHANGED <<docs, page, snap, filter, events>>

\* Faulty variants: the newest run comes back first; a run that is not the
\* first uses the snapshot of the first version.
FinishNewest ==
    /\ open
    /\ runs # << >>
    /\ runs' = SubSeq(runs, 1, Len(runs) - 1)
    /\ IF snap = 0
       THEN UNCHANGED <<events, stops>>
       ELSE /\ events' = [days |-> runs[Len(runs)], version |-> snap]
            /\ stops' = stops \cup NearOf(stop)
    /\ UNCHANGED <<docs, page, snap, filter, stop, screen>>

FinishFirstSnapshot ==
    /\ open
    /\ runs # << >>
    /\ runs' = Tail(runs)
    /\ IF snap = 0
       THEN UNCHANGED <<events, stops>>
       ELSE /\ events' = [days |-> Head(runs),
                          version |-> IF events = None THEN snap ELSE 1]
            /\ stops' = stops \cup NearOf(stop)
    /\ UNCHANGED <<docs, page, snap, filter, stop, screen>>

\* A run comes back: unless the snapshot has no documents, every event marker
\* is made again for the days the run read when it started, and the stops of
\* the venue chosen by now are added.
Finish ==
    /\ open
    /\ runs # << >>
    /\ runs' = Tail(runs)
    /\ IF snap = 0
       THEN UNCHANGED <<events, stops>>
       ELSE /\ events' = [days |-> Head(runs), version |-> snap]
            /\ stops' = stops \cup NearOf(stop)
    /\ UNCHANGED <<docs, page, snap, filter, stop, screen>>

\* The user leaves the page; runs that are waiting change nothing any more.
Close == /\ open
         /\ Fresh(FALSE, 0, << >>)
         /\ UNCHANGED docs

Next == \/ Update \/ Open \/ Deliver \/ Rebuild \/ Finish \/ Close
        \/ \E f \in DateFilter : SelectDays(f)
        \/ \E c \in StopChoice : SelectStop(c)

Spec == Init /\ [][Next]_vars

\* Assets load.  Nothing makes the page build again.
FairSpec == Spec /\ WF_vars(Finish)

-----------------------------------------------------------------------------
(* Properties.                                                             *)

TypeOK ==
    /\ docs \in Version
    /\ open \in BOOLEAN
    /\ first \in 0..MaxVersion
    /\ snap \in 0..MaxVersion
    /\ filter \in DateFilter
    /\ stop \in StopChoice
    /\ runs \in Seq({7, 14, 21, 30})
    /\ events \in Listing
    /\ stops \in SUBSET BusStop
    /\ screen \in Screen

\* However selections and returning runs interleave, no stop of a venue that
\* is not selected any more is kept, nor shown beside another selection.
StopsMatchSelection ==
    /\ stops \subseteq NearOf(stop)
    /\ screen.stops \subseteq NearOf(screen.stop)

\* Once no run is waiting, the markers are those of the two filters as they
\* stand: the last selection wins over the runs started before it.  Only a page
\* that was opened without documents, and has drawn none since, has no markers.
QuietIsSettled ==
    open /\ runs = << >> =>
        IF first = 0 /\ events = None
        THEN stops = {}
        ELSE /\ events.days = Days(filter)
             /\ stops = NearOf(stop)

\* While the page is open it never goes back to an older version of the
\* events.
EventsNeverRegress ==
    [][open' => screen.events.version <= screen'.events.version
                \/ ~open]_vars

\* While a run waits on a page with documents, a date filter takes effect on
\* the markers in the end, unless the user leaves the page or selects another.
\* The next build shows them; nothing makes it come.
FilterTakesEffect ==
    \A f \in DateFilter :
        (open /\ filter = f /\ runs # << >> /\ snap # 0) ~>
            \/ ~open
            \/ filter # f
            \/ events.days = Days(f)
=============================================================================
