--------------------------- MODULE BikesDashboard ---------------------------
(***************************************************************************)
(* The bikes dashboard of the Flutter app, fed by the bike pipeline: the   *)
(* stream of the DublinBikes collection (dublin_bikes_dashboard_web.dart)  *)
(* and the station map (dublin_bikes_map.dart).  The pipeline is the       *)
(* abstract board, with windows of length one: a document is the number of *)
(* the cycle of the ingest job that it was last updated by.  That says     *)
(* nothing of the harvest: a cycle may have used the other source, whose   *)
(* snapshot is older (APISelector.py), or have met the same one again.     *)
(* Nothing on the page compares harvests, so a page can show an older one; *)
(* what it must not do is go back behind what was published.               *)
(*                                                                         *)
(* The map loads its four icons one after the other, keeps its markers in  *)
(* a field that only getMapIcon and the dropdown fill, and is shown as it  *)
(* was at the last build.  Two kinds of marker data are told apart: the    *)
(* numbers of bikes, which the pipeline writes, and station_occupancy,     *)
(* which no code of the repository writes.  The first snapshot may be      *)
(* empty: a device that is offline and has no copy of the documents shows  *)
(* none (FirestoreClient, an event of version 0).                          *)
(***************************************************************************)
EXTENDS Naturals, Sequences, Functions, TLC

CONSTANTS Order,      \* the documents, in the order a query returns them
          Level,      \* values of station_occupancy[0], in percent
          Filters,    \* the entries of the dropdown a user tries
          MaxCycle    \* bound: cycles of the ingest job that save a snapshot

ASSUME LevelAssumption == Level \subseteq 0..100
ASSUME CycleAssumption == MaxCycle \in Nat

Documented == Range(Order)
Cycle == 0..MaxCycle

VARIABLES hist, last, board,   \* the pipeline
          occupancy,  \* occupancy[s]: station_occupancy[0] of the document
          open,       \* the page is on the screen
          snap,       \* the snapshot of the page's widgets
          icons,      \* how many icons getMapIcon has loaded
          filter,     \* dropdownvalue
          markers,    \* the markers of the map's state
          basis,      \* ghost: the documents that were there when the markers were due
          screen      \* what the last build showed

server == <<hist, last, board>>
client == <<open, snap, icons, filter, markers, basis, screen>>
vars == <<server, occupancy, client>>

Pipeline == INSTANCE BikeBoard WITH Tracked <- Documented, W <- 1, Stamp <- Cycle

\* The icons in the order they are loaded, and the entries of the dropdown.
Icon == <<"plain", "orange", "red", "green">>
Filter == {"All", "Over75", "Over50", "Under50", "Under25"}

ASSUME FiltersAssumption == Filters \subseteq Filter

NoSnapshot == [s \in {} |-> 0]
NoMarkers == [s \in {} |-> 0]

\* The documents as a query sees them.
Documents == [s \in Documented |-> board[s][1]]

-----------------------------------------------------------------------------
(* initAllMarkers.                                                         *)

\* The stations an entry of the dropdown selects.
Passes(f, occ) ==
    \/ f = "All"
    \/ f = "Over75" /\ occ >= 75
    \/ f = "Over50" /\ occ >= 50 /\ occ < 75
    \/ f = "Under50" /\ occ <= 50 /\ occ > 25
    \/ f = "Under25" /\ occ <= 25

\* The icon of a selected station, as an index of Icon.
IconOf(f, occ) ==
    CASE f = "Over75" \/ (f = "All" /\ occ >= 75) -> 1
      [] f = "Under25" \/ (f = "All" /\ occ <= 25) -> 3
      [] f = "Over50" \/ (f = "All" /\ occ >= 50 /\ occ < 75) -> 4
      [] OTHER -> 2

\* The first document whose icon is not loaded throws: reading a late field
\* before it is set is an error.
Throwing(docs, f, loaded) ==
    {i \in DOMAIN Order : /\ Order[i] \in DOMAIN docs
                          /\ Passes(f, occupancy[Order[i]])
                          /\ IconOf(f, occupancy[Order[i]]) > loaded}

\* The markers made before that, from the documents of the snapshot docs.
Drawn(docs, f, loaded) ==
    LET before == {i \in DOMAIN Order :
                      \A j \in Throwing(docs, f, loaded) : i < j}
        chosen == {s \in {Order[i] : i \in before} \cap DOMAIN docs :
                      Passes(f, occupancy[s])}
    IN  [s \in chosen |-> [icon |-> Icon[IconOf(f, occupancy[s])],
                           cycle |-> docs[s]]]

-----------------------------------------------------------------------------
Init ==
    /\ hist = [s \in Documented |-> [i \in 1..1 |-> 0]]
    /\ last = {}
    /\ board = hist
    /\ occupancy \in [Documented -> Level]
    /\ open = FALSE
    /\ snap = NoSnapshot
    /\ icons = 0
    /\ filter = "All"
    /\ markers = NoMarkers
    /\ basis = {}
    /\ screen = [filter |-> "All", markers |-> NoMarkers]

\* The pipeline saves a snapshot in every cycle, of whatever harvest, and
\* publishes what it saved.
Latest == CHOOSE h \in Cycle :
             /\ \E s \in Documented : hist[s][1] = h
             /\ \A s \in Documented : hist[s][1] <= h

Take == /\ Latest < MaxCycle
        /\ \E R \in (SUBSET Documented) \ {{}} : Pipeline!Record(R, Latest + 1)
        /\ UNCHANGED <<occupancy, client>>

Publish == /\ Pipeline!Publish
           /\ UNCHANGED <<occupancy, client>>

\* The build shows the markers as they are.
Build(f, ms) == screen' = [filter |-> f, markers |-> ms]

\* The first event of the stream creates the map's state and starts
\* getMapIcon.
Open ==
    /\ ~open
    /\ open' = TRUE
    /\ snap' \in {NoSnapshot, Documents}
    /\ UNCHANGED <<server, occupancy, icons, filter, markers, basis, screen>>

\* Faulty variant: the page drops its snapshot for the one it was opened with.
DeliverInitial ==
    /\ open
    /\ snap # Documents
    /\ snap' = [s \in Documented |-> 0]
    /\ Build(filter, markers)
    /\ UNCHANGED <<server, occupancy, open, icons, filter, markers, basis>>

\* A later event rebuilds the page with the new snapshot; the map keeps the
\* markers it has.
Deliver ==
    /\ open
    /\ snap # Documents
    /\ snap' = Documents
    /\ Build(filter, markers)
    /\ UNCHANGED <<server, occupancy, open, icons, filter, markers, basis>>

\* Another reason to build: the map was created, the window was resized.
Rebuild ==
    /\ open
    /\ Build(filter, markers)
    /\ UNCHANGED <<server, occupancy, open, snap, icons, filter, markers, basis>>

\* Faulty variant: the markers are left to the dropdown.
LoadIconOnly ==
    /\ open
    /\ icons < Len(Icon)
    /\ icons' = icons + 1
    /\ basis' = IF icons' = Len(Icon) THEN DOMAIN snap ELSE basis
    /\ UNCHANGED <<server, occupancy, open, snap, filter, markers, screen>>

\* Faulty variant: getMapIcon does not stop after the last icon.
LoadIconAgain ==
    /\ open
    /\ icons' = icons + 1
    /\ UNCHANGED <<server, occupancy, open, snap, filter, markers, basis, screen>>

\* One await of getMapIcon; after the last the markers are made from the
\* snapshot of that moment, unless it is empty, and no build is asked for.
LoadIcon ==
    /\ open
    /\ icons < Len(Icon)
    /\ icons' = icons + 1
    /\ IF icons' = Len(Icon)
       THEN /\ basis' = DOMAIN snap
            /\ markers' = IF snap = NoSnapshot THEN markers
                          ELSE Drawn(snap, filter, icons')
       ELSE UNCHANGED <<markers, basis>>
    /\ UNCHANGED <<server, occupancy, open, snap, filter, screen>>

\* What a selection shows: nothing new if the markers throw.
ShowSelection(f, ms) ==
    IF Throwing(snap, f, icons) = {} THEN Build(f, ms) ELSE UNCHANGED screen

\* Faulty variant: the markers of the filter before are not cleared.
SelectMore(f) ==
    /\ open
    /\ filter' = f
    /\ markers' = Drawn(snap, f, icons) @@ markers
    /\ basis' = DOMAIN snap
    /\ ShowSelection(f, markers')
    /\ UNCHANGED <<server, occupancy, open, snap, icons>>

\* The dropdown: the value is set, the markers are made again and the map is
\* built, unless the markers throw.  Then the value stays and no build
\* follows.
Select(f) ==
    /\ open
    /\ filter' = f
    /\ markers' = Drawn(snap, f, icons)
    /\ basis' = DOMAIN snap
    /\ ShowSelection(f, markers')
    /\ UNCHANGED <<server, occupancy, open, snap, icons>>

\* The user leaves the page, and the map's state is disposed of.
Close ==
    /\ open
    /\ open' = FALSE
    /\ snap' = NoSnapshot
    /\ icons' = 0
    /\ filter' = "All"
    /\ markers' = NoMarkers
    /\ basis' = {}
    /\ Build("All", NoMarkers)
    /\ UNCHANGED <<server, occupancy>>

Next == \/ Take \/ Publish
        \/ Open \/ Deliver \/ Rebuild \/ LoadIcon \/ Close
        \/ \E f \in Filters : Select(f)

Spec == Init /\ [][Next]_vars

\* The assets of the app can be loaded.  A page that stays open is built
\* again and again: the pipeline changes the documents every five minutes,
\* which MaxCycle leaves no room for, so the builds are assumed to go on.
FairSpec == Spec /\ WF_vars(LoadIcon) /\ WF_vars(Rebuild)

-----------------------------------------------------------------------------
(* Properties.                                                             *)

Partial(T) == UNION {[S -> T] : S \in SUBSET Documented}
Marker == [icon : Range(Icon), cycle : Cycle]

Snapshots == {NoSnapshot} \cup [Documented -> Cycle]

TypeOK ==
    /\ hist \in [Documented -> [1..1 -> Cycle]]
    /\ last \in SUBSET Documented
    /\ board \in [Documented -> [1..1 -> Cycle]]
    /\ occupancy \in [Documented -> Level]
    /\ open \in BOOLEAN
    /\ snap \in Snapshots
    /\ icons \in 0..Len(Icon)
    /\ filter \in Filter
    /\ markers \in Partial(Marker)
    /\ basis \in SUBSET Documented
    /\ screen \in [filter : Filter, markers : Partial(Marker)]

\* Whatever the screen shows, each marker on it passes the filter shown with
\* it and has the icon of its occupancy under that filter, also after a
\* selection that threw halfway.
ScreenRespectsFilter ==
    \A s \in DOMAIN screen.markers :
        /\ Passes(screen.filter, occupancy[s])
        /\ screen.markers[s].icon = Icon[IconOf(screen.filter, occupancy[s])]

\* A selection that threw before the icons were there is made good: once all
\* are loaded, every station the current filter selects has a marker, of
\* those the page knew when its markers were due.  (A page opened on an empty
\* snapshot knew none: its map stays empty when the documents come, until
\* the dropdown is used.)
CompleteOnceLoaded ==
    icons = Len(Icon) =>
        \A s \in basis : Passes(filter, occupancy[s]) => s \in DOMAIN markers

\* While the page is open no marker goes back to a document as an earlier cycle
\* published it, however old the harvest of either is: what was published later
\* stays in view, over late icons, selections that throw and new snapshots.
MarkersNeverRegress ==
    [][\A s \in DOMAIN screen.markers \cap DOMAIN screen'.markers :
          screen.markers[s].cycle <= screen'.markers[s].cycle]_vars

\* An open page ends up showing a marker for every station its filter
\* selects, of those it knew when its markers were due, unless the user
\* leaves it.
MapIsDrawn ==
    open ~> \/ ~open
            \/ /\ icons = Len(Icon)
               /\ \A s \in basis :
                     Passes(screen.filter, occupancy[s]) => s \in DOMAIN screen.markers

\* The numbers of bikes on the map are those of the snapshot that the page,
\* and the charts beside the map, show.
MapShowsSnapshot ==
    \A s \in DOMAIN screen.markers : screen.markers[s].cycle = snap[s]
=============================================================================
