------------------------ MODULE BikesDashboardProofs ------------------------
(***************************************************************************)
(* What holds of the bikes map for every list of documents, whatever their *)
(* occupancy, and any number of cycles of the ingest job.                  *)
(***************************************************************************)
EXTENDS BikesDashboard, Maxima, TLAPS

\* The markers fit the filter that is selected, whether the map was built
\* with them or not.
MarkersRespectFilter ==
    \A s \in DOMAIN markers :
        /\ Passes(filter, occupancy[s])
        /\ markers[s].icon = Icon[IconOf(filter, occupancy[s])]

\* The pipeline is never behind its board, nor the board behind the snapshot.
ServerIsAhead ==
    /\ \A s \in Documented : board[s][1] <= hist[s][1]
    /\ \A s \in DOMAIN snap : snap[s] <= board[s][1]

\* The screen is never ahead of the markers, nor the markers of the snapshot.
ScreenIsBehind ==
    /\ ~open => snap = NoSnapshot
    /\ \A s \in DOMAIN markers :
          s \in DOMAIN snap /\ markers[s].cycle <= snap[s]
    /\ \A s \in DOMAIN screen.markers :
          /\ s \in DOMAIN snap /\ screen.markers[s].cycle <= snap[s]
          /\ s \in DOMAIN markers => screen.markers[s].cycle <= markers[s].cycle

Inv == /\ TypeOK
       /\ MarkersRespectFilter
       /\ ScreenRespectsFilter
       /\ CompleteOnceLoaded
       /\ ServerIsAhead
       /\ ScreenIsBehind

-----------------------------------------------------------------------------
(* initAllMarkers.                                                         *)

LEMMA IconType == \A f, o : IconOf(f, o) \in 1..4 /\ Icon[IconOf(f, o)] \in Range(Icon)
<1>1. \A f, o : IconOf(f, o) \in 1..4
  BY DEF IconOf
<1>2. 1..4 = DOMAIN Icon
  BY DEF Icon
<1>3. QED
  BY <1>1, <1>2 DEF Range

LEMMA IconCount == Len(Icon) = 4
  BY DEF Icon

LEMMA PartialType ==
    ASSUME NEW T, NEW S \in SUBSET Documented, NEW f \in [S -> T]
    PROVE  f \in Partial(T)
  BY DEF Partial

LEMMA PartialIs ==
    ASSUME NEW T, NEW f \in Partial(T)
    PROVE  /\ DOMAIN f \in SUBSET Documented
           /\ f = [s \in DOMAIN f |-> f[s]]
           /\ \A s \in DOMAIN f : f[s] \in T
  BY DEF Partial

LEMMA NoneType ==
    /\ NoMarkers \in Partial(Marker) /\ DOMAIN NoMarkers = {}
    /\ NoSnapshot \in Snapshots /\ DOMAIN NoSnapshot = {}
<1>1. NoMarkers \in [{} -> Marker]
  BY DEF NoMarkers
<1>2. QED
  BY <1>1, PartialType DEF NoMarkers, NoSnapshot, Snapshots

LEMMA SnapshotType ==
    ASSUME NEW docs \in Snapshots
    PROVE  /\ DOMAIN docs \in SUBSET Documented
           /\ \A s \in DOMAIN docs : docs[s] \in Cycle
  BY DEF Snapshots, NoSnapshot

\* The markers are made of documents of the snapshot that pass the filter,
\* and of all of them where every icon is loaded.
LEMMA DrawnIs ==
    ASSUME NEW docs \in Snapshots, NEW f, NEW l
    PROVE  /\ Drawn(docs, f, l) \in Partial(Marker)
           /\ \A s \in DOMAIN Drawn(docs, f, l) :
                 /\ s \in DOMAIN docs
                 /\ Passes(f, occupancy[s])
                 /\ Drawn(docs, f, l)[s].icon = Icon[IconOf(f, occupancy[s])]
                 /\ Drawn(docs, f, l)[s].cycle = docs[s]
           /\ l = 4 => \A s \in DOMAIN docs :
                          Passes(f, occupancy[s]) => s \in DOMAIN Drawn(docs, f, l)
<1> DEFINE before == {i \in DOMAIN Order : \A j \in Throwing(docs, f, l) : i < j}
           chosen == {s \in {Order[i] : i \in before} \cap DOMAIN docs :
                         Passes(f, occupancy[s])}
           marker(s) == [icon |-> Icon[IconOf(f, occupancy[s])], cycle |-> docs[s]]
<1>1. Drawn(docs, f, l) = [s \in chosen |-> marker(s)]
  BY DEF Drawn
<1>2. chosen \in SUBSET Documented /\ \A s \in chosen : docs[s] \in Cycle
  BY SnapshotType
<1>3. \A s \in chosen : marker(s) \in Marker
  BY <1>2, IconType DEF Marker
<1>4. Drawn(docs, f, l) \in [chosen -> Marker]
  BY <1>1, <1>3
<1>5. Drawn(docs, f, l) \in Partial(Marker)
  BY <1>2, <1>4, PartialType
<1>6. ASSUME l = 4, NEW s \in DOMAIN docs, Passes(f, occupancy[s])
      PROVE  s \in chosen
  <2>1. Throwing(docs, f, l) = {}
    BY <1>6, IconType DEF Throwing
  <2>2. before = DOMAIN Order
    BY <2>1
  <2>3. PICK i \in DOMAIN Order : s = Order[i]
    BY SnapshotType DEF Documented, Range
  <2>4. QED
    BY <1>6, <2>2, <2>3
<1>7. QED
  BY <1>1, <1>5, <1>6

-----------------------------------------------------------------------------
(* The pipeline.                                                           *)

\* There is a newest snapshot as soon as there is a document.
LEMMA LatestIs ==
    ASSUME TypeOK, Documented # {}
    PROVE  Latest \in Cycle /\ \A s \in Documented : hist[s][1] <= Latest
<1> DEFINE D == {hist[s][1] : s \in Documented}
<1>1. \A s \in Documented : hist[s][1] \in Cycle
  BY DEF TypeOK
<1>2. MaxCycle \in Nat /\ D \in SUBSET (0..MaxCycle) /\ D # {}
  BY <1>1, CycleAssumption DEF Cycle
<1>3. \E h \in D : \A g \in D : g <= h
  BY <1>2, Greatest
<1>4. \E h \in Cycle : /\ \E s \in Documented : hist[s][1] = h
                       /\ \A s \in Documented : hist[s][1] <= h
  BY <1>1, <1>3
<1>5. QED
  BY <1>4 DEF Latest

LEMMA TakeIs ==
    ASSUME TypeOK, Take
    PROVE  /\ hist' \in [Documented -> [1..1 -> Cycle]]
           /\ last' \in SUBSET Documented
           /\ board' = board
           /\ \A s \in Documented : hist[s][1] <= hist'[s][1]
<1>1. PICK R \in (SUBSET Documented) \ {{}} : Pipeline!Record(R, Latest + 1)
  BY DEF Take
<1>2. Latest \in Cycle /\ \A s \in Documented : hist[s][1] <= Latest
  <2>1. Documented # {}
    BY <1>1
  <2>2. QED
    BY <2>1, LatestIs, Zenon
<1>3. Latest + 1 \in Cycle /\ Latest \in Nat
  BY <1>2, CycleAssumption DEF Take, Cycle
<1>4. hist' = [s \in Documented |->
                  IF s \in R THEN [i \in 1..1 |-> IF i < 1 THEN hist[s][i + 1]
                                                  ELSE Latest + 1]
                  ELSE hist[s]]
  BY <1>1 DEF Pipeline!Record, Pipeline!Extend, Pipeline!Slide
<1>5. \A s \in Documented : hist[s] \in [1..1 -> Cycle] /\ hist[s][1] \in Nat
  BY CycleAssumption DEF TypeOK, Cycle
<1>6. [i \in 1..1 |-> IF i < 1 THEN 0 ELSE Latest + 1] \in [1..1 -> Cycle]
  BY <1>3
<1>7. \A s \in Documented :
          [i \in 1..1 |-> IF i < 1 THEN hist[s][i + 1] ELSE Latest + 1]
              = [i \in 1..1 |-> IF i < 1 THEN 0 ELSE Latest + 1]
  OBVIOUS
<1>8. hist' \in [Documented -> [1..1 -> Cycle]]
  BY <1>4, <1>5, <1>6, <1>7
<1>9. \A s \in Documented : hist[s][1] <= hist'[s][1]
  BY <1>2, <1>3, <1>4, <1>5
<1>10. QED
  BY <1>1, <1>8, <1>9 DEF Pipeline!Record

LEMMA PublishIs ==
    ASSUME TypeOK, ServerIsAhead, Publish
    PROVE  /\ board' \in [Documented -> [1..1 -> Cycle]]
           /\ UNCHANGED <<hist, last>>
           /\ \A s \in Documented :
                 board[s][1] <= board'[s][1] /\ board'[s][1] <= hist[s][1]
<1>1. board' = [s \in Documented |-> IF s \in last THEN hist[s] ELSE board[s]]
  BY DEF Publish, Pipeline!Publish, Pipeline!Overlay
<1>2. \A s \in Documented : /\ hist[s] \in [1..1 -> Cycle] /\ hist[s][1] \in Nat
                            /\ board[s] \in [1..1 -> Cycle] /\ board[s][1] \in Nat
  BY CycleAssumption DEF TypeOK, Cycle
<1>3. QED
  BY <1>1, <1>2 DEF ServerIsAhead, Publish, Pipeline!Publish

\* A step of the pipeline leaves the page as it is.
LEMMA ServerStep ==
    ASSUME Inv, UNCHANGED <<occupancy, client>>,
           hist' \in [Documented -> [1..1 -> Cycle]],
           last' \in SUBSET Documented,
           board' \in [Documented -> [1..1 -> Cycle]],
           \A s \in Documented :
               board[s][1] <= board'[s][1] /\ board'[s][1] <= hist'[s][1]
    PROVE  Inv'
<1> USE DEF Inv
<1>1. TypeOK'
  BY DEF TypeOK, client
<1>2. ServerIsAhead'
  <2>1. \A s \in DOMAIN snap : snap[s] <= board'[s][1]
    <3> SUFFICES ASSUME NEW s \in DOMAIN snap PROVE snap[s] <= board'[s][1]
      OBVIOUS
    <3>1. s \in Documented /\ snap[s] \in Cycle
      BY SnapshotType DEF TypeOK
    <3>2. board[s][1] \in Cycle /\ board'[s][1] \in Cycle
      BY <3>1 DEF TypeOK
    <3>3. QED
      BY <3>1, <3>2, CycleAssumption DEF ServerIsAhead, Cycle
  <2>2. QED
    BY <2>1 DEF ServerIsAhead, client
<1>3. MarkersRespectFilter' /\ ScreenRespectsFilter' /\ CompleteOnceLoaded'
      /\ ScreenIsBehind'
  BY DEF MarkersRespectFilter, ScreenRespectsFilter, CompleteOnceLoaded,
         ScreenIsBehind, client
<1>4. QED
  BY <1>1, <1>2, <1>3

-----------------------------------------------------------------------------
(* The page.                                                               *)

LEMMA InitInv == Init => Inv
<1> SUFFICES ASSUME Init PROVE Inv
  OBVIOUS
<1>1. 0 \in Cycle
  BY CycleAssumption DEF Cycle
<1>2. hist \in [Documented -> [1..1 -> Cycle]]
      /\ \A s \in Documented : hist[s][1] = 0
  BY <1>1 DEF Init
<1>3. TypeOK
  <2>1. /\ hist \in [Documented -> [1..1 -> Cycle]]
        /\ last \in SUBSET Documented
        /\ board \in [Documented -> [1..1 -> Cycle]]
        /\ occupancy \in [Documented -> Level]
    BY <1>2 DEF Init
  <2>2. /\ open \in BOOLEAN /\ snap \in Snapshots /\ icons \in 0..Len(Icon)
        /\ filter \in Filter /\ markers \in Partial(Marker)
        /\ basis \in SUBSET Documented
    <3>1. 0 \in 0..Len(Icon) /\ "All" \in Filter
      BY IconCount DEF Filter
    <3>2. QED
      BY <3>1, NoneType, Zenon DEF Init
  <2>3. screen \in [filter : Filter, markers : Partial(Marker)]
    BY NoneType DEF Init, Filter
  <2>4. QED
    BY <2>1, <2>2, <2>3 DEF TypeOK
<1>4. QED
  BY <1>2, <1>3, NoneType, IconCount
  DEF Init, Inv, MarkersRespectFilter, ScreenRespectsFilter, CompleteOnceLoaded,
      ServerIsAhead, ScreenIsBehind

LEMMA DocumentsType ==
    ASSUME TypeOK
    PROVE  /\ Documents \in Snapshots /\ DOMAIN Documents = Documented
           /\ \A s \in Documented : Documents[s] = board[s][1]
           /\ \A s \in Documented : board[s][1] \in Cycle
<1>1. \A s \in Documented : board[s][1] \in Cycle
  BY DEF TypeOK
<1>2. QED
  BY <1>1 DEF Documents, Snapshots

\* A build that shows the markers as they are.
LEMMA BuildIs ==
    ASSUME Inv, Build(filter, markers)
    PROVE  /\ screen' \in [filter : Filter, markers : Partial(Marker)]
           /\ screen'.filter = filter /\ screen'.markers = markers
  BY DEF Inv, TypeOK, Build

LEMMA OpenIsFine == Inv /\ Open => Inv'
<1> SUFFICES ASSUME Inv, Open PROVE Inv'
  OBVIOUS
<1> USE DEF Inv
<1>1. DOMAIN markers = {} /\ DOMAIN screen.markers = {}
  BY NoneType DEF ScreenIsBehind, Open
<1>2. snap' \in Snapshots
  BY NoneType, DocumentsType DEF Open
<1>3. TypeOK'
  BY <1>2 DEF TypeOK, Open, server
<1>4. ServerIsAhead'
  <2>1. \A s \in DOMAIN snap' : snap'[s] <= board[s][1]
    <3>1. CASE snap' = NoSnapshot
      BY <3>1, NoneType
    <3>2. CASE snap' = Documents
      BY <3>2, DocumentsType, CycleAssumption DEF Cycle
    <3>3. QED
      BY <3>1, <3>2 DEF Open
  <2>2. QED
    BY <2>1 DEF ServerIsAhead, Open, server
<1>5. QED
  BY <1>1, <1>3, <1>4
  DEF MarkersRespectFilter, ScreenRespectsFilter, CompleteOnceLoaded,
      ScreenIsBehind, Open

LEMMA DeliverIsFine == Inv /\ Deliver => Inv'
<1> SUFFICES ASSUME Inv, Deliver PROVE Inv'
  OBVIOUS
<1> USE DEF Inv
<1>1. /\ screen' \in [filter : Filter, markers : Partial(Marker)]
      /\ screen'.filter = filter /\ screen'.markers = markers
  BY BuildIs DEF Deliver
<1>2. /\ snap' \in Snapshots /\ DOMAIN snap' = Documented
      /\ \A s \in Documented : snap'[s] = board[s][1] /\ board[s][1] \in Cycle
  BY DocumentsType DEF Deliver
<1>3. TypeOK'
  BY <1>1, <1>2 DEF TypeOK, Deliver, server
<1>4. ServerIsAhead'
  <2>1. \A s \in DOMAIN snap' : snap'[s] <= board[s][1]
    BY <1>2, CycleAssumption DEF Cycle
  <2>2. QED
    BY <2>1 DEF ServerIsAhead, Deliver, server
<1>5. ScreenIsBehind'
  <2>1. ASSUME NEW s \in DOMAIN markers
        PROVE  /\ s \in DOMAIN snap' /\ markers[s].cycle <= snap'[s]
               /\ markers[s].cycle <= markers[s].cycle
    <3>1. s \in DOMAIN snap /\ markers[s].cycle <= snap[s] /\ snap[s] <= board[s][1]
      BY DEF ScreenIsBehind, ServerIsAhead
    <3>2. s \in Documented /\ snap[s] \in Cycle /\ markers[s] \in Marker
      BY <3>1, SnapshotType, PartialIs DEF TypeOK
    <3>3. QED
      BY <1>2, <3>1, <3>2, CycleAssumption DEF Cycle, Marker
  <2>2. open'
    BY DEF Deliver
  <2>3. QED
    BY <1>1, <2>1, <2>2 DEF ScreenIsBehind, Deliver
<1>6. QED
  BY <1>1, <1>3, <1>4, <1>5
  DEF MarkersRespectFilter, ScreenRespectsFilter, CompleteOnceLoaded, Deliver

LEMMA RebuildIsFine == Inv /\ Rebuild => Inv'
<1> SUFFICES ASSUME Inv, Rebuild PROVE Inv'
  OBVIOUS
<1> USE DEF Inv
<1>1. /\ screen' \in [filter : Filter, markers : Partial(Marker)]
      /\ screen'.filter = filter /\ screen'.markers = markers
  BY BuildIs DEF Rebuild
<1>2. TypeOK'
  BY <1>1 DEF TypeOK, Rebuild, server
<1>3. \A s \in DOMAIN markers : markers[s].cycle \in Nat
  <2>1. \A s \in DOMAIN markers : markers[s] \in Marker
    BY PartialIs DEF TypeOK
  <2>2. QED
    BY <2>1, CycleAssumption DEF Marker, Cycle
<1>4. QED
  BY <1>1, <1>2, <1>3
  DEF MarkersRespectFilter, ScreenRespectsFilter, CompleteOnceLoaded,
      ServerIsAhead, ScreenIsBehind, Rebuild, server

\* Markers made of the snapshot for the filter f, after so many icons, with
\* a screen that stays or shows them.
LEMMA DrawingIsFine ==
    ASSUME Inv, open, NEW f \in Filter, NEW l \in 0..4,
           filter' = f, icons' = l,
           markers' = Drawn(snap, f, l),
           basis' = DOMAIN snap,
           \/ UNCHANGED screen
           \/ Build(f, markers'),
           UNCHANGED <<server, occupancy, open, snap>>
    PROVE  Inv'
<1> USE DEF Inv
<1>1. snap \in Snapshots
  BY DEF TypeOK
<1>2. /\ markers' \in Partial(Marker)
      /\ \A s \in DOMAIN markers' :
            /\ s \in DOMAIN snap
            /\ Passes(f, occupancy[s])
            /\ markers'[s].icon = Icon[IconOf(f, occupancy[s])]
            /\ markers'[s].cycle = snap[s]
      /\ l = 4 => \A s \in DOMAIN snap :
                     Passes(f, occupancy[s]) => s \in DOMAIN markers'
  BY <1>1, DrawnIs
<1>3. \A s \in DOMAIN snap : s \in Documented /\ snap[s] \in Nat
  BY <1>1, SnapshotType, CycleAssumption DEF Cycle
<1>4. \/ UNCHANGED screen
      \/ screen'.filter = f /\ screen'.markers = markers'
  BY DEF Build
<1>5. screen' \in [filter : Filter, markers : Partial(Marker)]
  BY <1>2 DEF Build, TypeOK
<1>6. TypeOK'
  BY <1>2, <1>3, <1>5, IconCount DEF TypeOK, server
<1>7. MarkersRespectFilter'
  BY <1>2 DEF MarkersRespectFilter
<1>8. ScreenRespectsFilter'
  BY <1>2, <1>4 DEF ScreenRespectsFilter
<1>9. CompleteOnceLoaded'
  BY <1>2, IconCount DEF CompleteOnceLoaded
<1>10. ServerIsAhead'
  BY DEF ServerIsAhead, server
<1>11. ScreenIsBehind'
  <2>1. \A s \in DOMAIN markers' : s \in DOMAIN snap /\ markers'[s].cycle <= snap[s]
    BY <1>2, <1>3
  <2>2. \A s \in DOMAIN screen'.markers :
            /\ s \in DOMAIN snap /\ screen'.markers[s].cycle <= snap[s]
            /\ s \in DOMAIN markers' => screen'.markers[s].cycle <= markers'[s].cycle
    <3>1. CASE UNCHANGED screen
      BY <3>1, <1>2 DEF ScreenIsBehind
    <3>2. CASE screen'.markers = markers'
      BY <3>2, <1>2, <1>3
    <3>3. QED
      BY <3>1, <3>2, <1>4
  <2>3. QED
    BY <2>1, <2>2 DEF ScreenIsBehind
<1>12. QED
  BY <1>6, <1>7, <1>8, <1>9, <1>10, <1>11

LEMMA LoadIconIsFine == Inv /\ LoadIcon => Inv'
<1> SUFFICES ASSUME Inv, LoadIcon PROVE Inv'
  OBVIOUS
<1>1. icons \in 0..4 /\ icons < 4 /\ icons' = icons + 1 /\ icons' \in 0..4
  BY IconCount DEF Inv, TypeOK, LoadIcon
<1>2. ASSUME UNCHANGED markers, basis' \in SUBSET Documented,
             icons' = 4 => basis' = {}
      PROVE  Inv'
  <2> USE DEF Inv
  <2>1. TypeOK'
    BY <1>1, <1>2, IconCount DEF TypeOK, LoadIcon, server
  <2>2. CompleteOnceLoaded'
    BY <1>1, <1>2, IconCount DEF CompleteOnceLoaded
  <2>3. QED
    BY <1>2, <2>1, <2>2
    DEF MarkersRespectFilter, ScreenRespectsFilter, ServerIsAhead,
        ScreenIsBehind, LoadIcon, server
<1>3. CASE icons' # 4
  BY <1>2, <1>3, IconCount DEF LoadIcon, Inv, TypeOK
<1>4. CASE icons' = 4 /\ snap = NoSnapshot
  BY <1>2, <1>4, NoneType, IconCount DEF LoadIcon
<1>5. CASE icons' = 4 /\ snap # NoSnapshot
  <2>1. /\ open /\ markers' = Drawn(snap, filter, icons') /\ basis' = DOMAIN snap
        /\ UNCHANGED <<server, occupancy, open, snap, filter, screen>>
    BY <1>5, IconCount DEF LoadIcon
  <2>2. filter \in Filter
    BY DEF Inv, TypeOK
  <2>3. QED
    BY <1>1, <2>1, <2>2, DrawingIsFine
<1>6. QED
  BY <1>3, <1>4, <1>5

LEMMA SelectIsFine == ASSUME Inv, NEW f \in Filters, Select(f) PROVE Inv'
<1>1. f \in Filter /\ icons \in 0..4
  BY FiltersAssumption, IconCount DEF Inv, TypeOK
<1>2. \/ UNCHANGED screen
      \/ Build(f, markers')
  BY DEF Select, ShowSelection
<1>3. QED
  BY <1>1, <1>2, DrawingIsFine DEF Select

LEMMA CloseIsFine == Inv /\ Close => Inv'
<1> SUFFICES ASSUME Inv, Close PROVE Inv'
  OBVIOUS
<1> USE DEF Inv
<1>1. screen' = [filter |-> "All", markers |-> NoMarkers]
  BY DEF Close, Build
<1>2. TypeOK'
  <2>1. /\ hist' \in [Documented -> [1..1 -> Cycle]]
        /\ last' \in SUBSET Documented
        /\ board' \in [Documented -> [1..1 -> Cycle]]
        /\ occupancy' \in [Documented -> Level]
    BY DEF TypeOK, Close, server
  <2>2. /\ open' \in BOOLEAN /\ snap' \in Snapshots /\ icons' \in 0..Len(Icon)
        /\ filter' \in Filter /\ markers' \in Partial(Marker)
        /\ basis' \in SUBSET Documented
    <3>1. 0 \in 0..Len(Icon) /\ "All" \in Filter
      BY IconCount DEF Filter
    <3>2. QED
      BY <3>1, NoneType, Zenon DEF Close
  <2>3. screen' \in [filter : Filter, markers : Partial(Marker)]
    BY <1>1, NoneType DEF Filter
  <2>4. QED
    BY <2>1, <2>2, <2>3 DEF TypeOK
<1>3. QED
  BY <1>1, <1>2, NoneType
  DEF MarkersRespectFilter, ScreenRespectsFilter, CompleteOnceLoaded,
      ServerIsAhead, ScreenIsBehind, Close, server

LEMMA StepInv == Inv /\ [Next]_vars => Inv'
<1> SUFFICES ASSUME Inv, [Next]_vars PROVE Inv'
  OBVIOUS
<1>1. CASE Take
  <2>1. /\ hist' \in [Documented -> [1..1 -> Cycle]]
        /\ last' \in SUBSET Documented
        /\ board' = board
        /\ \A s \in Documented : hist[s][1] <= hist'[s][1]
    BY <1>1, TakeIs DEF Inv
  <2>2. \A s \in Documented : /\ hist[s][1] \in Cycle /\ hist'[s][1] \in Cycle
                              /\ board[s][1] \in Cycle
    BY <2>1 DEF Inv, TypeOK
  <2>3. \A s \in Documented :
            board[s][1] <= board'[s][1] /\ board'[s][1] <= hist'[s][1]
    BY <2>1, <2>2, CycleAssumption DEF Inv, ServerIsAhead, Cycle
  <2>4. board' \in [Documented -> [1..1 -> Cycle]]
    BY <2>1 DEF Inv, TypeOK
  <2>5. QED
    BY <1>1, <2>1, <2>3, <2>4, ServerStep DEF Take
<1>2. CASE Publish
  <2>1. /\ board' \in [Documented -> [1..1 -> Cycle]]
        /\ UNCHANGED <<hist, last>>
        /\ \A s \in Documented :
              board[s][1] <= board'[s][1] /\ board'[s][1] <= hist[s][1]
    BY <1>2, PublishIs DEF Inv
  <2>2. /\ hist' \in [Documented -> [1..1 -> Cycle]]
        /\ last' \in SUBSET Documented
    BY <2>1 DEF Inv, TypeOK
  <2>3. QED
    BY <1>2, <2>1, <2>2, ServerStep DEF Publish
<1>3. CASE Open
  BY <1>3, OpenIsFine
<1>4. CASE Deliver
  BY <1>4, DeliverIsFine
<1>5. CASE Rebuild
  BY <1>5, RebuildIsFine
<1>6. CASE LoadIcon
  BY <1>6, LoadIconIsFine
<1>7. CASE Close
  BY <1>7, CloseIsFine
<1>8. ASSUME NEW f \in Filters, Select(f) PROVE Inv'
  BY <1>8, SelectIsFine
<1>9. CASE UNCHANGED vars
  BY <1>9
  DEF vars, server, client, Inv, TypeOK, MarkersRespectFilter,
      ScreenRespectsFilter, CompleteOnceLoaded, ServerIsAhead, ScreenIsBehind
<1>10. QED
  BY <1>1, <1>2, <1>3, <1>4, <1>5, <1>6, <1>7, <1>8, <1>9 DEF Next

-----------------------------------------------------------------------------
\* The state of pipeline and page keeps its types, and the page has no icon
\* the code does not load.
THEOREM TypeCorrect == Spec => []TypeOK
<1>1. Inv => TypeOK
  BY DEF Inv
<1>2. QED
  BY <1>1, InitInv, StepInv, PTL DEF Spec

\* Whatever is selected while icons load and selections throw, a marker on
\* the screen passes the filter beside it and has the icon it demands.
THEOREM FilterIsRespected == Spec => []ScreenRespectsFilter
<1>1. Inv => ScreenRespectsFilter
  BY DEF Inv
<1>2. QED
  BY <1>1, InitInv, StepInv, PTL DEF Spec

\* What a selection that threw left out is there once the icons are.
THEOREM NothingStaysMissing == Spec => []CompleteOnceLoaded
<1>1. Inv => CompleteOnceLoaded
  BY DEF Inv
<1>2. QED
  BY <1>1, InitInv, StepInv, PTL DEF Spec

\* No marker on the screen goes back to what an earlier cycle published: the screen is
\* behind the markers, the markers behind the snapshot, and the snapshot
\* behind a board that only moves forward.
THEOREM MarkersOnlyImprove == Spec => MarkersNeverRegress
<1> DEFINE Better == \A s \in DOMAIN screen.markers \cap DOMAIN screen'.markers :
                        screen.markers[s].cycle <= screen'.markers[s].cycle
<1>1. Inv /\ [Next]_vars => [Better]_vars
  <2> SUFFICES ASSUME Inv, [Next]_vars,
                      NEW s \in DOMAIN screen.markers \cap DOMAIN screen'.markers
               PROVE  screen.markers[s].cycle <= screen'.markers[s].cycle
    OBVIOUS
  <2>1. /\ screen.markers[s].cycle \in Nat
        /\ s \in DOMAIN snap /\ screen.markers[s].cycle <= snap[s]
        /\ s \in DOMAIN markers => screen.markers[s].cycle <= markers[s].cycle
    <3>1. screen.markers \in Partial(Marker)
      BY DEF Inv, TypeOK
    <3>2. screen.markers[s] \in Marker
      BY <3>1, PartialIs
    <3>3. screen.markers[s].cycle \in Nat
      BY <3>2, CycleAssumption DEF Marker, Cycle
    <3>4. QED
      BY <3>3 DEF Inv, ScreenIsBehind
  <2>2. CASE UNCHANGED screen
    BY <2>1, <2>2
  <2>3. CASE screen'.markers = markers
    BY <2>1, <2>3
  <2>4. ASSUME NEW f \in Filters, Select(f), screen'.markers = markers'
        PROVE  screen.markers[s].cycle <= screen'.markers[s].cycle
    <3>1. snap \in Snapshots
      BY DEF Inv, TypeOK
    <3>2. markers' = Drawn(snap, f, icons)
      BY <2>4 DEF Select
    <3>3. markers'[s].cycle = snap[s]
      BY <2>4, <3>1, <3>2, DrawnIs
    <3>4. QED
      BY <2>1, <2>4, <3>3
  <2>5. CASE Close
    BY <2>5, NoneType DEF Close, Build
  <2>6. QED
    BY <2>2, <2>3, <2>4, <2>5
    DEF Next, vars, client, Take, Publish, Open, Deliver, Rebuild, LoadIcon,
        Select, ShowSelection, Build
<1>2. QED
  BY <1>1, InitInv, StepInv, PTL DEF Spec, MarkersNeverRegress
=============================================================================
