---------------------------- MODULE TransitMaps ----------------------------
(***************************************************************************)
(* The Luas map (Luas_google_Map.dart) and the bus map of the Flutter app  *)
(* (Dublin_bus_map.dart): one of the two pages at a time.                  *)
(*                                                                         *)
(* Each page starts two asynchronous chains when it opens: the icons, one  *)
(* await after the other, and one query, whose answer makes every marker   *)
(* and then asks a routing service for four routes.  Nothing orders the    *)
(* chains.  A page is built again only by setState, which on the Luas page *)
(* nothing but an answered route calls; until the first build after the    *)
(* query the Luas page is a spinner.                                       *)
(***************************************************************************)
EXTENDS Naturals, Sequences, FiniteSets

CONSTANTS LuasStops,   \* the stops of the Luas document, in its order
          BusStops,    \* the stops of the bus document, in its order
          Busiest,     \* dataset_busiest_trips: sequence of [stop, trips]
          MarkerCap    \* 100 in the code: bus stops that get a plain marker

ASSUME StopsAssumption ==
    /\ LuasStops \in Seq(STRING) \ {<< >>}
    /\ BusStops \in Seq(STRING) \ {<< >>}
    /\ Busiest \in Seq([stop : STRING, trips : Nat]) \ {<< >>}
    /\ MarkerCap \in Nat \ {0}

VARIABLES page,      \* the page that is open
          icons,     \* how many icons its getMapIcon has loaded
          data,      \* its query: asked, came, failed, or broke on the way
          markers,   \* markers[s]: index of the icon of stop s
          circles,   \* stops with a circle
          route,     \* route[r]: the request of route r
          lists,     \* the lists of points made; the last is polylineCoordinates
          lines,     \* polylines: [colour, list] by id
          count,     \* _polylineCount
          view,      \* the toggle of the bus page
          screen     \* what the last build showed

vars == <<page, icons, data, markers, circles, route, lists, lines, count,
          view, screen>>

Page == {"luas", "bus"}
Closed == page = "none"

\* The icons in the order they are loaded.
Icons(p) == CASE p = "luas" -> <<"low">>
              [] p = "bus" -> <<"low", "medium", "high", "higher", "highest">>
              [] OTHER -> << >>

\* The colours of the four routes.
Colour(p) == IF p = "luas" THEN <<"red", "green", "red", "green">>
                           ELSE <<"red", "red", "red", "red">>
Route == 1..4

NoPoints == 0      \* the contents of a list: a route's points, or none
Nothing == [s \in {} |-> 0]
NoScreen == [up |-> FALSE, markers |-> Nothing, lines |-> {}]

-----------------------------------------------------------------------------
(* initAllMarkers.                                                         *)

\* The icon of a stop on so many of the busiest trips.
Level(trips) == IF trips >= 10 /\ trips <= 15 THEN 3
                ELSE IF trips <= 20 THEN 4 ELSE 5

Plain(stops, icon) == [i \in 1..Len(stops) |-> [stop |-> stops[i], icon |-> icon]]

\* The calls of initMarker, in order.
Marks(p) ==
    IF p = "luas" THEN Plain(LuasStops, 1)
    ELSE Plain(SubSeq(BusStops, 1, IF MarkerCap < Len(BusStops)
                                   THEN MarkerCap ELSE Len(BusStops)), 2)
         \o [i \in 1..Len(Busiest) |->
                [stop |-> Busiest[i].stop, icon |-> Level(Busiest[i].trips)]]

\* The calls that are reached: the first that needs an icon that is not
\* loaded throws.
Reached(p, loaded) ==
    {i \in 1..Len(Marks(p)) : \A j \in 1..i - 1 : Marks(p)[j].icon <= loaded}
Finished(p, loaded) ==
    {i \in Reached(p, loaded) : Marks(p)[i].icon <= loaded}
Throws(p, loaded) == Finished(p, loaded) # 1..Len(Marks(p))

\* The markers then: a later call for the same stop replaces its marker.
Made(p, loaded) ==
    LET done == Finished(p, loaded)
        lastOf(s) == CHOOSE i \in done :
                        /\ Marks(p)[i].stop = s
                        /\ \A j \in done : Marks(p)[j].stop = s => j <= i
    IN  [s \in {Marks(p)[i].stop : i \in done} |-> Marks(p)[lastOf(s)].icon]

\* The circles: one for every busy stop, made before its marker.
Circled(p, loaded) ==
    IF p = "luas" THEN {}
    ELSE {Marks(p)[i].stop : i \in {k \in Reached(p, loaded) :
                                       k > Len(Marks(p)) - Len(Busiest)}}

-----------------------------------------------------------------------------
\* What a build of the Luas page shows: a spinner until its data are there.
LuasScreen(ready, ms, ls) ==
    IF ready THEN [up |-> TRUE, markers |-> ms, lines |-> ls] ELSE NoScreen

\* What a build of the bus page shows: its stops, or its emissions.
BusScreen(v, ms, ls) ==
    [up |-> TRUE,
     markers |-> IF v = "stations" THEN ms ELSE Nothing,
     lines |-> IF v = "co2" THEN ls ELSE {}]

Build(p, ready, v, ms, ls) ==
    screen' = IF p = "luas" THEN LuasScreen(ready, ms, ls) ELSE BusScreen(v, ms, ls)

Ready == data \in {"came", "broke"}

Fresh(p) ==
    /\ page' = p
    /\ icons' = 0
    /\ data' = IF p = "none" THEN "none" ELSE "asked"
    /\ markers' = Nothing
    /\ circles' = {}
    /\ route' = [r \in Route |-> "none"]
    /\ lists' = <<NoPoints>>
    /\ lines' = Nothing
    /\ count' = 0
    /\ view' = "stations"

Init ==
    /\ page = "none"
    /\ icons = 0
    /\ data = "none"
    /\ markers = Nothing
    /\ circles = {}
    /\ route = [r \in Route |-> "none"]
    /\ lists = <<NoPoints>>
    /\ lines = Nothing
    /\ count = 0
    /\ view = "stations"
    /\ screen = NoScreen

\* initState starts both chains, and the page is built.
Open(p) == /\ Closed
           /\ Fresh(p)
           /\ Build(p, FALSE, "stations", Nothing, {})

\* What is still under way calls setState of a state that is gone.
Close == /\ ~Closed
         /\ Fresh("none")
         /\ screen' = NoScreen

\* Faulty variant: getMapIcon does not stop.
LoadIconAgain ==
    /\ ~Closed
    /\ icons' = icons + 1
    /\ UNCHANGED <<page, data, markers, circles, route, lists, lines, count,
                   view, screen>>

\* One await of getMapIcon, which asks for no build.
LoadIcon ==
    /\ ~Closed
    /\ icons < Len(Icons(page))
    /\ icons' = icons + 1
    /\ UNCHANGED <<page, data, markers, circles, route, lists, lines, count,
                   view, screen>>

\* Faulty variant: the routes are asked for before the markers are made.
DataComesRoutesFirst ==
    /\ data = "asked"
    /\ data' = IF Throws(page, icons) THEN "broke" ELSE "came"
    /\ markers' = Made(page, icons)
    /\ circles' = Circled(page, icons)
    /\ route' = [r \in Route |-> "asked"]
    /\ IF circles' = {} THEN UNCHANGED screen
       ELSE Build(page, TRUE, view, markers', DOMAIN lines)
    /\ UNCHANGED <<page, icons, lists, lines, count, view>>

\* The query's answer: the Luas data are set, the markers are made, and
\* unless one throws the four routes are asked for.  Only a circle calls
\* setState.
DataComes ==
    /\ data = "asked"
    /\ data' = IF Throws(page, icons) THEN "broke" ELSE "came"
    /\ markers' = Made(page, icons)
    /\ circles' = Circled(page, icons)
    /\ IF Throws(page, icons) THEN UNCHANGED route
       ELSE route' = [r \in Route |-> "asked"]
    /\ IF circles' = {} THEN UNCHANGED screen
       ELSE Build(page, TRUE, view, markers', DOMAIN lines)
    /\ UNCHANGED <<page, icons, lists, lines, count, view>>

\* The query fails, or the collection is empty.
DataFails ==
    /\ data = "asked"
    /\ data' = "failed"
    /\ UNCHANGED <<page, icons, markers, circles, route, lists, lines, count,
                   view, screen>>

\* The polyline of id count, with the colour the request carried.
AddLine(r) ==
    lines' = [id \in DOMAIN lines \cup {count} |->
                 IF id = count
                 THEN [colour |-> Colour(page)[r], list |-> Len(lists')]
                 ELSE lines[id]]

\* Faulty variants: the list of points is emptied instead of replaced; the
\* count is left; no build is asked for.
AnswerSameList(r, points) ==
    /\ route[r] = "asked"
    /\ route' = [route EXCEPT ![r] = "done"]
    /\ lists' = [lists EXCEPT ![Len(lists)] = points]
    /\ AddLine(r)
    /\ Build(page, Ready, view, markers, DOMAIN lines')
    /\ count' = count + 1
    /\ UNCHANGED <<page, icons, data, markers, circles, view>>

AnswerUncounted(r, points) ==
    /\ route[r] = "asked"
    /\ route' = [route EXCEPT ![r] = "done"]
    /\ lists' = Append(lists, points)
    /\ AddLine(r)
    /\ Build(page, Ready, view, markers, DOMAIN lines')
    /\ UNCHANGED <<page, icons, data, markers, circles, count, view>>

AnswerUnbuilt(r, points) ==
    /\ route[r] = "asked"
    /\ route' = [route EXCEPT ![r] = "done"]
    /\ lists' = Append(lists, points)
    /\ AddLine(r)
    /\ count' = count + 1
    /\ UNCHANGED <<page, icons, data, markers, circles, view, screen>>

\* A route is answered, with its points or, if none was found, without: a
\* new list becomes polylineCoordinates, and a polyline of it is added.
Answer(r, points) ==
    /\ route[r] = "asked"
    /\ route' = [route EXCEPT ![r] = "done"]
    /\ lists' = Append(lists, points)
    /\ AddLine(r)
    /\ Build(page, Ready, view, markers, DOMAIN lines')
    /\ count' = count + 1
    /\ UNCHANGED <<page, icons, data, markers, circles, view>>

\* The routing service cannot be reached.
RouteFails(r) ==
    /\ route[r] = "asked"
    /\ route' = [route EXCEPT ![r] = "failed"]
    /\ UNCHANGED <<page, icons, data, markers, circles, lists, lines, count,
                   view, screen>>

\* The toggle of the bus page.
Toggle(v) ==
    /\ page = "bus"
    /\ view' = v
    /\ Build(page, Ready, v, markers, DOMAIN lines)
    /\ UNCHANGED <<page, icons, data, markers, circles, route, lists, lines,
                   count>>

\* The map was created, or the window resized.
Rebuild ==
    /\ ~Closed
    /\ Build(page, Ready, view, markers, DOMAIN lines)
    /\ UNCHANGED <<page, icons, data, markers, circles, route, lists, lines,
                   count, view>>

DataSettles == DataComes \/ DataFails
RouteSettles(r) == RouteFails(r) \/ \E points \in {r, NoPoints} : Answer(r, points)

Next == \/ \E p \in Page : Open(p)
        \/ Close \/ LoadIcon \/ DataSettles \/ Rebuild
        \/ \E r \in Route : RouteSettles(r)
        \/ \E v \in {"stations", "co2"} : Toggle(v)

Spec == Init /\ [][Next]_vars

\* Assets load, and queries and requests are answered or fail.  Nothing makes
\* the pages build again: no stream is behind them.
FairSpec == /\ Spec
            /\ WF_vars(LoadIcon)
            /\ WF_vars(DataSettles)
            /\ \A r \in Route : WF_vars(RouteSettles(r))

-----------------------------------------------------------------------------
(* Properties.                                                             *)

Stops(p) == {Marks(p)[i].stop : i \in 1..Len(Marks(p))}

TypeOK ==
    /\ page \in Page \cup {"none"}
    /\ icons \in 0..Len(Icons(page))
    /\ data \in {"none", "asked", "came", "broke", "failed"}
    /\ \A s \in DOMAIN markers : s \in Stops(page) /\ markers[s] \in 1..icons
    /\ circles \subseteq Stops(page)
    /\ route \in [Route -> {"none", "asked", "done", "failed"}]
    /\ lists \in Seq({NoPoints} \cup Route)
    /\ count \in 0..Cardinality(Route)
    /\ \A id \in DOMAIN lines :
          /\ id \in 0..count - 1
          /\ lines[id] \in [colour : {"red", "green"}, list : 1..Len(lists)]
    /\ view \in {"stations", "co2"}
    /\ screen.up \in BOOLEAN

\* The routes share the field polylineCoordinates and are answered in any
\* order: still every polyline has the points of one route, in its colour,
\* and no two have those of the same.
LinesKeepTheirPoints ==
    \A id \in DOMAIN lines :
        LET r == lists[lines[id].list]
        IN  r # NoPoints =>
                /\ Colour(page)[r] = lines[id].colour
                /\ \A other \in DOMAIN lines \ {id} : lists[lines[other].list] # r

\* The ids of polylines come from a shared counter: every answered route has
\* a polyline, and no answer overwrites that of another.
NoLineIsLost ==
    Cardinality(DOMAIN lines) = Cardinality({r \in Route : route[r] = "done"})

\* A page with routes has all its markers and circles: a query that broke
\* because an icon was not loaded leaves no routes behind.
LinesComeWithMarkers ==
    (\E r \in Route : route[r] # "none") =>
        /\ DOMAIN markers = Stops(page)
        /\ page = "bus" => circles = {Busiest[i].stop : i \in 1..Len(Busiest)}

\* What keeps a page from coming up: its query failed, or came before an
\* icon it needs, or no route was answered on the page that only a route
\* makes build.
Stuck == \/ data \in {"failed", "broke"}
         \/ page = "luas" /\ \A r \in Route : route[r] = "failed"

\* An open page shows its map with every marker in the end, unless it is left
\* or stuck; nothing else can keep the spinner turning.
MapComesUp ==
    ~Closed ~> \/ Closed
               \/ Stuck
               \/ screen.up /\ (screen.markers = markers \/ view = "co2")
                  /\ DOMAIN markers = Stops(page)
=============================================================================
