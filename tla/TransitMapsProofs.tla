-------------------------- MODULE TransitMapsProofs --------------------------
(***************************************************************************)
(* What holds of the Luas and the bus map for every list of stops, every   *)
(* list of busy stops, and every order in which icons, query and routes    *)
(* come back or fail.                                                      *)
(***************************************************************************)
EXTENDS TransitMaps, Maxima, FiniteSetTheorems, SequenceTheorems, TLAPS

Done == {r \in Route : route[r] = "done"}

\* Every answered route has taken the next id, and made the next list.
LinesAreNumbered ==
    /\ count = Cardinality(Done)
    /\ DOMAIN lines = 0..count - 1
    /\ Len(lists) = count + 1
    /\ \A id \in DOMAIN lines : lines[id].list = id + 2

\* A list with points has those of an answered route, which no other has,
\* and its polyline has the colour of that route.
ListsAreOwned ==
    \A i \in 2..Len(lists) :
        lists[i] # NoPoints =>
            /\ route[lists[i]] = "done"
            /\ lines[i - 2].colour = Colour(page)[lists[i]]
            /\ \A j \in 2..Len(lists) : lists[j] = lists[i] => j = i

\* Routes are asked for by a query that came whole.
RoutesFollowData == (\E r \in Route : route[r] # "none") => data = "came"

DataAreWhole ==
    data = "came" =>
        /\ DOMAIN markers = Stops(page)
        /\ page = "bus" => circles = {Busiest[i].stop : i \in 1..Len(Busiest)}

Inv == /\ TypeOK
       /\ LinesAreNumbered
       /\ ListsAreOwned
       /\ RoutesFollowData
       /\ DataAreWhole

-----------------------------------------------------------------------------
(* initAllMarkers, for any stops.                                          *)

LEMMA BusiestType ==
    \A i \in 1..Len(Busiest) :
        Busiest[i].stop \in STRING /\ Level(Busiest[i].trips) \in 1..5
<1>1. Busiest \in Seq([stop : STRING, trips : Nat])
  BY StopsAssumption
<1>2. \A i \in 1..Len(Busiest) : Busiest[i] \in [stop : STRING, trips : Nat]
  BY <1>1, ElementOfSeq, Zenon
<1>3. \A n : Level(n) \in 1..5
  BY DEF Level
<1>4. QED
  BY <1>2, <1>3

LEMMA PlainType ==
    \A s \in Seq(STRING), k \in 1..5 :
        Plain(s, k) \in Seq([stop : STRING, icon : 1..5])
  BY DEF Plain

LEMMA MarksType ==
    ASSUME NEW p
    PROVE  Marks(p) \in Seq([stop : STRING, icon : 1..5])
<1> DEFINE cap == IF MarkerCap < Len(BusStops) THEN MarkerCap ELSE Len(BusStops)
           busy == [i \in 1..Len(Busiest) |->
                       [stop |-> Busiest[i].stop, icon |-> Level(Busiest[i].trips)]]
           M == [stop : STRING, icon : 1..5]
<1>1. /\ \A s \in Seq(STRING) : Plain(s, 1) \in Seq(M)
      /\ \A s \in Seq(STRING) : Plain(s, 2) \in Seq(M)
  BY PlainType
<1>2. SubSeq(BusStops, 1, cap) \in Seq(STRING)
  BY StopsAssumption
<1>3. busy \in Seq(M)
  <2>1. Len(Busiest) \in Nat
    BY StopsAssumption
  <2>2. \A i \in 1..Len(Busiest) :
            [stop |-> Busiest[i].stop, icon |-> Level(Busiest[i].trips)] \in M
    BY BusiestType
  <2>3. QED
    BY <2>1, <2>2
<1>4. Plain(LuasStops, 1) \in Seq(M)
  BY <1>1, StopsAssumption
<1>5. Plain(SubSeq(BusStops, 1, cap), 2) \in Seq(M)
  BY <1>1, <1>2, Zenon
<1>6. Plain(SubSeq(BusStops, 1, cap), 2) \o busy \in Seq(M)
  BY <1>3, <1>5
<1>7. QED
  BY <1>4, <1>6 DEF Marks

\* The busy stops are marked last.
LEMMA BusyAreLast ==
    ASSUME NEW p, p # "luas"
    PROVE  /\ Len(Marks(p)) - Len(Busiest) \in Nat
           /\ Len(Busiest) \in Nat
           /\ \A i \in 1..Len(Busiest) :
                 Marks(p)[Len(Marks(p)) - Len(Busiest) + i].stop = Busiest[i].stop
<1> DEFINE cap == IF MarkerCap < Len(BusStops) THEN MarkerCap ELSE Len(BusStops)
           busy == [i \in 1..Len(Busiest) |->
                       [stop |-> Busiest[i].stop, icon |-> Level(Busiest[i].trips)]]
           plain == Plain(SubSeq(BusStops, 1, cap), 2)
           M == [stop : STRING, icon : 1..5]
<1>1. SubSeq(BusStops, 1, cap) \in Seq(STRING)
  BY StopsAssumption
<1>2. plain \in Seq(M)
  <2>1. \A s \in Seq(STRING) : Plain(s, 2) \in Seq(M)
    BY PlainType
  <2>2. QED
    BY <1>1, <2>1, Zenon
<1>3. Len(Busiest) \in Nat /\ busy \in Seq(M) /\ Len(busy) = Len(Busiest)
  <2>1. Len(Busiest) \in Nat
    BY StopsAssumption
  <2>2. \A i \in 1..Len(Busiest) :
            [stop |-> Busiest[i].stop, icon |-> Level(Busiest[i].trips)] \in M
    BY BusiestType
  <2>3. QED
    BY <2>1, <2>2
<1>4. Marks(p) = plain \o busy
  BY DEF Marks
<1>5. /\ Len(Marks(p)) = Len(plain) + Len(busy)
      /\ \A i \in 1..Len(busy) : Marks(p)[Len(plain) + i] = busy[i]
      /\ Len(plain) \in Nat
  BY <1>2, <1>3, <1>4
<1>6. \A i \in 1..Len(Busiest) : busy[i].stop = Busiest[i].stop
  OBVIOUS
<1> HIDE DEF busy, plain
<1>7. Len(Marks(p)) - Len(Busiest) = Len(plain)
  BY <1>3, <1>5
<1>8. QED
  BY <1>3, <1>5, <1>6, <1>7

LEMMA MadeType ==
    ASSUME NEW p, NEW l \in Nat
    PROVE  \A s \in DOMAIN Made(p, l) :
               s \in Stops(p) /\ Made(p, l)[s] \in 1..l
<1> DEFINE done == Finished(p, l)
           lastOf(s) == CHOOSE i \in done :
                           /\ Marks(p)[i].stop = s
                           /\ \A j \in done : Marks(p)[j].stop = s => j <= i
<1>1. done \subseteq 1..Len(Marks(p)) /\ \A i \in done : Marks(p)[i].icon <= l
  BY DEF Finished, Reached
<1>2. Marks(p) \in Seq([stop : STRING, icon : 1..5])
  BY MarksType
<1> SUFFICES ASSUME NEW s \in DOMAIN Made(p, l)
             PROVE  s \in Stops(p) /\ Made(p, l)[s] \in 1..l
  OBVIOUS
<1>3. s \in {Marks(p)[i].stop : i \in done}
  BY DEF Made
<1>4. Made(p, l)[s] = Marks(p)[lastOf(s)].icon
  BY <1>3 DEF Made
<1>5. lastOf(s) \in done
  <2> DEFINE D == {i \in done : Marks(p)[i].stop = s}
  <2>1. D \in SUBSET (0..Len(Marks(p))) /\ D # {} /\ Len(Marks(p)) \in Nat
    BY <1>1, <1>2, <1>3
  <2>2. \E i \in D : \A j \in D : j <= i
    BY <2>1, Greatest
  <2>3. QED
    BY <2>2
<1>6. s \in Stops(p)
  BY <1>1, <1>3 DEF Stops
<1> HIDE DEF done, lastOf
<1>7. /\ Marks(p)[lastOf(s)] \in [stop : STRING, icon : 1..5]
      /\ Marks(p)[lastOf(s)].icon <= l
  <2>1. lastOf(s) \in 1..Len(Marks(p)) /\ Marks(p)[lastOf(s)].icon <= l
    BY <1>1, <1>5
  <2>2. QED
    BY <1>2, <2>1, ElementOfSeq, Zenon
<1>8. Marks(p)[lastOf(s)].icon \in 1..l
  BY <1>7
<1>9. QED
  BY <1>4, <1>6, <1>8

\* Where no marker throws, all are made, and all circles.
LEMMA AllAreMade ==
    ASSUME NEW p, NEW l, ~Throws(p, l)
    PROVE  /\ DOMAIN Made(p, l) = Stops(p)
           /\ p = "bus" => Circled(p, l) = {Busiest[i].stop : i \in 1..Len(Busiest)}
<1>1. Finished(p, l) = 1..Len(Marks(p)) /\ Reached(p, l) = 1..Len(Marks(p))
  BY DEF Throws, Finished, Reached
<1>2. DOMAIN Made(p, l) = Stops(p)
  BY <1>1 DEF Made, Stops
<1>3. ASSUME p = "bus"
      PROVE  Circled(p, l) = {Busiest[i].stop : i \in 1..Len(Busiest)}
  <2> DEFINE k == Len(Marks(p)) - Len(Busiest)
             late == {i \in 1..Len(Marks(p)) : i > k}
  <2>1. k \in Nat /\ Len(Busiest) \in Nat
        /\ \A i \in 1..Len(Busiest) : Marks(p)[k + i].stop = Busiest[i].stop
    BY <1>3, BusyAreLast
  <2>2. Circled(p, l) = {Marks(p)[i].stop : i \in late}
    BY <1>1, <1>3 DEF Circled
  <2>3. Len(Marks(p)) = k + Len(Busiest)
    <3>1. Len(Marks(p)) \in Nat
      BY MarksType
    <3>2. QED
      BY <2>1, <3>1
  <2>4. \A i \in late : i - k \in 1..Len(Busiest) /\ i = k + (i - k)
    BY <2>1, <2>3
  <2>5. \A i \in 1..Len(Busiest) : k + i \in late
    BY <2>1, <2>3
  <2> HIDE DEF k, late
  <2>6. {Marks(p)[i].stop : i \in late} \subseteq {Busiest[i].stop : i \in 1..Len(Busiest)}
    BY <2>1, <2>4
  <2>7. {Busiest[i].stop : i \in 1..Len(Busiest)} \subseteq {Marks(p)[i].stop : i \in late}
    BY <2>1, <2>5
  <2>8. QED
    BY <2>2, <2>6, <2>7
<1>4. QED
  BY <1>2, <1>3

LEMMA CirclesAreStops == \A p, l : Circled(p, l) \subseteq Stops(p)
  BY DEF Circled, Reached, Stops

-----------------------------------------------------------------------------
LEMMA RouteIsFinite == IsFiniteSet(Route) /\ Cardinality(Route) = 4
<1>1. 1 \in Int /\ 4 \in Int /\ ~(1 > 4) /\ 4 - 1 + 1 = 4
  OBVIOUS
<1>2. IsFiniteSet(1..4)
      /\ Cardinality(1..4) = IF 1 > 4 THEN 0 ELSE 4 - 1 + 1
  BY <1>1, FS_Interval, Zenon
<1>3. QED
  BY <1>1, <1>2 DEF Route

LEMMA DoneIsCounted ==
    IsFiniteSet(Done) /\ Cardinality(Done) \in 0..Cardinality(Route)
<1>1. Done \in SUBSET Route
  BY DEF Done
<1>2. QED
  BY <1>1, RouteIsFinite, FS_Subset, FS_CardinalityType

LEMMA ScreenType ==
    ASSUME NEW p, NEW ready, NEW v, NEW ms, NEW ls, Build(p, ready, v, ms, ls)
    PROVE  screen'.up \in BOOLEAN
  BY DEF Build, LuasScreen, BusScreen, NoScreen

LEMMA FreshIsFine ==
    ASSUME NEW p \in Page \cup {"none"}, Fresh(p), screen'.up \in BOOLEAN
    PROVE  Inv'
<1>1. Len(Icons(p)) \in Nat
  BY DEF Icons
<1>2. <<NoPoints>> \in Seq({NoPoints} \cup Route) /\ Len(<<NoPoints>>) = 1
  OBVIOUS
<1>3. Done' = {}
  BY DEF Fresh, Done, Route
<1>4. Cardinality(Done') = 0
  BY <1>3, FS_EmptySet
<1>5. DOMAIN Nothing = {}
  BY DEF Nothing
<1>6. TypeOK'
  BY <1>1, <1>2, <1>5, RouteIsFinite DEF TypeOK, Fresh, Route, Icons
<1>7. LinesAreNumbered'
  BY <1>2, <1>4, <1>5 DEF LinesAreNumbered, Fresh
<1>8. ListsAreOwned'
  BY <1>2 DEF ListsAreOwned, Fresh
<1>9. RoutesFollowData' /\ DataAreWhole'
  BY DEF RoutesFollowData, DataAreWhole, Fresh
<1>10. QED
  BY <1>6, <1>7, <1>8, <1>9 DEF Inv

LEMMA InitInv == Init => Inv
<1> SUFFICES ASSUME Init PROVE Inv
  OBVIOUS
<1>1. <<NoPoints>> \in Seq({NoPoints} \cup Route) /\ Len(<<NoPoints>>) = 1
  OBVIOUS
<1>2. Done = {} /\ Cardinality(Done) = 0
  BY FS_EmptySet DEF Init, Done, Route
<1>3. DOMAIN Nothing = {} /\ Len(Icons(page)) \in Nat
  BY DEF Nothing, Icons
<1>4. TypeOK
  BY <1>1, <1>3, RouteIsFinite DEF TypeOK, Init, NoScreen, Route
<1>5. LinesAreNumbered
  BY <1>1, <1>2, <1>3 DEF LinesAreNumbered, Init
<1>6. ListsAreOwned
  BY <1>1 DEF ListsAreOwned, Init
<1>7. RoutesFollowData /\ DataAreWhole
  BY DEF RoutesFollowData, DataAreWhole, Init
<1>8. QED
  BY <1>4, <1>5, <1>6, <1>7 DEF Inv

-----------------------------------------------------------------------------
(* Every step.                                                             *)

LEMMA DataComesIsFine == Inv /\ DataComes => Inv'
<1> SUFFICES ASSUME Inv, DataComes PROVE Inv'
  OBVIOUS
<1> USE DEF Inv
<1>1. icons \in Nat /\ route \in [Route -> {"none", "asked", "done", "failed"}]
  <2>1. Len(Icons(page)) \in Nat
    BY DEF Icons
  <2>2. QED
    BY <2>1 DEF TypeOK
<1>2. \A r \in Route : route[r] = "none"
  BY DEF RoutesFollowData, DataComes
<1>3. Done = {} /\ Done' = {}
  BY <1>2, <1>1 DEF Done, DataComes
<1>4. screen'.up \in BOOLEAN
  <2>1. CASE circles' = {}
    BY <2>1 DEF DataComes, TypeOK
  <2>2. CASE circles' # {}
    BY <2>2, ScreenType DEF DataComes
  <2>3. QED
    BY <2>1, <2>2
<1>5. /\ \A s \in DOMAIN markers' : s \in Stops(page) /\ markers'[s] \in 1..icons
      /\ circles' \subseteq Stops(page)
  BY <1>1, MadeType, CirclesAreStops DEF DataComes
<1>6. TypeOK'
  BY <1>1, <1>4, <1>5 DEF TypeOK, DataComes
<1>7. LinesAreNumbered'
  BY <1>3 DEF LinesAreNumbered, DataComes
<1>8. ListsAreOwned'
  BY <1>2 DEF ListsAreOwned, DataComes, TypeOK, Colour
<1>9. RoutesFollowData'
  BY <1>1, <1>2 DEF RoutesFollowData, DataComes
<1>10. DataAreWhole'
  <2> SUFFICES ASSUME data' = "came"
               PROVE  /\ DOMAIN markers' = Stops(page)
                      /\ page = "bus" =>
                            circles' = {Busiest[i].stop : i \in 1..Len(Busiest)}
    BY DEF DataAreWhole, DataComes
  <2>1. ~Throws(page, icons)
    BY DEF DataComes
  <2>2. QED
    BY <2>1, AllAreMade DEF DataComes
<1>11. QED
  BY <1>6, <1>7, <1>8, <1>9, <1>10

LEMMA AnswerIsFine ==
    ASSUME Inv, NEW r \in Route, NEW points \in {r, NoPoints}, Answer(r, points)
    PROVE  Inv'
<1> USE DEF Inv
<1>1. /\ route \in [Route -> {"none", "asked", "done", "failed"}]
      /\ route[r] = "asked" /\ data = "came"
      /\ lists \in Seq({NoPoints} \cup Route)
      /\ count \in Nat
  BY RouteIsFinite DEF TypeOK, RoutesFollowData, Answer
<1>2. r \notin Done /\ Done' = Done \cup {r}
  BY <1>1 DEF Done, Answer
<1>3. Cardinality(Done') = count + 1
  BY <1>2, DoneIsCounted, FS_AddElement DEF LinesAreNumbered
<1>4. count' = count + 1 /\ count' \in 0..Cardinality(Route)
  <2>1. Done' \in SUBSET Route
    BY DEF Done
  <2>2. Cardinality(Done') \in 0..Cardinality(Route)
    BY <2>1, RouteIsFinite, FS_Subset, FS_CardinalityType
  <2>3. QED
    BY <1>3, <2>2 DEF Answer
<1>5. /\ lists' \in Seq({NoPoints} \cup Route)
      /\ Len(lists') = count + 2
      /\ Len(lists) = count + 1
      /\ lists'[count + 2] = points
      /\ \A i \in 1..count + 1 : lists'[i] = lists[i]
  BY <1>1 DEF LinesAreNumbered, Answer
<1>6. /\ DOMAIN lines' = 0..count
      /\ lines'[count] = [colour |-> Colour(page)[r], list |-> count + 2]
      /\ \A id \in 0..count - 1 : lines'[id] = lines[id]
  <2>1. DOMAIN lines = 0..count - 1
    BY DEF LinesAreNumbered
  <2>2. (0..count - 1) \cup {count} = 0..count
    BY <1>1
  <2>3. DOMAIN lines' = 0..count
    BY <2>1, <2>2 DEF Answer, AddLine
  <2>4. count \notin 0..count - 1 /\ count \in 0..count
    BY <1>1
  <2>5. QED
    BY <2>1, <2>2, <2>3, <2>4, <1>5 DEF Answer, AddLine
<1>7. page' = page /\ data' = data /\ icons' = icons /\ markers' = markers
      /\ circles' = circles /\ view' = view
  BY DEF Answer
<1>8. Colour(page)[r] \in {"red", "green"}
  BY DEF Colour, Route
<1>9. TypeOK'
  <2>1. route' \in [Route -> {"none", "asked", "done", "failed"}]
    BY <1>1 DEF Answer
  <2>2. \A id \in DOMAIN lines' :
            /\ id \in 0..count' - 1
            /\ lines'[id] \in [colour : {"red", "green"}, list : 1..Len(lists')]
    <3> SUFFICES ASSUME NEW id \in 0..count
                 PROVE  /\ id \in 0..count' - 1
                        /\ lines'[id] \in [colour : {"red", "green"}, list : 1..Len(lists')]
      BY <1>6
    <3>1. CASE id = count
      BY <3>1, <1>1, <1>4, <1>5, <1>6, <1>8
    <3>2. CASE id # count
      <4>1. id \in 0..count - 1 /\ id \in DOMAIN lines
        BY <1>1, <3>2 DEF LinesAreNumbered
      <4>2. lines[id] \in [colour : {"red", "green"}, list : 1..Len(lists)]
        BY <4>1 DEF TypeOK
      <4>3. 1..Len(lists) \subseteq 1..Len(lists')
        BY <1>1, <1>5
      <4>4. QED
        BY <1>1, <1>4, <1>6, <4>1, <4>2, <4>3
    <3>3. QED
      BY <3>1, <3>2
  <2>3. screen'.up \in BOOLEAN
    BY ScreenType DEF Answer
  <2>4. QED
    BY <1>4, <1>5, <1>7, <2>1, <2>2, <2>3
    DEF TypeOK
<1>10. LinesAreNumbered'
  <2>1. 0..count = 0..count' - 1
    BY <1>1, <1>4
  <2>2. \A id \in 0..count : lines'[id].list = id + 2
    <3> SUFFICES ASSUME NEW id \in 0..count PROVE lines'[id].list = id + 2
      OBVIOUS
    <3>1. CASE id = count
      BY <3>1, <1>6
    <3>2. CASE id # count
      <4>1. id \in 0..count - 1
        BY <1>1, <3>2
      <4>2. QED
        BY <4>1, <1>6 DEF LinesAreNumbered
    <3>3. QED
      BY <3>1, <3>2
  <2>3. QED
    BY <1>1, <1>3, <1>4, <1>5, <1>6, <2>1, <2>2 DEF LinesAreNumbered
<1>11. ListsAreOwned'
  <2> SUFFICES ASSUME NEW i \in 2..count + 2, lists'[i] # NoPoints
               PROVE  /\ route'[lists'[i]] = "done"
                      /\ lines'[i - 2].colour = Colour(page)[lists'[i]]
                      /\ \A j \in 2..count + 2 : lists'[j] = lists'[i] => j = i
    BY <1>5, <1>7 DEF ListsAreOwned, Colour
  \* A list from before has no points of r.
  <2>1. ASSUME NEW j \in 2..count + 1, lists'[j] # NoPoints
        PROVE  /\ lists'[j] = lists[j] /\ j \in 2..Len(lists)
               /\ route[lists'[j]] = "done" /\ lists'[j] # r
               /\ lists'[j] \in Route
    <3>1. lists'[j] = lists[j] /\ j \in 2..Len(lists)
      BY <1>1, <1>5
    <3>2. lists[j] \in Route
      BY <3>1, <2>1, <1>1
    <3>3. QED
      BY <3>1, <3>2, <2>1, <1>1 DEF ListsAreOwned
  <2>2. CASE i = count + 2
    <3>1. lists'[i] = r /\ points = r
      BY <2>2, <1>5
    <3>2. route'[r] = "done"
      BY <1>1 DEF Answer
    <3>3. lines'[i - 2].colour = Colour(page)[r]
      BY <2>2, <1>1, <1>6
    <3>4. \A j \in 2..count + 2 : lists'[j] = r => j = i
      <4> SUFFICES ASSUME NEW j \in 2..count + 2, lists'[j] = r, j # i
                   PROVE  FALSE
        OBVIOUS
      <4>1. j \in 2..count + 1 /\ lists'[j] # NoPoints
        BY <2>2, <1>1 DEF Route, NoPoints
      <4>2. QED
        BY <4>1, <2>1
    <3>5. QED
      BY <3>1, <3>2, <3>3, <3>4
  <2>3. CASE i # count + 2
    <3>1. i \in 2..count + 1
      BY <2>3, <1>1
    <3>2. /\ lists'[i] = lists[i] /\ i \in 2..Len(lists)
          /\ route[lists'[i]] = "done" /\ lists'[i] # r
          /\ lists'[i] \in Route
      BY <3>1, <2>1
    <3>3. route'[lists'[i]] = "done"
      BY <3>2, <1>1 DEF Answer
    <3>4. lines'[i - 2].colour = Colour(page)[lists'[i]]
      <4>1. i - 2 \in 0..count - 1
        BY <1>1, <3>1
      <4>2. lines[i - 2].colour = Colour(page)[lists[i]]
        BY <3>2 DEF ListsAreOwned
      <4>3. QED
        BY <4>1, <4>2, <3>2, <1>6
    <3>5. \A j \in 2..count + 2 : lists'[j] = lists'[i] => j = i
      <4> SUFFICES ASSUME NEW j \in 2..count + 2, lists'[j] = lists'[i]
                   PROVE  j = i
        OBVIOUS
      <4>1. CASE j = count + 2
        BY <4>1, <3>2, <1>5
      <4>2. CASE j # count + 2
        <5>1. j \in 2..count + 1 /\ j \in 2..Len(lists) /\ lists'[j] = lists[j]
          BY <4>2, <1>1, <1>5
        <5>2. QED
          BY <5>1, <3>2 DEF ListsAreOwned
      <4>3. QED
        BY <4>1, <4>2
    <3>6. QED
      BY <3>3, <3>4, <3>5
  <2>4. QED
    BY <2>2, <2>3
<1>12. RoutesFollowData' /\ DataAreWhole'
  BY <1>1, <1>7 DEF RoutesFollowData, DataAreWhole
<1>13. QED
  BY <1>9, <1>10, <1>11, <1>12

\* A step that leaves markers, routes and lines alone.
LEMMA QuietStep ==
    ASSUME Inv, screen'.up \in BOOLEAN, view' \in {"stations", "co2"},
           icons' \in icons..Len(Icons(page)),
           UNCHANGED <<page, data, markers, circles, route, lists, lines, count>>
    PROVE  Inv'
<1> USE DEF Inv
<1>1. icons \in 0..Len(Icons(page)) /\ Len(Icons(page)) \in Nat
  BY DEF TypeOK, Icons
<1>2. \A s \in DOMAIN markers : markers[s] \in 1..icons'
  BY <1>1 DEF TypeOK
<1>3. TypeOK'
  BY <1>1, <1>2 DEF TypeOK
<1>4. Done' = Done
  BY DEF Done
<1>5. LinesAreNumbered'
  BY <1>4 DEF LinesAreNumbered
<1>6. ListsAreOwned' /\ RoutesFollowData' /\ DataAreWhole'
  BY DEF ListsAreOwned, RoutesFollowData, DataAreWhole
<1>7. QED
  BY <1>3, <1>5, <1>6

LEMMA StepInv == Inv /\ [Next]_vars => Inv'
<1> SUFFICES ASSUME Inv, [Next]_vars PROVE Inv'
  OBVIOUS
<1>t. /\ icons \in 0..Len(Icons(page)) /\ Len(Icons(page)) \in Nat
      /\ page \in Page \cup {"none"} /\ view \in {"stations", "co2"}
      /\ screen.up \in BOOLEAN
      /\ icons \in icons..Len(Icons(page))
  BY DEF Inv, TypeOK, Icons
<1>1. ASSUME NEW p \in Page, Open(p) PROVE Inv'
  BY <1>1, FreshIsFine, ScreenType DEF Open
<1>2. CASE Close
  BY <1>2, FreshIsFine DEF Close, NoScreen
<1>3. CASE LoadIcon
  BY <1>3, <1>t, QuietStep DEF LoadIcon
<1>4. CASE DataComes
  BY <1>4, DataComesIsFine
<1>5. CASE DataFails
  <2>1. \A r \in Route : route[r] = "none"
    BY <1>5 DEF Inv, RoutesFollowData, DataFails
  <2>2. TypeOK'
    BY <1>5 DEF Inv, TypeOK, DataFails
  <2>3. Done' = Done
    BY <1>5 DEF DataFails, Done
  <2>4. LinesAreNumbered'
    BY <1>5, <2>3 DEF Inv, DataFails, LinesAreNumbered
  <2>5. ListsAreOwned' /\ RoutesFollowData' /\ DataAreWhole'
    BY <1>5, <2>1 DEF Inv, DataFails, ListsAreOwned, RoutesFollowData,
                      DataAreWhole, Colour
  <2>6. QED
    BY <2>2, <2>4, <2>5 DEF Inv
<1>6. CASE Rebuild
  BY <1>6, <1>t, QuietStep, ScreenType DEF Rebuild
<1>7. ASSUME NEW r \in Route, RouteFails(r) PROVE Inv'
  <2> USE DEF Inv
  <2>1. /\ route \in [Route -> {"none", "asked", "done", "failed"}]
        /\ data = "came" /\ route[r] = "asked"
    BY <1>7 DEF TypeOK, RoutesFollowData, RouteFails
  <2>2. /\ route' \in [Route -> {"none", "asked", "done", "failed"}]
        /\ \A q \in Route : route'[q] = "done" <=> route[q] = "done"
    BY <1>7, <2>1 DEF RouteFails
  <2>3. TypeOK'
    BY <1>7, <2>2 DEF TypeOK, RouteFails
  <2>4. Done' = Done
    BY <2>2 DEF Done
  <2>5. LinesAreNumbered'
    BY <1>7, <2>4 DEF LinesAreNumbered, RouteFails
  <2>6. ListsAreOwned'
    <3>1. \A i \in 2..Len(lists) : lists[i] # NoPoints => lists[i] \in Route
      BY DEF TypeOK
    <3>2. QED
      BY <1>7, <2>2, <3>1 DEF ListsAreOwned, RouteFails, Colour
  <2>7. RoutesFollowData' /\ DataAreWhole'
    BY <1>7, <2>1 DEF RoutesFollowData, DataAreWhole, RouteFails
  <2>8. QED
    BY <2>3, <2>5, <2>6, <2>7
<1>8. ASSUME NEW r \in Route, NEW points \in {r, NoPoints}, Answer(r, points)
      PROVE  Inv'
  BY <1>8, AnswerIsFine
<1>9. ASSUME NEW v \in {"stations", "co2"}, Toggle(v) PROVE Inv'
  BY <1>9, <1>t, QuietStep, ScreenType DEF Toggle
<1>10. CASE UNCHANGED vars
  BY <1>10, <1>t, QuietStep DEF vars
<1>11. QED
  BY <1>1, <1>2, <1>3, <1>4, <1>5, <1>6, <1>7, <1>8, <1>9, <1>10
  DEF Next, DataSettles, RouteSettles

THEOREM InvHolds == FairSpec => []Inv
<1>1. Spec => []Inv
  BY InitInv, StepInv, PTL DEF Spec
<1>2. QED
  BY <1>1, PTL DEF FairSpec

-----------------------------------------------------------------------------
\* The variables keep their types: in particular a marker has an icon that
\* was loaded when it was made.
THEOREM TypeCorrect == Spec => []TypeOK
<1>1. Inv => TypeOK
  BY DEF Inv
<1>2. QED
  BY <1>1, InitInv, StepInv, PTL DEF Spec

\* However the answers of the routing service are ordered, and whichever
\* fail, as many polylines are on the map as routes were answered.
THEOREM NoLineIsEverLost == Spec => []NoLineIsLost
<1>1. Inv => NoLineIsLost
  <2> SUFFICES ASSUME Inv PROVE NoLineIsLost
    OBVIOUS
  <2>1. count \in Nat /\ DOMAIN lines = 0..count - 1 /\ count = Cardinality(Done)
    BY RouteIsFinite DEF Inv, TypeOK, LinesAreNumbered
  <2>2. Cardinality(0..count - 1) = count
    BY <2>1, FS_Interval
  <2>3. QED
    BY <2>1, <2>2 DEF NoLineIsLost, Done
<1>2. QED
  BY <1>1, InitInv, StepInv, PTL DEF Spec

\* The shared field polylineCoordinates mixes up no points: a polyline has
\* those of one route, in its colour, and no other polyline has them.
THEOREM PointsStayApart == Spec => []LinesKeepTheirPoints
<1>1. Inv => LinesKeepTheirPoints
  <2> SUFFICES ASSUME Inv, NEW id \in DOMAIN lines, lists[lines[id].list] # NoPoints
               PROVE  /\ Colour(page)[lists[lines[id].list]] = lines[id].colour
                      /\ \A other \in DOMAIN lines \ {id} :
                            lists[lines[other].list] # lists[lines[id].list]
    BY DEF LinesKeepTheirPoints
  <2>1. /\ count \in Nat /\ DOMAIN lines = 0..count - 1 /\ Len(lists) = count + 1
        /\ \A k \in DOMAIN lines : lines[k].list = k + 2
    BY RouteIsFinite DEF Inv, TypeOK, LinesAreNumbered
  <2>2. \A k \in DOMAIN lines : k + 2 \in 2..Len(lists) /\ (k + 2) - 2 = k
    BY <2>1
  <2>3. QED
    BY <2>1, <2>2 DEF Inv, ListsAreOwned
<1>2. QED
  BY <1>1, InitInv, StepInv, PTL DEF Spec

\* A page with routes has every marker and circle of its data: an icon that
\* came too late breaks the answer off before the routes are asked for.
THEOREM RoutesComeLast == Spec => []LinesComeWithMarkers
<1>1. Inv => LinesComeWithMarkers
  BY DEF Inv, RoutesFollowData, DataAreWhole, LinesComeWithMarkers
<1>2. QED
  BY <1>1, InitInv, StepInv, PTL DEF Spec
=============================================================================
