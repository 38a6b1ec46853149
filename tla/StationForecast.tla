--------------------------- MODULE StationForecast ---------------------------
(***************************************************************************)
(* One station's document, from the predictor to the usage chart: how      *)
(* predictionApp/views.py and DataTransformer/views.py compute it, and     *)
(* which entry dublin_bikes_usage_chart.dart picks at what time.           *)
(*                                                                         *)
(* Entry 0 is the observation, entry i the forecast for 5*i minutes after  *)
(* the harvest.  The capacity the predictor scales with is a row of        *)
(* StationID_Stand.csv and never changes; the number of stands comes from  *)
(* the source with every snapshot.  Time is in minutes.                    *)
(*                                                                         *)
(* The server and the chart meet in the stamp only.  The server publishes  *)
(* its forecast as occupancy_list; the chart reads station_occupancy, a    *)
(* field that nothing in the repository writes and that the server's       *)
(* update() of the document therefore leaves as it is.  And the server     *)
(* writes the stamp of the secondary source, which is UTC, without a zone, *)
(* so that the app parses it as its own local time.                        *)
(***************************************************************************)
EXTENDS Integers

CONSTANTS Capacity,   \* maxBikes of the station in StationID_Stand.csv
          Slots,      \* forecasts the model returns: 288
          Step,       \* minutes between two forecasts: 5
          Raw,        \* what the regression may return, rounded
          StandCounts,\* the numbers of stands a source may report
          Usage,      \* station_occupancy of the document, in thousandths,
          LastUsage,  \* and the index of its last entry
          Zone,       \* minutes the app's local time is ahead of UTC
          Delays,     \* minutes from the moment a harvest is stamped with to
                      \* the commit: negative if stamped ahead
          MaxNow      \* bound: minutes

ASSUME CapacityAssumption == Capacity \in Nat \ {0}
ASSUME SlotsAssumption == Slots \in Nat \ {0}
ASSUME StepAssumption == Step = 5
ASSUME RawAssumption == Raw \subseteq Int
ASSUME StandsAssumption == StandCounts \subseteq Nat \ {0}
ASSUME UsageAssumption == LastUsage \in Nat /\ Usage \in [0..LastUsage -> 0..1000]
\* In Dublin 0 in winter and 60 in summer.  An app west of UTC, or a stamp
\* three minutes ahead of its clock, breaks the chart: see Index.
ASSUME ZoneAssumption == Zone \in Nat
ASSUME DelaysAssumption == Delays \subseteq {d \in Int : d >= -2}
ASSUME NowAssumption == MaxNow \in Nat

VARIABLES now,    \* the clock of the app, in its local time
          doc,    \* the station's document: what the server updates of it
          chart   \* what it shows, of which document, and how old that was

vars == <<now, doc, chart>>

Entry == 0..Slots
Source == {"primary", "secondary"}

-----------------------------------------------------------------------------
(* The predictor and the transformer.                                      *)

\* Faulty variants: no floor, no cap.
ClampNoFloor(y) == IF y > Capacity THEN Capacity ELSE y
ClampNoCap(y) == IF y < 0 THEN 0 ELSE y

\* predictDublinBikes: capped at the capacity, floored at zero.
Clamp(y) == IF y > Capacity THEN Capacity ELSE IF y < 0 THEN 0 ELSE y

\* The forecast follows the observation, which is not clamped.
Bikes(observed, raw) ==
    [i \in Entry |-> IF i = 0 THEN observed ELSE Clamp(raw[i])]

\* available_bikeStands.
FreeStands(d) == [i \in Entry |-> d.stands - d.bikes[i]]

\* Faulty variant: rounded up.
PerMilleUp(bikes, stands) == (1000 * bikes) \div stands + 1

\* calculateOccupancyList: "{:.3f}" rounds bikes/stands to the thousandth,
\* an exact tie to the even one.
PerMille(bikes, stands) ==
    LET q == (1000 * bikes) \div stands
        r == (1000 * bikes) % stands
    IN  IF 2 * r < stands \/ (2 * r = stands /\ q % 2 = 0) THEN q ELSE q + 1

Occupancy(d) == [i \in Entry |-> PerMille(d.bikes[i], d.stands)]

\* The moment the app takes a stamp for.  The primary's string is passed on
\* and taken to be local time; the secondary's is UTC, and loses its zone.
Parsed(source, moment) ==
    IF source = "secondary" THEN moment - Zone ELSE moment

-----------------------------------------------------------------------------
(* The chart.                                                              *)

\* (minutes / 5).round() of a Dart double: to the nearest, away from zero.
Nearest(minutes) ==
    IF minutes >= 0 THEN (minutes + 2) \div Step ELSE -((2 - minutes) \div Step)

\* Faulty variant: no fallback past the last forecast.
IndexUncapped(age) == Nearest(age)

\* getStationUsageData: past the end of the list the last entry is shown.  A
\* negative index, which an age of -3 gives, is a RangeError: the build of
\* the chart fails.
Index(age) == IF Nearest(age) < LastUsage THEN Nearest(age) ELSE LastUsage

-----------------------------------------------------------------------------
\* Of harvest, the true moment, the document has only the stamp.
Document == [bikes : [Entry -> Nat], stands : StandCounts,
             source : Source, harvest : Int, stamp : Int]

NoChart == [index |-> 0, source |-> "primary", age |-> 0]

TypeOK ==
    /\ now \in 0..MaxNow
    /\ doc \in Document
    /\ chart \in [index : Int, source : Source, age : Int]

Init ==
    /\ now = 0
    /\ \E stands \in StandCounts :
          doc = [bikes |-> [i \in Entry |-> 0], stands |-> stands,
                 source |-> "primary", harvest |-> 0, stamp |-> 0]
    /\ chart = NoChart

Tick == /\ now < MaxNow
        /\ now' = now + 1
        /\ UNCHANGED <<doc, chart>>

\* One cycle of the server commits the document of a snapshot harvested
\* some minutes ago, in which the station has no more bikes than stands.
Commit ==
    /\ \E stands \in StandCounts, raw \in [1..Slots -> Raw],
          delay \in Delays, source \in Source :
          \E observed \in 0..stands :
             doc' = [bikes |-> Bikes(observed, raw), stands |-> stands,
                     source |-> source, harvest |-> now - delay,
                     stamp |-> Parsed(source, now - delay)]
    /\ UNCHANGED <<now, chart>>

\* The dashboard is built: a snapshot arrived, or the page was opened.  The
\* chart shows Usage at the index, and remembers nothing of the document.
Build == /\ chart' = [index |-> Index(now - doc.stamp),
                      source |-> doc.source, age |-> now - doc.harvest]
         /\ UNCHANGED <<now, doc>>

Next == Tick \/ Commit \/ Build

Spec == Init /\ [][Next]_vars

-----------------------------------------------------------------------------
(* Properties.                                                             *)

\* No forecast exceeds what the station can hold, and where the source
\* reports at least the capacity, no entry has a negative number of stands.
StandsCoverBikes ==
    /\ \A i \in 1..Slots : doc.bikes[i] \in 0..Capacity
    /\ Capacity <= doc.stands => \A i \in Entry : FreeStands(doc)[i] >= 0

\* The occupancy and the free stands of a document tell one story: an entry
\* is over a hundred percent full exactly where stands are negative, by more
\* than the rounding hides.
OccupancyAgrees ==
    \A i \in Entry :
        /\ FreeStands(doc)[i] >= 0 => Occupancy(doc)[i] \in 0..1000
        /\ Occupancy(doc)[i] = 1000 /\ doc.stands < 1000 => FreeStands(doc)[i] = 0

\* The chart takes the entry for the time it is built at, to within half a
\* step, or the last one past the end of the list; of a document from the
\* secondary source it takes the entry for Zone minutes later.  It never
\* fails on an index out of range.  (The list is Usage: what the server
\* forecast is not shown at all.)
ChartTracksTime ==
    LET ahead == IF chart.source = "secondary" THEN Zone ELSE 0
    IN  /\ chart.index \in DOMAIN Usage
        /\ \/ Step * chart.index - (chart.age + ahead) \in -2..2
           \/ chart.index = LastUsage /\ chart.age + ahead > Step * LastUsage
=============================================================================
