------------------------ MODULE StationForecastProofs ------------------------
(***************************************************************************)
(* Theorems about StationForecast, for every capacity, number of forecasts *)
(* and model output, every list the chart reads and every summer time.     *)
(***************************************************************************)
EXTENDS StationForecast, TLAPS

\* The clamped forecast fits the station.
LEMMA ClampFits ==
  ASSUME NEW y \in Int
  PROVE  Clamp(y) \in 0..Capacity
BY CapacityAssumption DEF Clamp

\* The document's entries: the observation, then forecasts that fit.
LEMMA BikesFit ==
  ASSUME NEW observed \in Nat, NEW raw \in [1..Slots -> Raw]
  PROVE  /\ Bikes(observed, raw) \in [Entry -> Nat]
         /\ Bikes(observed, raw)[0] = observed
         /\ \A i \in 1..Slots : Bikes(observed, raw)[i] \in 0..Capacity
<1>1. ASSUME NEW i \in 1..Slots PROVE Clamp(raw[i]) \in 0..Capacity
  BY ClampFits, RawAssumption
<1>2. ASSUME NEW i \in Entry, i # 0 PROVE i \in 1..Slots
  BY <1>2, SlotsAssumption DEF Entry
<1>3. 0 \in Entry /\ 1..Slots \subseteq Entry /\ 0 \notin 1..Slots
  BY SlotsAssumption DEF Entry
<1>4. ASSUME NEW i \in Entry
      PROVE  (IF i = 0 THEN observed ELSE Clamp(raw[i])) \in Nat
  BY <1>1, <1>2, CapacityAssumption
<1> QED
  BY <1>1, <1>3, <1>4 DEF Bikes

\* For an age of -2 or more the index is in range, and it belongs to
\* a time within two minutes of now unless the list has run out.
LEMMA IndexTracks ==
  ASSUME NEW age \in Int, age >= -2
  PROVE  /\ Index(age) \in 0..LastUsage
         /\ \/ Step * Index(age) - age \in -2..2
            \/ Index(age) = LastUsage /\ age > Step * LastUsage
<1>1. Nearest(age) \in Nat /\ 5 * Nearest(age) - age \in -2..2
  BY StepAssumption DEF Nearest
<1>2. CASE Nearest(age) < LastUsage
  BY <1>1, <1>2, StepAssumption, UsageAssumption DEF Index
<1>3. CASE ~(Nearest(age) < LastUsage)
  <2>1. Index(age) = LastUsage /\ LastUsage \in 0..LastUsage
    BY <1>3, UsageAssumption DEF Index
  <2>2. CASE Nearest(age) = LastUsage
    BY <2>1, <2>2, <1>1, StepAssumption
  <2>3. CASE Nearest(age) > LastUsage
    <3>1. age > 5 * LastUsage
      BY <2>3, <1>1, UsageAssumption
    <3> QED
      BY <2>1, <3>1, StepAssumption
  <2> QED
    BY <1>1, <1>3, <2>2, <2>3, UsageAssumption
<1> QED
  BY <1>2, <1>3

\* Rounding hides nothing that the stands of a station would show: a share
\* of one needs every stand taken where there are less than a thousand.
LEMMA PerMilleAgrees ==
  ASSUME NEW b \in Nat, NEW s \in Nat \ {0}
  PROVE  /\ PerMille(b, s) \in Nat
         /\ b <= s => PerMille(b, s) <= 1000
         /\ PerMille(b, s) = 1000 /\ s < 1000 => b = s
<1> DEFINE q == (1000 * b) \div s
           r == (1000 * b) % s
<1>1. q \in Int /\ r \in 0..s - 1 /\ 1000 * b = s * q + r
  OBVIOUS
<1>2. PerMille(b, s) \in {q, q + 1} /\ (PerMille(b, s) = q + 1 => 2 * r >= s)
  BY <1>1 DEF PerMille
<1> HIDE DEF q, r
<1>3. q >= 0
  <2>1. q \in Nat \/ q <= -1
    BY <1>1
  <2>2. ASSUME q <= -1 PROVE FALSE
    <3>1. s * q <= -s
      <4>1. q + 1 <= 0 /\ q + 1 \in Int
        BY <2>2, <1>1
      <4>2. \A k \in Int : k <= 0 => s * k <= 0
        OBVIOUS
      <4>3. s * (q + 1) <= 0
        BY <4>1, <4>2
      <4>4. s * (q + 1) = s * q + s
        BY <1>1
      <4>5. s * q \in Int
        BY <1>1
      <4>6. QED
        BY <4>3, <4>4, <4>5
    <3>2. s * q \in Int
      BY <1>1
    <3>3. QED
      BY <1>1, <3>1, <3>2
  <2>3. QED
    BY <2>1, <2>2
\* The remainder decides: s * q is at most 1000 * s.
<1>4. ASSUME b <= s PROVE q <= 1000 /\ (q = 1000 => r = 0)
  <2>1. ASSUME q >= 1001 PROVE FALSE
    <3>1. \A k \in Int : k >= 0 => s * k >= 0
      OBVIOUS
    <3>2. s * (q - 1001) >= 0
      BY <2>1, <3>1, <1>1
    <3>3. s * (q - 1001) = s * q - 1001 * s
      BY <1>1
    <3>4. s * q \in Int
      BY <1>1
    <3>5. QED
      BY <1>1, <1>4, <3>2, <3>3, <3>4
  <2>2. q = 1000 => r = 0
    BY <1>1, <1>4
  <2>3. QED
    BY <2>1, <2>2, <1>1
<1>5. ASSUME b <= s PROVE PerMille(b, s) <= 1000
  <2>1. q \in 0..1000 /\ (q = 1000 => r = 0)
    BY <1>1, <1>3, <1>4, <1>5
  <2>2. q = 1000 => PerMille(b, s) = q
    BY <1>1, <1>2, <2>1
  <2>3. QED
    BY <1>2, <2>1, <2>2
<1>6. ASSUME PerMille(b, s) = 1000, s < 1000 PROVE b = s
  <2>1. CASE q = 1000
    BY <2>1, <1>1, <1>6
  <2>2. CASE q = 999
    <3>1. 1000 * b = 999 * s + r /\ 2 * r >= s
      BY <2>2, <1>1, <1>2, <1>6
    <3>2. QED
      BY <3>1, <1>1, <1>6
  <2>3. QED
    BY <1>1, <1>2, <1>6, <2>1, <2>2
<1>7. PerMille(b, s) \in Nat
  BY <1>1, <1>2, <1>3
<1>8. QED
  BY <1>5, <1>6, <1>7

-----------------------------------------------------------------------------
\* The invariant behind the properties: a document is at most two minutes
\* from the future, its stamp is its moment as the app parses it, and its
\* observation fits the stands reported with it.
Inv ==
    /\ TypeOK
    /\ doc.harvest <= now + 2
    /\ doc.stamp = Parsed(doc.source, doc.harvest)
    /\ doc.bikes[0] <= doc.stands
    /\ \A i \in 1..Slots : doc.bikes[i] \in 0..Capacity
    /\ ChartTracksTime

LEMMA InvInit == Init => Inv
<1> SUFFICES ASSUME Init PROVE Inv
  OBVIOUS
<1>1. 0 \in Entry /\ 1..Slots \subseteq Entry
  BY SlotsAssumption DEF Entry
<1>2. PICK stands \in StandCounts :
         doc = [bikes |-> [i \in Entry |-> 0], stands |-> stands,
                source |-> "primary", harvest |-> 0, stamp |-> 0]
  BY DEF Init
<1>3. stands \in Nat /\ 0 <= stands
  BY StandsAssumption
<1>4. TypeOK
  BY <1>2, NowAssumption DEF Init, TypeOK, Document, NoChart, Source
<1>5. /\ doc.harvest <= now + 2 /\ doc.bikes[0] <= doc.stands
      /\ doc.stamp = Parsed(doc.source, doc.harvest)
  BY <1>1, <1>2, <1>3 DEF Init, Parsed
<1>6. \A i \in 1..Slots : doc.bikes[i] \in 0..Capacity
  BY <1>1, <1>2, CapacityAssumption
<1>7. ChartTracksTime
  BY StepAssumption, UsageAssumption DEF Init, NoChart, ChartTracksTime
<1> QED
  BY <1>4, <1>5, <1>6, <1>7 DEF Inv

LEMMA InvStep == Inv /\ [Next]_vars => Inv'
<1> SUFFICES ASSUME Inv, [Next]_vars PROVE Inv'
  OBVIOUS
<1>1. CASE Tick
  BY <1>1, NowAssumption DEF Inv, TypeOK, Document, ChartTracksTime, Tick
<1>2. CASE Commit
  <2>0. PICK stands \in StandCounts, raw \in [1..Slots -> Raw],
              delay \in Delays, source \in Source :
           \E observed \in 0..stands :
              doc' = [bikes |-> Bikes(observed, raw), stands |-> stands,
                      source |-> source, harvest |-> now - delay,
                      stamp |-> Parsed(source, now - delay)]
    BY <1>2 DEF Commit
  <2>1. PICK observed \in 0..stands :
           doc' = [bikes |-> Bikes(observed, raw), stands |-> stands,
                   source |-> source, harvest |-> now - delay,
                   stamp |-> Parsed(source, now - delay)]
    BY <2>0
  <2>2. stands \in Nat /\ delay \in Int /\ delay >= -2 /\ observed \in Nat /\ observed <= stands
    BY StandsAssumption, DelaysAssumption
  <2>3. now \in Nat /\ now - delay \in Int /\ now - delay <= now + 2
    BY <2>2, NowAssumption DEF Inv, TypeOK
  <2>4. UNCHANGED <<now, chart>>
    BY <1>2 DEF Commit
  <2>5. Parsed(source, now - delay) \in Int
    BY <2>3, ZoneAssumption DEF Parsed
  <2>6. /\ doc' \in Document /\ doc'.harvest <= now + 2
        /\ doc'.stamp = Parsed(doc'.source, doc'.harvest)
    BY <2>1, <2>2, <2>3, <2>5, BikesFit DEF Document
  <2>7. /\ doc'.bikes[0] <= doc'.stands
        /\ \A i \in 1..Slots : doc'.bikes[i] \in 0..Capacity
    BY <2>1, <2>2, BikesFit
  <2> QED
    BY <2>4, <2>6, <2>7 DEF Inv, TypeOK, ChartTracksTime
<1>3. CASE Build
  <2> DEFINE age == now - doc.harvest
             ahead == IF doc.source = "secondary" THEN Zone ELSE 0
             read == now - doc.stamp
  <2>1. age \in Int /\ age >= -2 /\ ahead \in Nat /\ doc.source \in Source
    BY NowAssumption, ZoneAssumption DEF Inv, TypeOK, Document
  <2>2. read = age + ahead /\ read \in Int /\ read >= -2
    <3>1. now \in Int /\ doc.harvest \in Int /\ doc.stamp = Parsed(doc.source, doc.harvest)
      BY NowAssumption DEF Inv, TypeOK, Document
    <3> QED
      BY <2>1, <3>1, ZoneAssumption DEF Parsed
  <2>3. /\ chart' = [index |-> Index(read), source |-> doc.source, age |-> age]
        /\ UNCHANGED <<now, doc>>
    BY <1>3 DEF Build
  <2>4. (IF chart'.source = "secondary" THEN Zone ELSE 0) = ahead
    BY <2>3
  <2> HIDE DEF age, ahead, read
  <2>5. /\ Index(read) \in 0..LastUsage
        /\ \/ Step * Index(read) - read \in -2..2
           \/ Index(read) = LastUsage /\ read > Step * LastUsage
    BY <2>2, IndexTracks
  <2>6. Index(read) \in Int /\ ChartTracksTime'
    BY <2>2, <2>3, <2>4, <2>5, UsageAssumption DEF ChartTracksTime
  <2> QED
    BY <2>1, <2>3, <2>6 DEF Inv, TypeOK
<1>4. CASE UNCHANGED vars
  BY <1>4 DEF vars, Inv, TypeOK, ChartTracksTime
<1> QED
  BY <1>1, <1>2, <1>3, <1>4 DEF Next

LEMMA InvAlways == Spec => []Inv
BY InvInit, InvStep, PTL DEF Spec

\* Documents and chart keep their types.
THEOREM TypeCorrect == Spec => []TypeOK
<1>1. Inv => TypeOK
  BY DEF Inv
<1> QED
  BY <1>1, InvAlways, PTL

\* The occupancy published for an entry agrees with its free stands, for any
\* number of stands: it is over one only where stands are negative, and one
\* only where none is free.
THEOREM OccupancyIsTrue == Spec => []OccupancyAgrees
<1>1. Inv => OccupancyAgrees
  <2> SUFFICES ASSUME Inv, NEW i \in Entry
               PROVE  /\ FreeStands(doc)[i] >= 0 => Occupancy(doc)[i] \in 0..1000
                      /\ Occupancy(doc)[i] = 1000 /\ doc.stands < 1000 =>
                            FreeStands(doc)[i] = 0
    BY DEF OccupancyAgrees
  <2>1. doc.stands \in Nat \ {0} /\ doc.bikes[i] \in Nat
    BY StandsAssumption DEF Inv, TypeOK, Document
  <2>2. PICK b \in Nat, s \in Nat \ {0} : b = doc.bikes[i] /\ s = doc.stands
    BY <2>1
  <2>3. FreeStands(doc)[i] = s - b /\ Occupancy(doc)[i] = PerMille(b, s)
    BY <2>2 DEF FreeStands, Occupancy
  <2>4. /\ PerMille(b, s) \in Nat
        /\ b <= s => PerMille(b, s) <= 1000
        /\ PerMille(b, s) = 1000 /\ s < 1000 => b = s
    BY PerMilleAgrees
  <2>5. /\ s - b >= 0 => b <= s
        /\ b = s => s - b = 0
    OBVIOUS
  <2>6. QED
    BY <2>2, <2>3, <2>4, <2>5
<1> QED
  BY <1>1, InvAlways, PTL

\* Forecasts stay within the capacity, and stands below zero need a source
\* that reports fewer stands than the capacity file.
THEOREM StandsAreCovered == Spec => []StandsCoverBikes
<1>1. Inv => StandsCoverBikes
  <2> SUFFICES ASSUME Inv PROVE StandsCoverBikes
    OBVIOUS
  <2>1. doc.stands \in Nat
    BY StandsAssumption DEF Inv, TypeOK, Document
  <2>2. ASSUME Capacity <= doc.stands, NEW i \in Entry
        PROVE  doc.stands - doc.bikes[i] >= 0
    <3>1. doc.bikes[i] \in Nat
      BY DEF Inv, TypeOK, Document
    <3>2. CASE i = 0
      BY <2>1, <3>1, <3>2 DEF Inv
    <3>3. CASE i # 0
      <4>1. i \in 1..Slots
        BY <3>3, SlotsAssumption DEF Entry
      <4>2. doc.bikes[i] \in 0..Capacity
        BY <4>1 DEF Inv
      <4> QED
        BY <2>1, <2>2, <4>2, CapacityAssumption
    <3> QED
      BY <3>2, <3>3
  <2> QED
    BY <2>2 DEF Inv, StandsCoverBikes, FreeStands
<1> QED
  BY <1>1, InvAlways, PTL

\* The chart never reads out of range, and it takes the entry for its time of
\* a document from the primary source and one for Zone minutes later of a
\* document from the secondary, whatever list it reads.
THEOREM ChartIsTimely == Spec => []ChartTracksTime
<1>1. Inv => ChartTracksTime
  BY DEF Inv
<1> QED
  BY <1>1, InvAlways, PTL
=============================================================================
