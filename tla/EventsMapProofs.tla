--------------------------- MODULE EventsMapProofs ---------------------------
(***************************************************************************)
(* What holds of the events map for every set of venues, every choice of   *)
(* stops near them, and any number of runs and versions.                   *)
(***************************************************************************)
EXTENDS EventsMap, SequenceTheorems, TLAPS

\* The run that was started last carries the days of the filter as it
\* stands, and nothing a returned run left is in its way.
LastRunIsCurrent ==
    runs # << >> => runs[Len(runs)] = Days(filter)

\* Documents come and do not go: markers are those of documents, and without
\* event markers there are none at all.
DrawnFromDocuments ==
    /\ events # None => snap # 0
    /\ events = None => stops = {}
    /\ first # 0 => snap # 0

Inv == /\ TypeOK
       /\ StopsMatchSelection
       /\ QuietIsSettled
       /\ LastRunIsCurrent
       /\ DrawnFromDocuments

-----------------------------------------------------------------------------
LEMMA DaysType == \A f : Days(f) \in {7, 14, 21, 30}
  BY DEF Days

LEMMA NearType == \A c : NearOf(c) \subseteq BusStop
  BY NearAssumption DEF NearOf, BusStop

\* What a new widget starts from.
LEMMA FreshIsFine ==
    ASSUME NEW o \in BOOLEAN, NEW v \in 0..MaxVersion,
           NEW w \in {<< >>, << 30 >>},
           o = FALSE \/ w = << 30 >>,
           docs' \in Version, Fresh(o, v, w)
    PROVE  Inv'
<1>1. TypeOK'
  <2>1. << >> \in Seq({7, 14, 21, 30}) /\ << 30 >> \in Seq({7, 14, 21, 30})
    OBVIOUS
  <2>2. "No Bus Stops" \in StopChoice
    BY NoStopsAssumption
  <2>3. None \in Listing
    BY BoundsAssumption DEF None, Listing
  <2>4. Blank \in Screen
    BY <2>2, <2>3 DEF Blank, Screen, DateFilter
  <2>5. QED
    BY <2>1, <2>2, <2>3, <2>4 DEF TypeOK, Fresh, DateFilter
<1>2. StopsMatchSelection'
  BY DEF StopsMatchSelection, Fresh, Blank
<1>3. QuietIsSettled'
  <2>1. CASE o = FALSE
    BY <2>1 DEF QuietIsSettled, Fresh
  <2>2. CASE w = << 30 >>
    <3>1. << 30 >> # << >>
      OBVIOUS
    <3>2. QED
      BY <2>2, <3>1 DEF QuietIsSettled, Fresh
  <2>3. QED
    BY <2>1, <2>2
<1>4. LastRunIsCurrent'
  <2>1. CASE w = << >>
    BY <2>1 DEF LastRunIsCurrent, Fresh
  <2>2. CASE w = << 30 >>
    <3>1. runs' = << 30 >> /\ filter' = "All Upcoming Events"
      BY <2>2 DEF Fresh
    <3>2. Len(<< 30 >>) = 1 /\ << 30 >>[1] = 30
      OBVIOUS
    <3>3. Days("All Upcoming Events") = 30
      BY DEF Days
    <3>4. runs'[Len(runs')] = Days(filter')
      BY <3>1, <3>2, <3>3
    <3>5. QED
      BY <3>4 DEF LastRunIsCurrent, Days
  <2>3. QED
    BY <2>1, <2>2
<1>5. DrawnFromDocuments'
  BY DEF DrawnFromDocuments, Fresh
<1>6. QED
  BY <1>1, <1>2, <1>3, <1>4, <1>5 DEF Inv

\* What the next build shows is what the state says.
LEMMA BuildIsFine ==
    ASSUME NEW f \in DateFilter, NEW c \in StopChoice, NEW es \in Listing,
           NEW ss \in SUBSET BusStop, ss \subseteq NearOf(c),
           Build(f, c, es, ss)
    PROVE  screen' \in Screen /\ screen'.stops \subseteq NearOf(screen'.stop)
  BY DEF Build, Screen

LEMMA InitInv == Init => Inv
<1> SUFFICES ASSUME Init PROVE Inv
  OBVIOUS
<1>1. None \in Listing
  BY BoundsAssumption DEF None, Listing
<1>2. Blank \in Screen
  BY <1>1, NoStopsAssumption DEF Blank, Screen, DateFilter
<1>3. << >> \in Seq({7, 14, 21, 30})
  OBVIOUS
<1>4. docs \in Version /\ snap \in 0..MaxVersion /\ first \in 0..MaxVersion
  <2>1. 1 \in 1..MaxVersion /\ 0 \in 0..MaxVersion
    BY BoundsAssumption
  <2>2. QED
    BY <2>1, Zenon DEF Init, Version
<1>5. TypeOK
  BY <1>1, <1>2, <1>3, <1>4, NoStopsAssumption DEF TypeOK, Init, DateFilter
<1>6. QED
  BY <1>5 DEF Inv, Init, StopsMatchSelection, QuietIsSettled, LastRunIsCurrent,
              DrawnFromDocuments, Blank

-----------------------------------------------------------------------------
(* Every step.                                                             *)

\* A dropdown puts a run of its own at the end of the queue.
LEMMA QueueIsCurrent ==
    ASSUME TypeOK, NEW f \in DateFilter,
           runs' = Append(runs, Days(f)), filter' = f
    PROVE  /\ runs' \in Seq({7, 14, 21, 30})
           /\ runs' # << >>
           /\ LastRunIsCurrent'
<1>1. runs \in Seq({7, 14, 21, 30}) /\ Days(f) \in {7, 14, 21, 30}
  BY DaysType DEF TypeOK
<1>2. /\ runs' \in Seq({7, 14, 21, 30})
      /\ Len(runs') = Len(runs) + 1
      /\ runs'[Len(runs) + 1] = Days(f)
  BY <1>1
<1>3. runs' # << >>
  BY <1>1, <1>2
<1>4. runs'[Len(runs')] = Days(filter')
  BY <1>2
<1>5. QED
  BY <1>2, <1>3, <1>4 DEF LastRunIsCurrent, Days

\* A run that comes back is settled by the next one, or settles the map.
LEMMA FinishIsFine == Inv /\ Finish => Inv'
<1> SUFFICES ASSUME Inv, Finish PROVE Inv'
  OBVIOUS
<1> USE DEF Inv
<1>1. runs \in Seq({7, 14, 21, 30}) /\ runs # << >>
  BY DEF TypeOK, Finish
<1>2. /\ Tail(runs) \in Seq({7, 14, 21, 30})
      /\ Len(Tail(runs)) = Len(runs) - 1
      /\ \A i \in 1..Len(runs) - 1 : Tail(runs)[i] = runs[i + 1]
      /\ Head(runs) = runs[1]
      /\ Head(runs) \in {7, 14, 21, 30}
      /\ Len(runs) \in Nat \ {0}
  BY <1>1
<1>t. /\ snap \in 0..MaxVersion /\ events \in Listing
      /\ stops \in SUBSET BusStop
  BY DEF TypeOK
<1>3. stops' \subseteq NearOf(stop) /\ stops' \in SUBSET BusStop
  BY <1>t, NearType DEF StopsMatchSelection, Finish
<1>4. TypeOK'
  <2>1. events' \in Listing
    BY <1>2, <1>t DEF Finish, Listing
  <2>2. QED
    BY <1>2, <1>3, <2>1 DEF TypeOK, Finish, page
<1>5. StopsMatchSelection'
  BY <1>3 DEF StopsMatchSelection, Finish, NearOf
<1>d. snap # 0 => /\ events' # None /\ stops' = NearOf(stop)
                  /\ events'.days = Head(runs)
  <2> SUFFICES ASSUME snap # 0
               PROVE  /\ events' # None /\ stops' = NearOf(stop)
                      /\ events'.days = Head(runs)
    OBVIOUS
  <2>1. events' = [days |-> Head(runs), version |-> snap]
    BY DEF Finish
  <2>2. events'.version # None.version
    BY <2>1 DEF None
  <2>3. stops' = NearOf(stop)
    BY DEF StopsMatchSelection, Finish
  <2>4. QED
    BY <2>1, <2>2, <2>3
<1>8. DrawnFromDocuments'
  BY <1>d DEF DrawnFromDocuments, Finish, page
<1>6. QuietIsSettled'
  <2>1. CASE Len(runs) = 1
    <3>1. Head(runs) = Days(filter)
      BY <1>1, <1>2, <2>1 DEF LastRunIsCurrent
    <3>2. CASE snap # 0
      BY <1>d, <3>1, <3>2 DEF QuietIsSettled, Finish, NearOf, Days
    <3>3. CASE snap = 0
      BY <3>3, <1>8 DEF QuietIsSettled, DrawnFromDocuments, Finish, page
    <3>4. QED
      BY <3>2, <3>3
  <2>2. CASE Len(runs) # 1
    <3>1. Len(Tail(runs)) > 0
      BY <1>2, <2>2
    <3>2. runs' # << >>
      <4>1. Len(<< >>) = 0 /\ ~(0 > 0)
        BY EmptySeq
      <4>2. Tail(runs) # << >>
        BY <3>1, <4>1, Zenon
      <4>3. QED
        BY <4>2 DEF Finish
    <3>3. QED
      BY <3>2 DEF QuietIsSettled
  <2>3. QED
    BY <2>1, <2>2
<1>7. LastRunIsCurrent'
  <2>1. CASE Len(runs) = 1
    <3>1. Tail(runs) = << >>
      <4>1. Len(Tail(runs)) \notin Nat \ {0}
        BY <1>2, <2>1
      <4>2. QED
        BY <1>2, <4>1, EmptySeq, Zenon
    <3>2. QED
      BY <3>1 DEF LastRunIsCurrent, Finish
  <2>2. CASE Len(runs) # 1
    <3>1. Tail(runs)[Len(Tail(runs))] = runs[Len(runs)]
      BY <1>2, <2>2
    <3>2. QED
      BY <1>1, <3>1 DEF LastRunIsCurrent, Finish, Days
  <2>3. QED
    BY <2>1, <2>2
<1>9. QED
  BY <1>4, <1>5, <1>6, <1>7, <1>8

LEMMA StepInv == Inv /\ [Next]_vars => Inv'
<1> SUFFICES ASSUME Inv, [Next]_vars PROVE Inv'
  OBVIOUS
<1> USE DEF Inv
<1>t. /\ docs \in Version /\ snap \in 0..MaxVersion
      /\ open \in BOOLEAN /\ first \in 0..MaxVersion
      /\ filter \in DateFilter /\ stop \in StopChoice
      /\ events \in Listing /\ stops \in SUBSET BusStop
      /\ runs \in Seq({7, 14, 21, 30}) /\ screen \in Screen
  BY DEF TypeOK
<1>1. CASE Update
  <2>1. docs' \in Version
    BY <1>1, <1>t, BoundsAssumption DEF Update, Version
  <2>2. QED
    BY <1>1, <2>1 DEF Update, TypeOK, StopsMatchSelection, QuietIsSettled,
                      LastRunIsCurrent, DrawnFromDocuments, page, NearOf, Days
<1>2. CASE Open
  <2>1. PICK v \in 0..docs : Fresh(TRUE, v, << 30 >>) /\ docs' \in Version
    BY <1>2, <1>t DEF Open
  <2>2. v \in 0..MaxVersion
    BY <2>1, <1>t, BoundsAssumption DEF Version
  <2>3. QED
    BY <2>1, <2>2, FreshIsFine
<1>3. CASE Deliver
  <2>1. Build(filter, stop, events, stops)
    BY <1>3 DEF Deliver
  <2>2. screen' \in Screen /\ screen'.stops \subseteq NearOf(screen'.stop)
    BY <2>1, <1>t, BuildIsFine DEF StopsMatchSelection
  <2>3. snap' \in 0..MaxVersion /\ snap' # 0
    BY <1>3, <1>t, BoundsAssumption DEF Deliver, Version
  <2>4. QED
    BY <1>3, <2>2, <2>3, <1>t
    DEF Deliver, TypeOK, StopsMatchSelection, QuietIsSettled,
        LastRunIsCurrent, DrawnFromDocuments, page, NearOf, Days
<1>4. CASE Rebuild
  <2>1. Build(filter, stop, events, stops)
    BY <1>4 DEF Rebuild
  <2>2. screen' \in Screen /\ screen'.stops \subseteq NearOf(screen'.stop)
    BY <2>1, <1>t, BuildIsFine DEF StopsMatchSelection
  <2>3. QED
    BY <1>4, <2>2
    DEF Rebuild, TypeOK, StopsMatchSelection, QuietIsSettled,
        LastRunIsCurrent, DrawnFromDocuments, page, NearOf, Days
<1>5. CASE Finish
  BY <1>5, FinishIsFine
<1>6. CASE Close
  <2>1. Fresh(FALSE, 0, << >>) /\ docs' \in Version
    BY <1>6, <1>t DEF Close
  <2>2. 0 \in 0..MaxVersion
    BY BoundsAssumption
  <2>3. QED
    BY <2>1, <2>2, FreshIsFine
<1>7. ASSUME NEW f \in DateFilter, SelectDays(f) PROVE Inv'
  <2>1. Build(f, stop, events, stops)
    BY <1>7 DEF SelectDays
  <2>2. screen' \in Screen /\ screen'.stops \subseteq NearOf(screen'.stop)
    BY <2>1, <1>t, BuildIsFine DEF StopsMatchSelection
  <2>3. /\ runs' \in Seq({7, 14, 21, 30})
        /\ runs' # << >>
        /\ LastRunIsCurrent'
    BY <1>7, QueueIsCurrent DEF SelectDays
  <2>4. QED
    BY <1>7, <2>2, <2>3
    DEF SelectDays, TypeOK, StopsMatchSelection, QuietIsSettled,
        DrawnFromDocuments, page, NearOf
<1>8. ASSUME NEW c \in StopChoice, SelectStop(c) PROVE Inv'
  <2>1. Build(filter, c, events, {})
    BY <1>8 DEF SelectStop
  <2>2. screen' \in Screen /\ screen'.stops \subseteq NearOf(screen'.stop)
    BY <2>1, <1>t, BuildIsFine
  <2>3. /\ runs' \in Seq({7, 14, 21, 30})
        /\ runs' # << >>
        /\ LastRunIsCurrent'
    BY <1>8, <1>t, QueueIsCurrent DEF SelectStop
  <2>4. QED
    BY <1>8, <2>2, <2>3
    DEF SelectStop, TypeOK, StopsMatchSelection, QuietIsSettled,
        DrawnFromDocuments, page, NearOf
<1>9. CASE UNCHANGED vars
  BY <1>9 DEF vars, TypeOK, StopsMatchSelection, QuietIsSettled,
              LastRunIsCurrent, DrawnFromDocuments, page, NearOf, Days
<1>10. QED
  BY <1>1, <1>2, <1>3, <1>4, <1>5, <1>6, <1>7, <1>8, <1>9 DEF Next

THEOREM InvHolds == Spec => []Inv
  BY InitInv, StepInv, PTL DEF Spec

\* The page's state keeps its types: what waits are runs for the days of one
\* of the entries, and every stop on the map is near a venue.
THEOREM TypeCorrect == Spec => []TypeOK
<1>1. Inv => TypeOK
  BY DEF Inv
<1>2. QED
  BY <1>1, InvHolds, PTL

\* However selections and returning runs interleave, no stop of a venue that
\* is not selected any more is kept or shown: SelectStop clears what Finish
\* adds to, and Finish reads the selection after its last await.
THEOREM StopsFollowSelection == Spec => []StopsMatchSelection
<1>1. Inv => StopsMatchSelection
  BY DEF Inv
<1>2. QED
  BY <1>1, InvHolds, PTL

\* Once no run of getMarkerData is waiting, the event markers and the stops
\* are those of the two dropdowns, whatever the user selected meanwhile; only a
\* page that was opened with an empty snapshot, and whose runs have come back
\* to one, has no markers at all.
THEOREM LastSelectionWins == Spec => []QuietIsSettled
<1>1. Inv => QuietIsSettled
  BY DEF Inv
<1>2. QED
  BY <1>1, InvHolds, PTL

-----------------------------------------------------------------------------
(* Versions.                                                               *)

\* What is shown is not newer than what the last run listed, that is not
\* newer than the snapshot it read, and no snapshot is ahead of the documents.
VersionsInOrder ==
    /\ screen.events.version <= events.version
    /\ events.version <= snap
    /\ snap <= docs

\* The versions are numbers.
LEMMA VersionTypes ==
    ASSUME TypeOK
    PROVE  /\ docs \in Int /\ snap \in Int
           /\ events.version \in Int /\ events.version >= 0
           /\ screen.events.version \in Int
           /\ snap >= 0
<1>1. events \in Listing /\ screen.events \in Listing
  BY DEF TypeOK, Screen
<1>2. MaxVersion \in Nat
  BY BoundsAssumption
<1>3. QED
  BY <1>1, <1>2 DEF TypeOK, Version, Listing

LEMMA NothingListed == None.version = 0 /\ Blank.events.version = 0
<1>1. None.version = 0
  BY DEF None
<1>2. Blank.events = None
  BY Zenon DEF Blank
<1>3. QED
  BY <1>1, <1>2

\* A new widget has listed nothing.
LEMMA FreshInOrder ==
    ASSUME NEW o, NEW v \in Int, NEW w, 0 <= v, v <= docs', Fresh(o, v, w)
    PROVE  VersionsInOrder'
<1>1. events' = None /\ screen' = Blank /\ snap' = v
  BY DEF Fresh
<1>2. events'.version = 0 /\ screen'.events.version = 0
  BY <1>1, NothingListed
<1>3. QED
  BY <1>1, <1>2 DEF VersionsInOrder

\* No step brings the versions out of order: a run lists the snapshot of the
\* moment it comes back, and a build shows what was listed last.
LEMMA OrderStep ==
    ASSUME TypeOK, VersionsInOrder, [Next]_vars
    PROVE  VersionsInOrder'
<1>t. /\ docs \in Int /\ snap \in Int
      /\ events.version \in Int /\ events.version >= 0
      /\ screen.events.version \in Int
      /\ snap >= 0
  BY VersionTypes
<1> USE DEF VersionsInOrder
<1>1. CASE Update
  BY <1>1, <1>t DEF Update
<1>2. CASE Open
  <2>1. PICK v \in 0..docs : Fresh(TRUE, v, << 30 >>) /\ docs' = docs
    BY <1>2 DEF Open
  <2>2. v \in Int /\ 0 <= v /\ v <= docs'
    BY <2>1, <1>t
  <2>3. QED
    BY <2>1, <2>2, FreshInOrder
<1>3. CASE Deliver
  BY <1>3, <1>t DEF Deliver, Build
<1>4. CASE Rebuild
  BY <1>4, <1>t DEF Rebuild, Build
<1>5. CASE Finish
  BY <1>5, <1>t DEF Finish
<1>6. CASE Close
  <2>1. Fresh(FALSE, 0, << >>) /\ docs' = docs
    BY <1>6 DEF Close
  <2>2. 0 <= 0 /\ 0 <= docs'
    BY <2>1, <1>t
  <2>3. QED
    BY <2>1, <2>2, FreshInOrder, 0 \in Int
<1>7. ASSUME NEW f \in DateFilter, SelectDays(f) PROVE VersionsInOrder'
  BY <1>7, <1>t DEF SelectDays, Build
<1>8. ASSUME NEW c \in StopChoice, SelectStop(c) PROVE VersionsInOrder'
  BY <1>8, <1>t DEF SelectStop, Build
<1>9. CASE UNCHANGED vars
  BY <1>9 DEF vars
<1>10. QED
  BY <1>1, <1>2, <1>3, <1>4, <1>5, <1>6, <1>7, <1>8, <1>9 DEF Next

\* A step of an open page shows nothing older than before.
LEMMA ScreenStep ==
    ASSUME TypeOK, VersionsInOrder, [Next]_vars, open, open'
    PROVE  screen.events.version <= screen'.events.version
<1>t. /\ events.version \in Int
      /\ screen.events.version \in Int
  BY VersionTypes
<1>k. \/ screen' = screen
      \/ screen'.events = events
      \/ Fresh(FALSE, 0, << >>)
  <2>1. CASE Close
    BY <2>1 DEF Close
  <2>2. CASE Update \/ Finish \/ UNCHANGED vars
    BY <2>2 DEF Update, Finish, vars
  <2>4. ASSUME Deliver \/ Rebuild PROVE screen'.events = events
    <3>1. Build(filter, stop, events, stops)
      BY <2>4 DEF Deliver, Rebuild
    <3>2. QED
      BY <3>1 DEF Build
  <2>5. ASSUME NEW f \in DateFilter, SelectDays(f) PROVE screen'.events = events
    BY <2>5 DEF SelectDays, Build
  <2>6. ASSUME NEW c \in StopChoice, SelectStop(c) PROVE screen'.events = events
    BY <2>6 DEF SelectStop, Build
  <2>3. QED
    BY <2>1, <2>2, <2>4, <2>5, <2>6 DEF Next, Open
<1>1. CASE screen' = screen
  BY <1>1, <1>t
<1>2. CASE screen'.events = events
  BY <1>2 DEF VersionsInOrder
<1>3. CASE Fresh(FALSE, 0, << >>)
  BY <1>3 DEF Fresh
<1>4. QED
  BY <1>k, <1>1, <1>2, <1>3

\* While the page is open it never goes back to an older version of the
\* events, however many runs of getMarkerData are waiting: each of them reads
\* the snapshot after its last await.
THEOREM EventsOnlyAdvance == Spec => EventsNeverRegress
<1>1. Init => VersionsInOrder
  <2> SUFFICES ASSUME Init PROVE VersionsInOrder
    OBVIOUS
  <2>1. docs = 1 /\ snap = 0 /\ events = None /\ screen = Blank
    BY DEF Init
  <2>2. events.version = 0 /\ screen.events.version = 0
    BY <2>1, NothingListed
  <2>3. QED
    BY <2>1, <2>2 DEF VersionsInOrder
<1>2. TypeOK /\ VersionsInOrder /\ [Next]_vars
      => [open' => screen.events.version <= screen'.events.version
                      \/ ~open]_vars
  BY ScreenStep
<1>3. TypeOK /\ VersionsInOrder /\ [Next]_vars => VersionsInOrder'
  BY OrderStep
<1>4. QED
  BY <1>1, <1>2, <1>3, TypeCorrect, PTL DEF Spec, EventsNeverRegress
=============================================================================
