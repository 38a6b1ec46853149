---------------------------- MODULE SessionProofs ----------------------------
(***************************************************************************)
(* What holds of the app's frame for every menu, every number of login     *)
(* pages, sign-ins and pages on the stack, and answers with the charts     *)
(* that break off anywhere.                                                *)
(***************************************************************************)
EXTENDS Session, FiniteSetTheorems, SequenceTheorems, TLAPS

\* Whoever is on the login page left the overview behind, or a site that is
\* still in the tree.
LoginIsClean ==
    root = "login" =>
        /\ active = Overview
        /\ pages # << >> => OldSite \in leaving

\* Where the device was told of its connectivity, the link follows.
LinkFollows == Release /\ told # "nothing" => isoffline = (told = "none")

\* The series of an answer stand together in the list, from the place that
\* names it, in the order of the titles.
AnswersAreContiguous ==
    \A j \in 1..Len(data) :
        /\ data[j].answer \in 1..j
        /\ j - data[j].answer < 6
        /\ data[j].title = mapKeys[j - data[j].answer + 1]
        /\ \A k \in data[j].answer..j : data[k].answer = data[j].answer

ChartsAreMany == checkData => Len(data) >= 6

ChartsInv == AnswersAreContiguous /\ ChartsAreMany

Inv == /\ TypeOK
       /\ LoginIsClean
       /\ LinkFollows
       /\ ChartsInv

-----------------------------------------------------------------------------
LEMMA KeysAre == Len(mapKeys) = 6 /\ DOMAIN mapKeys = 1..6 /\ AddOrder = mapKeys
  BY DEF mapKeys, AddOrder

LEMMA ChartsOfType == ASSUME NEW stack \in Seq(Item) PROVE ChartsOf(stack) \in Nat
<1> DEFINE S == {i \in DOMAIN stack : stack[i] = Overview}
<1>1. Len(stack) \in Nat /\ S \in SUBSET (1..Len(stack))
  OBVIOUS
<1>2. IsFiniteSet(1..Len(stack))
  BY <1>1, FS_Interval
<1>3. Cardinality(S) \in Nat
  BY <1>1, <1>2, FS_Subset, FS_CardinalityType
<1>4. QED
  BY <1>3 DEF ChartsOf

LEMMA FreshPagesType == FreshPages \in Seq(Item) /\ FreshPages # << >>
                        /\ Last(FreshPages) = Overview
  BY ItemAssumption DEF FreshPages, Last

LEMMA InitInv == Init => Inv
<1> SUFFICES ASSUME Init PROVE Inv
  OBVIOUS
<1>1. << >> \in Seq(Item) /\ << >> \in Seq(Series) /\ Len(data) = 0
  BY DEF Init
<1>2. 1 \in Login /\ {1} = 1..1 /\ [n \in Login |-> 0] \in [Login -> Nat]
  BY LoginsAssumption DEF Login
<1>3. TypeOK
  BY <1>1, <1>2, ItemAssumption DEF TypeOK, Init
<1>4. QED
  BY <1>1, <1>3
  DEF Inv, Init, LoginIsClean, LinkFollows, ChartsInv, AnswersAreContiguous,
      ChartsAreMany

-----------------------------------------------------------------------------
(* Every step.                                                             *)

LEMMA ChartsStay ==
    ASSUME ChartsInv, UNCHANGED <<data, checkData>>
    PROVE  ChartsInv'
  BY DEF ChartsInv, AnswersAreContiguous, ChartsAreMany

\* A new site, however it is entered.
LEMMA EnterSiteIsFine ==
    ASSUME Inv, EnterSite, pending' \in [Login -> Nat]
    PROVE  Inv'
<1> USE DEF Inv
<1>1. ChartsOf(FreshPages) \in Nat
  BY FreshPagesType, ChartsOfType
<1>2. asked' \in Nat /\ pages' \in Seq(Item) /\ pages' # << >>
  BY <1>1, FreshPagesType DEF EnterSite, TypeOK
<1>3. leaving' \subseteq {OldSite} \cup 1..logins
  <2>1. logins \in 1..logins
    BY LoginsAssumption DEF TypeOK, Login
  <2>2. QED
    BY <2>1 DEF EnterSite, TypeOK
<1>4. TypeOK'
  BY <1>2, <1>3 DEF EnterSite, TypeOK, network
<1>5. LoginIsClean' /\ LinkFollows'
  BY DEF EnterSite, LoginIsClean, LinkFollows, network
<1>6. ChartsInv'
  BY ChartsStay DEF EnterSite
<1>7. QED
  BY <1>4, <1>5, <1>6

LEMMA AnsweredType ==
    ASSUME TypeOK, NEW n \in Login, Answered(n)
    PROVE  pending' \in [Login -> Nat]
  BY DEF TypeOK, Answered

\* Steps that stay where the user is.
LEMMA FrameStays ==
    ASSUME Inv, pending' \in [Login -> Nat], dialogs' \in Nat,
           UNCHANGED <<root, leaving, logins, site, network, charts>>
    PROVE  Inv'
<1> USE DEF Inv
<1>1. TypeOK'
  BY DEF TypeOK, site, network, charts
<1>2. LoginIsClean' /\ LinkFollows'
  BY DEF LoginIsClean, LinkFollows, site, network
<1>3. ChartsInv'
  BY ChartsStay DEF charts
<1>4. QED
  BY <1>1, <1>2, <1>3

LEMMA SignInsAreFine == Inv /\ SignIns => Inv'
<1> SUFFICES ASSUME Inv, SignIns PROVE Inv'
  OBVIOUS
<1>t. logins \in Login /\ pending \in [Login -> Nat] /\ dialogs \in Nat
  BY DEF Inv, TypeOK
<1>1. CASE SignIn
  <2>1. pending' \in [Login -> Nat]
    BY <1>1, <1>t DEF SignIn
  <2>2. QED
    BY <1>1, <2>1, <1>t, FrameStays DEF SignIn
<1>2. CASE LoginOffline
  BY <1>2, <1>t, EnterSiteIsFine DEF LoginOffline
<1>3. CASE CloseDialog
  <2>1. dialogs' \in Nat
    BY <1>3, <1>t DEF CloseDialog
  <2>2. QED
    BY <1>3, <2>1, <1>t, FrameStays DEF CloseDialog, signIns
<1>4. ASSUME NEW n \in Login, SignInSucceeds(n) PROVE Inv'
  BY <1>4, AnsweredType, EnterSiteIsFine DEF SignInSucceeds, Inv
<1>5. ASSUME NEW n \in Login, SignInRefused(n) PROVE Inv'
  <2>1. dialogs' \in Nat
    BY <1>5, <1>t DEF SignInRefused
  <2>2. pending' \in [Login -> Nat]
    BY <1>5, AnsweredType DEF SignInRefused, Inv
  <2>3. QED
    BY <1>5, <2>1, <2>2, FrameStays DEF SignInRefused
<1>6. ASSUME NEW n \in Login, SignInUnsent(n) PROVE Inv'
  <2>1. pending' \in [Login -> Nat]
    BY <1>6, AnsweredType DEF SignInUnsent, Inv
  <2>2. QED
    BY <1>6, <2>1, <1>t, FrameStays DEF SignInUnsent
<1>7. QED
  BY <1>1, <1>2, <1>3, <1>4, <1>5, <1>6 DEF SignIns

LEMMA TransitionEndsIsFine == Inv /\ TransitionEnds => Inv'
<1> SUFFICES ASSUME Inv, TransitionEnds PROVE Inv'
  OBVIOUS
<1> USE DEF Inv
<1>1. << >> \in Seq(Item)
  OBVIOUS
<1>2. TypeOK'
  BY <1>1 DEF TransitionEnds, TypeOK, signIns, network, charts
<1>3. LoginIsClean' /\ LinkFollows'
  BY DEF TransitionEnds, LoginIsClean, LinkFollows, network
<1>4. ChartsInv'
  BY ChartsStay DEF TransitionEnds, charts
<1>5. QED
  BY <1>2, <1>3, <1>4

\* The listener of the first login page is never cancelled, so one of them
\* notes every change.
LEMMA ConnectivityIsFine ==
    ASSUME Inv, NEW c \in {"none", "wifi"}, ConnectivityChanges(c)
    PROVE  Inv'
<1> USE DEF Inv
<1>1. TypeOK'
  <2>1. isoffline' = (c = "none") \/ isoffline' = isoffline
    BY DEF ConnectivityChanges
  <2>2. isoffline' \in BOOLEAN
    BY <2>1 DEF TypeOK
  <2>3. QED
    BY <2>2 DEF ConnectivityChanges, TypeOK, signIns, site, charts
<1>2. listening # {}
  <2>1. listening = 1..logins /\ logins \in 1..MaxLogins
    BY DEF TypeOK, Login
  <2>2. 1 \in 1..logins
    BY <2>1, LoginsAssumption
  <2>3. QED
    BY <2>1, <2>2
<1>3. LinkFollows'
  BY <1>2 DEF ConnectivityChanges, LinkFollows
<1>4. LoginIsClean' /\ ChartsInv'
  BY ChartsStay DEF ConnectivityChanges, LoginIsClean, site, charts
<1>5. QED
  BY <1>1, <1>3, <1>4

LEMMA ChoosePageIsFine ==
    ASSUME Inv, NEW item \in Item, ChoosePage(item)
    PROVE  Inv'
<1> USE DEF Inv
<1>1. ChartsOf(<<item>>) \in Nat
  <2>1. <<item>> \in Seq(Item)
    OBVIOUS
  <2>2. QED
    BY <2>1, ChartsOfType
<1>2. pages' \in Seq(Item) /\ pages' # << >>
  BY DEF ChoosePage, TypeOK
<1>3. TypeOK'
  BY <1>1, <1>2 DEF ChoosePage, TypeOK, signIns, network
<1>4. LoginIsClean' /\ LinkFollows'
  BY DEF ChoosePage, LoginIsClean, LinkFollows, network
<1>5. ChartsInv'
  BY ChartsStay DEF ChoosePage
<1>6. QED
  BY <1>3, <1>4, <1>5

LEMMA LogOutIsFine == Inv /\ LogOut => Inv'
<1> SUFFICES ASSUME Inv, LogOut PROVE Inv'
  OBVIOUS
<1> USE DEF Inv
<1>1. logins \in Nat /\ logins' = logins + 1 /\ logins' \in Login
  BY LoginsAssumption DEF LogOut, TypeOK, Login
<1>2. listening' = 1..logins' /\ leaving' \subseteq {OldSite} \cup 1..logins'
  BY <1>1 DEF LogOut, TypeOK
<1>3. TypeOK'
  BY <1>1, <1>2, ItemAssumption DEF LogOut, TypeOK, charts
<1>4. LoginIsClean' /\ LinkFollows'
  BY DEF LogOut, LoginIsClean, LinkFollows
<1>5. ChartsInv'
  BY ChartsStay DEF LogOut, charts
<1>6. QED
  BY <1>3, <1>4, <1>5

\* An answer adds its series behind all others, whole or not.
LEMMA ChartsComeIsFine == Inv /\ ChartsCome => Inv'
<1> SUFFICES ASSUME Inv, ChartsCome PROVE Inv'
  OBVIOUS
<1> USE DEF Inv
<1> DEFINE n == Len(data)
<1>0. data \in Seq(Series) /\ n \in Nat /\ asked \in Nat /\ asked > 0
  BY DEF TypeOK, ChartsCome, AddSeries
<1>1. PICK k \in Breaks \cup {Len(AddOrder)} :
          /\ data' = data \o SeriesOf(AddOrder, k)
          /\ checkData' = (checkData \/ k = Len(AddOrder))
  BY DEF ChartsCome, AddSeries
<1>2. k \in 0..6 /\ Len(AddOrder) = 6
  BY BreaksAssumption, KeysAre
<1>3. \A i \in 1..k : AddOrder[i] = mapKeys[i] /\ mapKeys[i] \in Range(mapKeys)
  BY <1>2, KeysAre DEF Range
<1>4. /\ SeriesOf(AddOrder, k) \in Seq(Series)
      /\ Len(SeriesOf(AddOrder, k)) = k
      /\ \A i \in 1..k : /\ SeriesOf(AddOrder, k)[i].answer = n + 1
                         /\ SeriesOf(AddOrder, k)[i].title = mapKeys[i]
  <2>1. \A i \in 1..k : [answer |-> n + 1, title |-> AddOrder[i]] \in Series
    BY <1>0, <1>3 DEF Series
  <2>2. QED
    BY <1>2, <1>3, <2>1 DEF SeriesOf
<1>5. /\ data' \in Seq(Series)
      /\ Len(data') = n + k
      /\ \A j \in 1..n : data'[j] = data[j]
      /\ \A j \in n + 1..n + k : /\ data'[j].answer = n + 1
                                 /\ data'[j].title = mapKeys[j - n]
  <2> HIDE DEF n
  <2>1. /\ data' \in Seq(Series) /\ Len(data') = n + k
        /\ \A j \in 1..n : data'[j] = data[j]
    <3>1. /\ data' = data \o SeriesOf(AddOrder, k)
          /\ SeriesOf(AddOrder, k) \in Seq(Series)
      BY <1>1, <1>4
    <3>2. /\ data' \in Seq(Series)
          /\ Len(data') = Len(data) + Len(SeriesOf(AddOrder, k))
          /\ \A j \in 1..Len(data) : data'[j] = data[j]
      BY <3>1, <1>0
    <3>3. QED
      BY <1>4, <3>2 DEF n
  <2>2. \A j \in n + 1..n + k :
            j - n \in 1..k /\ data'[j] = SeriesOf(AddOrder, k)[j - n]
    BY <1>0, <1>1, <1>2, <1>4 DEF n
  <2>3. QED
    BY <1>4, <2>1, <2>2
<1> HIDE DEF n
<1>6. TypeOK'
  <2>1. checkData' \in BOOLEAN /\ asked' \in Nat
    BY <1>0, <1>1 DEF ChartsCome, AddSeries, TypeOK
  <2>2. QED
    BY <1>5, <2>1 DEF ChartsCome, AddSeries, TypeOK, signIns, site, network
<1>7. AnswersAreContiguous'
  <2> SUFFICES ASSUME NEW j \in 1..n + k
               PROVE  /\ data'[j].answer \in 1..j
                      /\ j - data'[j].answer < 6
                      /\ data'[j].title = mapKeys[j - data'[j].answer + 1]
                      /\ \A i \in data'[j].answer..j :
                            data'[i].answer = data'[j].answer
    BY <1>5 DEF AnswersAreContiguous, mapKeys
  <2>1. CASE j \in 1..n
    <3>1. /\ data[j].answer \in 1..j
          /\ j - data[j].answer < 6
          /\ data[j].title = mapKeys[j - data[j].answer + 1]
          /\ \A i \in data[j].answer..j : data[i].answer = data[j].answer
      BY <2>1 DEF ChartsInv, AnswersAreContiguous, n
    <3>2. \A i \in data[j].answer..j : i \in 1..n
      BY <1>0, <2>1, <3>1
    <3>3. QED
      BY <1>5, <2>1, <3>1, <3>2
  <2>2. CASE j \notin 1..n
    <3>1. j \in n + 1..n + k
      BY <1>0, <1>2, <2>2
    <3>2. data'[j].answer = n + 1 /\ data'[j].title = mapKeys[j - n]
      BY <1>5, <3>1
    <3>3. n + 1 \in 1..j /\ j - (n + 1) < 6 /\ j - (n + 1) + 1 = j - n
      BY <1>0, <1>2, <3>1
    <3>4. \A i \in n + 1..j : data'[i].answer = n + 1
      BY <1>0, <1>2, <1>5, <3>1
    <3>5. QED
      BY <3>2, <3>3, <3>4
  <2>3. QED
    BY <2>1, <2>2
<1>8. ChartsAreMany'
  <2>1. CASE k = 6
    BY <2>1, <1>0, <1>5 DEF ChartsAreMany
  <2>2. CASE k # 6
    <3>1. checkData' = checkData
      BY <2>2, <1>1, <1>2 DEF TypeOK
    <3>2. checkData => n >= 6
      BY DEF ChartsInv, ChartsAreMany, n
    <3>3. QED
      BY <3>1, <3>2, <1>0, <1>2, <1>5 DEF ChartsAreMany
  <2>3. QED
    BY <2>1, <2>2
<1>9. LoginIsClean' /\ LinkFollows'
  BY DEF ChartsCome, AddSeries, LoginIsClean, LinkFollows, site, network
<1>10. QED
  BY <1>6, <1>7, <1>8, <1>9 DEF ChartsInv

LEMMA NoChartsIsFine == Inv /\ NoCharts => Inv'
<1> SUFFICES ASSUME Inv, NoCharts PROVE Inv'
  OBVIOUS
<1> USE DEF Inv
<1>1. TypeOK'
  BY DEF NoCharts, TypeOK, signIns, site, network
<1>2. LoginIsClean' /\ LinkFollows'
  BY DEF NoCharts, LoginIsClean, LinkFollows, site, network
<1>3. ChartsInv'
  BY ChartsStay DEF NoCharts
<1>4. QED
  BY <1>1, <1>2, <1>3

LEMMA StepInv == Inv /\ [Next]_vars => Inv'
<1> SUFFICES ASSUME Inv, [Next]_vars PROVE Inv'
  OBVIOUS
<1>1. CASE UNCHANGED vars
  <2>1. pending' \in [Login -> Nat] /\ dialogs' \in Nat
    BY <1>1 DEF Inv, TypeOK, vars, signIns
  <2>2. QED
    BY <1>1, <2>1, FrameStays DEF vars, signIns
<1>2. QED
  BY <1>1, SignInsAreFine, TransitionEndsIsFine, ConnectivityIsFine,
     ChoosePageIsFine, LogOutIsFine, ChartsComeIsFine, NoChartsIsFine DEF Next

-----------------------------------------------------------------------------
\* The frame keeps its types: above all, a site always has a page to show.
THEOREM TypeCorrect == Spec => []TypeOK
<1>1. Inv => TypeOK
  BY DEF Inv
<1>2. QED
  BY <1>1, InitInv, StepInv, PTL DEF Spec

\* Without assertions the offline link of a login page is right, because the
\* listeners of all earlier login pages are still there to note a change.
THEOREM LinkIsCurrent == Spec => []OfflineLinkIsCurrent
<1>1. Inv => OfflineLinkIsCurrent
  BY DEF Inv, LinkFollows, OfflineLinkIsCurrent
<1>2. QED
  BY <1>1, InitInv, StepInv, PTL DEF Spec

\* Charts that are shown stand under their own titles, if one answer filled
\* the six places that are shown.
THEOREM ChartsAreTogether == Spec => []ChartsBelongTogether
<1>1. Inv => ChartsBelongTogether
  <2> SUFFICES ASSUME Inv, checkData
               PROVE  /\ Len(data) >= 6
                      /\ data[1].answer = data[6].answer =>
                            \A i \in 1..6 : data[i].title = mapKeys[i]
    BY KeysAre DEF ChartsBelongTogether
  <2>1. Len(data) >= 6 /\ Len(data) \in Nat
    BY DEF Inv, TypeOK, ChartsInv, ChartsAreMany
  <2>2. data[1].answer = 1
    BY <2>1 DEF Inv, ChartsInv, AnswersAreContiguous
  <2>3. ASSUME data[6].answer = 1, NEW i \in 1..6
        PROVE  data[i].title = mapKeys[i]
    <3>1. data[i].answer = 1
      BY <2>1, <2>3 DEF Inv, ChartsInv, AnswersAreContiguous
    <3>2. i - 1 + 1 = i /\ i \in 1..Len(data)
      BY <2>1
    <3>3. data[i].title = mapKeys[i - data[i].answer + 1]
      BY <3>2 DEF Inv, ChartsInv, AnswersAreContiguous
    <3>4. QED
      BY <3>1, <3>2, <3>3
  <2>4. QED
    BY <2>1, <2>2, <2>3
<1>2. QED
  BY <1>1, InitInv, StepInv, PTL DEF Spec

\* The menu and the page part only where a new site takes over the pages of
\* one that is still in the tree.
THEOREM HasteAloneMisleads == Spec => OnlyHasteMisleads
<1>1. Inv /\ [Next]_vars =>
          [MenuFollowsPage /\ ~MenuFollowsPage' => OldSite \in leaving]_vars
  <2> SUFFICES ASSUME Inv, [Next]_vars, MenuFollowsPage, ~MenuFollowsPage'
               PROVE  OldSite \in leaving
    OBVIOUS
  <2>1. root' = "site" /\ active' # Last(pages')
    BY DEF MenuFollowsPage
  <2>2. CASE UNCHANGED <<root, site>>
    BY <2>2 DEF MenuFollowsPage, site
  <2>3. CASE EnterSite
    <3>1. CASE root = "login" /\ pages = << >>
      BY <2>1, <2>3, <3>1, FreshPagesType DEF Inv, LoginIsClean, EnterSite
    <3>2. CASE root = "login" /\ pages # << >>
      BY <3>2 DEF Inv, LoginIsClean
    <3>3. CASE root = "site"
      BY <2>1, <2>3, <3>3 DEF Inv, TypeOK, EnterSite, MenuFollowsPage
    <3>4. QED
      BY <3>1, <3>2, <3>3 DEF Inv, TypeOK
  <2>4. ASSUME NEW item \in Item, ChoosePage(item) PROVE FALSE
    <3>1. pages \in Seq(Item) /\ pages' = Append(pages, item) /\ active' = item
      BY <2>4 DEF ChoosePage, Inv, TypeOK
    <3>2. Last(pages') = item
      BY <3>1 DEF Last
    <3>3. QED
      BY <2>1, <3>1, <3>2
  <2>5. CASE TransitionEnds
    BY <2>1, <2>5 DEF TransitionEnds, MenuFollowsPage
  <2>6. CASE LogOut
    BY <2>1, <2>6 DEF LogOut
  <2>7. QED
    BY <2>2, <2>3, <2>4, <2>5, <2>6
    DEF Next, SignIns, SignIn, LoginOffline, CloseDialog, SignInSucceeds,
        SignInRefused, SignInUnsent, ConnectivityChanges, ChartsCome, AddSeries,
        NoCharts, vars, site
<1>2. QED
  BY <1>1, InitInv, StepInv, PTL DEF Spec, OnlyHasteMisleads
=============================================================================
