------------------------------ MODULE Session ------------------------------
(***************************************************************************)
(* The frame of the Flutter app around its dashboards: the login page with *)
(* its sign-ins and its listener of connectivity changes (login.dart), the *)
(* site with its menu (side_menu.dart, menu_controller.dart) and its own   *)
(* stack of pages (local_navigator.dart, navigation_controller.dart), and  *)
(* the charts of the overview page, which share one global list            *)
(* (correlation_analysis.dart).                                            *)
(*                                                                         *)
(* Two things outlive the pages they belong to.  A page that is replaced   *)
(* stays in the tree until its successor's transition is over, and the     *)
(* navigator of the site has a global key: a new site takes it over, with  *)
(* all its pages, from an old one that is still there.  And callbacks of   *)
(* sign-ins, queries and connectivity are never cancelled.                 *)
(***************************************************************************)
EXTENDS Naturals, Sequences, SequencesExt, FiniteSets, Functions

CONSTANTS Item,        \* entries of the menu besides "Log out"
          Release,     \* whether the build is one without assertions
          Breaks,      \* where an answer with the charts may break off
          MaxLogins,   \* bound: login pages
          MaxTaps,     \* bound: sign-ins under way
          MaxPages,    \* bound: pages in the site's navigator
          MaxSeries    \* bound: series in the global list

Overview == "Overview"

ASSUME ItemAssumption == Overview \in Item
ASSUME BuildAssumption == Release \in BOOLEAN
ASSUME BreaksAssumption == Breaks \subseteq 0..5
ASSUME LoginsAssumption == /\ MaxLogins \in Nat \ {0}
                           /\ MaxTaps \in Nat
                           /\ MaxPages \in Nat
                           /\ MaxSeries \in Nat

VARIABLES root,       \* the page on top: "login" or "site"
          leaving,    \* what it replaced and is still in the tree
          logins,     \* login pages so far; the last is the newest
          pending,    \* pending[n]: sign-ins of login page n under way
          dialogs,    \* dialogs on top of the page
          pages,      \* the stack of the site's navigator, empty if there is none
          active,     \* activeItem of the menu
          listening,  \* login pages whose connectivity listener is there
          told,       \* external: the last connectivity event
          isoffline,
          asked,      \* queries for the charts under way
          data,       \* the global list of series
          checkData

signIns == <<logins, pending>>
site == <<pages, active>>
network == <<listening, told, isoffline>>
charts == <<asked, data, checkData>>
vars == <<root, leaving, signIns, dialogs, site, network, charts>>

OldSite == 0
Login == 1..MaxLogins

\* The login pages in the tree, on top or on their way out.
Mounted == (leaving \ {OldSite}) \cup (IF root = "login" THEN {logins} ELSE {})

\* The titles of the charts, and the order formatData reads and adds them in.
mapKeys == <<"dry", "highTemp", "highWind", "rain", "lowTemp", "lowWind">>
ReadOrder == <<"dry", "highTemp", "highWind", "lowTemp", "lowWind", "rain">>
AddOrder == <<"dry", "highTemp", "highWind", "rain", "lowTemp", "lowWind">>

\* The navigator starts with the routes "/" and "/overview", which both are
\* the overview; each overview has two charts, and each chart asks.
FreshPages == <<Overview, Overview>>
ChartsOf(stack) == 2 * Cardinality({i \in DOMAIN stack : stack[i] = Overview})

-----------------------------------------------------------------------------
Init ==
    /\ root = "login"
    /\ leaving = {}
    /\ logins = 1
    /\ pending = [n \in Login |-> 0]
    /\ dialogs = 0
    /\ pages = << >>
    /\ active = Overview
    /\ listening = {1}
    /\ told = "nothing"
    /\ isoffline = FALSE
    /\ asked = 0
    /\ data = << >>
    /\ checkData = FALSE

(* Signing in.                                                             *)

UnderWay == FoldFunction(LAMBDA a, b : a + b, 0, pending)

\* A tap on "Login", also while the answer to an earlier one is awaited.
SignIn ==
    /\ root = "login" /\ dialogs = 0
    /\ UnderWay < MaxTaps
    /\ pending' = [pending EXCEPT ![logins] = @ + 1]
    /\ UNCHANGED <<root, leaving, logins, dialogs, site, network, charts>>

\* Get.offAllNamed: a new site replaces all there is.
EnterSite ==
    /\ root' = "site"
    /\ dialogs' = 0
    /\ leaving' = leaving \cup {IF root = "login" THEN logins ELSE OldSite}
    /\ IF pages = << >>
       THEN pages' = FreshPages /\ asked' = asked + ChartsOf(FreshPages)
       ELSE UNCHANGED <<pages, asked>>
    /\ UNCHANGED <<logins, active, network, data, checkData>>

Answered(n) == /\ pending[n] > 0
               /\ pending' = [pending EXCEPT ![n] = @ - 1]

\* It does not matter where the user is by now.
SignInSucceeds(n) == Answered(n) /\ EnterSite

\* The dialog needs the context of its page; without it the call throws.
SignInRefused(n) ==
    /\ Answered(n)
    /\ dialogs' = IF n \in Mounted THEN dialogs + 1 ELSE dialogs
    /\ UNCHANGED <<root, leaving, logins, site, network, charts>>

\* "network-request-failed" only sets guestVar, which nothing reads.
SignInUnsent(n) ==
    /\ Answered(n)
    /\ UNCHANGED <<root, leaving, logins, dialogs, site, network, charts>>

CloseDialog ==
    /\ dialogs > 0
    /\ dialogs' = dialogs - 1
    /\ UNCHANGED <<root, leaving, signIns, site, network, charts>>

\* The link "No internet Login offline".
LoginOffline ==
    /\ root = "login" /\ dialogs = 0 /\ isoffline
    /\ EnterSite
    /\ UNCHANGED pending

\* Faulty variant: a login page that leaves the tree cancels its listener.
TransitionEndsQuietly ==
    /\ leaving # {}
    /\ leaving' = {}
    /\ pages' = IF root = "site" THEN pages ELSE << >>
    /\ listening' = listening \ leaving
    /\ UNCHANGED <<root, signIns, dialogs, active, told, isoffline, charts>>

\* The transition of the page on top is over, and what it replaced goes; an
\* old site takes the navigator along unless a new one has it.
TransitionEnds ==
    /\ leaving # {}
    /\ leaving' = {}
    /\ pages' = IF root = "site" THEN pages ELSE << >>
    /\ UNCHANGED <<root, signIns, dialogs, active, network, charts>>

\* A listener whose page is gone fails in setState: with assertions before it
\* sets isoffline, without them only after.
ConnectivityChanges(c) ==
    /\ c # told
    /\ told' = c
    /\ isoffline' = IF listening \cap Mounted # {} \/ (Release /\ listening # {})
                    THEN c = "none" ELSE isoffline
    /\ UNCHANGED <<root, leaving, signIns, dialogs, site, listening, charts>>

-----------------------------------------------------------------------------
(* The menu of the site.                                                   *)

\* An entry that is not active: the page goes on top of the others.
ChoosePage(item) ==
    /\ root = "site" /\ dialogs = 0
    /\ active # item
    /\ Len(pages) < MaxPages
    /\ active' = item
    /\ pages' = Append(pages, item)
    /\ asked' = asked + ChartsOf(<<item>>)
    /\ UNCHANGED <<root, leaving, signIns, dialogs, network, data, checkData>>

\* Faulty variant: the active item is left as it is.
LogOutOnly ==
    /\ root = "site" /\ dialogs = 0
    /\ logins < MaxLogins
    /\ root' = "login"
    /\ leaving' = leaving \cup {OldSite}
    /\ logins' = logins + 1
    /\ listening' = listening \cup {logins'}
    /\ UNCHANGED <<pending, dialogs, site, told, isoffline, charts>>

\* "Log out": a new login page, which starts its own listener.
LogOut ==
    /\ root = "site" /\ dialogs = 0
    /\ logins < MaxLogins
    /\ active' = Overview
    /\ root' = "login"
    /\ leaving' = leaving \cup {OldSite}
    /\ logins' = logins + 1
    /\ listening' = listening \cup {logins'}
    /\ UNCHANGED <<pending, dialogs, pages, told, isoffline, charts>>

-----------------------------------------------------------------------------
(* The charts of the overview.                                             *)

\* The first k series of an answer, known by the place of its first one.
SeriesOf(order, k) ==
    [i \in 1..k |-> [answer |-> Len(data) + 1, title |-> order[i]]]

AddSeries(order) ==
    /\ asked > 0
    /\ asked' = asked - 1
    /\ Len(data) < MaxSeries
    /\ \E k \in Breaks \cup {Len(order)} :
          /\ data' = data \o SeriesOf(order, k)
          /\ checkData' = (checkData \/ k = Len(order))
    /\ UNCHANGED <<root, leaving, signIns, dialogs, site, network>>

\* Faulty variant: the series are added in the order they are read.
ChartsComeAsRead == AddSeries(ReadOrder)

\* formatData, which breaks off where a value is not of the type it expects.
ChartsCome == AddSeries(AddOrder)

\* The query fails, or finds no document.
NoCharts ==
    /\ asked > 0
    /\ asked' = asked - 1
    /\ UNCHANGED <<root, leaving, signIns, dialogs, site, network, data, checkData>>

-----------------------------------------------------------------------------
SignIns == \/ SignIn \/ LoginOffline \/ CloseDialog
           \/ \E n \in Login : SignInSucceeds(n) \/ SignInRefused(n) \/ SignInUnsent(n)

Next == \/ SignIns
        \/ TransitionEnds
        \/ \E c \in {"none", "wifi"} : ConnectivityChanges(c)
        \/ \E item \in Item : ChoosePage(item)
        \/ LogOut
        \/ ChartsCome \/ NoCharts

Spec == Init /\ [][Next]_vars

-----------------------------------------------------------------------------
(* Properties.                                                             *)

Series == [answer : Nat \ {0}, title : Range(mapKeys)]

TypeOK ==
    /\ root \in {"login", "site"}
    /\ logins \in Login
    /\ leaving \subseteq {OldSite} \cup 1..logins
    /\ pending \in [Login -> Nat]
    /\ dialogs \in Nat
    /\ pages \in Seq(Item) /\ (root = "site" => pages # << >>)
    /\ active \in Item
    /\ listening = 1..logins
    /\ told \in {"nothing", "none", "wifi"}
    /\ isoffline \in BOOLEAN
    /\ asked \in Nat
    /\ data \in Seq(Series)
    /\ checkData \in BOOLEAN

\* The heading and the marked entry of the menu are those of the page that is
\* shown, or the entry of that page opens it a second time and the marked one
\* does nothing.
MenuFollowsPage == root = "site" => active = Last(pages)

\* Signing in twice, answers that come late, a page chosen in between and
\* logging out leave the menu and the page in agreement, with one exception:
\* a new site that replaces one that was left so shortly before that it is
\* still in the tree.
OnlyHasteMisleads ==
    [][MenuFollowsPage /\ ~MenuFollowsPage' => OldSite \in leaving]_vars

\* Without assertions the login page offers to log in offline if and only if
\* the device was last said to be offline, also when that was said while the
\* user was on the site: the listeners of pages that are gone see to it.
OfflineLinkIsCurrent ==
    Release /\ root = "login" /\ told # "nothing" => isoffline = (told = "none")

\* Charts are shown once there are six series, and if all of them are from
\* one answer each is under its own title.  (If the first answer broke off,
\* the titles stay wrong until the app is started again.)
ChartsBelongTogether ==
    checkData =>
        /\ Len(data) >= Len(mapKeys)
        /\ data[1].answer = data[Len(mapKeys)].answer =>
              \A i \in DOMAIN mapKeys : data[i].title = mapKeys[i]
=============================================================================
