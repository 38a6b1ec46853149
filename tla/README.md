# Formal models of the Dublin SCM dashboard

This directory holds TLA+ models of the Sustainable City Management dashboard
in `src/`: a Django server that ingests Dublin Bikes data and writes forecasts
to Firestore, and a Flutter app that shows Firestore collections on maps and
charts. The modules are model-checked with TLC on small instances; the theorems
in the `*Proofs` modules are proved with TLAPS for every value of the constants.

## 1. The system

Paths are relative to `src/`; `S/` is
`ase_group5_scm_django_server/SCM_SERVER/`, `L/` is `ase_group5_scm/lib/`.

| component | source | state | operations | talks to |
|---|---|---|---|---|
| bike ingest job | `S/DublinBikes/views.py`, `scheduler.py`, `apps.py` | none of its own; one scheduler per server process | every 5 minutes: fetch, transform, commit | the API selector, the transformer, Firestore |
| API selector | `S/API_Handler/APISelector.py` | none | a random choice between a primary and a secondary source | - |
| bike transformer | `S/DataTransformer/views.py`, `DataModel/bikeModel.py` | a data frame for the length of one cycle | slide each station's window, forecast, compute stands and occupancy | the predictor |
| predictor | `S/predictionApp/views.py` | `StationID_Recent_Observations.csv`, `StationID_Stand.csv`, the model file | read the files, predict and clamp, rewrite the file | the file system |
| bikes map | `L/pages/DublinBikes/dublin_bikes_map.dart`, `dublin_bikes_dashboard_web.dart` | icons, dropdown, markers | load icons, make markers, select, build | a stream of the collection `DublinBikes` |
| bikes usage chart | `L/pages/DublinBikes/dublin_bikes_usage_chart.dart` | none | pick the entry for the present time, sort, show ten | the same stream |
| events map | `L/pages/DublinEvents/dublin_events_map.dart`, `events_dashboard_web.dart` | icons, two dropdowns, two sets of markers | `getMarkerData`, select, build | a stream of `DublinEvents` |
| Luas and bus map | `L/pages/Luas/Luas_google_Map.dart`, `L/pages/DublinBuses/Dublin_bus_map.dart` | icons, markers, circles, polylines and their counter, toggle | load icons, one query, four route requests, build | Firestore queries, a routing service |
| events table | `L/pages/DublinEvents/widgets/events_table.dart` | counts per venue | recount on every build | the stream of `DublinEvents` |
| overview, correlation | `L/pages/overview/` | one global list of series | one query per chart of a visit | Firestore |
| login, connectivity | `L/pages/authentication/login.dart` | globals for offline and guest | sign in, listen to connectivity | Firebase Auth |
| navigation and menu | `L/controllers/`, `L/widgets/side_menu.dart`, `L/routing/`, `L/helpers/local_navigator.dart` | active item, stack of pages | choose a page, log out | all pages |
| Firestore client | `ase_group5_scm/ios/Pods/FirebaseFirestore/Firestore/core/src/` (`F/`) | listeners, views, watch stream, online state, aggregated changes, local copy | listen, stop listening, connect, back off, apply snapshots | the Firestore backend, every page |

The components meet in four places. The server's processes share the CSV file
of recent observations, without a lock. The server and the app share the
Firestore collections: the server commits a batch of document updates, the app
receives snapshots, through a client library that is vendored for iOS and runs
its tasks on one worker queue. The frame of the app (login, menu, navigator)
keeps state beside the pages it replaces. Inside a page, callbacks (`setState`,
`await`, `then`) share the fields of a widget's state: what an asynchronous
function changes is shown by the next build, whoever asks for it.

What is hard here, and what correctness means:

* **Ingest.** A cycle reads the file, changes it in memory, truncates and
  rewrites it, and then commits a batch; it can fail or die after each step, and
  a second process may be anywhere in its own cycle. Correct: every saved
  window is the one before it plus the snapshot of one cycle; the collection
  shows saved windows only, whole batches at a time; a cycle never blocks those
  after it.
* **Numbers.** The capacity used by the predictor and the stands reported by
  the source have different origins, and so have the clocks that stamp a
  document and read it. Correct: forecasts fit the station, stands and occupancy
  agree, and the chart stays inside its list, at the entry for the present time.
* **Pages.** Icons, data, routes and selections arrive in any order, also after
  a page was left or its filter changed. Correct: what is shown belongs to the
  current selection, does not go backwards, is complete in the end, and no
  answer damages what another one drew.
* **The client.** Streams break, requests cross with answers, a query is dropped
  and asked for again before the first answer, backends lag, timers and
  back-offs run. Correct: the listeners of a query agree, what they see was
  published and does not go back, views in sync show one state of the database,
  and every listener gets its first event.
* **The frame.** Pages outlive what replaces them until a transition is over,
  and callbacks outlive their pages for ever. Correct: menu and page, the
  offline link and the connectivity, charts and titles belong together whatever
  comes late.

`PROJECT.json` lists the hazards line by line with the properties that address
them.

## 2. The modules

| module | models | extends or instantiates |
|---|---|---|
| `BikeBoard` | what the bike pipeline promises: a history of windows and a board that shows it | - |
| `SharedBoard` | what is left of that promise when several processes run the job | `BikeBoard` for its operators |
| `BikeIngest` | the ingest job step by step, with crashes and several processes | `BikeBoard` as the abstract specification |
| `BikeIngestShared` | the same with the history of the saved tables | `BikeIngest`, `SharedBoard` as the abstract specification |
| `BikeIngestProofs` | theorems about both | `BikeIngestShared` |
| `StationForecast` | the numbers of one station's document and the chart's index | - |
| `StationForecastProofs` | theorems about `StationForecast` | `StationForecast` |
| `BikesDashboard` | the bikes map, fed by the pipeline | `BikeBoard` as the pipeline |
| `BikesDashboardProofs` | theorems about `BikesDashboard` | `BikesDashboard`, `Maxima` |
| `EventsMap` | the events map | - |
| `EventsMapProofs` | theorems about `EventsMap` | `EventsMap` |
| `TransitMaps` | the Luas and the bus page | - |
| `TransitMapsProofs` | theorems about `TransitMaps` | `TransitMaps`, `Maxima` |
| `SnapshotStream` | what a page may rely on when it listens to a query | - |
| `FirestoreClient` | the listening half of the Firestore client | `SnapshotStream` as the abstract specification |
| `FirestoreClientProofs` | theorems about `FirestoreClient` | `FirestoreClient` |
| `Session` | login, connectivity, menu, navigator, overview charts | - |
| `SessionProofs` | theorems about `Session` | `Session` |
| `Maxima` | a lemma: a bounded set of numbers has a greatest member | - |
| `MC*` | small instances for TLC | the module of the same name |

`BikeBoard` is used twice: `BikeIngest` is shown to implement it, and
`BikesDashboard` is built on it, so what is shown about the dashboard does not
depend on how the server produces its batches. `SharedBoard` is weaker: a
snapshot is added to a table that was saved at some time, not to the newest one.
It is what any number of processes keep, two schedulers under the autoreloader
included, and is stated over the tables ever saved, a history variable that
`BikeIngestShared` adds and no step reads. `BikesDashboard` takes a new
snapshot of the collection in one step; how a snapshot gets to a listener, late
or through a broken stream, is the subject of `FirestoreClient`, and
`SnapshotStream` is what the pages can build on.

Definitions named as faulty variants (`TransformSwallows`, `SelectMore`, ...)
are not part of a specification. Each is a plausible defect of the code; a run
with the variant in place of the definition it follows violates the property
`PROJECT.json` names for it, which shows that the property depends on that line.

### How the state corresponds to the code

* `BikeIngest`: `pc[p]` is where process p is in `bikeAvailability`;
  `source`, `resp` and `frame` are that call's locals (`endpoint`,
  `apiResponse`, `bikePredictor.recent_df`), so a cycle that ends or dies resets
  them. `csv` and `saved` are the file: `saved` holds the rows of the last
  complete table, `csv` says whether the file still is one. `board` is the
  collection `DublinBikes`. `last` is a history variable used by the
  refinement. An observation is the stamp of the snapshot it came from, its
  source and the time of its harvest at that source (`Old`: one the file came
  with); a window stands for the forecast computed from it.
* `StationForecast`: `doc` is the document `to_dict` returns, without the
  fields that are copied, and with the moment of the harvest, of which the app
  sees the `stamp` only; `chart` is the entry `getStationUsageData` picks. Of
  the list the chart reads, `station_occupancy`, the server writes nothing: it
  is the constant `Usage`.
* `BikesDashboard`: `snap` is `widget.snapshot`, `icons` counts the `late`
  fields that are set, `filter` is `dropdownvalue`, `screen` is what the last
  build handed to the map. Reading an icon that is not loaded throws, so
  `initAllMarkers` may stop halfway. A document is the number of the cycle that
  published it, not the age of its harvest: a later cycle may publish an older
  harvest, and the page takes it. `basis` is a history variable: the
  documents the markers were due to be made from. A page whose first snapshot
  is empty keeps an empty map until the dropdown is used.
* `EventsMap`: `runs` are the calls of `getMarkerData` that are waiting, each
  with the one local it computed before waiting (`noOfDays`). All of them wait
  for the same asset manifest, in the order they were started. `snap` is the
  version of `widget.snapshot`, 0 for one without documents, with which a page
  can be opened (by a device that is offline) and from which a run makes
  nothing; `first` is a history variable, the version the page was opened with.
* `TransitMaps`: `data`, `icons` and `route` are the three asynchronous chains;
  `lists` are the list objects that `polylineCoordinates` has been set to (lines
  refer to a list, not to its contents), `lines` and `count` are `polylines` and
  `_polylineCount`.
* `FirestoreClient`: an action is one task of the worker queue. `stream` is
  `stream.cc`'s `state_` (open and healthy are one; while it is starting the
  credentials are asked for), with the requests for credentials whose close
  count is old (`late`) and the idle timer; `track` is the `OnlineStateTracker`;
  `agg` is the `WatchChangeAggregator`, per target; `cache` and `last` are the
  local store; `synced` is `View::current_`; `shown` is a listener's last event. A query's
  documents are one number, the time they were last written. `backend`, `up`
  and `down` are outside: a backend that answers in order, may lag, and sends
  the documents of a time, with the mark that the target is current, and the
  snapshot of that time.
* `Session`: `root` is the page on top of the app's navigator and `leaving` what
  it replaced and is still in the tree; `pages` is the stack of the site's
  navigator, which has a global key and so moves to a new site; `pending[n]` are
  the sign-ins made on the n-th login page; `listening` the login pages whose
  connectivity listener is there; `data` and `checkData` the globals of the
  charts. `Get.offAllNamed("/overview")` resolves to the site, as the app's
  route table has it.

`setState` and the build it causes are one step. A build for another reason (a
map was created, the window was resized, a stream has an event) is `Rebuild` or
`Deliver`.

## 3. What TLC checks

`SPECIFICATION`, constants and properties are in the `.cfg` files.

| run | instance | shows |
|---|---|---|
| `ingest_one` | 1 process, 3 stations (one without a row, one with a row and no document), 2 sources, either of which may be refreshed, once in all, windows of 2 | the job implements `BikeBoard` through every crash and failure; saves extend the history; windows and documents stay in order source by source; cycles end |
| `ingest_order` | 1 process, 1 station, 2 sources | violated: a window is not in the order of the harvests |
| `ingest_pair` | 2 processes, 3 stations (one without a row), windows of 1, one harvest | the processes implement `SharedBoard`: every save and every batch is one snapshot on a table that was saved, and a torn save that nobody can repair is final |
| `ingest_lost_update` | 2 processes, 1 station | violated: processes overwrite each other's observations |
| `forecast` | capacity 3, stands 2 to 4, 2 forecasts, raw values below 0 and above the capacity, a list of 14 entries, an app one hour ahead of UTC, 7 minutes | documents are consistent, the chart stays in its list and at the entry its clocks say |
| `dashboard` | 2 stations, occupancies on the thresholds 25, 50 and 75, all five entries, 2 cycles | markers belong to the filter shown, are complete once icons are loaded, never go back behind what was published, and appear |
| `dashboard_stale` | the same | violated: markers keep the numbers of an older snapshot |
| `events_map` | 2 venues that share a stop, 2 overlapping runs, 2 versions, opened with or without documents | the last selection wins; no stops of an earlier one; the filter takes effect |
| `transit_maps` | 2 Luas stops, 3 bus stops, 2 busy stops, a cap of 2 markers, 4 routes | lines keep their own points and ids, a broken query leaves none, a page comes up unless stuck |
| `client` | 2 queries, 3 listeners (two of one query), 2 points in time, 2 messages in flight when the app calls, 1 fault | assertions hold, with one exception; acknowledgements are counted; views in sync show one state; listeners agree; the client implements `SnapshotStream`; waits are timed with one exception |
| `client_live` | 1 query without documents, 2 listeners, 3 messages, 2 faults | after the last fault every listener catches up and every view is in sync again |
| `session` | the overview and one other page in the menu, 3 login pages, 2 sign-ins under way, 5 pages on the stack, 12 series, answers that break off after the third, release build | offline link, menu and chart titles, with the exceptions the properties name |

**Why the bounds are enough.** Windows of length 2 have a middle that shifts, an
end that enters and an end that drops out. One refresh, by either source, puts
an older and a newer harvest of it behind the rows the file came with and beside
the older one of the other source. Two stations with a row, one of them without a document, and one with
neither are the combinations that the code tells apart in one process
(`ingest_pair` has the document without a row). Two processes suffice for a lost
update and for a file truncated under a reader. In `ingest_pair` windows of 1
and one harvest suffice, since what matters is which table a batch is made from;
the two stations with a row are what lets a batch mix two tables. In `forecast`,
delays of -2 and 5 minutes lie at the earliest stamp the chart bears and one
step behind; an hour of summer time is twelve entries, so documents of the
secondary source reach the end of a list of 14 entries and pass it within the 7
minutes. Two overlapping runs of `getMarkerData` can be out of step with the
selection in either order; a third repeats the situation (the theorems hold for
any number). Four routes are what the code asks for. The thresholds of the bikes
map are compared with values that lie on them. `client`: two queries with two
listeners on one give a target that is kept while a listener goes, one that goes
with its last listener, and requests of two targets that cross; with two
messages in flight a removal and a new listen overtake the first answer; two
points in time give one snapshot that is behind another and a backend that lags.
One fault meets every state of the stream; `client_live` has two, so that a
failure can follow a failure, which is what takes a client that was online
offline. `session`: with three login pages a listener of a gone page meets two
others; a new site starts with two pages, and five leave room for choosing three
more; twelve series are two answers. What is proved in section 4 holds for any
bounds.

**Fairness.** `BikeIngest`: a process that is up goes on with its own code;
nothing makes the source answer, since `requests.get` has no timeout, so
`CyclesEnd` allows a process to wait for ever, and nothing makes a process that
is down restart. `BikesDashboard`: assets load, and a page that stays open is
built again, because the stream behind it goes on changing: the pipeline commits
new documents every five minutes, which `MaxCycle` leaves no room for, hence the
fairness of `Rebuild`. `EventsMap`: assets load. Nothing in the repository
writes its collection, so no build is assumed, and `FilterTakesEffect` speaks of
the markers that the next build shows, not of the screen. `TransitMaps`: assets
load, queries and requests are answered or fail; builds are *not* assumed, since
no stream is behind these pages. `FirestoreClient`: the worker queue runs its
tasks, credentials and connections come, a backend answers and catches up; the
timers are not assumed to be prompt, and the bound on faults stands for a
network that works in the end. What the user does is never fair.

**Deadlock** is checked in every run; there is none.

### Disagreements found

* *Two schedulers.* `run.sh:12` starts the server with its autoreloader, which
  runs the app's `ready()` in two processes; `README.md:30` says `--noreload`.
  Both write the CSV file, and observations are lost (`ingest_lost_update`).
* *Out of order.* The source is chosen at random in every cycle and snapshots
  are not compared: a window is not "the 20 most-recent observations"
  (`prediction_pipeline.py:7`), as an older snapshot of one source follows a
  newer one of the other (`ingest_order`), and the same snapshot may be fetched
  twice. What does hold, and is proved for any number of sources, is the order
  within each of them (`WindowInSourceOrder`, `BoardNeverRegresses`).
* *Negative stands.* Forecasts are clamped to the capacity of a file and
  subtracted from the stands of the source; the transformer's test expects no
  negative value (`S/DataTransformer/tests/test_views.py:33`). `StandsCoverBikes`
  says when the promise does hold.
* *Stale markers.* The bikes map under the heading "Current Station Occupancy"
  keeps the markers of an earlier snapshot until the dropdown is used
  (`dashboard_stale`). The app also colours them by the field
  `station_occupancy`, which nothing in the repository writes: the server writes
  `occupancy_list`. The model keeps the two kinds of data apart for that reason.
* *The chart's list.* The usage chart reads `station_occupancy` too
  (`dublin_bikes_usage_chart.dart:22`), so it never shows a forecast the server
  made: `update()` leaves the field as it was. `ChartTracksTime` is about the
  place in that list only. No run is spent on it, as the two names say it all.
* *The chart's clock.* The stamp of the secondary source is UTC and is written
  without a zone (`S/DataTransformer/views.py:53-56`); the app parses it as local
  time. In an Irish summer a chart of such a document is an hour, or twelve
  entries, ahead, which `ChartTracksTime` states with the constant `Zone`. In a
  zone west of UTC the index would be negative and the build would fail
  (`ZoneAssumption`).
* *A polite backend.* A stream that the backend finishes with status OK counts
  as stopped by the client (`F/remote/stream.cc:353`), and while a listener is
  registered `F/remote/remote_store.cc:237` ends the app: "Watch stream was
  stopped gracefully while still needed". `BackendFinishes` is that step, with
  the app started again afterwards; `OtherAssertionsHold` is about the remaining
  assertions. Whether a backend ever does so is outside the repository.
* *A name.* The dropdown offers "Bord Gais Theatre", the documents say "Bord
  Gais Energy Theatre" (`ase_group5_scm/test/dublin_events_map_test.dart:41`), so
  choosing that entry shows no stop.
* *An untimed wait.* `F/remote/online_state_tracker.cc:47` says that the client
  goes offline after ten seconds "rather than waiting indefinitely". The timer
  is cleared with the last listener, and a listener that is added while the
  stream is still starting sets none: it waits, without a time limit, for a
  connection that neither comes nor fails. `OnlyListenEndsTiming` states that
  this step is the only one that takes the time limit away. The app can take
  it: its dashboards call `combinedStreams()` in `build`, which drops one
  listener and adds another.

`MapComesUp` names three situations in which the Luas page stays a spinner or
without markers: the query fails, it is answered before the icon is loaded, or
no route is answered. Nothing in the repository promises otherwise, so they are
part of the property and not listed as a disagreement. `StationForecast` assumes
that a harvest is stamped at most two minutes ahead of the app's clock
(`DelaysAssumption`); with three the chart's index is negative and its build
fails.

In the same way `OnlyHasteMisleads` names the one sequence that separates menu
and page: log in offline, choose a page, log out, and log in again before the
transition to the login page is over. The old site's stack moves to the new one,
under a menu that says "Overview". `ChartsBelongTogether` leaves out a first
answer that broke off: the titles are then wrong until the app is started again,
since the list of series is global and only extended.

## 4. What is proved

Every invariant and every action property that a passing run checks is also a
theorem; only liveness is left to TLC.

`BikeIngestProofs`, for any number of processes, stations, sources, refreshes
and any window length:

* `TypeCorrect` - `[]TypeOK`, with the two facts about process states that it
  needs (`Typed`).
* `LossIsForGood` - a torn file with no writer left is never repaired, by any
  step of any process. It is how `Silenced`, the end of the service, implements
  `over` in `SharedBoard`.
* `ProcessesShareBoard` - `SharedSpec => SB!Spec`, the refinement of
  `SharedBoard`. The invariant `Rooted` is what lost updates leave of `InStep`
  below: the table on file is one that was saved, and from the slide to the
  commit a process has in memory such a table extended by the answer it holds.
  `FlushCsv` maps to `Record` and `Commit` to `Publish` with that table as the
  witness, a step that only silences the service to `End`.

and, for one process (`OneProcess`):

* `HistoryIsExtended` - every save extends the saved table by one snapshot.
* `JobImplementsBoard` - `Spec => BB!Spec`. `TypeOK` does not suffice: a save
  is a step of the board only if the table in memory is still the one on file
  plus this snapshot, and a commit only if it is the one on file. The invariant
  `InStep` says so, phase by phase; `FlushCsv` maps to `Record`, `Commit` to
  `Publish`, every other step to a stutter. With two processes `InStep` is
  false, which is the lost update above.
* `WindowsAreInOrder`, `BoardIsMonotone` - for any number of sources, from the
  invariant `InOrder`, which carries the order within each source from its clock
  through the answer and the frame to the file and the board. `ServedIsNewest`
  says that nothing in a window is newer than what its source serves,
  `SlideIsOrdered` that a window in order still is after it gains such an entry.

`StationForecastProofs`, for any capacity, number of forecasts, stands,
regression output, list the chart reads and summer time:

* `TypeCorrect`.
* `OccupancyIsTrue` - occupancy and free stands of an entry agree. The rounding
  to thousandths is nonlinear arithmetic; `PerMilleAgrees` isolates it, for any
  natural number of bikes and stands.
* `StandsAreCovered` - forecasts are within the capacity, and stands are not
  negative where the source reports at least the capacity.
* `ChartIsTimely` - the index is in range and its time is within half a step
  of the build, `Zone` minutes ahead of it for the secondary source, or the list
  has run out. It rests on the step of 5 minutes, on `DelaysAssumption` and on
  `ZoneAssumption`.

`EventsMapProofs`, for any venues, stops, number of runs and versions:

* `TypeCorrect`.
* `StopsFollowSelection` - no stop of a venue that is not selected is kept or
  shown.
* `LastSelectionWins` - with no run waiting, the markers are those of the two
  dropdowns, except on a page that was opened without documents and has drawn
  none since. The invariant also needs `DrawnFromDocuments` (a page opened with
  documents has them to this day, and what is drawn was made from documents) and
  `LastRunIsCurrent`: the run started last carries the days of the present
  filter, so the last one to come back settles the map.
* `EventsOnlyAdvance` - the screen of an open page never goes back to an older
  version of the events. A run that comes back lists the page's snapshot, so it
  is enough that the screen is never ahead of the lists, the lists never ahead
  of the snapshot, and that never ahead of the documents (`VersionsInOrder`).

`BikesDashboardProofs`, for any list of documents, occupancies, entries of the
dropdown and number of cycles:

* `TypeCorrect`, `FilterIsRespected`, `NothingStaysMissing`, `MarkersOnlyImprove`.
  The last one spans server and page: the invariant orders, station by station,
  window, board, snapshot, markers and screen (`ServerIsAhead`,
  `ScreenIsBehind`), and `TakeIs` and `PublishIs` show that the steps of the
  abstract board move only forward from cycle to cycle. `Maxima` serves the
  CHOOSE of the latest cycle.

`TransitMapsProofs`, for any stops, busy stops and cap:

* `TypeCorrect`, `NoLineIsEverLost`, `PointsStayApart`, `RoutesComeLast`. Ids are
  0 to `count - 1` and every answer makes the next list (`LinesAreNumbered`); a
  list with points belongs to one answered route of its line's colour
  (`ListsAreOwned`), although all answers write one field.

`FirestoreClientProofs`, for any queries, finite set of listeners, times,
messages and faults:

* `TypeCorrect`, `OtherAssertionsAlwaysHold` (inductive with the types),
  `OnlyListenEndsTimingAlways`.
* `ListenersAlwaysAgree` - with `RemovedAreSilent`, inductive.
* `NeverRevertsAlways` - copies and snapshot versions only grow.
* `PromiseKept` - `Spec => Promise!Spec`, the refinement of `SnapshotStream`. A
  snapshot that is applied is a step `Fetch` only if it brings versions that
  were published, so the invariant `Genuine` follows versions from the backend's
  history through messages and aggregator into the local copy.
* `AcksAlwaysUnderWay` - the responses a target waits for are exactly its
  requests on the way up and its answers on the way down. The lemmas `DueTo...`
  say how the count changes when a message is sent or taken. The theorem needs
  `OnlyOpen`: while the stream is not open nothing is on the wire, and the
  aggregator is a new one.
* `ViewsAlwaysConsistent` - confirmed views show the database at the time of the
  last snapshot. The invariant `ViewInv` adds four facts. `WireInv`: each run of
  documents is that of the snapshot right behind it, snapshots come in the order
  of time, no update received is ahead of a snapshot to come, and behind the
  answer to a listen each snapshot has the target's documents in front of it.
  `WatchedLast`: the last that is under way of a listener's target is not its
  removal. `WhileActive`: of a target that waits for no response, whatever a
  snapshot to come stands for is held or comes before it. `SyncedMeans`: a view
  in sync has a listener and a snapshot behind it, and its target is not taken
  for current while responses are due. When a snapshot is applied, the copy of a
  confirmed view is then not behind it (`WhileActive`) and not ahead of it
  (`WireInv`). `WhileActive` is established when the last response due arrives:
  by `WatchedLast` and the count of `AcksAlwaysUnderWay` it is the answer to a
  listen, and `WireInv` says what follows such an answer.

`SessionProofs`, for any menu, login pages, sign-ins and stack:

* `TypeCorrect`, `LinkIsCurrent`, `ChartsAreTogether`, `HasteAloneMisleads`.
  `AnswersAreContiguous` says that the series of an answer stand together in the
  order of the titles, `LoginIsClean` that whoever is on the login page has left
  the overview behind or a site still in the tree.

The proofs assume the constants to be as the named `ASSUME`s of each module say,
which TLC evaluates in the runs.

Model-checked only: the liveness properties `CyclesEnd`, `MapIsDrawn`,
`FilterTakesEffect`, `MapComesUp`, `ListenersCatchUp` and `SyncComesBack`. They
rest on fairness, whose ENABLED this prover does not reason about. The three
properties that runs refute (`ingest_lost_update`, `ingest_order`,
`dashboard_stale`) are false and have no theorem.

## 5. Assumptions about what is not in `src/`

* A source serves one snapshot with at least one station, at most one entry
  per station, and never goes back in time.
* The table of observations is smaller than one write buffer, so `to_csv`
  changes the file twice: when it truncates and when it closes it. A write over
  a longer table of another process may leave a file that does not parse.
* A Firestore batch is atomic and fails if one document is missing; a client
  call ends in an answer or an error.
* The scheduler keeps one running instance of the job (APScheduler's default).
* `recent_df.loc[i].recentObservations = x` changes the frame, as in the
  versions of pandas of the code's time; under copy-on-write it would not. The
  requirements file does not name a version.
* The HTTP view of the ingest function (`DublinBikes/urls.py`) calls it with a
  request argument it does not take, raises, and so never runs a cycle.
* The primary source stamps its snapshots in the app's local time: the string is
  passed on as it comes, and nothing in the repository says more of it.
* The Firestore backend answers requests in order, ends a run of document
  changes with a global snapshot, and may lag behind one the client was
  connected to before. Documents are written and not deleted.
* The app ends between two tasks of the client's queue: what a task writes to
  the local store is one transaction.
* A replaced route stays in the tree until the transition of its successor is
  over; a navigator with a global key moves with its pages to a new parent that
  is built while the old one is in the tree. `setState` of a page that is gone
  throws before it runs its function in a debug build and after in a release
  build (constant `Release`).
* Asset loads are answered in order, as all wait for the same manifest.
* Documents of the Luas, bus and events collections have the fields the app
  reads, with the types of the web platform. The Luas and bus collections are
  not empty; the events collection may be, to a device that has no copy of it.

## 6. Not modelled

* *No behaviour of interest:* the transformer's stubs for Luas, buses and events;
  the training script; Django and Flutter start-up, layout and styling; the swap
  tables and the weather panel, which only format a snapshot; platform runners
  and the sample app. The regression's value is arbitrary; what a marker's text
  says is not represented.
* *The events table and the cut of the usage chart* recompute what they show in
  every build from one snapshot. The table would go wrong only if a venue's
  document were removed, the chart only with fewer than 22 documents; the
  repository does neither, and a property would restate the code.
* *The rest of the Firestore client:* writes, transactions and the write stream
  (the app only reads), limbo documents and deletions (nothing deletes),
  existence filters, rejected targets, resume tokens, bundles, eviction. One
  peculiarity was seen and left out: `ProcessTargetError` drops a rejected
  target with the count of acknowledgements it still has due.
* *Other vendored pods* (gRPC, BoringSSL, leveldb, Abseil, other Firebase
  libraries) make up most of the C and C++ lines of the repository. They are
  third-party libraries behind the interfaces that the client uses; the models
  see them as a stream that delivers in order or fails, and as a store that
  keeps what was committed. They are not this program's logic, so the share of
  the repository's lines that is modelled stays small.
* *Composition.* The pages are not put on top of `FirestoreClient` in one state
  space; they meet at `SnapshotStream`.
* *Small screens:* the drawer that `side_menu.dart:72` closes.

Left to do: rejected targets in the client.
