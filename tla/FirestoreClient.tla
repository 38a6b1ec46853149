--------------------------- MODULE FirestoreClient ---------------------------
(***************************************************************************)
(* The listening half of the Firestore client that the app is built with   *)
(* (ios/Pods/FirebaseFirestore/Firestore/core/src): listeners and views    *)
(* (event_manager, query_listener, sync_engine, view), the remote store    *)
(* with its watch stream, its online state and its aggregator of watch     *)
(* changes (remote_store, stream, online_state_tracker, remote_event), and *)
(* the local copy of the documents (local_store).                          *)
(*                                                                         *)
(* All of it runs on one worker queue: an action is one task of the queue, *)
(* a callback of the stream, a timer or a call of the app.  The documents  *)
(* of a query are the time they were last written at, 0 while there are    *)
(* none; they are written and never deleted, as the jobs of the server do, *)
(* so no document is ever in limbo.  The app only listens: the write       *)
(* stream stays shut.                                                      *)
(***************************************************************************)
EXTENDS Integers, Sequences, FiniteSets, Functions

CONSTANTS Query,
          Listener,
          QueryOf,     \* QueryOf[l]: the query listener l is for
          Initially,   \* the versions in the beginning: 0 or 1
          MaxTime,     \* bound: points in time of the backend
          MaxWire,     \* bound: messages in flight when the app makes a call
          MaxFaults    \* bound: failures, restarts and lost connections

ASSUME ListenerAssumption == IsFiniteSet(Listener)
ASSUME QueryOfAssumption == QueryOf \in [Listener -> Query]
ASSUME InitiallyAssumption == Initially \in [Query -> {0, 1}]
ASSUME BoundsAssumption == /\ MaxTime \in Nat \ {0}
                           /\ MaxWire \in Nat
                           /\ MaxFaults \in Nat

VARIABLES
    past,     \* external: past[t][q] is the version of q at time t
    backend,  \* external: the backend at the other end of the stream
    up, down, \* requests and responses in flight
    stream,   \* the watch stream
    track,    \* the online state tracker
    agg,      \* the aggregator of watch changes
    cache,    \* the local copy of each query's documents, kept on disk
    last,     \* the last remote snapshot version, kept on disk
    synced,   \* the queries whose view is in sync with the backend
    on,       \* the listeners that are registered
    shown,    \* the version of each listener's last event
    faults

world == <<past, backend>>
wire == <<up, down>>
views == <<synced, on, shown>>
vars == <<past, backend, up, down, stream, track, agg, cache, last, synced, on,
          shown, faults>>

-----------------------------------------------------------------------------
(* Data.                                                                   *)

Version == 0..MaxTime
Time == 1..MaxTime
Now == Len(past)
None == -1
Silent == -1

\* The queries with a listener: listen_targets_, queries_ and the views.
TargetsOf(ls) == {QueryOf[l] : l \in ls}
Targets == TargetsOf(on)

Requests == [kind : {"watch", "unwatch"}, query : Query]

\* The responses: acknowledgements, a run of document changes that brings
\* some targets up to date and marks them current, a global snapshot.
Added(q) == [kind |-> "added", query |-> q]
Removed(q) == [kind |-> "removed", query |-> q]
Documents(f) == [kind |-> "documents", versions |-> f]
Snapshot(t) == [kind |-> "snapshot", time |-> t]

NoBackend == [time |-> 0, sent |-> [q \in {} |-> 0]]

\* A stream that is not started.  late: answers to requests for credentials
\* that an earlier start made are still to come.
Stopped(how, late) ==
    [state |-> how, late |-> late, idle |-> FALSE]

\* A new aggregator: no response is expected, no target current or changed.
NewAggregator == [acks |-> [q \in Query |-> 0], current |-> {}, changed |-> {},
                  updates |-> [q \in Query |-> 0]]

IsOpen == stream.state = "open"
IsStarted == stream.state \in {"starting", "backoff", "open"}

\* Faulty variant: an update replaces what is there, whatever its version.
NewerAlways(version, other) == IF version > 0 THEN version ELSE other

\* PopulateDocumentChanges: an update that is not newer is ignored.
Newer(version, other) == IF version > other THEN version ELSE other

-----------------------------------------------------------------------------
(* OnlineStateTracker: what each of its operations makes of it.            *)

kMaxWatchStreamFailures == 1

\* Faulty variant: the timer is left to run.
AfterUpdateTimed(tr, state) == [tr EXCEPT !.state = state, !.failures = 0]

\* UpdateState.
AfterUpdate(tr, state) == [state |-> state, timer |-> FALSE, failures |-> 0]

\* Faulty variant: no timer is set.
AfterStartUntimed(tr) ==
    IF tr.failures # 0 THEN tr
    ELSE [state |-> "Unknown", timer |-> FALSE, failures |-> 0]

\* HandleWatchStreamStart.
AfterStart(tr) ==
    IF tr.failures # 0 THEN tr
    ELSE [state |-> "Unknown", timer |-> TRUE, failures |-> 0]

\* HandleWatchStreamFailure.  Further failures are counted by the code; they
\* make no difference.
AfterFailure(tr) ==
    IF tr.state = "Online" THEN [tr EXCEPT !.state = "Unknown"]
    ELSE [state |-> "Offline", timer |-> FALSE,
          failures |-> kMaxWatchStreamFailures]

-----------------------------------------------------------------------------
(* QueryListener and View.                                                 *)

\* Faulty variant: an empty result is held back until the client is offline.
FirstEventIsDueLate(q, insync, copy, state) == copy[q] > 0 \/ state = "Offline"

\* ShouldRaiseInitialEvent.
FirstEventIsDue(q, insync, copy, state) ==
    q \in insync \/ copy[q] > 0 \/ state = "Offline"

\* Faulty variant: a listener gets no event after its first one.
EventsOnce(ls, insync, copy, state) ==
    [l \in Listener |->
        LET q == QueryOf[l]
        IN  CASE l \notin ls -> Silent
              [] l \in ls /\ shown[l] # Silent -> shown[l]
              [] OTHER -> IF FirstEventIsDue(q, insync, copy, state)
                          THEN copy[q] ELSE Silent]

\* The listeners' events when the views are those of copy and in sync for
\* insync, and the online state is state.  After its first event a listener
\* hears of changes of the documents only.
Events(ls, insync, copy, state) ==
    [l \in Listener |->
        LET q == QueryOf[l]
        IN  CASE l \notin ls -> Silent
              [] l \in ls /\ shown[l] # Silent /\ copy[q] = cache[q] -> shown[l]
              [] l \in ls /\ shown[l] # Silent /\ copy[q] # cache[q] -> copy[q]
              [] OTHER -> IF FirstEventIsDue(q, insync, copy, state)
                          THEN copy[q] ELSE Silent]

\* SetAndBroadcast and HandleOnlineStateChange: only going offline has an
\* effect.  Views are not in sync any more, and listeners without an event
\* get one.
SetOnlineState(tr) ==
    /\ track' = tr
    /\ IF tr.state = "Offline" /\ track.state # "Offline"
       THEN /\ synced' = {}
            /\ shown' = Events(on, {}, cache, "Offline")
       ELSE UNCHANGED <<synced, shown>>

-----------------------------------------------------------------------------
(* The stream between client and backend.                                  *)

HangUp == /\ backend' = NoBackend
          /\ up' = << >>
          /\ down' = << >>

\* Faulty variant: the responses that are due are not counted.
AfterSendingUncounted(ag, requests) == ag

\* RecordPendingTargetRequest for every request sent.
AfterSending(ag, requests) ==
    [ag EXCEPT !.acks =
        [q \in Query |->
            @[q] + Cardinality({i \in DOMAIN requests : requests[i].query = q})]]

\* SendWatchRequest and SendUnwatchRequest: a write ends the wait for an idle
\* stream.
Send(requests) ==
    /\ up' = up \o requests
    /\ agg' = AfterSending(agg, requests)
    /\ stream' = [stream EXCEPT !.idle = FALSE]

\* RequestCredentials: a stream that is starting waits for them.
Starting(late) ==
    [state |-> "starting", late |-> late, idle |-> FALSE]

\* Stream::Start: after an error the stream backs off first.
Started(st) == IF st.state = "error" THEN [st EXCEPT !.state = "backoff"]
               ELSE Starting(st.late)

-----------------------------------------------------------------------------
Init ==
    /\ past = << Initially >>
    /\ backend = NoBackend
    /\ up = << >>
    /\ down = << >>
    /\ stream = Stopped("initial", FALSE)
    /\ track = [state |-> "Unknown", timer |-> FALSE, failures |-> 0]
    /\ agg = NewAggregator
    /\ cache = [q \in Query |-> 0]
    /\ last = 0
    /\ synced = {}
    /\ on = {}
    /\ shown = [l \in Listener |-> Silent]
    /\ faults = 0

(* The backend, as the client assumes it to be.                            *)

\* Somebody writes the documents of a query.
WriteDocuments(q) ==
    /\ Now < MaxTime
    /\ past' = Append(past, [past[Now] EXCEPT ![q] = Now + 1])
    /\ UNCHANGED <<backend, wire, stream, track, agg, cache, last, views, faults>>

\* Requests are answered in order.
BackendAnswers ==
    /\ up # << >>
    /\ up' = Tail(up)
    /\ LET q == Head(up).query
       IN  IF Head(up).kind = "watch"
           THEN /\ backend' = [backend EXCEPT !.sent =
                                   [r \in DOMAIN @ \cup {q} |->
                                       IF r = q THEN None ELSE @[r]]]
                /\ down' = Append(down, Added(q))
           ELSE /\ backend' = [backend EXCEPT !.sent =
                                   Restrict(@, DOMAIN @ \ {q})]
                /\ down' = Append(down, Removed(q))
    /\ UNCHANGED <<past, stream, track, agg, cache, last, views, faults>>

\* The backend has seen the writes up to time t, brings the targets up to
\* date and ends with a global snapshot.  One that lags behind does so with
\* an earlier time than the client may have seen from another.
BackendSends(t) ==
    /\ IsOpen
    /\ LET news == {q \in DOMAIN backend.sent : backend.sent[q] # past[t][q]}
           versions == [q \in news |-> past[t][q]]
       IN  /\ DOMAIN backend.sent # {}
           /\ news # {} \/ backend.time < t
           /\ backend' = [time |-> t,
                          sent |-> [q \in DOMAIN backend.sent |-> past[t][q]]]
           /\ down' = down \o << Documents(versions), Snapshot(t) >>
    /\ UNCHANGED <<past, up, stream, track, agg, cache, last, views, faults>>

-----------------------------------------------------------------------------
(* Calls of the app.                                                       *)

\* AddQueryListener: the first listener of a query sets up a view from the
\* local copy, a later one is given the view as it is.  A first listener
\* makes the stream start, or tells the open stream of the target.
Listen(l) ==
    /\ l \notin on
    /\ Len(up) + Len(down) < MaxWire
    /\ on' = on \cup {l}
    /\ shown' = Events(on', synced, cache, track.state)
    /\ \/ /\ QueryOf[l] \in Targets \/ stream.state \in {"starting", "backoff"}
          /\ UNCHANGED <<stream, track, agg, up>>
       \/ /\ QueryOf[l] \notin Targets /\ IsOpen
          /\ Send(<< [kind |-> "watch", query |-> QueryOf[l]] >>)
          /\ UNCHANGED track
       \/ /\ QueryOf[l] \notin Targets /\ ~IsStarted
          /\ stream' = Started(stream)
          /\ agg' = NewAggregator
          /\ track' = AfterStart(track)
          /\ UNCHANGED up
    /\ UNCHANGED <<world, down, cache, last, synced, faults>>

\* RemoveQueryListener: the last listener of a query takes the view and the
\* target with it; the last of all leaves an open stream idle, and makes the
\* online state unknown when the stream is not open.
Unlisten(l) ==
    /\ l \in on
    /\ Len(up) + Len(down) < MaxWire
    /\ on' = on \ {l}
    /\ shown' = [shown EXCEPT ![l] = Silent]
    /\ synced' = synced \cap TargetsOf(on')
    /\ \/ /\ QueryOf[l] \in TargetsOf(on')
          /\ UNCHANGED <<stream, track, agg, up>>
       \/ /\ QueryOf[l] \notin TargetsOf(on') /\ IsOpen
          /\ LET requests == << [kind |-> "unwatch", query |-> QueryOf[l]] >>
             IN  /\ up' = up \o requests
                 /\ agg' = AfterSending(agg, requests)
                 /\ stream' = [stream EXCEPT !.idle = on' = {}]
          /\ UNCHANGED track
       \/ /\ QueryOf[l] \notin TargetsOf(on') /\ ~IsOpen
          /\ track' = IF on' = {} THEN AfterUpdate(track, "Unknown") ELSE track
          /\ UNCHANGED <<stream, agg, up>>
    /\ UNCHANGED <<world, down, cache, last, faults>>

-----------------------------------------------------------------------------
(* The life of the stream.                                                 *)

\* Credentials that an earlier start asked for are dropped, by their close
\* count.
LateCredentialsCome ==
    /\ stream.late
    /\ stream' = [stream EXCEPT !.late = FALSE]
    /\ UNCHANGED <<world, wire, track, agg, cache, last, views, faults>>

\* ResumeStartWithCredentials opens the stream in the same task, and
\* OnWatchStreamOpen asks for all targets, in any order.
Connect ==
    /\ stream.state = "starting"
    /\ \E order \in [1..Cardinality(Targets) -> Targets] :
          LET requests == [i \in DOMAIN order |->
                              [kind |-> "watch", query |-> order[i]]]
          IN  /\ Range(order) = Targets
              /\ up' = requests
              /\ agg' = AfterSending(agg, requests)
    /\ stream' = [stream EXCEPT !.state = "open"]
    /\ UNCHANGED <<world, down, track, cache, last, views, faults>>

\* Faulty variant: the stream is not started again.
StreamFailsForGood ==
    /\ faults < MaxFaults
    /\ stream.state \in {"starting", "open"}
    /\ faults' = faults + 1
    /\ HangUp
    /\ agg' = NewAggregator
    /\ stream' = Stopped("error", stream.late)
    /\ SetOnlineState(AfterFailure(track))
    /\ UNCHANGED <<past, cache, last, on>>

\* OnStreamFinish with an error, from the credentials, the connection or the
\* open stream: OnWatchStreamClose starts it again while there are targets.
StreamFails ==
    /\ faults < MaxFaults
    /\ stream.state \in {"starting", "open"}
    /\ faults' = faults + 1
    /\ HangUp
    /\ agg' = NewAggregator
    /\ \/ /\ Targets # {}
          /\ stream' = Started(Stopped("error", stream.late))
          /\ SetOnlineState(AfterStart(AfterFailure(track)))
       \/ /\ Targets = {}
          /\ stream' = Stopped("error", stream.late)
          /\ SetOnlineState(AfterUpdate(track, "Unknown"))
    /\ UNCHANGED <<past, cache, last, on>>

\* The back-off is over.
BackoffElapsed ==
    /\ stream.state = "backoff"
    /\ stream' = Starting(stream.late)
    /\ UNCHANGED <<world, wire, track, agg, cache, last, views, faults>>

\* Close and OnWatchStreamClose without an error, when no target needs the
\* stream.
CloseGracefully ==
    /\ HangUp
    /\ agg' = NewAggregator
    /\ stream' = Stopped("initial", stream.late)
    /\ SetOnlineState(AfterUpdate(track, "Unknown"))
    /\ UNCHANGED <<past, cache, last, on>>

\* The idle timer stops the stream.
IdleTimeout == stream.idle /\ CloseGracefully /\ UNCHANGED faults

\* The timer of the online state.
OnlineStateTimeout ==
    /\ track.timer
    /\ SetOnlineState([track EXCEPT !.state = "Offline", !.timer = FALSE])
    /\ UNCHANGED <<world, wire, stream, agg, cache, last, on, faults>>

\* RestartNetwork: the network of the device has changed, or its user.
RestartNetwork ==
    /\ faults < MaxFaults
    /\ faults' = faults + 1
    /\ HangUp
    /\ agg' = NewAggregator
    /\ LET st == Stopped("initial", stream.state = "starting" \/ stream.late)
       IN  stream' = IF Targets = {} THEN st ELSE Started(st)
    /\ SetOnlineState(IF Targets = {} THEN AfterUpdate(track, "Unknown")
                      ELSE AfterStart(AfterUpdate(track, "Unknown")))
    /\ UNCHANGED <<past, cache, last, on>>

\* The app ends and is started again: the local copy is on disk.
AppEnds ==
    /\ HangUp
    /\ stream' = Stopped("initial", FALSE)
    /\ track' = AfterUpdate(track, "Unknown")
    /\ agg' = NewAggregator
    /\ synced' = {}
    /\ on' = {}
    /\ shown' = [l \in Listener |-> Silent]
    /\ UNCHANGED <<past, cache, last>>

Restart ==
    /\ faults < MaxFaults
    /\ faults' = faults + 1
    /\ AppEnds

\* OnStreamFinish with status OK, which the backend and not the client has
\* chosen.  It counts as graceful, and while there are targets
\* OnWatchStreamClose takes it for a mistake of the client: "Watch stream was
\* stopped gracefully while still needed" ends the app.
BackendFinishes ==
    /\ faults < MaxFaults
    /\ IsOpen
    /\ faults' = faults + 1
    /\ \/ Targets = {} /\ CloseGracefully
       \/ Targets # {} /\ AppEnds

-----------------------------------------------------------------------------
(* The responses.                                                          *)

\* OnWatchStreamChange: the next response, which shows that the client is
\* online.
Receive(kind) ==
    /\ down # << >>
    /\ Head(down).kind = kind
    /\ down' = Tail(down)
    /\ track' = AfterUpdate(track, "Online")

\* Faulty variant: the acknowledgements that are due are not waited for.
ActiveAnyway(q) == q \in Targets

\* IsActiveTarget: what comes for a target while acknowledgements are due
\* belongs to an earlier listen.
Active(q) == q \in Targets /\ agg.acks[q] = 0

TargetAdded ==
    /\ Receive("added")
    /\ LET q == Head(down).query
           acks == [agg.acks EXCEPT ![q] = @ - 1]
       IN  agg' = [agg EXCEPT !.acks = acks,
                              !.changed = IF acks[q] = 0 THEN @ \ {q} ELSE @]
    /\ UNCHANGED <<world, up, stream, cache, last, views, faults>>

TargetRemoved ==
    /\ Receive("removed")
    /\ LET q == Head(down).query
           acks == [agg.acks EXCEPT ![q] = @ - 1]
           gone == IF acks[q] = 0 THEN {q} ELSE {}
       IN  agg' = [agg EXCEPT !.acks = acks, !.changed = @ \ gone,
                              !.current = @ \ gone]
    /\ UNCHANGED <<world, up, stream, cache, last, views, faults>>

\* AddDocumentToTarget and MarkCurrent for the active targets.
DocumentsChange ==
    /\ Receive("documents")
    /\ LET versions == Head(down).versions
           taken == {q \in DOMAIN versions : Active(q)}
       IN  agg' = [agg EXCEPT !.changed = @ \cup taken,
                              !.current = @ \cup taken,
                              !.updates = [q \in Query |->
                                  IF q \in taken THEN versions[q] ELSE @[q]]]
    /\ UNCHANGED <<world, up, stream, cache, last, views, faults>>

\* A snapshot older than the last one is passed over.
SnapshotIgnored ==
    /\ Receive("snapshot")
    /\ Head(down).time < last
    /\ UNCHANGED <<world, up, stream, agg, cache, last, views, faults>>

\* RaiseWatchSnapshot, for the version t: the updates go into the local copy
\* where they are newer, the active targets that changed tell their views
\* whether they are in sync, and the listeners hear of it.
RaiseWatchSnapshot(t) ==
    /\ last' = t
    /\ cache' = [q \in Query |-> Newer(agg.updates[q], cache[q])]
    /\ LET changes == {q \in agg.changed : Active(q)}
       IN  /\ synced' = (synced \ changes) \cup (changes \cap agg.current)
           /\ agg' = [agg EXCEPT !.changed = @ \ changes,
                                 !.updates = [q \in Query |-> 0]]
    /\ shown' = Events(on, synced', cache', "Online")
    /\ UNCHANGED <<world, up, stream, on, faults>>

\* Faulty variants: an older snapshot is raised as well, one is taken for
\* the next.
SnapshotRaisedAnyway ==
    Receive("snapshot") /\ RaiseWatchSnapshot(Head(down).time)

SnapshotRaisedAsNext ==
    /\ Receive("snapshot") /\ Head(down).time >= last
    /\ RaiseWatchSnapshot(Head(down).time + 1)

SnapshotRaised ==
    /\ Receive("snapshot") /\ Head(down).time >= last
    /\ RaiseWatchSnapshot(Head(down).time)

-----------------------------------------------------------------------------
Backend == \/ \E q \in Query : WriteDocuments(q)
           \/ BackendAnswers
           \/ \E t \in Time : t >= backend.time /\ t <= Now /\ BackendSends(t)

App == \E l \in Listener : Listen(l) \/ Unlisten(l)

Responses == \/ TargetAdded \/ TargetRemoved \/ DocumentsChange
             \/ SnapshotIgnored \/ SnapshotRaised

Connecting == LateCredentialsCome \/ Connect \/ BackoffElapsed

Timeouts == IdleTimeout \/ OnlineStateTimeout

Faults == StreamFails \/ BackendFinishes \/ RestartNetwork \/ Restart

Next == Backend \/ App \/ Responses \/ Connecting \/ Timeouts \/ Faults

Spec == Init /\ [][Next]_vars

\* The worker queue runs its tasks, credentials and connections come, and a
\* backend answers and catches up; the bound on faults stands for a network
\* that works in the end.
FairSpec == /\ Spec
            /\ WF_vars(Responses \/ Connecting)
            /\ WF_vars(BackendAnswers)
            /\ WF_vars(BackendSends(Now))

-----------------------------------------------------------------------------
(* Properties.                                                             *)

Versions == UNION {[S -> Version] : S \in SUBSET Query}

Response == {Added(q) : q \in Query} \cup {Removed(q) : q \in Query}
            \cup {Documents(f) : f \in Versions} \cup {Snapshot(t) : t \in Time}

Ends == UNION {[S -> Version \cup {None}] : S \in SUBSET Query}

BackendState == [time : 0..MaxTime, sent : Ends]

StreamState == [state : {"initial", "starting", "backoff", "open", "error"},
                late : BOOLEAN, idle : BOOLEAN]

TrackState == [state : {"Unknown", "Online", "Offline"}, timer : BOOLEAN,
               failures : {0, kMaxWatchStreamFailures}]

Aggregator == [acks : [Query -> Int], current : SUBSET Query,
               changed : SUBSET Query, updates : [Query -> Version]]

TypeOK ==
    /\ past \in Seq([Query -> Version]) /\ Now \in Time
    /\ backend \in BackendState
    /\ up \in Seq(Requests)
    /\ down \in Seq(Response)
    /\ stream \in StreamState
    /\ track \in TrackState
    /\ agg \in Aggregator
    /\ cache \in [Query -> Version]
    /\ last \in 0..MaxTime
    /\ synced \in SUBSET Query
    /\ on \in SUBSET Listener
    /\ shown \in [Listener -> Version \cup {Silent}]
    /\ faults \in 0..MaxFaults

\* The assertions that guard the stream and its online state hold whenever
\* they are reached, but for the one that BackendFinishes fails: the timer
\* runs in the unknown state only and is not there when the stream starts, no
\* failure is remembered while online, and the client itself stops a stream
\* as idle, or leaves it in error, only when no target needs it.
OtherAssertionsHold ==
    /\ track.timer => track.state = "Unknown" /\ track.failures = 0 /\ IsStarted
    /\ track.state = "Online" => track.failures = 0
    /\ ~IsStarted => track.failures = 0 /\ Targets = {}
    /\ stream.idle => IsOpen /\ Targets = {}

\* The responses that are due are those under way: the count goes wrong
\* neither when a target is removed and added again before its first answer,
\* nor when the stream breaks in between.
DueTo(q, messages, kinds) ==
    Cardinality({i \in DOMAIN messages : /\ messages[i].kind \in kinds
                                         /\ messages[i].query = q})

AcksAreUnderWay ==
    \A q \in Query :
        agg.acks[q] = DueTo(q, up, {"watch", "unwatch"})
                      + DueTo(q, down, {"added", "removed"})

\* The queries that the stream, as it is, has confirmed: views that are in
\* sync, whose target is active, current and without changes to come.
Confirmed == {q \in synced : /\ Active(q)
                             /\ q \in agg.current \ agg.changed}

\* What the views in sync show together is one state of the database, that
\* of the last snapshot: no answer to an earlier listen, from before a target
\* was removed and added again, is taken for the present one.
ViewsAreConsistent ==
    \A q \in Confirmed : cache[q] = past[last][q]

\* A listener that has had an event shows the local copy of its query, as do
\* the others of that query, whenever they were added; and one is kept
\* waiting only while there is nothing to show and the client may be online.
ListenersAgree ==
    \A l \in on :
        \/ shown[l] = cache[QueryOf[l]]
        \/ /\ shown[l] = Silent
           /\ ~FirstEventIsDue(QueryOf[l], synced, cache, track.state)

\* The database goes by its snapshots: neither the copy of a query nor the
\* time of the last snapshot goes back, whichever backend answers.
NeverReverts == [][/\ last <= last'
                   /\ \A q \in Query : cache[q] <= cache'[q]]_vars

\* What a page may rely on.
Promise == INSTANCE SnapshotStream WITH published <- past[Now], held <- cache

KeepsPromise == Promise!Spec

\* The wait for a first event is timed: the unknown state has its timer
\* while there are targets.  One step only takes the time limit away, that of
\* the first listener added to a stream that is on its way already, started
\* for listeners that are gone.
WaitIsTimed == Targets # {} /\ track.state = "Unknown" => track.timer

OnlyListenEndsTiming ==
    [][WaitIsTimed /\ ~WaitIsTimed' =>
          on = {} /\ IsStarted /\ \E l \in Listener : on' = {l}]_vars

\* A listener is told the documents as they are, even if there are none, or
\* it is removed.
ListenersCatchUp ==
    \A l \in Listener :
        l \in on ~> l \notin on \/ shown[l] = past[Now][QueryOf[l]]

\* A view that lost its sync when the client went offline gets it back: the
\* backend's answers bring a change of the target to the view once more.
SyncComesBack ==
    \A q \in Query : q \in Targets ~> q \notin Targets \/ q \in synced
=============================================================================
