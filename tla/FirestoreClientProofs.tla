----------------------- MODULE FirestoreClientProofs -----------------------
(***************************************************************************)
(* What holds of the Firestore client for every set of queries and         *)
(* listeners, however many messages, points in time and faults there are.  *)
(***************************************************************************)
EXTENDS FirestoreClient, FiniteSetTheorems, SequenceTheorems, TLAPS

-----------------------------------------------------------------------------
(* Types of the operators.                                                 *)

LEMMA TargetsAreQueries ==
    ASSUME NEW ls \in SUBSET Listener
    PROVE  /\ TargetsOf(ls) \in SUBSET Query
           /\ IsFiniteSet(TargetsOf(ls))
<1>1. TargetsOf(ls) \in SUBSET Query
  BY QueryOfAssumption DEF TargetsOf
<1>2. IsFiniteSet(ls)
  BY ListenerAssumption, FS_Subset
<1>3. IsFiniteSet(TargetsOf(ls))
  <2> DEFINE f == [l \in ls |-> QueryOf[l]]
  <2>1. f \in Surjection(ls, TargetsOf(ls))
    BY DEF TargetsOf, Surjection
  <2>2. QED
    BY ONLY <1>2, <2>1, FS_Surjection
<1>4. QED
  BY <1>1, <1>3

LEMMA ResponseFields ==
    ASSUME NEW m \in Response
    PROVE  /\ m.kind \in {"added", "removed"} => m.query \in Query
           /\ m.kind = "documents" => m.versions \in Versions
           /\ m.kind = "snapshot" => m.time \in Time
  BY DEF Response, Added, Removed, Documents, Snapshot

LEMMA ResponseTypes ==
    /\ \A q \in Query : Added(q) \in Response /\ Removed(q) \in Response
    /\ \A f \in Versions : Documents(f) \in Response
    /\ \A t \in Time : Snapshot(t) \in Response
<1>1. ASSUME NEW q \in Query PROVE Added(q) \in Response
  BY Zenon DEF Response
<1>2. ASSUME NEW q \in Query PROVE Removed(q) \in Response
  BY Zenon DEF Response
<1>3. ASSUME NEW f \in Versions PROVE Documents(f) \in Response
  BY Zenon DEF Response
<1>4. ASSUME NEW t \in Time PROVE Snapshot(t) \in Response
  BY Zenon DEF Response
<1>5. QED
  BY <1>1, <1>2, <1>3, <1>4

LEMMA TrackTypes ==
    ASSUME NEW tr \in TrackState
    PROVE  /\ AfterStart(tr) \in TrackState
           /\ AfterFailure(tr) \in TrackState
           /\ AfterUpdate(tr, "Unknown") \in TrackState
           /\ AfterUpdate(tr, "Online") \in TrackState
           /\ [tr EXCEPT !.state = "Offline", !.timer = FALSE] \in TrackState
  BY DEF TrackState, AfterStart, AfterFailure, AfterUpdate, kMaxWatchStreamFailures

LEMMA StreamTypes ==
    ASSUME NEW late \in BOOLEAN
    PROVE  /\ Stopped("initial", late) \in StreamState
           /\ Stopped("error", late) \in StreamState
           /\ Starting(late) \in StreamState
           /\ Started(Stopped("initial", late)) \in StreamState
           /\ Started(Stopped("error", late)) \in StreamState
  BY DEF StreamState, Stopped, Starting, Started

LEMMA NewAggregatorType == NewAggregator \in Aggregator
  BY BoundsAssumption DEF NewAggregator, Aggregator, Version

LEMMA AfterSendingType ==
    ASSUME NEW ag \in Aggregator, NEW requests \in Seq(Requests)
    PROVE  AfterSending(ag, requests) \in Aggregator
<1>1. \A q \in Query :
         Cardinality({i \in DOMAIN requests : requests[i].query = q}) \in Nat
  <2>1. IsFiniteSet(DOMAIN requests)
    BY FS_Interval, LenProperties
  <2>2. TAKE q \in Query
  <2>3. {i \in DOMAIN requests : requests[i].query = q} \in SUBSET DOMAIN requests
    OBVIOUS
  <2>4. QED
    BY ONLY <2>1, <2>3, FS_Subset, FS_CardinalityType
<1> DEFINE n == [q \in Query |->
                   Cardinality({i \in DOMAIN requests : requests[i].query = q})]
<1>2. n \in [Query -> Nat]
  BY <1>1
<1> DEFINE acks == [q \in Query |-> ag.acks[q] + n[q]]
<1>3. AfterSending(ag, requests) = [ag EXCEPT !.acks = acks]
  BY DEF AfterSending
<1> HIDE DEF n
<1>4. acks \in [Query -> Int]
  BY <1>2 DEF Aggregator
<1> HIDE DEF acks
<1>5. QED
  BY <1>3, <1>4 DEF Aggregator

LEMMA EventsType ==
    ASSUME NEW ls, NEW insync, NEW copy \in [Query -> Version], NEW state,
           shown \in [Listener -> Version \cup {Silent}]
    PROVE  Events(ls, insync, copy, state) \in [Listener -> Version \cup {Silent}]
<1>1. \A l \in Listener : copy[QueryOf[l]] \in Version
  BY QueryOfAssumption
<1>2. QED
  BY <1>1 DEF Events, FirstEventIsDue

LEMMA SetOnlineStateType ==
    ASSUME TypeOK, NEW tr \in TrackState, SetOnlineState(tr)
    PROVE  /\ track' \in TrackState
           /\ synced' \in SUBSET Query
           /\ shown' \in [Listener -> Version \cup {Silent}]
<1>1. Events(on, {}, cache, "Offline") \in [Listener -> Version \cup {Silent}]
  BY EventsType DEF TypeOK
<1>2. QED
  BY <1>1 DEF TypeOK, SetOnlineState

LEMMA EndsType ==
    ASSUME NEW f \in Ends, NEW q \in Query
    PROVE  /\ [r \in DOMAIN f \cup {q} |-> IF r = q THEN None ELSE f[r]] \in Ends
           /\ Restrict(f, DOMAIN f \ {q}) \in Ends
<1>1. PICK S \in SUBSET Query : f \in [S -> Version \cup {None}]
  BY DEF Ends
<1>2. S \cup {q} \in SUBSET Query /\ S \ {q} \in SUBSET Query
  OBVIOUS
<1>3. [r \in DOMAIN f \cup {q} |-> IF r = q THEN None ELSE f[r]]
         \in [S \cup {q} -> Version \cup {None}]
  BY <1>1
<1>4. Restrict(f, DOMAIN f \ {q}) \in [S \ {q} -> Version \cup {None}]
  BY <1>1 DEF Restrict
<1>5. QED
  BY <1>2, <1>3, <1>4, Zenon DEF Ends

LEMMA NoBackendType == NoBackend \in BackendState
<1>1. [q \in {} |-> 0] \in [{} -> Version \cup {None}]
  OBVIOUS
<1>2. [q \in {} |-> 0] \in Ends
  BY <1>1, Zenon DEF Ends
<1>3. QED
  BY <1>2, BoundsAssumption DEF BackendState, NoBackend

LEMMA HangUpType == HangUp => /\ backend' \in BackendState
                              /\ up' \in Seq(Requests)
                              /\ down' \in Seq(Response)
  BY NoBackendType, EmptySeq DEF HangUp

-----------------------------------------------------------------------------
(* The types of the variables: one step per action.                        *)

LEMMA InitTypeOK == Init => TypeOK
<1> SUFFICES ASSUME Init PROVE TypeOK
  OBVIOUS
<1>1. past \in Seq([Query -> Version]) /\ Now \in Time
  <2>1. Initially \in [Query -> Version]
    BY InitiallyAssumption, BoundsAssumption DEF Version
  <2>2. QED
    BY <2>1, BoundsAssumption DEF Init, Now, Time
<1>2. backend \in BackendState
  BY NoBackendType DEF Init
<1>3. stream \in StreamState /\ agg \in Aggregator
  BY StreamTypes, NewAggregatorType DEF Init
<1>4. track \in TrackState
  BY DEF Init, TrackState
<1>5. /\ cache \in [Query -> Version]
      /\ shown \in [Listener -> Version \cup {Silent}]
      /\ up \in Seq(Requests) /\ down \in Seq(Response)
  BY BoundsAssumption, EmptySeq DEF Init, Version
<1>6. last \in 0..MaxTime /\ faults \in 0..MaxFaults
  BY BoundsAssumption DEF Init
<1>7. QED
  BY <1>1, <1>2, <1>3, <1>4, <1>5, <1>6 DEF Init, TypeOK

LEMMA WriteDocumentsTypeOK ==
    ASSUME TypeOK, NEW q \in Query, WriteDocuments(q)
    PROVE  TypeOK'
<1>1. past[Now] \in [Query -> Version]
  BY DEF TypeOK, Now, Time
<1>2. Now + 1 \in Version /\ Now + 1 \in Time
  BY BoundsAssumption DEF TypeOK, WriteDocuments, Version, Time
<1>3. [past[Now] EXCEPT ![q] = Now + 1] \in [Query -> Version]
  BY <1>1, <1>2
<1>4. past' \in Seq([Query -> Version]) /\ Now' = Now + 1
  BY <1>3, AppendProperties DEF TypeOK, WriteDocuments, Now
<1>5. QED
  BY <1>2, <1>4 DEF TypeOK, WriteDocuments, wire, views

LEMMA BackendAnswersTypeOK ==
    ASSUME TypeOK, BackendAnswers
    PROVE  TypeOK'
<1>1. Head(up) \in Requests /\ up' \in Seq(Requests)
  BY HeadTailProperties DEF TypeOK, BackendAnswers
<1>2. Head(up).query \in Query /\ Head(up).kind \in {"watch", "unwatch"}
  BY <1>1 DEF Requests
<1>3. backend' \in BackendState
  <2>1. backend.sent \in Ends
    BY DEF TypeOK, BackendState
  <2>2. \A f \in Ends : [backend EXCEPT !.sent = f] \in BackendState
    BY DEF TypeOK, BackendState
  <2>3. CASE Head(up).kind = "watch"
    BY <1>2, <2>1, <2>2, <2>3, EndsType DEF BackendAnswers
  <2>4. CASE Head(up).kind # "watch"
    BY <1>2, <2>1, <2>2, <2>4, EndsType DEF BackendAnswers
  <2>5. QED
    BY <2>3, <2>4
<1>4. Added(Head(up).query) \in Response /\ Removed(Head(up).query) \in Response
  BY <1>2, ResponseTypes
<1>5. down' \in Seq(Response)
  <2>1. down \in Seq(Response)
    BY DEF TypeOK
  <2>2. \/ down' = Append(down, Added(Head(up).query))
        \/ down' = Append(down, Removed(Head(up).query))
    BY DEF BackendAnswers
  <2>3. QED
    BY <1>4, <2>1, <2>2, AppendProperties
<1>6. QED
  BY <1>1, <1>3, <1>5 DEF TypeOK, BackendAnswers, views, Now

LEMMA BackendSendsTypeOK ==
    ASSUME TypeOK, NEW t \in Time, t <= Now, BackendSends(t)
    PROVE  TypeOK'
<1> DEFINE news == {q \in DOMAIN backend.sent : backend.sent[q] # past[t][q]}
           versions == [q \in news |-> past[t][q]]
<1>1. past[t] \in [Query -> Version]
  BY DEF TypeOK, Time, Now
<1>2. DOMAIN backend.sent \in SUBSET Query /\ news \in SUBSET Query
  BY DEF TypeOK, BackendState, Ends
<1>3. versions \in Versions
  <2>1. versions \in [news -> Version]
    BY <1>1, <1>2
  <2> HIDE DEF news, versions
  <2>2. QED
    BY <1>2, <2>1, Zenon DEF Versions
<1>4. backend' \in BackendState
  <2>1. [q \in DOMAIN backend.sent |-> past[t][q]]
           \in [DOMAIN backend.sent -> Version \cup {None}]
    BY <1>1, <1>2
  <2>2. [q \in DOMAIN backend.sent |-> past[t][q]] \in Ends
    BY <1>2, <2>1, Zenon DEF Ends
  <2>3. t \in 0..MaxTime
    BY DEF Time
  <2>4. QED
    BY <2>2, <2>3 DEF BackendSends, BackendState
<1>5. Documents(versions) \in Response /\ Snapshot(t) \in Response
  BY <1>3, ResponseTypes
<1>6. down' \in Seq(Response)
  <2>1. down \in Seq(Response)
    BY DEF TypeOK
  <2>2. down' = down \o << Documents(versions), Snapshot(t) >>
    BY DEF BackendSends
  <2>3. << Documents(versions), Snapshot(t) >> \in Seq(Response)
    BY <1>5
  <2>4. QED
    BY <2>1, <2>2, <2>3, ConcatProperties
<1>7. QED
  BY <1>4, <1>6 DEF TypeOK, BackendSends, views, Now

LEMMA ListenTypeOK ==
    ASSUME TypeOK, NEW l \in Listener, Listen(l)
    PROVE  TypeOK'
<1>1. shown' \in [Listener -> Version \cup {Silent}]
  BY EventsType DEF TypeOK, Listen
<1>2. /\ stream' \in StreamState /\ track' \in TrackState
      /\ agg' \in Aggregator /\ up' \in Seq(Requests)
  <2>1. CASE UNCHANGED <<stream, track, agg, up>>
    BY <2>1 DEF TypeOK
  <2>2. CASE /\ Send(<< [kind |-> "watch", query |-> QueryOf[l]] >>)
             /\ UNCHANGED track
    <3> DEFINE requests == << [kind |-> "watch", query |-> QueryOf[l]] >>
    <3>1. requests \in Seq(Requests)
      BY QueryOfAssumption DEF Requests
    <3> HIDE DEF requests
    <3>2. QED
      BY <2>2, <3>1, AfterSendingType, ConcatProperties
      DEF Send, TypeOK, StreamState, requests
  <2>3. CASE /\ stream' = Started(stream)
             /\ agg' = NewAggregator
             /\ track' = AfterStart(track)
             /\ UNCHANGED up
    <3>1. Started(stream) \in StreamState
      BY DEF TypeOK, Started, Starting, StreamState
    <3>2. QED
      BY <2>3, <3>1, TrackTypes, NewAggregatorType DEF TypeOK
  <2>4. QED
    BY <2>1, <2>2, <2>3 DEF Listen
<1>3. QED
  BY <1>1, <1>2 DEF TypeOK, Listen, world, Now

LEMMA UnlistenTypeOK ==
    ASSUME TypeOK, NEW l \in Listener, Unlisten(l)
    PROVE  TypeOK'
<1>1. /\ shown' \in [Listener -> Version \cup {Silent}]
      /\ synced' \in SUBSET Query
  BY DEF TypeOK, Unlisten
<1>2. /\ stream' \in StreamState /\ track' \in TrackState
      /\ agg' \in Aggregator /\ up' \in Seq(Requests)
  <2>1. CASE UNCHANGED <<stream, track, agg, up>>
    BY <2>1 DEF TypeOK
  <2>2. CASE /\ QueryOf[l] \notin TargetsOf(on') /\ IsOpen
             /\ LET requests == << [kind |-> "unwatch", query |-> QueryOf[l]] >>
                IN  /\ up' = up \o requests
                    /\ agg' = AfterSending(agg, requests)
                    /\ stream' = [stream EXCEPT !.idle = on' = {}]
             /\ UNCHANGED track
    <3> DEFINE requests == << [kind |-> "unwatch", query |-> QueryOf[l]] >>
    <3>1. requests \in Seq(Requests)
      BY QueryOfAssumption DEF Requests
    <3>2. up' = up \o requests /\ agg' = AfterSending(agg, requests)
      BY <2>2
    <3>3. (on' = {}) \in BOOLEAN
      OBVIOUS
    <3>4. [stream EXCEPT !.idle = on' = {}] \in StreamState
      BY <3>3 DEF TypeOK, StreamState
    <3> HIDE DEF requests
    <3>5. QED
      BY <2>2, <3>1, <3>2, <3>4, AfterSendingType, ConcatProperties DEF TypeOK
  <2>3. CASE /\ track' = IF on' = {} THEN AfterUpdate(track, "Unknown") ELSE track
             /\ UNCHANGED <<stream, agg, up>>
    BY <2>3, TrackTypes DEF TypeOK
  <2>4. QED
    BY <2>1, <2>2, <2>3 DEF Unlisten
<1>3. QED
  BY <1>1, <1>2 DEF TypeOK, Unlisten, world, Now

LEMMA ConnectTypeOK ==
    ASSUME TypeOK, Connect
    PROVE  TypeOK'
<1>1. PICK order \in [1..Cardinality(Targets) -> Targets] :
         LET requests == [i \in DOMAIN order |->
                             [kind |-> "watch", query |-> order[i]]]
         IN  /\ up' = requests
             /\ agg' = AfterSending(agg, requests)
  BY DEF Connect
<1> DEFINE requests == [i \in DOMAIN order |->
                           [kind |-> "watch", query |-> order[i]]]
<1>2. Targets \in SUBSET Query /\ Cardinality(Targets) \in Nat
  BY TargetsAreQueries, FS_CardinalityType DEF TypeOK, Targets
<1>3. requests \in [1..Cardinality(Targets) -> Requests]
  BY <1>2 DEF Requests
<1>4. requests \in Seq(Requests)
  BY <1>2, <1>3, SeqDef
<1>5. up' = requests /\ agg' = AfterSending(agg, requests)
  BY <1>1
<1> HIDE DEF requests
<1>6. up' \in Seq(Requests) /\ agg' \in Aggregator
  BY <1>4, <1>5, AfterSendingType DEF TypeOK
<1>7. stream' \in StreamState
  BY DEF TypeOK, StreamState, Connect
<1>8. QED
  BY <1>6, <1>7 DEF TypeOK, Connect, world, views, Now

LEMMA ConnectingTypeOK ==
    ASSUME TypeOK, LateCredentialsCome \/ BackoffElapsed
    PROVE  TypeOK'
<1>1. stream' \in StreamState
  <2>1. CASE LateCredentialsCome
    BY <2>1 DEF LateCredentialsCome, TypeOK, StreamState
  <2>2. CASE BackoffElapsed
    BY <2>2 DEF TypeOK, BackoffElapsed, Starting, StreamState
  <2>3. QED
    BY <2>1, <2>2
<1>2. QED
  BY <1>1 DEF TypeOK, LateCredentialsCome, BackoffElapsed, world, wire, views, Now

LEMMA StreamFailsTypeOK ==
    ASSUME TypeOK, StreamFails
    PROVE  TypeOK'
<1>1. /\ stream.late \in BOOLEAN
      /\ track \in TrackState
  BY DEF TypeOK, StreamState
<1>2. /\ AfterStart(AfterFailure(track)) \in TrackState
      /\ AfterUpdate(track, "Unknown") \in TrackState
  BY <1>1, TrackTypes
<1>3. stream' \in StreamState
  BY <1>1, StreamTypes DEF StreamFails
<1>4. /\ track' \in TrackState
      /\ synced' \in SUBSET Query
      /\ shown' \in [Listener -> Version \cup {Silent}]
  BY <1>2, SetOnlineStateType DEF StreamFails
<1>5. faults' \in 0..MaxFaults
  BY BoundsAssumption DEF TypeOK, StreamFails
<1>6. QED
  BY <1>3, <1>4, <1>5, HangUpType, NewAggregatorType DEF TypeOK, StreamFails, Now

LEMMA CloseGracefullyTypeOK ==
    ASSUME TypeOK, CloseGracefully, faults' \in 0..MaxFaults
    PROVE  TypeOK'
<1>1. /\ stream.late \in BOOLEAN
      /\ track \in TrackState
  BY DEF TypeOK, StreamState
<1>2. stream' \in StreamState
  BY <1>1, StreamTypes DEF CloseGracefully
<1>3. /\ track' \in TrackState
      /\ synced' \in SUBSET Query
      /\ shown' \in [Listener -> Version \cup {Silent}]
  BY <1>1, TrackTypes, SetOnlineStateType DEF CloseGracefully
<1>4. QED
  BY <1>2, <1>3, HangUpType, NewAggregatorType DEF TypeOK, CloseGracefully, Now

LEMMA IdleTimeoutTypeOK ==
    ASSUME TypeOK, IdleTimeout
    PROVE  TypeOK'
  BY CloseGracefullyTypeOK DEF IdleTimeout, TypeOK

LEMMA OnlineStateTimeoutTypeOK ==
    ASSUME TypeOK, OnlineStateTimeout
    PROVE  TypeOK'
<1>1. track \in TrackState
  BY DEF TypeOK
<1>2. /\ track' \in TrackState
      /\ synced' \in SUBSET Query
      /\ shown' \in [Listener -> Version \cup {Silent}]
  BY <1>1, TrackTypes, SetOnlineStateType DEF OnlineStateTimeout
<1>3. QED
  BY <1>2 DEF TypeOK, OnlineStateTimeout, world, wire, Now

LEMMA RestartNetworkTypeOK ==
    ASSUME TypeOK, RestartNetwork
    PROVE  TypeOK'
<1>1. /\ (stream.state = "starting" \/ stream.late) \in BOOLEAN
      /\ track \in TrackState
  BY DEF TypeOK, StreamState
<1>2. /\ AfterStart(AfterUpdate(track, "Unknown")) \in TrackState
      /\ AfterUpdate(track, "Unknown") \in TrackState
  BY <1>1, TrackTypes
<1>3. stream' \in StreamState
  BY <1>1, StreamTypes DEF RestartNetwork
<1>4. /\ track' \in TrackState
      /\ synced' \in SUBSET Query
      /\ shown' \in [Listener -> Version \cup {Silent}]
  BY <1>2, SetOnlineStateType DEF RestartNetwork
<1>5. faults' \in 0..MaxFaults
  BY BoundsAssumption DEF TypeOK, RestartNetwork
<1>6. QED
  BY <1>3, <1>4, <1>5, HangUpType, NewAggregatorType
  DEF TypeOK, RestartNetwork, Now

LEMMA RestartTypeOK ==
    ASSUME TypeOK, Restart
    PROVE  TypeOK'
<1>1. stream' \in StreamState /\ track' \in TrackState
  BY TrackTypes, StreamTypes DEF TypeOK, Restart, AppEnds
<1>2. faults' \in 0..MaxFaults
  BY BoundsAssumption DEF TypeOK, Restart, AppEnds
<1>3. shown' \in [Listener -> Version \cup {Silent}]
  BY DEF Restart, AppEnds
<1>4. QED
  BY <1>1, <1>2, <1>3, HangUpType, NewAggregatorType DEF TypeOK, Restart, Now,
    AppEnds

\* To the client a finish with status OK is either a stop of a stream that no
\* target needs, or the end of the app.
LEMMA BackendFinishesAs ==
    ASSUME BackendFinishes
    PROVE  \/ Targets = {} /\ IsOpen /\ CloseGracefully
           \/ Restart
  BY DEF BackendFinishes, Restart

LEMMA BackendFinishesTypeOK ==
    ASSUME TypeOK, BackendFinishes
    PROVE  TypeOK'
<1>1. faults' \in 0..MaxFaults
  BY BoundsAssumption DEF TypeOK, BackendFinishes
<1>2. QED
  BY <1>1, BackendFinishesAs, CloseGracefullyTypeOK, RestartTypeOK

\* What every response does, and what the next response is.
LEMMA ReceiveType ==
    ASSUME TypeOK, NEW kind, Receive(kind)
    PROVE  /\ Head(down) \in Response
           /\ down' \in Seq(Response)
           /\ track' \in TrackState
           /\ kind \in {"added", "removed"} => Head(down).query \in Query
           /\ kind = "documents" => Head(down).versions \in Versions
           /\ kind = "snapshot" => Head(down).time \in Time
<1>1. Head(down) \in Response /\ down' \in Seq(Response)
  BY HeadTailProperties DEF TypeOK, Receive
<1>2. track' \in TrackState
  BY TrackTypes DEF TypeOK, Receive
<1>3. Head(down).kind = kind
  BY DEF Receive
<1>4. QED
  BY <1>1, <1>2, <1>3, ResponseFields

LEMMA AcknowledgementTypeOK ==
    ASSUME TypeOK, TargetAdded \/ TargetRemoved
    PROVE  TypeOK'
<1>1. /\ down' \in Seq(Response) /\ track' \in TrackState
      /\ Head(down).query \in Query
  BY ReceiveType DEF TargetAdded, TargetRemoved
<1> DEFINE acks == [agg.acks EXCEPT ![Head(down).query] = @ - 1]
<1>2. acks \in [Query -> Int]
  BY <1>1 DEF TypeOK, Aggregator
<1>3. \A S, U \in SUBSET Query :
         /\ [agg EXCEPT !.acks = acks, !.changed = @ \ S] \in Aggregator
         /\ [agg EXCEPT !.acks = acks, !.changed = @ \ S,
                        !.current = @ \ U] \in Aggregator
         /\ [agg EXCEPT !.acks = acks, !.changed = @] \in Aggregator
  <2> HIDE DEF acks
  <2>1. QED
    BY <1>2 DEF TypeOK, Aggregator
<1> DEFINE q == Head(down).query
<1>4. agg' \in Aggregator
  <2>1. CASE TargetAdded
    <3>1. agg' = IF acks[q] = 0
                 THEN [agg EXCEPT !.acks = acks, !.changed = @ \ {q}]
                 ELSE [agg EXCEPT !.acks = acks, !.changed = @]
      BY <2>1 DEF TargetAdded
    <3> HIDE DEF acks
    <3>2. QED
      BY <1>1, <1>3, <3>1
  <2>2. CASE TargetRemoved
    <3> DEFINE gone == IF acks[q] = 0 THEN {q} ELSE {}
    <3>1. agg' = [agg EXCEPT !.acks = acks, !.changed = @ \ gone,
                             !.current = @ \ gone]
      BY <2>2 DEF TargetRemoved
    <3>2. gone \in SUBSET Query
      BY <1>1
    <3> HIDE DEF acks, gone
    <3>3. QED
      BY <1>3, <3>1, <3>2
  <2>3. QED
    BY <2>1, <2>2
<1>5. QED
  BY <1>1, <1>4 DEF TypeOK, TargetAdded, TargetRemoved, world, views, Now

LEMMA DocumentsChangeTypeOK ==
    ASSUME TypeOK, DocumentsChange
    PROVE  TypeOK'
<1>1. /\ down' \in Seq(Response) /\ track' \in TrackState
      /\ Head(down).versions \in Versions
  BY ReceiveType DEF DocumentsChange
<1> DEFINE versions == Head(down).versions
           taken == {q \in DOMAIN versions : Active(q)}
           updates == [q \in Query |-> IF q \in taken THEN versions[q]
                                      ELSE agg.updates[q]]
<1>2. taken \in SUBSET Query /\ \A q \in taken : versions[q] \in Version
  BY <1>1 DEF Versions
<1>3. updates \in [Query -> Version]
  BY <1>2 DEF TypeOK, Aggregator
<1>4. agg' = [agg EXCEPT !.changed = @ \cup taken, !.current = @ \cup taken,
                         !.updates = updates]
  BY DEF DocumentsChange
<1> HIDE DEF taken, updates
<1>5. agg' \in Aggregator
  BY <1>2, <1>3, <1>4 DEF TypeOK, Aggregator
<1>6. QED
  BY <1>1, <1>5 DEF TypeOK, DocumentsChange, world, views, Now

LEMMA SnapshotIgnoredTypeOK ==
    ASSUME TypeOK, SnapshotIgnored
    PROVE  TypeOK'
<1>1. down' \in Seq(Response) /\ track' \in TrackState
  BY ReceiveType DEF SnapshotIgnored
<1>2. QED
  BY <1>1 DEF TypeOK, SnapshotIgnored, world, views, Now

LEMMA SnapshotRaisedTypeOK ==
    ASSUME TypeOK, SnapshotRaised
    PROVE  TypeOK'
<1>1. /\ down' \in Seq(Response) /\ track' \in TrackState
      /\ Head(down).time \in Time
  BY ReceiveType DEF SnapshotRaised
<1>2. last' \in 0..MaxTime
  BY <1>1 DEF SnapshotRaised, RaiseWatchSnapshot, Time
<1>3. cache' \in [Query -> Version]
  BY DEF SnapshotRaised, RaiseWatchSnapshot, TypeOK, Aggregator, Newer
<1>4. shown' \in [Listener -> Version \cup {Silent}]
  BY <1>3, EventsType DEF SnapshotRaised, RaiseWatchSnapshot, TypeOK
<1>5. agg' \in Aggregator
  <2>1. [q \in Query |-> 0] \in [Query -> Version]
    BY BoundsAssumption DEF Version
  <2>2. QED
    BY <2>1 DEF SnapshotRaised, RaiseWatchSnapshot, TypeOK, Aggregator
<1>6. synced' \in SUBSET Query
  BY DEF SnapshotRaised, RaiseWatchSnapshot, TypeOK, Aggregator
<1>7. QED
  BY <1>1, <1>2, <1>3, <1>4, <1>5, <1>6
  DEF TypeOK, SnapshotRaised, RaiseWatchSnapshot, world, Now

\* The variables of the client have their types.
THEOREM TypeCorrect == Spec => []TypeOK
<1>1. ASSUME TypeOK, [Next]_vars PROVE TypeOK'
  <2>1. CASE UNCHANGED vars
    BY <2>1, <1>1 DEF vars, TypeOK, Now
  <2>2. CASE Backend
    BY <2>2, <1>1, WriteDocumentsTypeOK, BackendAnswersTypeOK, BackendSendsTypeOK
    DEF Backend
  <2>3. CASE App
    BY <2>3, <1>1, ListenTypeOK, UnlistenTypeOK DEF App
  <2>4. CASE Responses
    BY <2>4, <1>1, AcknowledgementTypeOK, DocumentsChangeTypeOK,
       SnapshotIgnoredTypeOK, SnapshotRaisedTypeOK DEF Responses
  <2>5. CASE Connecting
    BY <2>5, <1>1, ConnectTypeOK, ConnectingTypeOK DEF Connecting
  <2>6. CASE Timeouts
    BY <2>6, <1>1, IdleTimeoutTypeOK, OnlineStateTimeoutTypeOK DEF Timeouts
  <2>7. CASE Faults
    BY <2>7, <1>1, StreamFailsTypeOK, BackendFinishesTypeOK, RestartNetworkTypeOK,
       RestartTypeOK DEF Faults
  <2>8. QED
    BY <1>1, <2>1, <2>2, <2>3, <2>4, <2>5, <2>6, <2>7 DEF Next
<1>2. QED
  BY InitTypeOK, <1>1, PTL DEF Spec

-----------------------------------------------------------------------------
(* The assertions of the code.                                             *)

LEMMA ConnectingAssertions ==
    ASSUME TypeOK, OtherAssertionsHold, Connecting
    PROVE  OtherAssertionsHold'
<1>1. on' = on /\ track' = track
  BY DEF Connecting, LateCredentialsCome, Connect, BackoffElapsed, world, wire,
    views
<1>2. (IsStarted /\ IsStarted') \/ stream'.state = stream.state
  <2>1. CASE LateCredentialsCome
    BY <2>1 DEF LateCredentialsCome, TypeOK, StreamState
  <2>2. CASE Connect
    BY <2>2 DEF Connect, TypeOK, StreamState, IsStarted
  <2>3. CASE BackoffElapsed
    BY <2>3 DEF BackoffElapsed, IsStarted, Starting
  <2>4. QED
    BY <2>1, <2>2, <2>3 DEF Connecting
<1>3. stream'.idle => stream.idle /\ stream'.state = stream.state
  <2>1. CASE LateCredentialsCome
    BY <2>1 DEF LateCredentialsCome, TypeOK, StreamState, OtherAssertionsHold
  <2>2. CASE Connect
    BY <2>2 DEF Connect, TypeOK, StreamState, OtherAssertionsHold, IsOpen
  <2>3. CASE BackoffElapsed
    BY <2>3 DEF BackoffElapsed, Starting
  <2>4. QED
    BY <2>1, <2>2, <2>3 DEF Connecting
<1>4. QED
  BY <1>1, <1>2, <1>3 DEF OtherAssertionsHold, Targets, IsStarted, IsOpen

LEMMA TargetsEmpty == on = {} <=> Targets = {}
  BY DEF Targets, TargetsOf

LEMMA ListenAssertions ==
    ASSUME TypeOK, OtherAssertionsHold, NEW l \in Listener, Listen(l)
    PROVE  OtherAssertionsHold'
<1>1. CASE /\ QueryOf[l] \in Targets \/ stream.state \in {"starting", "backoff"}
           /\ UNCHANGED <<stream, track, agg, up>>
  BY <1>1 DEF OtherAssertionsHold, IsStarted, IsOpen
<1>2. CASE /\ IsOpen
           /\ Send(<< [kind |-> "watch", query |-> QueryOf[l]] >>)
           /\ UNCHANGED track
  <2>1. stream'.state = "open" /\ ~stream'.idle
    BY <1>2 DEF Send, IsOpen, TypeOK, StreamState
  <2>2. QED
    BY <1>2, <2>1 DEF OtherAssertionsHold, IsStarted, IsOpen
<1>3. CASE /\ ~IsStarted
           /\ stream' = Started(stream)
           /\ track' = AfterStart(track)
  <2>1. /\ stream'.state \in {"starting", "backoff"}
        /\ ~stream'.idle
    BY <1>3 DEF Started, Starting, TypeOK, StreamState, OtherAssertionsHold,
      IsStarted,
                IsOpen
  <2>2. track' = [state |-> "Unknown", timer |-> TRUE, failures |-> 0]
    BY <1>3 DEF OtherAssertionsHold, AfterStart
  <2>3. QED
    BY <2>1, <2>2 DEF OtherAssertionsHold, IsStarted, IsOpen
<1>4. QED
  BY <1>1, <1>2, <1>3 DEF Listen

LEMMA UnlistenAssertions ==
    ASSUME TypeOK, OtherAssertionsHold, NEW l \in Listener, Unlisten(l)
    PROVE  OtherAssertionsHold'
<1>1. Targets # {} /\ IsStarted
  BY TargetsEmpty DEF Unlisten, OtherAssertionsHold
<1>2. ~stream.idle
  BY <1>1 DEF OtherAssertionsHold
<1>3. CASE UNCHANGED <<stream, track, agg, up>>
  BY <1>1, <1>2, <1>3 DEF OtherAssertionsHold, IsStarted, IsOpen
<1>4. CASE /\ IsOpen
           /\ stream' = [stream EXCEPT !.idle = on' = {}]
           /\ UNCHANGED track
  <2>1. stream'.state = "open" /\ stream'.idle = (on' = {})
    BY <1>4 DEF IsOpen, TypeOK, StreamState
  <2>2. on' = {} => Targets' = {}
    BY DEF Targets, TargetsOf
  <2>3. QED
    BY <1>4, <2>1, <2>2 DEF OtherAssertionsHold, IsStarted, IsOpen
<1>5. CASE /\ track' = IF on' = {} THEN AfterUpdate(track, "Unknown") ELSE track
           /\ UNCHANGED <<stream, agg, up>>
  BY <1>1, <1>2, <1>5 DEF OtherAssertionsHold, IsStarted, IsOpen, AfterUpdate
<1>6. QED
  BY <1>3, <1>4, <1>5 DEF Unlisten

LEMMA StoppedAssertions ==
    ASSUME TypeOK, OtherAssertionsHold,
           StreamFails \/ IdleTimeout \/ BackendFinishes \/ RestartNetwork
           \/ Restart
    PROVE  OtherAssertionsHold'
<1>1. CASE StreamFails
  <2>1. on' = on /\ Targets' = Targets
    BY <1>1 DEF StreamFails, Targets
  <2>2. CASE Targets = {}
    BY <1>1, <2>1, <2>2 DEF StreamFails, SetOnlineState, AfterUpdate, Stopped,
                            OtherAssertionsHold, IsStarted, IsOpen
  <2>3. CASE Targets # {}
    <3>1. /\ stream' = [Stopped("error", stream.late) EXCEPT !.state = "backoff"]
          /\ track' = AfterStart(AfterFailure(track))
      BY <1>1, <2>3 DEF StreamFails, SetOnlineState, Started, Stopped
    <3>2. stream'.state = "backoff" /\ ~stream'.idle
      BY <3>1 DEF Stopped
    <3>3. \/ track' = [state |-> "Unknown", timer |-> TRUE, failures |-> 0]
          \/ /\ track'.state = "Offline" /\ ~track'.timer
      BY <3>1 DEF AfterStart, AfterFailure, TypeOK, TrackState, OtherAssertionsHold,
                  kMaxWatchStreamFailures
    <3>4. QED
      BY <2>1, <3>2, <3>3 DEF OtherAssertionsHold, IsStarted, IsOpen
  <2>4. QED
    BY <2>2, <2>3
<1>2. ASSUME CloseGracefully, Targets = {} PROVE OtherAssertionsHold'
  BY <1>2 DEF CloseGracefully, Targets, SetOnlineState, AfterUpdate, Stopped,
              OtherAssertionsHold, IsStarted, IsOpen
<1>3. CASE RestartNetwork
  <2>1. on' = on /\ Targets' = Targets
    BY <1>3 DEF RestartNetwork, Targets
  <2>2. CASE Targets = {}
    BY <1>3, <2>1, <2>2 DEF RestartNetwork, SetOnlineState, AfterUpdate, Stopped,
                            OtherAssertionsHold, IsStarted, IsOpen
  <2>3. CASE Targets # {}
    BY <1>3, <2>1, <2>3 DEF RestartNetwork, SetOnlineState, AfterUpdate, AfterStart,
                            Started, Starting, Stopped, OtherAssertionsHold,
                              IsStarted,
                            IsOpen
  <2>4. QED
    BY <2>2, <2>3
<1>4. CASE Restart
  BY <1>4 DEF Restart, AfterUpdate, Stopped, OtherAssertionsHold, IsStarted, IsOpen,
              Targets, TargetsOf, AppEnds
<1>5. CASE IdleTimeout
  BY <1>2, <1>5 DEF IdleTimeout, OtherAssertionsHold
<1>6. CASE BackendFinishes
  BY <1>2, <1>4, <1>6, BackendFinishesAs
<1>7. QED
  BY <1>1, <1>3, <1>4, <1>5, <1>6

LEMMA ResponsesAssertions ==
    ASSUME TypeOK, OtherAssertionsHold, Responses
    PROVE  OtherAssertionsHold'
<1>1. /\ on' = on /\ stream' = stream
      /\ track' = AfterUpdate(track, "Online")
  BY DEF Responses, TargetAdded, TargetRemoved, DocumentsChange, SnapshotIgnored,
         SnapshotRaised, RaiseWatchSnapshot, Receive, views
<1>2. QED
  BY <1>1 DEF OtherAssertionsHold, AfterUpdate, IsStarted, IsOpen, Targets

LEMMA AssertionsStep ==
    ASSUME TypeOK, OtherAssertionsHold, [Next]_vars
    PROVE  OtherAssertionsHold'
<1>1. CASE UNCHANGED vars
  BY <1>1 DEF vars, OtherAssertionsHold, IsStarted, IsOpen, Targets
<1>2. CASE Backend
  <2>1. UNCHANGED <<stream, track, on>>
    BY <1>2 DEF Backend, WriteDocuments, BackendAnswers, BackendSends, views
  <2>2. QED
    BY <2>1 DEF OtherAssertionsHold, IsStarted, IsOpen, Targets
<1>3. CASE App
  BY <1>3, ListenAssertions, UnlistenAssertions DEF App
<1>4. CASE OnlineStateTimeout
  BY <1>4 DEF OnlineStateTimeout, SetOnlineState, TypeOK, TrackState,
              OtherAssertionsHold, IsStarted, IsOpen, Targets
<1>5. QED
  BY <1>1, <1>2, <1>3, <1>4, ConnectingAssertions, StoppedAssertions,
     ResponsesAssertions DEF Next, Timeouts, Faults

\* The assertions that guard the stream and the online state hold whenever they
\* are reached, but for the one about a stream that the backend finishes.
THEOREM OtherAssertionsAlwaysHold == Spec => []OtherAssertionsHold
<1>1. Init => OtherAssertionsHold
  BY DEF Init, OtherAssertionsHold, Stopped, IsStarted, IsOpen, Targets, TargetsOf
<1>2. QED
  BY <1>1, TypeCorrect, AssertionsStep, PTL DEF Spec

-----------------------------------------------------------------------------
(* The time limit on the wait for a first event.                           *)

LEMMA TimingStep ==
    ASSUME TypeOK, OtherAssertionsHold, [Next]_vars, WaitIsTimed, ~WaitIsTimed'
    PROVE  on = {} /\ IsStarted /\ \E l \in Listener : on' = {l}
<1>1. Targets' # {} /\ track'.state = "Unknown" /\ ~track'.timer
  BY DEF WaitIsTimed
<1>2. on' # {}
  BY <1>1 DEF Targets, TargetsOf
<1>3. track' # track \/ Targets = {}
  BY <1>1 DEF WaitIsTimed
<1>4. ASSUME on' = on PROVE track' # track /\ Targets # {}
  BY <1>1, <1>3, <1>4 DEF Targets
<1>5. CASE UNCHANGED vars
  BY <1>4, <1>5 DEF vars
<1>6. CASE Backend
  BY <1>4, <1>6 DEF Backend, WriteDocuments, BackendAnswers, BackendSends, views
<1>7. CASE Connecting
  BY <1>4, <1>7 DEF Connecting, LateCredentialsCome, Connect, BackoffElapsed, views
<1>8. CASE Responses
  BY <1>1, <1>8 DEF Responses, TargetAdded, TargetRemoved, DocumentsChange,
         SnapshotIgnored, SnapshotRaised, Receive, AfterUpdate
<1>9. CASE Timeouts
  <2>1. CASE IdleTimeout
    BY <1>4, <2>1 DEF IdleTimeout, OtherAssertionsHold, CloseGracefully
  <2>2. CASE OnlineStateTimeout
    BY <1>1, <2>2 DEF OnlineStateTimeout, SetOnlineState, TypeOK, TrackState
  <2>3. QED
    BY <1>9, <2>1, <2>2 DEF Timeouts
<1>10. CASE Faults
  <2>1. CASE StreamFails
    <3>1. track' = AfterStart(AfterFailure(track))
      BY <1>4, <2>1 DEF StreamFails, SetOnlineState
    <3>2. QED
      BY <1>1, <3>1 DEF AfterStart, AfterFailure, TypeOK, TrackState,
                        OtherAssertionsHold, kMaxWatchStreamFailures
  <2>2. CASE RestartNetwork
    BY <1>1, <1>4, <2>2 DEF RestartNetwork, SetOnlineState, AfterStart, AfterUpdate
  <2>3. CASE Restart
    BY <1>2, <2>3 DEF Restart, AppEnds
  <2>4. CASE BackendFinishes
    <3>1. Targets = {} => on' = on
      BY <2>4 DEF BackendFinishes, CloseGracefully
    <3>2. Targets # {} => on' = {}
      BY <2>4 DEF BackendFinishes, AppEnds
    <3>3. QED
      BY <1>2, <1>4, <3>1, <3>2
  <2>5. QED
    BY <1>10, <2>1, <2>2, <2>3, <2>4 DEF Faults
<1>11. ASSUME NEW l \in Listener, Unlisten(l) PROVE FALSE
  <2>1. track' = track
    BY <1>2, <1>11 DEF Unlisten
  <2>2. Targets # {}
    BY <1>11 DEF Unlisten, Targets, TargetsOf
  <2>3. QED
    BY <1>3, <2>1, <2>2
<1>12. ASSUME NEW l \in Listener, Listen(l)
       PROVE  on = {} /\ IsStarted /\ on' = {l}
  <2>1. CASE ~IsStarted /\ track' = AfterStart(track)
    BY <1>1, <2>1 DEF OtherAssertionsHold, AfterStart
  <2>2. CASE track' = track /\ (QueryOf[l] \in Targets \/ IsStarted)
    <3>1. on = {} /\ Targets = {}
      BY <1>3, <2>2, TargetsEmpty
    <3>2. QED
      BY <1>12, <2>2, <3>1 DEF Listen
  <2>3. QED
    BY <1>12, <2>1, <2>2 DEF Listen, IsStarted, IsOpen
<1>13. QED
  BY <1>5, <1>6, <1>7, <1>8, <1>9, <1>10, <1>11, <1>12 DEF Next, App

\* Only the first listener of a stream that is under way loses the time limit
\* on the wait for an event.
THEOREM OnlyListenEndsTimingAlways == Spec => OnlyListenEndsTiming
<1>1. TypeOK /\ OtherAssertionsHold /\ [Next]_vars =>
         [WaitIsTimed /\ ~WaitIsTimed' =>
             on = {} /\ IsStarted /\ \E l \in Listener : on' = {l}]_vars
  BY TimingStep
<1>2. QED
  BY <1>1, TypeCorrect, OtherAssertionsAlwaysHold, PTL DEF Spec,
    OnlyListenEndsTiming

-----------------------------------------------------------------------------
(* What listeners are shown.                                               *)

\* A listener that is removed has no last event.
RemovedAreSilent == \A l \in Listener \ on : shown[l] = Silent

Agreement == RemovedAreSilent /\ ListenersAgree

\* The listeners that get their first event from Events.
First(insync, copy, state) ==
    {l \in on : shown[l] = Silent /\ FirstEventIsDue(QueryOf[l], insync, copy,
      state)}

\* Listeners that have had an event follow the copy, those whose first event
\* is due join them, the others stay silent.
LEMMA EventsFollow ==
    ASSUME TypeOK, Agreement, NEW insync, NEW copy \in [Query -> Version], NEW state
    PROVE  Events(on, insync, copy, state)
              = [l \in Listener |->
                    IF shown[l] # Silent \/ l \in First(insync, copy, state)
                    THEN copy[QueryOf[l]] ELSE Silent]
<1> SUFFICES ASSUME NEW l \in Listener
             PROVE  Events(on, insync, copy, state)[l]
                       = IF shown[l] # Silent \/ l \in First(insync, copy, state)
                         THEN copy[QueryOf[l]] ELSE Silent
  BY DEF Events
<1>1. CASE l \notin on
  BY <1>1 DEF Events, First, Agreement, RemovedAreSilent
<1>2. CASE l \in on /\ shown[l] # Silent
  <2>1. shown[l] = cache[QueryOf[l]]
    BY <1>2 DEF Agreement, ListenersAgree
  <2>2. QED
    BY <1>2, <2>1 DEF Events
<1>3. CASE l \in on /\ shown[l] = Silent
  BY <1>3 DEF Events, First
<1>4. QED
  BY <1>1, <1>2, <1>3

\* The events of a step in which no listener comes or goes.
LEMMA EventsAgree ==
    ASSUME TypeOK, TypeOK', Agreement, on' = on, NEW insync, NEW state,
           shown' = Events(on, insync, cache', state),
           synced' \subseteq insync, track'.state \in {state, "Online", "Unknown"}
    PROVE  Agreement'
<1>1. cache' \in [Query -> Version]
  BY DEF TypeOK
<1>2. shown' = [l \in Listener |->
                   IF shown[l] # Silent \/ l \in First(insync, cache', state)
                   THEN cache'[QueryOf[l]] ELSE Silent]
  BY <1>1, EventsFollow
<1>3. RemovedAreSilent'
  BY <1>2 DEF Agreement, RemovedAreSilent, First
<1>4. ASSUME NEW l \in on
      PROVE  \/ shown'[l] = cache'[QueryOf[l]]
             \/ /\ shown'[l] = Silent
                /\ ~FirstEventIsDue(QueryOf[l], synced', cache', track'.state)
  <2>1. l \in Listener
    BY DEF TypeOK
  <2>2. CASE shown[l] # Silent \/ l \in First(insync, cache', state)
    BY <1>2, <2>1, <2>2
  <2>3. CASE shown[l] = Silent /\ l \notin First(insync, cache', state)
    <3>1. ~FirstEventIsDue(QueryOf[l], insync, cache', state)
      BY <1>4, <2>3 DEF First
    <3>2. ~FirstEventIsDue(QueryOf[l], synced', cache', track'.state)
      BY <3>1 DEF FirstEventIsDue
    <3>3. QED
      BY <1>2, <2>1, <2>3, <3>2
  <2>4. QED
    BY <2>2, <2>3
<1>5. QED
  BY <1>3, <1>4 DEF Agreement, ListenersAgree

\* Steps after which no more first events are due than before.
LEMMA NothingNewIsDue ==
    ASSUME TypeOK, Agreement, UNCHANGED <<cache, on, shown>>,
      synced' \subseteq synced,
           track'.state = "Offline" => track.state = "Offline"
    PROVE  Agreement'
  BY DEF Agreement, RemovedAreSilent, ListenersAgree, FirstEventIsDue

LEMMA ChangedOnlineStateAgrees ==
    ASSUME TypeOK, TypeOK', Agreement, NEW tr, SetOnlineState(tr),
           UNCHANGED <<cache, on>>
    PROVE  Agreement'
<1>1. CASE tr.state = "Offline" /\ track.state # "Offline"
  <2>1. /\ synced' = {} /\ shown' = Events(on, {}, cache', "Offline")
        /\ track'.state = "Offline"
    BY <1>1 DEF SetOnlineState
  <2>2. QED
    BY <2>1, EventsAgree
<1>2. CASE ~(tr.state = "Offline" /\ track.state # "Offline")
  BY <1>2, NothingNewIsDue DEF SetOnlineState
<1>3. QED
  BY <1>1, <1>2

\* The events of a step in which a listener is added.
LEMMA ListenShows ==
    ASSUME TypeOK, Agreement, NEW l \in Listener, Listen(l)
    PROVE  shown' = IF FirstEventIsDue(QueryOf[l], synced, cache, track.state)
                    THEN [shown EXCEPT ![l] = cache[QueryOf[l]]]
                    ELSE shown
<1> DEFINE due == FirstEventIsDue(QueryOf[l], synced, cache, track.state)
<1>1. /\ shown' = Events(on', synced, cache, track.state)
      /\ on' = on \cup {l} /\ l \notin on
  BY DEF Listen
<1>2. shown[l] = Silent
  BY <1>1 DEF Agreement, RemovedAreSilent
<1>3. shown'[l] = IF due THEN cache[QueryOf[l]] ELSE Silent
  BY <1>1, <1>2 DEF Events
<1>4. ASSUME NEW k \in Listener, k # l PROVE shown'[k] = shown[k]
  <2>1. CASE k \notin on
    BY <1>1, <1>4, <2>1 DEF Events, Agreement, RemovedAreSilent
  <2>2. CASE k \in on /\ shown[k] # Silent
    BY <1>1, <2>2 DEF Events
  <2>3. CASE k \in on /\ shown[k] = Silent
    <3>1. cache[QueryOf[k]] # Silent
      BY QueryOfAssumption DEF TypeOK, Version, Silent
    <3>2. ~FirstEventIsDue(QueryOf[k], synced, cache, track.state)
      BY <2>3, <3>1 DEF Agreement, ListenersAgree
    <3>3. QED
      BY <1>1, <2>3, <3>2 DEF Events
  <2>4. QED
    BY <2>1, <2>2, <2>3
<1>5. DOMAIN shown' = Listener /\ DOMAIN shown = Listener
  BY <1>1 DEF Events, TypeOK
<1>6. shown' = [k \in Listener |-> shown'[k]] /\ shown = [k \in Listener |-> shown[k]]
  BY <1>1 DEF Events, TypeOK
<1> HIDE DEF due
<1>7. QED
  BY <1>2, <1>3, <1>4, <1>5, <1>6 DEF due

LEMMA ListenAgrees ==
    ASSUME TypeOK, TypeOK', Agreement, NEW l \in Listener, Listen(l)
    PROVE  Agreement'
<1>1. /\ on' = on \cup {l} /\ synced' = synced /\ cache' = cache
      /\ track'.state \in {track.state, "Unknown"}
  BY DEF Listen, AfterStart
<1>2. RemovedAreSilent'
  BY <1>1, ListenShows DEF TypeOK, Agreement, RemovedAreSilent
<1>3. ASSUME NEW k \in on'
      PROVE  \/ shown'[k] = cache[QueryOf[k]]
             \/ /\ shown'[k] = Silent
                /\ ~FirstEventIsDue(QueryOf[k], synced, cache, track'.state)
  <2>1. FirstEventIsDue(QueryOf[k], synced, cache, track'.state)
           => FirstEventIsDue(QueryOf[k], synced, cache, track.state)
    BY <1>1 DEF FirstEventIsDue
  <2>2. CASE k = l
    BY <2>1, <2>2, <1>1, ListenShows DEF TypeOK, Agreement, RemovedAreSilent, Listen
  <2>3. CASE k # l
    <3>1. shown'[k] = shown[k] /\ k \in on
      BY <1>1, <2>3, ListenShows DEF TypeOK
    <3>2. QED
      BY <2>1, <3>1 DEF Agreement, ListenersAgree
  <2>4. QED
    BY <2>2, <2>3
<1>4. QED
  BY <1>1, <1>2, <1>3 DEF Agreement, ListenersAgree

LEMMA AgreementStep ==
    ASSUME TypeOK, TypeOK', Agreement, [Next]_vars
    PROVE  Agreement'
<1>1. CASE UNCHANGED vars
  BY <1>1, NothingNewIsDue DEF vars
<1>2. CASE Backend
  BY <1>2, NothingNewIsDue
  DEF Backend, WriteDocuments, BackendAnswers, BackendSends, views
<1>3. ASSUME NEW l \in Listener, Unlisten(l) PROVE Agreement'
  <2>1. /\ on' = on \ {l} /\ cache' = cache /\ synced' \subseteq synced
        /\ shown' = [shown EXCEPT ![l] = Silent]
        /\ track'.state = "Offline" => track.state = "Offline"
    BY <1>3 DEF Unlisten, AfterUpdate
  <2>2. QED
    BY <2>1 DEF TypeOK, Agreement, RemovedAreSilent, ListenersAgree, FirstEventIsDue
<1>4. CASE Connecting
  BY <1>4, NothingNewIsDue
  DEF Connecting, LateCredentialsCome, Connect, BackoffElapsed, views
<1>5. CASE SnapshotRaised
  <2>1. /\ shown' = Events(on, synced', cache', "Online")
        /\ on' = on /\ track'.state = "Online"
    BY <1>5 DEF SnapshotRaised, RaiseWatchSnapshot, Receive, AfterUpdate
  <2>2. QED
    BY <2>1, EventsAgree
<1>6. CASE TargetAdded \/ TargetRemoved \/ DocumentsChange \/ SnapshotIgnored
  BY <1>6, NothingNewIsDue DEF TargetAdded, TargetRemoved, DocumentsChange,
     SnapshotIgnored, Receive, AfterUpdate, views
<1>7. CASE Timeouts \/ StreamFails \/ RestartNetwork \/ CloseGracefully
  BY <1>7, ChangedOnlineStateAgrees
  DEF Timeouts, IdleTimeout, OnlineStateTimeout, StreamFails, RestartNetwork,
      CloseGracefully
<1>8. CASE Restart
  BY <1>8 DEF Restart, Agreement, RemovedAreSilent, ListenersAgree, AppEnds
<1>9. CASE BackendFinishes
  BY <1>7, <1>8, <1>9, BackendFinishesAs
<1>10. QED
  BY <1>1, <1>2, <1>3, <1>4, <1>5, <1>6, <1>7, <1>8, <1>9, ListenAgrees
  DEF Next, App, Responses, Faults

LEMMA AgreementAlways == Spec => []Agreement
<1>1. Init => Agreement
  BY DEF Init, Agreement, RemovedAreSilent, ListenersAgree
<1>2. QED
  BY <1>1, TypeCorrect, AgreementStep, PTL DEF Spec

\* Every listener that has had an event shows the local copy, and none is
\* kept waiting for an event that is due.
THEOREM ListenersAlwaysAgree == Spec => []ListenersAgree
<1>1. Agreement => ListenersAgree
  BY DEF Agreement
<1>2. QED
  BY <1>1, AgreementAlways, PTL

-----------------------------------------------------------------------------
(* Time goes on.                                                           *)

LEMMA CacheSteps ==
    ASSUME TypeOK, [Next]_vars
    PROVE  /\ last <= last'
           /\ \A q \in Query : cache[q] <= cache'[q]
           /\ \A q \in Query : cache'[q] \in {cache[q], agg.updates[q]}
<1>1. last \in Int /\ \A q \in Query : cache[q] \in Int /\ agg.updates[q] \in Int
  BY BoundsAssumption DEF TypeOK, Aggregator, Version
<1>2. CASE UNCHANGED <<cache, last>>
  BY <1>1, <1>2
<1>3. CASE SnapshotRaised
  <2>1. Head(down).time \in Time
    BY <1>3, ReceiveType DEF SnapshotRaised
  <2>2. QED
    BY <1>1, <1>3, <2>1 DEF SnapshotRaised, RaiseWatchSnapshot, Newer, Time
<1>4. QED
  BY <1>2, <1>3
  DEF Next, Backend, WriteDocuments, BackendAnswers, BackendSends, App, Listen,
      Unlisten, Connecting, LateCredentialsCome, Connect, BackoffElapsed, Responses,
      TargetAdded, TargetRemoved, DocumentsChange, SnapshotIgnored, Timeouts,
      IdleTimeout, OnlineStateTimeout, Faults, StreamFails, RestartNetwork, Restart,
      vars, BackendFinishes, CloseGracefully, AppEnds

\* Neither the local copy nor the time of the last snapshot goes back.
THEOREM NeverRevertsAlways == Spec => NeverReverts
<1>1. TypeOK /\ [Next]_vars =>
         [last <= last' /\ \A q \in Query : cache[q] <= cache'[q]]_vars
  BY CacheSteps
<1>2. QED
  BY <1>1, TypeCorrect, PTL DEF Spec, NeverReverts

-----------------------------------------------------------------------------
(* The client keeps the promise of SnapshotStream.                         *)

\* Versions grow with time.
Growing == \A t \in 1..Now, q \in Query :
              past[t][q] <= t /\ past[t][q] <= past[Now][q]

\* No version is invented: what is under way, what the aggregator holds and
\* what the copy holds was published.
Published(f) == \A q \in DOMAIN f : f[q] <= past[Now][q]

Genuine ==
    /\ Growing
    /\ Published(cache)
    /\ Published(agg.updates)
    /\ \A i \in 1..Len(down) :
          down[i].kind = "documents" => Published(down[i].versions)

LEMMA WriteDocumentsGenuine ==
    ASSUME TypeOK, Genuine, NEW q \in Query, WriteDocuments(q)
    PROVE  /\ Genuine'
           /\ past'[Now'][q] > past[Now][q]
           /\ past'[Now'] = [past[Now] EXCEPT ![q] = past'[Now'][q]]
<1>1. past[Now] \in [Query -> Version] /\ Now \in Nat /\ Now \in 1..Now
  BY DEF TypeOK, Now, Time
<1>2. /\ Now' = Now + 1
      /\ past'[Now'] = [past[Now] EXCEPT ![q] = Now + 1]
      /\ \A t \in 1..Now : past'[t] = past[t]
  BY <1>1, AppendProperties DEF WriteDocuments, TypeOK, Now
<1>3. past[Now][q] <= Now
  BY <1>1 DEF Genuine, Growing
<1>4. \A r \in Query : past[Now][r] <= past'[Now'][r] /\ past'[Now'][r] <= Now'
  BY <1>1, <1>2, <1>3 DEF Genuine, Growing, Version
<1>5. Growing'
  <2>1. SUFFICES ASSUME NEW t \in 1..Now', NEW r \in Query
                 PROVE  past'[t][r] <= t /\ past'[t][r] <= past'[Now'][r]
    BY DEF Growing
  <2>2. CASE t = Now'
    BY <1>1, <1>2, <1>4, <2>2 DEF Version
  <2>3. CASE t \in 1..Now
    <3>1. past[t] \in [Query -> Version]
      BY <2>3 DEF TypeOK, Now
    <3>2. past[t][r] <= t /\ past[t][r] <= past[Now][r]
      BY <2>3 DEF Genuine, Growing
    <3>3. past'[Now'] \in [Query -> Int]
      BY <1>1, <1>2 DEF Version
    <3>4. QED
      BY <1>1, <1>2, <1>4, <2>3, <3>1, <3>2, <3>3 DEF Version
  <2>4. QED
    BY <1>1, <1>2, <2>2, <2>3
<1>6. ASSUME NEW f, Published(f),
             DOMAIN f \subseteq Query, \A r \in DOMAIN f : f[r] \in Version
      PROVE  \A r \in DOMAIN f : f[r] <= past'[Now'][r]
  <2>1. past'[Now'] \in [Query -> Int]
    BY <1>1, <1>2 DEF Version
  <2>2. QED
    BY <1>1, <1>4, <1>6, <2>1 DEF Published, Version
<1>7. UNCHANGED <<cache, agg, down>>
  BY DEF WriteDocuments, wire
<1>8. Published(cache)' /\ Published(agg.updates)'
  BY <1>6, <1>7 DEF Genuine, TypeOK, Aggregator, Published
<1>9. ASSUME NEW i \in 1..Len(down), down[i].kind = "documents"
      PROVE  Published(down[i].versions)'
  <2>1. down[i] \in Response
    BY DEF TypeOK
  <2>2. down[i].versions \in Versions
    BY <1>9, <2>1, ResponseFields
  <2>3. Published(down[i].versions)
    BY <1>9 DEF Genuine
  <2>4. /\ DOMAIN down[i].versions \subseteq Query
        /\ \A r \in DOMAIN down[i].versions : down[i].versions[r] \in Version
    BY <2>2 DEF Versions
  <2>5. QED
    BY <1>6, <1>7, <2>3, <2>4 DEF Published
<1>10. Genuine'
  BY <1>5, <1>7, <1>8, <1>9 DEF Genuine
<1>11. QED
  BY <1>1, <1>2, <1>3, <1>10 DEF Version

LEMMA BackendSendsGenuine ==
    ASSUME TypeOK, Genuine, NEW t \in Time, t <= Now, BackendSends(t)
    PROVE  Genuine'
<1> DEFINE news == {q \in DOMAIN backend.sent : backend.sent[q] # past[t][q]}
           versions == [q \in news |-> past[t][q]]
<1>1. UNCHANGED <<past, cache, agg>>
  BY DEF BackendSends
<1>2. down' = down \o << Documents(versions), Snapshot(t) >>
  BY DEF BackendSends
<1>3. news \subseteq Query
  BY DEF TypeOK, BackendState, Ends
<1>4. t \in 1..Now
  BY DEF Time
<1>5. Published(versions)
  BY <1>3, <1>4 DEF Published, Genuine, Growing
<1> HIDE DEF versions
<1>6. down \in Seq(Response)
  BY DEF TypeOK
<1>7. ASSUME NEW i \in 1..Len(down'), down'[i].kind = "documents"
      PROVE  Published(down'[i].versions)
  <2>1. CASE i \in 1..Len(down)
    <3>1. down'[i] = down[i]
      BY <1>2, <1>6, <2>1
    <3>2. QED
      BY <1>7, <2>1, <3>1 DEF Genuine
  <2>2. CASE i = Len(down) + 1
    <3>1. down'[i] = Documents(versions)
      BY <1>2, <1>6, <2>2
    <3>2. QED
      BY <1>5, <3>1 DEF Documents
  <2>3. CASE i = Len(down) + 2
    <3>1. down'[i] = Snapshot(t)
      BY <1>2, <1>6, <2>3
    <3>2. QED
      BY <1>7, <3>1 DEF Snapshot
  <2>4. QED
    BY <1>2, <1>6, <1>7, <2>1, <2>2, <2>3
<1>8. QED
  BY <1>1, <1>7 DEF Genuine, Growing, Published, Now

LEMMA GenuineTail ==
    ASSUME TypeOK, Genuine, down # << >>,
           UNCHANGED past, down' = Tail(down), Published(cache)',
             Published(agg.updates)'
    PROVE  Genuine'
<1>1. ASSUME NEW i \in 1..Len(down')
      PROVE  i + 1 \in 1..Len(down) /\ down'[i] = down[i + 1]
  BY HeadTailProperties DEF TypeOK
<1>2. QED
  BY <1>1 DEF Genuine, Growing, Published, Now

LEMMA ResponsesGenuine ==
    ASSUME TypeOK, Genuine, Responses
    PROVE  Genuine'
<1>1. PICK kind : Receive(kind)
  BY DEF Responses, TargetAdded, TargetRemoved, DocumentsChange, SnapshotIgnored,
         SnapshotRaised
<1>2. down # << >> /\ down' = Tail(down)
  BY <1>1 DEF Receive
<1>3. past' = past
  BY DEF Responses, TargetAdded, TargetRemoved, DocumentsChange, SnapshotIgnored,
         SnapshotRaised, RaiseWatchSnapshot, world
<1>4. CASE TargetAdded \/ TargetRemoved \/ SnapshotIgnored
  <2>1. cache' = cache /\ agg'.updates = agg.updates
    BY <1>4 DEF TargetAdded, TargetRemoved, SnapshotIgnored, TypeOK, Aggregator
  <2>2. Published(cache)' /\ Published(agg.updates)'
    BY <1>3, <2>1 DEF Genuine, Published, Now
  <2>3. QED
    BY <1>2, <1>3, <2>2, GenuineTail
<1>5. CASE DocumentsChange
  <2> DEFINE versions == Head(down).versions
             taken == {q \in DOMAIN versions : Active(q)}
  <2>1. Published(versions)
    <3>1. Len(down) > 0 /\ Head(down) = down[1]
      BY <1>2, HeadTailProperties DEF TypeOK
    <3>2. 1 \in 1..Len(down)
      BY <3>1 DEF TypeOK
    <3>3. Head(down).kind = "documents"
      BY <1>5 DEF DocumentsChange, Receive
    <3>4. QED
      BY <3>1, <3>2, <3>3 DEF Genuine
  <2>2. agg'.updates = [q \in Query |-> IF q \in taken THEN versions[q]
                                       ELSE agg.updates[q]]
    BY <1>5 DEF DocumentsChange, TypeOK, Aggregator
  <2>3. Published(agg.updates)'
    BY <1>3, <2>1, <2>2 DEF Genuine, Published, Now, TypeOK, Aggregator
  <2>4. Published(cache)'
    BY <1>3, <1>5 DEF DocumentsChange, Genuine, Published, Now
  <2>5. QED
    BY <1>2, <1>3, <2>3, <2>4, GenuineTail
<1>6. CASE SnapshotRaised
  <2>1. /\ cache' = [q \in Query |-> Newer(agg.updates[q], cache[q])]
        /\ agg'.updates = [q \in Query |-> 0]
    BY <1>6 DEF SnapshotRaised, RaiseWatchSnapshot, TypeOK, Aggregator
  <2>2. Published(cache)'
    BY <1>3, <2>1 DEF Genuine, Published, Now, Newer, TypeOK, Aggregator
  <2>3. \A q \in Query : 0 <= past[Now][q]
    BY DEF TypeOK, Now, Time, Version
  <2>4. Published(agg.updates)'
    BY <1>3, <2>1, <2>3 DEF Published, Now
  <2>5. QED
    BY <1>2, <1>3, <2>2, <2>4, GenuineTail
<1>7. QED
  BY <1>4, <1>5, <1>6 DEF Responses

\* Steps that bring no versions: the aggregator keeps its updates or is new.
LEMMA NoNewVersions ==
    ASSUME TypeOK, Genuine, UNCHANGED <<past, cache>>,
           agg'.updates = agg.updates \/ agg' = NewAggregator,
           down' \in {down, << >>}
    PROVE  Genuine'
<1>1. \A q \in Query : 0 <= past[Now][q]
  BY DEF TypeOK, Now, Time, Version
<1>2. Published(agg.updates)'
  BY <1>1 DEF Genuine, Published, Now, NewAggregator
<1>3. QED
  BY <1>2 DEF Genuine, Growing, Published, Now

LEMMA BackendAnswersGenuine ==
    ASSUME TypeOK, Genuine, BackendAnswers
    PROVE  Genuine'
<1>1. UNCHANGED <<past, cache, agg>>
  BY DEF BackendAnswers
<1>2. PICK m : down' = Append(down, m) /\ m.kind # "documents"
  BY DEF BackendAnswers, Added, Removed
<1>3. down \in Seq(Response)
  BY DEF TypeOK
<1>4. ASSUME NEW i \in 1..Len(down'), down'[i].kind = "documents"
      PROVE  i \in 1..Len(down) /\ down'[i] = down[i]
  BY <1>2, <1>3, <1>4
<1>5. QED
  BY <1>1, <1>4 DEF Genuine, Growing, Published, Now

LEMMA GenuineStep ==
    ASSUME TypeOK, Genuine, [Next]_vars
    PROVE  Genuine'
<1>1. CASE UNCHANGED vars
  BY <1>1, NoNewVersions DEF vars
<1>2. CASE Backend
  BY <1>2, WriteDocumentsGenuine, BackendAnswersGenuine, BackendSendsGenuine
  DEF Backend
<1>3. CASE App
  <2>1. agg'.updates = agg.updates \/ agg' = NewAggregator
    BY <1>3 DEF App, Listen, Unlisten, Send, AfterSending, TypeOK, Aggregator
  <2>2. QED
    BY <1>3, <2>1, NoNewVersions DEF App, Listen, Unlisten, world
<1>4. CASE Connecting
  <2>1. agg'.updates = agg.updates
    BY <1>4 DEF Connecting, LateCredentialsCome, Connect, BackoffElapsed,
      AfterSending,
                TypeOK, Aggregator
  <2>2. QED
    BY <1>4, <2>1, NoNewVersions
    DEF Connecting, LateCredentialsCome, Connect, BackoffElapsed, world, wire
<1>5. CASE Timeouts \/ Faults
  BY <1>5, NoNewVersions
  DEF Timeouts, IdleTimeout, OnlineStateTimeout, Faults, StreamFails,
      RestartNetwork, Restart, HangUp, world, wire, BackendFinishes,
        CloseGracefully, AppEnds
<1>6. QED
  BY <1>1, <1>2, <1>3, <1>4, <1>5, ResponsesGenuine DEF Next

LEMMA InitGenuine == Init => Genuine
<1> SUFFICES ASSUME Init PROVE Genuine
  OBVIOUS
<1>1. /\ past = << Initially >> /\ Now = 1 /\ down = << >>
      /\ cache = [q \in Query |-> 0] /\ agg.updates = [q \in Query |-> 0]
  BY DEF Init, Now, NewAggregator
<1>2. \A q \in Query : past[1][q] \in {0, 1}
  BY <1>1, InitiallyAssumption
<1>3. Growing
  <2>1. \A t \in 1..1 : t = 1
    OBVIOUS
  <2>2. QED
    BY <1>1, <1>2, <2>1 DEF Growing
<1>4. Published(cache) /\ Published(agg.updates)
  BY <1>1, <1>2 DEF Published
<1>5. QED
  BY <1>1, <1>3, <1>4 DEF Genuine

\* One step of the client is a step of what it promises, or leaves it alone.
PromiseVars == <<past[Now], cache, on, shown>>

LEMMA FetchStep ==
    ASSUME TypeOK, TypeOK', Agreement, Genuine, Genuine', [Next]_vars,
           UNCHANGED <<past, on>>, NEW insync, NEW state,
           shown' = Events(on, insync, cache', state)
    PROVE  Promise!Fetch
<1>1. cache' \in [Query -> Version]
  BY DEF TypeOK
<1>2. First(insync, cache', state) \in SUBSET {l \in on : shown[l] = Promise!Silent}
  BY DEF First, Silent, Promise!Silent
<1>3. shown' = [l \in Listener |->
                   IF shown[l] # Promise!Silent \/ l \in First(insync, cache',
                     state)
                   THEN cache'[QueryOf[l]] ELSE Promise!Silent]
  BY <1>1, EventsFollow DEF Silent, Promise!Silent
<1>4. \A q \in Query : cache[q] <= cache'[q] /\ cache'[q] <= past[Now][q]
  BY CacheSteps, <1>1 DEF Genuine, Published, Now
<1>5. DOMAIN cache' = Query /\ UNCHANGED <<past[Now], on>>
  BY <1>1 DEF Now
<1>6. QED
  BY <1>2, <1>3, <1>4, <1>5 DEF Promise!Fetch

LEMMA OnlineStatePromise ==
    ASSUME TypeOK, TypeOK', Agreement, Genuine, Genuine', [Next]_vars,
           UNCHANGED <<past, cache, on>>, NEW tr, SetOnlineState(tr)
    PROVE  Promise!Fetch \/ UNCHANGED PromiseVars
<1>1. CASE tr.state = "Offline" /\ track.state # "Offline"
  <2>1. shown' = Events(on, {}, cache', "Offline")
    BY <1>1 DEF SetOnlineState
  <2>2. QED
    BY <2>1, FetchStep
<1>2. CASE ~(tr.state = "Offline" /\ track.state # "Offline")
  BY <1>2 DEF SetOnlineState, PromiseVars, Now
<1>3. QED
  BY <1>1, <1>2

LEMMA PromiseStep ==
    ASSUME TypeOK, TypeOK', Agreement, Genuine, Genuine', [Next]_vars
    PROVE  Promise!Next \/ UNCHANGED PromiseVars
<1>1. CASE UNCHANGED vars
  BY <1>1 DEF vars, PromiseVars, Now
<1>2. ASSUME NEW q \in Query, WriteDocuments(q) PROVE Promise!Next
  <2>1. /\ past'[Now'][q] > past[Now][q]
        /\ past'[Now'] = [past[Now] EXCEPT ![q] = past'[Now'][q]]
        /\ UNCHANGED <<cache, on, shown>>
    BY <1>2, WriteDocumentsGenuine DEF WriteDocuments, views
  <2>2. Promise!Publish(q)
    BY <2>1 DEF Promise!Publish
  <2>3. QED
    BY <2>2 DEF Promise!Next
<1>3. CASE \/ BackendAnswers \/ Connecting
           \/ TargetAdded \/ TargetRemoved \/ DocumentsChange \/ SnapshotIgnored
           \/ \E t \in Time : t >= backend.time /\ t <= Now /\ BackendSends(t)
  BY <1>3 DEF BackendAnswers, BackendSends, Connecting, LateCredentialsCome,
    Connect,
     BackoffElapsed, TargetAdded, TargetRemoved, DocumentsChange, SnapshotIgnored,
     world, views, PromiseVars, Now
<1>4. ASSUME NEW l \in Listener, Listen(l) PROVE Promise!Next
  <2>1. shown' \in {shown, [shown EXCEPT ![l] = cache[QueryOf[l]]]}
    BY <1>4, ListenShows
  <2>2. Promise!Subscribe(l) /\ l \in Listener \ on
    BY <1>4, <2>1 DEF Promise!Subscribe, Listen, world, Now
  <2>3. QED
    BY <2>2 DEF Promise!Next
<1>5. ASSUME NEW l \in Listener, Unlisten(l) PROVE Promise!Next
  <2>1. /\ on' = on \ {l} /\ l \in on
        /\ shown' = [shown EXCEPT ![l] = Silent]
        /\ UNCHANGED <<past[Now], cache>>
    BY <1>5 DEF Unlisten, world, Now
  <2>2. shown' = [k \in Listener |->
                     IF k \in {l} THEN Promise!Silent ELSE shown[k]]
    BY <2>1 DEF TypeOK, Silent, Promise!Silent
  <2>3. Promise!Unsubscribe({l})
    BY <2>1, <2>2 DEF Promise!Unsubscribe
  <2>4. QED
    BY <2>1, <2>3 DEF Promise!Next
<1>6. CASE Restart
  <2>1. /\ on' = {} /\ shown' = [l \in Listener |-> Silent]
        /\ UNCHANGED <<past[Now], cache>>
    BY <1>6 DEF Restart, Now, AppEnds
  <2>2. shown' = [l \in Listener |->
                     IF l \in on THEN Promise!Silent ELSE shown[l]]
    BY <2>1 DEF Agreement, RemovedAreSilent, Silent, Promise!Silent
  <2>3. Promise!Unsubscribe(on)
    BY <2>1, <2>2 DEF Promise!Unsubscribe
  <2>4. QED
    BY <2>3 DEF Promise!Next
<1>7. CASE SnapshotRaised
  <2>1. /\ shown' = Events(on, synced', cache', "Online")
        /\ UNCHANGED <<past, on>>
    BY <1>7 DEF SnapshotRaised, RaiseWatchSnapshot, world
  <2>2. QED
    BY <2>1, FetchStep DEF Promise!Next
<1>8. CASE Timeouts \/ StreamFails \/ RestartNetwork \/ CloseGracefully
  <2>1. /\ UNCHANGED <<past, cache, on>>
        /\ \E tr : SetOnlineState(tr)
    BY <1>8 DEF Timeouts, IdleTimeout, OnlineStateTimeout, StreamFails,
                RestartNetwork, world, CloseGracefully
  <2>2. QED
    BY <2>1, OnlineStatePromise DEF Promise!Next
<1>9. CASE BackendFinishes
  BY <1>6, <1>8, <1>9, BackendFinishesAs
<1>10. QED
  BY <1>1, <1>2, <1>3, <1>4, <1>5, <1>6, <1>7, <1>8, <1>9
  DEF Next, Backend, App, Responses, Faults

LEMMA PromiseInit == Init => Promise!Init
<1>1. Init => past[Now] = Initially
  BY DEF Init, Now
<1>2. QED
  BY <1>1, InitiallyAssumption DEF Init, Promise!Init, Silent, Promise!Silent

\* The client keeps its promise: listeners of a query are shown one copy of
\* it, which only moves on to published versions, over broken streams, idle
\* ones, lagging backends and restarts.
THEOREM PromiseKept == Spec => KeepsPromise
<1>1. Spec => []Genuine
  BY InitGenuine, TypeCorrect, GenuineStep, PTL DEF Spec
<1>2. TypeOK /\ TypeOK' /\ Agreement /\ Genuine /\ Genuine' /\ [Next]_vars
         => [Promise!Next]_(Promise!vars)
  BY PromiseStep DEF PromiseVars, Promise!vars
<1>3. QED
  BY <1>1, <1>2, PromiseInit, TypeCorrect, AgreementAlways, PTL
  DEF Spec, KeepsPromise, Promise!Spec

-----------------------------------------------------------------------------
(* Counting messages.                                                      *)

\* The positions of the messages that DueTo counts.
Positions(q, messages, kinds) ==
    {i \in DOMAIN messages : messages[i].kind \in kinds /\ messages[i].query = q}

\* What one message adds to the count.
One(q, m, kinds) == IF m.kind \in kinds /\ m.query = q THEN 1 ELSE 0

LEMMA DueToFinite ==
    ASSUME NEW S, NEW messages \in Seq(S), NEW q, NEW kinds
    PROVE  /\ IsFiniteSet(Positions(q, messages, kinds))
           /\ DueTo(q, messages, kinds) = Cardinality(Positions(q, messages, kinds))
           /\ DueTo(q, messages, kinds) \in Nat
<1>1. IsFiniteSet(DOMAIN messages)
  BY LenProperties, FS_Interval
<1>2. Positions(q, messages, kinds) \in SUBSET DOMAIN messages
  BY DEF Positions
<1>3. IsFiniteSet(Positions(q, messages, kinds))
  BY <1>1, <1>2, FS_Subset, Zenon
<1>4. QED
  BY <1>3, FS_CardinalityType, Zenon DEF DueTo, Positions

\* Nothing is due to a wire that is empty.
LEMMA DueToNothing ==
    ASSUME NEW q, NEW kinds
    PROVE  DueTo(q, << >>, kinds) = 0
<1>1. Positions(q, << >>, kinds) = {}
  BY DEF Positions
<1>2. << >> \in Seq({})
  OBVIOUS
<1>3. QED
  BY <1>1, <1>2, DueToFinite, FS_EmptySet, Zenon

LEMMA DueToOne ==
    ASSUME NEW m, NEW q, NEW kinds
    PROVE  DueTo(q, << m >>, kinds) = One(q, m, kinds)
<1>1. Positions(q, << m >>, kinds)
         = IF m.kind \in kinds /\ m.query = q THEN {1} ELSE {}
  BY DEF Positions
<1>2. DueTo(q, << m >>, kinds) = Cardinality(Positions(q, << m >>, kinds))
  BY DEF DueTo, Positions
<1>3. QED
  BY <1>1, <1>2, FS_EmptySet, FS_Singleton DEF One

\* A message that is sent is counted once.
LEMMA DueToAppend ==
    ASSUME NEW S, NEW messages \in Seq(S), NEW m \in S, NEW q, NEW kinds
    PROVE  DueTo(q, Append(messages, m), kinds)
              = DueTo(q, messages, kinds) + One(q, m, kinds)
<1> DEFINE n == Len(messages)
           more == Append(messages, m)
           P == Positions(q, messages, kinds)
<1>1. /\ more \in Seq(S) /\ n \in Nat /\ Len(more) = n + 1
      /\ DOMAIN messages = 1..n /\ DOMAIN more = 1..(n + 1)
      /\ more[n + 1] = m
      /\ \A i \in 1..n : more[i] = messages[i]
  BY AppendProperties, LenProperties
<1>2. n + 1 \notin P
  BY <1>1 DEF Positions
<1>5. /\ IsFiniteSet(P)
      /\ DueTo(q, messages, kinds) = Cardinality(P)
      /\ DueTo(q, more, kinds) = Cardinality(Positions(q, more, kinds))
      /\ Cardinality(P) \in Nat
  <2> HIDE DEF more
  <2>1. QED
    BY <1>1, DueToFinite, Zenon
<1> HIDE DEF more, n
<1>3. CASE m.kind \in kinds /\ m.query = q
  <2>1. Positions(q, more, kinds) = P \cup {n + 1}
    BY <1>1, <1>3 DEF Positions
  <2>2. Cardinality(P \cup {n + 1}) = Cardinality(P) + 1
    BY <1>2, <1>5, FS_AddElement
  <2>3. QED
    BY <1>3, <1>5, <2>1, <2>2 DEF One, more
<1>4. CASE ~(m.kind \in kinds /\ m.query = q)
  <2>1. Positions(q, more, kinds) = P
    BY <1>1, <1>4 DEF Positions
  <2>2. QED
    BY <1>4, <1>5, <2>1 DEF One, more
<1>6. QED
  BY <1>3, <1>4

\* A message that is received is counted no more.
LEMMA DueToTail ==
    ASSUME NEW S, NEW messages \in Seq(S), messages # << >>, NEW q, NEW kinds
    PROVE  DueTo(q, Tail(messages), kinds)
              = DueTo(q, messages, kinds) - One(q, Head(messages), kinds)
<1> DEFINE rest == Tail(messages)
           n == Len(rest)
           P == Positions(q, messages, kinds)
           R == Positions(q, rest, kinds)
           f == [i \in R |-> i + 1]
<1>1. /\ rest \in Seq(S) /\ n \in Nat /\ Len(messages) = n + 1
      /\ DOMAIN rest = 1..n /\ DOMAIN messages = 1..(n + 1)
      /\ Head(messages) = messages[1]
      /\ \A i \in 1..n : rest[i] = messages[i + 1]
  BY HeadTailProperties, LenProperties
<1>2. IsFiniteSet(P) /\ IsFiniteSet(R)
  BY <1>1, DueToFinite, Zenon
<1> HIDE DEF rest, n
<1>3. R \subseteq 1..n /\ P \subseteq 1..(n + 1)
  BY <1>1 DEF Positions
<1>4. \A i \in 1..n : i \in R <=> i + 1 \in P
  BY <1>1 DEF Positions
<1> HIDE DEF P, R
<1>5. f \in Bijection(R, P \ {1})
  <2>1. \A i \in R : i + 1 \in P \ {1}
    BY <1>1, <1>3, <1>4
  <2>2. \A j \in P \ {1} : j - 1 \in R /\ (j - 1) + 1 = j
    BY <1>1, <1>3, <1>4
  <2>3. f \in [R -> P \ {1}]
    BY <2>1
  <2>4. \A a, b \in R : f[a] = f[b] => a = b
    BY <1>1, <1>3
  <2>5. \A j \in P \ {1} : \E i \in R : f[i] = j
    BY <2>2
  <2>6. QED
    BY <2>3, <2>4, <2>5 DEF Bijection, Injection, Surjection, IsInjective
<1>6. Cardinality(P \ {1}) = Cardinality(R)
  BY <1>2, <1>5, FS_Bijection, Zenon DEF ExistsBijection
<1>7. Cardinality(P \ {1}) = IF 1 \in P THEN Cardinality(P) - 1 ELSE Cardinality(P)
  BY <1>2, FS_RemoveElement, Zenon
<1>8. /\ Cardinality(R) = DueTo(q, rest, kinds)
      /\ Cardinality(P) = DueTo(q, messages, kinds)
      /\ Cardinality(P) \in Nat
  BY <1>1, DueToFinite, Zenon DEF P, R
<1>9. 1 \in P <=> Head(messages).kind \in kinds /\ Head(messages).query = q
  BY <1>1 DEF P, Positions
<1>10. QED
  BY <1>6, <1>7, <1>8, <1>9 DEF One, rest

\* Each request that is sent makes a response due.
LEMMA SendingCounts ==
    ASSUME NEW ag \in Aggregator, NEW requests \in Seq(Requests), NEW q \in Query
    PROVE  AfterSending(ag, requests).acks[q]
              = ag.acks[q] + DueTo(q, requests, {"watch", "unwatch"})
<1>1. {i \in DOMAIN requests : requests[i].query = q}
         = Positions(q, requests, {"watch", "unwatch"})
  <2>1. \A i \in DOMAIN requests : requests[i].kind \in {"watch", "unwatch"}
    <3>1. \A i \in DOMAIN requests : requests[i] \in Requests
      BY LenProperties
    <3>2. QED
      BY <3>1 DEF Requests
  <2>2. QED
    BY <2>1 DEF Positions
<1>2. Cardinality({i \in DOMAIN requests : requests[i].query = q})
         = DueTo(q, requests, {"watch", "unwatch"})
  BY <1>1 DEF DueTo, Positions
<1>3. AfterSending(ag, requests).acks[q] = ag.acks[q] +
         Cardinality({i \in DOMAIN requests : requests[i].query = q})
  <2> DEFINE n == [r \in Query |->
                     Cardinality({i \in DOMAIN requests : requests[i].query = r})]
  <2>1. AfterSending(ag, requests) =
           [ag EXCEPT !.acks = [r \in Query |-> ag.acks[r] + n[r]]]
    BY DEF AfterSending
  <2> HIDE DEF n
  <2>2. AfterSending(ag, requests).acks[q] = ag.acks[q] + n[q]
    BY <2>1 DEF Aggregator
  <2>3. QED
    BY <2>2 DEF n
<1>4. QED
  BY <1>2, <1>3

-----------------------------------------------------------------------------
(* The responses that are due.                                             *)

\* There is something under way, or known of it, only while the stream is
\* open.
OnlyOpen == ~IsOpen => up = << >> /\ down = << >> /\ agg = NewAggregator

LEMMA NothingUnderWay ==
    ASSUME up' = << >>, down' = << >>, agg' = NewAggregator
    PROVE  AcksAreUnderWay' /\ OnlyOpen'
<1>1. ASSUME NEW q \in Query
      PROVE  agg'.acks[q] = DueTo(q, up', {"watch", "unwatch"})
                            + DueTo(q, down', {"added", "removed"})
  <2>1. agg'.acks[q] = 0
    BY DEF NewAggregator
  <2>2. /\ DueTo(q, up', {"watch", "unwatch"}) = 0
        /\ DueTo(q, down', {"added", "removed"}) = 0
    BY DueToNothing
  <2>3. QED
    BY <2>1, <2>2
<1>2. AcksAreUnderWay'
  BY <1>1 DEF AcksAreUnderWay, DueTo
<1>3. QED
  BY <1>2 DEF OnlyOpen

\* Whatever leaves the wire and the counts alone.
LEMMA AcksStayUnderWay ==
    ASSUME AcksAreUnderWay, agg'.acks = agg.acks, UNCHANGED <<up, down>>
    PROVE  AcksAreUnderWay'
  BY DEF AcksAreUnderWay, DueTo

\* A request that is added to an open stream is counted on both sides.
LEMMA RequestAcks ==
    ASSUME TypeOK, AcksAreUnderWay, NEW m \in Requests,
           up' = up \o << m >>, agg' = AfterSending(agg, << m >>), down' = down
    PROVE  AcksAreUnderWay'
<1> DEFINE sent == {"watch", "unwatch"}
<1>1. /\ up \in Seq(Requests) /\ << m >> \in Seq(Requests)
      /\ agg \in Aggregator
  BY DEF TypeOK
<1>2. up' = Append(up, m)
  BY <1>1
<1>3. ASSUME NEW q \in Query
      PROVE  agg'.acks[q] = DueTo(q, up', sent)
                            + DueTo(q, down', {"added", "removed"})
  <2>1. agg.acks[q] = DueTo(q, up, sent) + DueTo(q, down, {"added", "removed"})
    BY DEF AcksAreUnderWay
  <2>2. DueTo(q, Append(up, m), sent) = DueTo(q, up, sent) + One(q, m, sent)
    BY <1>1, DueToAppend
  <2>3. DueTo(q, << m >>, sent) = One(q, m, sent)
    BY DueToOne
  <2>4. agg'.acks[q] = agg.acks[q] + DueTo(q, << m >>, sent)
    BY <1>1, SendingCounts
  <2>5. /\ DueTo(q, up, sent) \in Nat
        /\ DueTo(q, down, {"added", "removed"}) \in Nat
    BY <1>1, DueToFinite DEF TypeOK
  <2>6. One(q, m, sent) \in Nat
    BY DEF One
  <2>7. DueTo(q, up', sent) = DueTo(q, up, sent) + One(q, m, sent)
    BY <1>2, <2>2, Zenon
  <2>8. agg'.acks[q] = agg.acks[q] + One(q, m, sent)
    BY <2>3, <2>4, Zenon
  <2> HIDE DEF sent
  <2>9. QED
    BY <2>1, <2>5, <2>6, <2>7, <2>8
<1>4. QED
  BY <1>3 DEF AcksAreUnderWay, DueTo

LEMMA ListenAcks ==
    ASSUME TypeOK, AcksAreUnderWay, OnlyOpen, NEW l \in Listener,
           Listen(l) \/ Unlisten(l)
    PROVE  AcksAreUnderWay' /\ OnlyOpen'
<1>1. down' = down
  BY DEF Listen, Unlisten
<1>2. QueryOf[l] \in Query
  BY QueryOfAssumption
<1>3. CASE UNCHANGED <<stream, agg, up>>
  BY <1>1, <1>3, AcksStayUnderWay DEF OnlyOpen, IsOpen
<1>4. CASE IsOpen /\ \E kind \in {"watch", "unwatch"} :
              LET m == [kind |-> kind, query |-> QueryOf[l]]
              IN  /\ up' = up \o << m >>
                  /\ agg' = AfterSending(agg, << m >>)
                  /\ stream'.state = stream.state
  <2>1. PICK m \in Requests : /\ up' = up \o << m >>
                              /\ agg' = AfterSending(agg, << m >>)
                              /\ stream'.state = stream.state
    BY <1>2, <1>4 DEF Requests
  <2>2. AcksAreUnderWay'
    BY <1>1, <2>1, RequestAcks
  <2>3. OnlyOpen'
    BY <1>4, <2>1 DEF OnlyOpen, IsOpen
  <2>4. QED
    BY <2>2, <2>3
<1>5. CASE ~IsOpen /\ agg' = NewAggregator /\ up' = up
  BY <1>1, <1>5, NothingUnderWay DEF OnlyOpen
<1>6. Listen(l) => \/ UNCHANGED <<stream, agg, up>>
                   \/ IsOpen /\ LET m == [kind |-> "watch", query |-> QueryOf[l]]
                                IN  /\ up' = up \o << m >>
                                    /\ agg' = AfterSending(agg, << m >>)
                                    /\ stream'.state = stream.state
                   \/ ~IsOpen /\ agg' = NewAggregator /\ up' = up
  BY DEF Listen, Send, TypeOK, StreamState, IsOpen, IsStarted
<1>7. Unlisten(l) => \/ UNCHANGED <<stream, agg, up>>
                     \/ IsOpen /\ LET m == [kind |-> "unwatch",
                       query |-> QueryOf[l]]
                                  IN  /\ up' = up \o << m >>
                                      /\ agg' = AfterSending(agg, << m >>)
                                      /\ stream'.state = stream.state
  BY DEF Unlisten, TypeOK, StreamState
<1>8. QED
  BY <1>3, <1>4, <1>5, <1>6, <1>7

LEMMA ConnectAcks ==
    ASSUME TypeOK, AcksAreUnderWay, OnlyOpen, Connect
    PROVE  /\ AcksAreUnderWay' /\ OnlyOpen'
           /\ \A i \in DOMAIN up' : up'[i].kind = "watch"
           /\ \A q \in Targets : agg'.acks[q] # 0
<1>1. PICK order \in [1..Cardinality(Targets) -> Targets] :
         LET requests == [i \in DOMAIN order |->
                             [kind |-> "watch", query |-> order[i]]]
         IN  /\ Range(order) = Targets
             /\ up' = requests
             /\ agg' = AfterSending(agg, requests)
  BY DEF Connect
<1> DEFINE requests == [i \in DOMAIN order |->
                           [kind |-> "watch", query |-> order[i]]]
<1>2. Targets \in SUBSET Query /\ Cardinality(Targets) \in Nat
  BY TargetsAreQueries, FS_CardinalityType DEF TypeOK, Targets
<1>3. requests \in [1..Cardinality(Targets) -> Requests]
  BY <1>2 DEF Requests
<1>4. requests \in Seq(Requests)
  BY <1>2, <1>3, SeqDef
<1>5. up' = requests /\ agg' = AfterSending(agg, requests) /\ Range(order) = Targets
  BY <1>1
<1>6. \A q \in Targets : \E i \in DOMAIN requests :
         requests[i].kind = "watch" /\ requests[i].query = q
  BY <1>5 DEF Range
<1>7. \A i \in DOMAIN requests : requests[i].kind = "watch"
  OBVIOUS
<1> HIDE DEF requests
<1>8. up = << >> /\ down = << >> /\ down' = down /\ IsOpen'
  BY DEF Connect, OnlyOpen, IsOpen, TypeOK, StreamState
<1>9. ASSUME NEW q \in Query
      PROVE  /\ DueTo(q, down, {"added", "removed"}) = 0
             /\ agg'.acks[q] = DueTo(q, requests, {"watch", "unwatch"})
             /\ DueTo(q, requests, {"watch", "unwatch"}) \in Nat
  <2>1. agg.acks[q] = DueTo(q, up, {"watch", "unwatch"})
                      + DueTo(q, down, {"added", "removed"})
    BY DEF AcksAreUnderWay
  <2>2. /\ DueTo(q, up, {"watch", "unwatch"}) = 0
        /\ DueTo(q, down, {"added", "removed"}) = 0
    BY <1>8, DueToNothing
  <2>3. agg'.acks[q] = agg.acks[q] + DueTo(q, requests, {"watch", "unwatch"})
    BY <1>4, <1>5, SendingCounts DEF TypeOK
  <2>4. DueTo(q, requests, {"watch", "unwatch"}) \in Nat
    BY <1>4, DueToFinite, Zenon
  <2>5. agg.acks[q] = 0
    BY <2>1, <2>2
  <2>6. QED
    BY <2>2, <2>3, <2>4, <2>5
<1>10. AcksAreUnderWay'
  <2>1. ASSUME NEW q \in Query
        PROVE  agg'.acks[q] = DueTo(q, up', {"watch", "unwatch"})
                              + DueTo(q, down', {"added", "removed"})
    BY <1>5, <1>8, <1>9
  <2>2. QED
    BY <2>1 DEF AcksAreUnderWay, DueTo
<1>11. ASSUME NEW q \in Targets PROVE agg'.acks[q] # 0
  <2>1. q \in Query
    BY <1>2
  <2>2. Positions(q, requests, {"watch", "unwatch"}) # {}
    BY <1>6 DEF Positions
  <2> DEFINE P == Positions(q, requests, {"watch", "unwatch"})
  <2>5. /\ IsFiniteSet(P)
        /\ DueTo(q, requests, {"watch", "unwatch"}) = Cardinality(P)
    BY <1>4, DueToFinite, Zenon
  <2>3. DueTo(q, requests, {"watch", "unwatch"}) # 0
    BY <2>2, <2>5, FS_EmptySet, Zenon
  <2>4. QED
    BY <1>9, <2>1, <2>3
<1>12. QED
  BY <1>5, <1>7, <1>8, <1>10, <1>11 DEF OnlyOpen

\* A request that is answered is a response that is under way.
LEMMA BackendAnswersAcks ==
    ASSUME TypeOK, AcksAreUnderWay, OnlyOpen, BackendAnswers
    PROVE  AcksAreUnderWay' /\ OnlyOpen'
<1>1. /\ up \in Seq(Requests) /\ up # << >> /\ up' = Tail(up)
      /\ down \in Seq(Response) /\ agg' = agg /\ stream' = stream
  BY DEF BackendAnswers, TypeOK
<1> DEFINE r == Head(up).query
<1>2. r \in Query /\ Head(up).kind \in {"watch", "unwatch"}
  <2>1. Head(up) \in Requests
    BY <1>1, HeadTailProperties, Zenon
  <2>2. QED
    BY <2>1 DEF Requests
<1>3. PICK m \in Response : /\ down' = Append(down, m)
                            /\ m.kind \in {"added", "removed"} /\ m.query = r
  <2>1. Added(r) \in Response /\ Removed(r) \in Response
    BY <1>2, ResponseTypes
  <2>2. \/ down' = Append(down, Added(r))
        \/ down' = Append(down, Removed(r))
    BY DEF BackendAnswers
  <2>3. /\ Added(r).kind \in {"added", "removed"} /\ Added(r).query = r
        /\ Removed(r).kind \in {"added", "removed"} /\ Removed(r).query = r
    BY DEF Added, Removed
  <2>4. QED
    BY <2>1, <2>2, <2>3
<1>4. ASSUME NEW q \in Query
      PROVE  agg'.acks[q] = DueTo(q, up', {"watch", "unwatch"})
                            + DueTo(q, down', {"added", "removed"})
  <2>1. agg.acks[q] = DueTo(q, up, {"watch", "unwatch"})
                      + DueTo(q, down, {"added", "removed"})
    BY DEF AcksAreUnderWay
  <2>2. DueTo(q, up', {"watch", "unwatch"})
           = DueTo(q, up, {"watch", "unwatch"})
             - One(q, Head(up), {"watch", "unwatch"})
    BY <1>1, DueToTail, Zenon
  <2>3. DueTo(q, down', {"added", "removed"})
           = DueTo(q, down, {"added", "removed"})
             + One(q, m, {"added", "removed"})
    BY <1>1, <1>3, DueToAppend
  <2>4. One(q, Head(up), {"watch", "unwatch"}) = One(q, m, {"added", "removed"})
    BY <1>2, <1>3 DEF One
  <2>5. /\ DueTo(q, up, {"watch", "unwatch"}) \in Nat
        /\ DueTo(q, down, {"added", "removed"}) \in Nat
        /\ One(q, m, {"added", "removed"}) \in Nat
    BY <1>1, DueToFinite DEF One
  <2>6. QED
    BY <1>1, <2>1, <2>2, <2>3, <2>4, <2>5
<1>5. AcksAreUnderWay'
  BY <1>4 DEF AcksAreUnderWay, DueTo
<1>6. OnlyOpen'
  BY <1>1 DEF OnlyOpen, IsOpen
<1>7. QED
  BY <1>5, <1>6

\* The end of the wire after the backend has brought the targets up to date.
LEMMA DownAfterSending ==
    ASSUME TypeOK, NEW t \in Time, t <= Now, BackendSends(t)
    PROVE  LET news == {q \in DOMAIN backend.sent : backend.sent[q] # past[t][q]}
               versions == [q \in news |-> past[t][q]]
           IN  /\ Documents(versions) \in Response
               /\ Snapshot(t) \in Response
               /\ down' = Append(Append(down, Documents(versions)), Snapshot(t))
<1> DEFINE news == {q \in DOMAIN backend.sent : backend.sent[q] # past[t][q]}
           versions == [q \in news |-> past[t][q]]
<1>1. past[t] \in [Query -> Version]
  BY DEF TypeOK, Time, Now
<1>2. news \in SUBSET Query
  BY DEF TypeOK, BackendState, Ends
<1>3. versions \in Versions
  <2>1. versions \in [news -> Version]
    BY <1>1, <1>2
  <2> HIDE DEF news, versions
  <2>2. QED
    BY <1>2, <2>1, Zenon DEF Versions
<1>4. Documents(versions) \in Response /\ Snapshot(t) \in Response
  BY <1>3, ResponseTypes
<1>5. down' = down \o << Documents(versions), Snapshot(t) >>
  BY DEF BackendSends
<1>6. ASSUME NEW a \in Response, NEW b \in Response
      PROVE  down \o << a, b >> = Append(Append(down, a), b)
  BY DEF TypeOK
<1> HIDE DEF versions
<1>7. down' = Append(Append(down, Documents(versions)), Snapshot(t))
  BY <1>4, <1>5, <1>6
<1>8. QED
  BY <1>4, <1>7 DEF versions

LEMMA BackendSendsAcks ==
    ASSUME TypeOK, AcksAreUnderWay, OnlyOpen,
           NEW t \in Time, t <= Now, BackendSends(t)
    PROVE  AcksAreUnderWay' /\ OnlyOpen'
<1>1. UNCHANGED <<up, agg, stream>> /\ IsOpen
  BY DEF BackendSends
<1>2. PICK f : /\ Documents(f) \in Response /\ Snapshot(t) \in Response
               /\ down' = Append(Append(down, Documents(f)), Snapshot(t))
  BY DownAfterSending
<1>3. ASSUME NEW q \in Query
      PROVE  DueTo(q, down', {"added", "removed"})
                = DueTo(q, down, {"added", "removed"})
  <2>1. down \in Seq(Response) /\ Append(down, Documents(f)) \in Seq(Response)
    BY <1>2, AppendProperties DEF TypeOK
  <2>2. /\ One(q, Documents(f), {"added", "removed"}) = 0
        /\ One(q, Snapshot(t), {"added", "removed"}) = 0
    BY DEF One, Documents, Snapshot
  <2>a. \A s \in Seq(Response), m \in Response :
           DueTo(q, Append(s, m), {"added", "removed"})
              = DueTo(q, s, {"added", "removed"})
                + One(q, m, {"added", "removed"})
    BY DueToAppend
  <2>3. DueTo(q, down', {"added", "removed"})
           = DueTo(q, Append(down, Documents(f)), {"added", "removed"})
             + One(q, Snapshot(t), {"added", "removed"})
    BY <1>2, <2>1, <2>a, Zenon
  <2>4. DueTo(q, Append(down, Documents(f)), {"added", "removed"})
           = DueTo(q, down, {"added", "removed"})
             + One(q, Documents(f), {"added", "removed"})
    BY <1>2, <2>1, <2>a, Zenon
  <2>5. DueTo(q, down, {"added", "removed"}) \in Nat
    BY <2>1, DueToFinite, Zenon
  <2>6. QED
    BY <2>2, <2>3, <2>4, <2>5
<1>4. AcksAreUnderWay'
  BY <1>1, <1>3 DEF AcksAreUnderWay, DueTo
<1>5. QED
  BY <1>1, <1>4 DEF OnlyOpen, IsOpen

\* What a response does to the count of each target.
LEMMA AcknowledgementCounts ==
    ASSUME TypeOK, TargetAdded \/ TargetRemoved
    PROVE  /\ Head(down).query \in Query
           /\ agg'.acks = [agg.acks EXCEPT ![Head(down).query] = @ - 1]
<1>1. Head(down).query \in Query
  BY ReceiveType DEF TargetAdded, TargetRemoved
<1>2. agg'.acks = [agg.acks EXCEPT ![Head(down).query] = @ - 1]
  BY DEF TargetAdded, TargetRemoved, TypeOK, Aggregator
<1>3. QED
  BY <1>1, <1>2

LEMMA AcknowledgementAcks ==
    ASSUME TypeOK, AcksAreUnderWay, TargetAdded \/ TargetRemoved
    PROVE  AcksAreUnderWay'
<1>1. /\ down \in Seq(Response) /\ down # << >> /\ down' = Tail(down)
      /\ Head(down).kind \in {"added", "removed"} /\ up' = up
  BY DEF TypeOK, TargetAdded, TargetRemoved, Receive
<1>2. ASSUME NEW q \in Query
      PROVE  agg'.acks[q] = DueTo(q, up', {"watch", "unwatch"})
                            + DueTo(q, down', {"added", "removed"})
  <2>1. agg.acks[q] = DueTo(q, up, {"watch", "unwatch"})
                      + DueTo(q, down, {"added", "removed"})
    BY DEF AcksAreUnderWay
  <2>2. DueTo(q, down', {"added", "removed"})
           = DueTo(q, down, {"added", "removed"})
             - One(q, Head(down), {"added", "removed"})
    BY <1>1, DueToTail, Zenon
  <2>3. agg'.acks[q] = agg.acks[q] - One(q, Head(down), {"added", "removed"})
    BY <1>1, AcknowledgementCounts DEF One, TypeOK, Aggregator
  <2>4. /\ DueTo(q, up, {"watch", "unwatch"}) \in Nat
        /\ DueTo(q, down, {"added", "removed"}) \in Nat
        /\ One(q, Head(down), {"added", "removed"}) \in Nat
    BY <1>1, DueToFinite DEF One, TypeOK
  <2>5. QED
    BY <1>1, <2>1, <2>2, <2>3, <2>4
<1>3. QED
  BY <1>2 DEF AcksAreUnderWay, DueTo

\* The other responses are not counted.
LEMMA UncountedResponse ==
    ASSUME TypeOK, AcksAreUnderWay, NEW kind \in {"documents", "snapshot"},
           Receive(kind), up' = up, agg'.acks = agg.acks
    PROVE  AcksAreUnderWay'
<1>1. /\ down \in Seq(Response) /\ down # << >> /\ down' = Tail(down)
      /\ Head(down).kind = kind
  BY DEF TypeOK, Receive
<1>2. ASSUME NEW q \in Query
      PROVE  DueTo(q, down', {"added", "removed"})
                = DueTo(q, down, {"added", "removed"})
  <2>1. DueTo(q, down', {"added", "removed"})
           = DueTo(q, down, {"added", "removed"})
             - One(q, Head(down), {"added", "removed"})
    BY <1>1, DueToTail, Zenon
  <2>2. One(q, Head(down), {"added", "removed"}) = 0
    BY <1>1 DEF One
  <2>3. DueTo(q, down, {"added", "removed"}) \in Nat
    BY <1>1, DueToFinite, Zenon
  <2>4. QED
    BY <2>1, <2>2, <2>3
<1>3. QED
  BY <1>2 DEF AcksAreUnderWay, DueTo

LEMMA ResponsesAcks ==
    ASSUME TypeOK, AcksAreUnderWay, OnlyOpen, Responses
    PROVE  AcksAreUnderWay' /\ OnlyOpen'
<1>1. down # << >> /\ stream' = stream
  BY DEF Responses, TargetAdded, TargetRemoved, DocumentsChange, SnapshotIgnored,
         SnapshotRaised, RaiseWatchSnapshot, Receive
<1>2. OnlyOpen'
  BY <1>1 DEF OnlyOpen, IsOpen
<1>3. CASE TargetAdded \/ TargetRemoved
  BY <1>2, <1>3, AcknowledgementAcks
<1>4. CASE DocumentsChange
  <2>1. agg'.acks = agg.acks
    BY <1>4 DEF DocumentsChange, TypeOK, Aggregator
  <2>2. QED
    BY <1>2, <1>4, <2>1, UncountedResponse DEF DocumentsChange
<1>5. CASE SnapshotIgnored
  BY <1>2, <1>5, UncountedResponse DEF SnapshotIgnored
<1>6. CASE SnapshotRaised
  <2>1. agg'.acks = agg.acks
    BY <1>6 DEF SnapshotRaised, RaiseWatchSnapshot, TypeOK, Aggregator
  <2>2. QED
    BY <1>2, <1>6, <2>1, UncountedResponse DEF SnapshotRaised, RaiseWatchSnapshot
<1>7. QED
  BY <1>3, <1>4, <1>5, <1>6 DEF Responses

LEMMA AcksStep ==
    ASSUME TypeOK, AcksAreUnderWay, OnlyOpen, [Next]_vars
    PROVE  AcksAreUnderWay' /\ OnlyOpen'
<1>1. CASE UNCHANGED <<up, down, agg>> /\ stream'.state = stream.state
  BY <1>1, AcksStayUnderWay DEF OnlyOpen, IsOpen
<1>2. CASE UNCHANGED vars
  BY <1>1, <1>2 DEF vars
<1>3. CASE Backend
  <2>1. ASSUME NEW q \in Query, WriteDocuments(q)
        PROVE  AcksAreUnderWay' /\ OnlyOpen'
    BY <1>1, <2>1 DEF WriteDocuments, wire
  <2>2. QED
    BY <1>3, <2>1, BackendAnswersAcks, BackendSendsAcks DEF Backend
<1>4. CASE App
  BY <1>4, ListenAcks DEF App
<1>5. CASE Connecting
  <2>1. CASE LateCredentialsCome
    BY <1>1, <2>1 DEF LateCredentialsCome, wire, TypeOK, StreamState
  <2>2. CASE BackoffElapsed
    <3>1. ~IsOpen /\ UNCHANGED <<up, down, agg>>
      BY <2>2 DEF BackoffElapsed, IsOpen, wire
    <3>2. QED
      BY <3>1, NothingUnderWay DEF OnlyOpen
  <2>3. QED
    BY <1>5, <2>1, <2>2, ConnectAcks DEF Connecting
<1>6. CASE OnlineStateTimeout
  BY <1>1, <1>6 DEF OnlineStateTimeout, wire
<1>7. CASE IdleTimeout \/ Faults
  BY <1>7, NothingUnderWay
  DEF IdleTimeout, Faults, StreamFails, RestartNetwork, Restart, HangUp,
      BackendFinishes, CloseGracefully, AppEnds
<1>8. QED
  BY <1>2, <1>3, <1>4, <1>5, <1>6, <1>7, ResponsesAcks DEF Next, Timeouts

LEMMA AcksAlways == Spec => [](AcksAreUnderWay /\ OnlyOpen)
<1>1. Init => AcksAreUnderWay /\ OnlyOpen
  <2> SUFFICES ASSUME Init PROVE AcksAreUnderWay /\ OnlyOpen
    OBVIOUS
  <2>1. up = << >> /\ down = << >> /\ agg = NewAggregator
    BY DEF Init
  <2>2. ASSUME NEW q \in Query
        PROVE  agg.acks[q] = DueTo(q, up, {"watch", "unwatch"})
                             + DueTo(q, down, {"added", "removed"})
    <3>1. agg.acks[q] = 0
      BY <2>1 DEF NewAggregator
    <3>2. /\ DueTo(q, up, {"watch", "unwatch"}) = 0
          /\ DueTo(q, down, {"added", "removed"}) = 0
      BY <2>1, DueToNothing
    <3>3. QED
      BY <3>1, <3>2
  <2>3. QED
    BY <2>1, <2>2 DEF AcksAreUnderWay, OnlyOpen
<1>2. TypeOK /\ (AcksAreUnderWay /\ OnlyOpen) /\ [Next]_vars
      => (AcksAreUnderWay /\ OnlyOpen)'
  BY AcksStep
<1>3. QED
  BY <1>1, <1>2, TypeCorrect, PTL DEF Spec

\* The responses that the aggregator waits for are those under way, whatever
\* targets are removed and added again before their first answers: every
\* request is counted as it is sent, and an end of the stream forgets them.
THEOREM AcksAlwaysUnderWay == Spec => []AcksAreUnderWay
  BY AcksAlways, PTL

-----------------------------------------------------------------------------
(* The responses under way, in the order of the stream.  In what follows d *)
(* stands for the responses, u for the requests, p for the past, n for the *)
(* time the backend has reached and s for what it has sent of each target. *)

\* m says kind of the target q.
Says(m, kind, q) == m.kind = kind /\ m.query = q

\* m brings version v of q, or a later one.
Brings(m, q, v) == /\ m.kind = "documents"
                   /\ q \in DOMAIN m.versions
                   /\ m.versions[q] >= v

\* Each run of documents is that of the snapshot behind it.
PairedIn(d, p) ==
    \A i \in DOMAIN d : d[i].kind = "documents" =>
        /\ i + 1 \in DOMAIN d
        /\ d[i + 1].kind = "snapshot"
        /\ \A q \in DOMAIN d[i].versions :
              d[i].versions[q] = p[d[i + 1].time][q]

\* One stream never goes back in time.
OrderedIn(d, n) ==
    \A i \in DOMAIN d : d[i].kind = "snapshot" =>
        /\ d[i].time <= n
        /\ \A j \in DOMAIN d :
              i <= j /\ d[j].kind = "snapshot" => d[i].time <= d[j].time

\* The updates f are not ahead of any snapshot to come.
NotAhead(f, d, p, n) ==
    \A q \in Query : f[q] > 0 =>
        /\ n >= 1
        /\ f[q] <= p[n][q]
        /\ \A i \in DOMAIN d : d[i].kind = "snapshot" => f[q] <= p[d[i].time][q]

\* What follows the answer to a watch request, up to a removal of the target:
\* each snapshot has the documents of its time in front of it.
AfterAddedIn(d, p, s) ==
    \A k \in DOMAIN d, q \in Query : Says(d[k], "added", q) =>
        /\ \A i \in DOMAIN d : k < i /\ d[i].kind = "snapshot" =>
              \E j \in DOMAIN d : /\ k < j /\ j < i
                                  /\ \/ Brings(d[j], q, p[d[i].time][q])
                                     \/ Says(d[j], "removed", q)
        /\ \/ \E j \in DOMAIN d : k < j /\ Says(d[j], "removed", q)
           \/ /\ q \in DOMAIN s
              /\ \/ s[q] = None
                 \/ \E j \in DOMAIN d : k < j /\ Brings(d[j], q, s[q])

\* Of a target q that the backend serves, the version h is held: whatever a
\* snapshot to come stands for is held or comes before it.
SuppliedIn(d, p, s, q, h) ==
    /\ q \in DOMAIN s
    /\ \/ s[q] = None
       \/ h >= s[q]
       \/ \E j \in DOMAIN d : Brings(d[j], q, s[q])
    /\ \A i \in DOMAIN d : d[i].kind = "snapshot" =>
          \/ h >= p[d[i].time][q]
          \/ \E j \in DOMAIN d : j < i /\ Brings(d[j], q, p[d[i].time][q])

\* The version of q that the client has, once the next snapshot is raised.
Held(q) == Newer(agg.updates[q], cache[q])

\* The last that is under way of the target q is not its end.
WatchedIn(u, d, q) ==
    /\ \A k \in DOMAIN u : Says(u[k], "unwatch", q) =>
          \E j \in DOMAIN u : k < j /\ Says(u[j], "watch", q)
    /\ \A k \in DOMAIN d : Says(d[k], "removed", q) =>
          \/ \E j \in DOMAIN d : k < j /\ Says(d[j], "added", q)
          \/ \E j \in DOMAIN u : Says(u[j], "watch", q)

\* The past, as a sequence of versions that grow.
Growth(p) ==
    /\ p \in Seq([Query -> Version])
    /\ \A t1, t2 \in 1..Len(p) : t1 <= t2 =>
          \A q \in Query : p[t1][q] <= p[t2][q]

-----------------------------------------------------------------------------
(* A response is received.                                                 *)

LEMMA TailFacts ==
    ASSUME NEW S, NEW d \in Seq(S), d # << >>
    PROVE  /\ Len(d) \in Nat /\ DOMAIN d = 1..Len(d)
           /\ DOMAIN Tail(d) = 1..(Len(d) - 1)
           /\ 1 \in DOMAIN d
           /\ Head(d) = d[1]
           /\ \A i \in DOMAIN Tail(d) : i + 1 \in DOMAIN d /\ Tail(d)[i] = d[i + 1]
           /\ \A i \in DOMAIN d : i > 1 => i - 1 \in DOMAIN Tail(d)
                                           /\ Tail(d)[i - 1] = d[i]
<1>1. /\ Tail(d) \in Seq(S) /\ Len(Tail(d)) = Len(d) - 1
      /\ \A i \in 1..Len(Tail(d)) : Tail(d)[i] = d[i + 1]
      /\ Len(d) \in Nat \ {0}
      /\ DOMAIN d = 1..Len(d)
      /\ DOMAIN Tail(d) = 1..Len(Tail(d))
  BY HeadTailProperties, LenProperties, EmptySeq
<1>2. Head(d) = d[1]
  OBVIOUS
<1> DEFINE r == Tail(d)
<1>3. /\ r = Tail(d)
      /\ DOMAIN r = 1..(Len(d) - 1)
      /\ \A i \in 1..(Len(d) - 1) : r[i] = d[i + 1]
  BY <1>1
<1> HIDE DEF r
<1>4. \A i \in DOMAIN d : i > 1 => i - 1 \in DOMAIN r /\ r[i - 1] = d[i]
  BY <1>1, <1>3
<1>5. \A i \in DOMAIN r : i + 1 \in DOMAIN d /\ r[i] = d[i + 1]
  BY <1>1, <1>3
<1>6. 1 \in DOMAIN d
  BY <1>1
<1>7. QED
  BY <1>1, <1>2, <1>3, <1>4, <1>5, <1>6

LEMMA PairedTail ==
    ASSUME NEW S, NEW d \in Seq(S), d # << >>, NEW p, PairedIn(d, p)
    PROVE  PairedIn(Tail(d), p)
<1> DEFINE r == Tail(d)
<1>1. /\ Len(d) \in Nat /\ DOMAIN d = 1..Len(d)
      /\ DOMAIN r = 1..(Len(d) - 1)
      /\ \A i \in DOMAIN r : i + 1 \in DOMAIN d /\ r[i] = d[i + 1]
      /\ \A i \in DOMAIN d : i > 1 => i - 1 \in DOMAIN r /\ r[i - 1] = d[i]
  BY TailFacts
<1> HIDE DEF r
<1>2. SUFFICES ASSUME NEW i \in DOMAIN r, r[i].kind = "documents"
               PROVE  /\ i + 1 \in DOMAIN r
                      /\ r[i + 1].kind = "snapshot"
                      /\ \A q \in DOMAIN r[i].versions :
                            r[i].versions[q] = p[r[i + 1].time][q]
  BY DEF PairedIn, r
<1>3. i \in Int /\ i + 1 \in DOMAIN d /\ d[i + 1].kind = "documents" /\ r[i] = d[i + 1]
  BY <1>1, <1>2
<1>4. /\ (i + 1) + 1 \in DOMAIN d
      /\ d[(i + 1) + 1].kind = "snapshot"
      /\ \A q \in DOMAIN d[i + 1].versions :
            d[i + 1].versions[q] = p[d[(i + 1) + 1].time][q]
  BY <1>3 DEF PairedIn
<1>5. i + 1 \in DOMAIN r /\ r[i + 1] = d[(i + 1) + 1]
  BY <1>1, <1>3, <1>4
<1>6. QED
  BY <1>3, <1>4, <1>5

LEMMA OrderedTail ==
    ASSUME NEW S, NEW d \in Seq(S), d # << >>, NEW n, OrderedIn(d, n)
    PROVE  OrderedIn(Tail(d), n)
<1> DEFINE r == Tail(d)
<1>1. /\ DOMAIN d = 1..Len(d) /\ DOMAIN r = 1..(Len(d) - 1) /\ Len(d) \in Nat
      /\ \A i \in DOMAIN r : i + 1 \in DOMAIN d /\ r[i] = d[i + 1]
  BY TailFacts
<1> HIDE DEF r
<1>2. \A i, j \in DOMAIN r : i <= j => i + 1 <= j + 1
  BY <1>1
<1>3. OrderedIn(r, n)
  BY <1>1, <1>2 DEF OrderedIn
<1>4. QED
  BY <1>3 DEF r

LEMMA NotAheadTail ==
    ASSUME NEW S, NEW d \in Seq(S), d # << >>, NEW p, NEW n, NEW f,
           NotAhead(f, d, p, n)
    PROVE  NotAhead(f, Tail(d), p, n)
<1> DEFINE r == Tail(d)
<1>1. \A i \in DOMAIN r : i + 1 \in DOMAIN d /\ r[i] = d[i + 1]
  BY TailFacts
<1> HIDE DEF r
<1>2. NotAhead(f, r, p, n)
  BY <1>1 DEF NotAhead
<1>3. QED
  BY <1>2 DEF r

LEMMA AfterAddedTail ==
    ASSUME NEW S, NEW d \in Seq(S), d # << >>, NEW p, NEW s,
           AfterAddedIn(d, p, s)
    PROVE  AfterAddedIn(Tail(d), p, s)
<1> DEFINE r == Tail(d)
<1>1. /\ Len(d) \in Nat /\ DOMAIN d = 1..Len(d)
      /\ DOMAIN r = 1..(Len(d) - 1)
      /\ \A i \in DOMAIN r : i + 1 \in DOMAIN d /\ r[i] = d[i + 1]
      /\ \A i \in DOMAIN d : i > 1 => i - 1 \in DOMAIN r /\ r[i - 1] = d[i]
  BY TailFacts
<1> HIDE DEF r
<1>2. ASSUME NEW k \in DOMAIN r, NEW q \in Query, Says(r[k], "added", q)
      PROVE  /\ \A i \in DOMAIN r : k < i /\ r[i].kind = "snapshot" =>
                   \E j \in DOMAIN r : /\ k < j /\ j < i
                                       /\ \/ Brings(r[j], q, p[r[i].time][q])
                                          \/ Says(r[j], "removed", q)
             /\ \/ \E j \in DOMAIN r : k < j /\ Says(r[j], "removed", q)
                \/ /\ q \in DOMAIN s
                   /\ \/ s[q] = None
                      \/ \E j \in DOMAIN r : k < j /\ Brings(r[j], q, s[q])
  <2>1. k \in Int /\ k >= 1 /\ k + 1 \in DOMAIN d /\ Says(d[k + 1], "added", q)
    BY <1>1, <1>2
  <2>2. /\ \A i \in DOMAIN d : k + 1 < i /\ d[i].kind = "snapshot" =>
              \E j \in DOMAIN d : /\ k + 1 < j /\ j < i
                                  /\ \/ Brings(d[j], q, p[d[i].time][q])
                                     \/ Says(d[j], "removed", q)
        /\ \/ \E j \in DOMAIN d : k + 1 < j /\ Says(d[j], "removed", q)
           \/ /\ q \in DOMAIN s
              /\ \/ s[q] = None
                 \/ \E j \in DOMAIN d : k + 1 < j /\ Brings(d[j], q, s[q])
    BY <2>1 DEF AfterAddedIn
  <2>3. \A j \in DOMAIN d : k + 1 < j => /\ j - 1 \in DOMAIN r
                                         /\ r[j - 1] = d[j]
                                         /\ k < j - 1
    BY <1>1, <2>1
  <2>4. ASSUME NEW i \in DOMAIN r, k < i, r[i].kind = "snapshot"
        PROVE  \E j \in DOMAIN r : /\ k < j /\ j < i
                                   /\ \/ Brings(r[j], q, p[r[i].time][q])
                                      \/ Says(r[j], "removed", q)
    <3>1. /\ i \in Int /\ i + 1 \in DOMAIN d /\ r[i] = d[i + 1]
          /\ k + 1 < i + 1
      BY <1>1, <2>1, <2>4
    <3>2. PICK j \in DOMAIN d : /\ k + 1 < j /\ j < i + 1
                                /\ \/ Brings(d[j], q, p[d[i + 1].time][q])
                                   \/ Says(d[j], "removed", q)
      BY <2>2, <2>4, <3>1
    <3>3. j \in Int /\ j - 1 < i
      BY <1>1, <3>1, <3>2
    <3>4. QED
      BY <2>3, <3>1, <3>2, <3>3
  <2>5. QED
    BY <2>2, <2>3, <2>4
<1>3. AfterAddedIn(r, p, s)
  BY <1>2 DEF AfterAddedIn
<1>4. QED
  BY <1>3 DEF r

\* What is held of a target may grow, and takes in what is received.
LEMMA SuppliedTail ==
    ASSUME NEW S, NEW d \in Seq(S), d # << >>, NEW p, NEW s, NEW q,
           NEW h \in Int, NEW g \in Int, g >= h,
           SuppliedIn(d, p, s, q, h),
           s[q] \in Int,
           \A i \in DOMAIN d : d[i].kind = "snapshot" => p[d[i].time][q] \in Int,
           \A v \in Int : Brings(d[1], q, v) => g >= v
    PROVE  SuppliedIn(Tail(d), p, s, q, g)
<1> DEFINE r == Tail(d)
<1>1. /\ Len(d) \in Nat /\ DOMAIN d = 1..Len(d)
      /\ DOMAIN r = 1..(Len(d) - 1)
      /\ \A i \in DOMAIN r : i + 1 \in DOMAIN d /\ r[i] = d[i + 1]
      /\ \A i \in DOMAIN d : i > 1 => i - 1 \in DOMAIN r /\ r[i - 1] = d[i]
  BY TailFacts
<1> HIDE DEF r
<1>2. ASSUME NEW v \in Int, NEW b \in Int,
             \/ h >= v
             \/ \E j \in DOMAIN d : j < b + 1 /\ Brings(d[j], q, v)
      PROVE  \/ g >= v
             \/ \E j \in DOMAIN r : j < b /\ Brings(r[j], q, v)
  <2>1. CASE h >= v
    BY <2>1
  <2>2. ASSUME NEW j \in DOMAIN d, j < b + 1, Brings(d[j], q, v), j = 1
        PROVE  g >= v
    BY <2>2
  <2>3. ASSUME NEW j \in DOMAIN d, j < b + 1, Brings(d[j], q, v), j # 1
        PROVE  \E k \in DOMAIN r : k < b /\ Brings(r[k], q, v)
    <3>1. j - 1 \in DOMAIN r /\ r[j - 1] = d[j] /\ j - 1 < b
      BY <1>1, <2>3
    <3>2. QED
      BY <2>3, <3>1
  <2>4. QED
    BY <1>2, <2>1, <2>2, <2>3
<1>3. ASSUME NEW i \in DOMAIN r, r[i].kind = "snapshot"
      PROVE  \/ g >= p[r[i].time][q]
             \/ \E j \in DOMAIN r : j < i /\ Brings(r[j], q, p[r[i].time][q])
  <2>1. i \in Int /\ i + 1 \in DOMAIN d /\ r[i] = d[i + 1]
    BY <1>1
  <2>2. /\ p[d[i + 1].time][q] \in Int
        /\ \/ h >= p[d[i + 1].time][q]
           \/ \E j \in DOMAIN d : j < i + 1 /\ Brings(d[j], q, p[d[i + 1].time][q])
    BY <1>3, <2>1 DEF SuppliedIn
  <2>3. QED
    BY <1>2, <2>1, <2>2
<1>4. \/ s[q] = None
      \/ g >= s[q]
      \/ \E j \in DOMAIN r : Brings(r[j], q, s[q])
  <2>1. \A j \in DOMAIN d : j < Len(d) + 1
    BY <1>1
  <2>2. \/ s[q] = None
        \/ h >= s[q]
        \/ \E j \in DOMAIN d : j < Len(d) + 1 /\ Brings(d[j], q, s[q])
    BY <2>1 DEF SuppliedIn
  <2>3. Len(d) \in Int
    BY <1>1
  <2>4. QED
    BY <1>2, <2>2, <2>3
<1>5. SuppliedIn(r, p, s, q, g)
  BY <1>3, <1>4 DEF SuppliedIn
<1>6. QED
  BY <1>5 DEF r

\* A target that is acknowledged, and not removed any more, is supplied by
\* what follows.
LEMMA SuppliedAfterAdded ==
    ASSUME NEW S, NEW d \in Seq(S), d # << >>, NEW p, NEW s, NEW q \in Query,
           NEW h, AfterAddedIn(d, p, s), Says(d[1], "added", q),
           \A i \in DOMAIN Tail(d) : ~Says(Tail(d)[i], "removed", q)
    PROVE  SuppliedIn(Tail(d), p, s, q, h)
<1> DEFINE r == Tail(d)
<1>1. /\ Len(d) \in Nat /\ DOMAIN d = 1..Len(d) /\ 1 \in DOMAIN d
      /\ DOMAIN r = 1..(Len(d) - 1)
      /\ \A i \in DOMAIN r : i + 1 \in DOMAIN d /\ r[i] = d[i + 1]
      /\ \A i \in DOMAIN d : i > 1 => i - 1 \in DOMAIN r /\ r[i - 1] = d[i]
  BY TailFacts
<1>2. \A i \in DOMAIN r : ~Says(r[i], "removed", q)
  OBVIOUS
<1> HIDE DEF r
<1>3. /\ \A i \in DOMAIN d : 1 < i /\ d[i].kind = "snapshot" =>
            \E j \in DOMAIN d : /\ 1 < j /\ j < i
                                /\ \/ Brings(d[j], q, p[d[i].time][q])
                                   \/ Says(d[j], "removed", q)
      /\ \/ \E j \in DOMAIN d : 1 < j /\ Says(d[j], "removed", q)
         \/ /\ q \in DOMAIN s
            /\ \/ s[q] = None
               \/ \E j \in DOMAIN d : 1 < j /\ Brings(d[j], q, s[q])
  BY <1>1 DEF AfterAddedIn
<1>4. \A j \in DOMAIN d : 1 < j => /\ j - 1 \in DOMAIN r
                                   /\ r[j - 1] = d[j]
                                   /\ ~Says(d[j], "removed", q)
  BY <1>1, <1>2
<1>5. ASSUME NEW i \in DOMAIN r, r[i].kind = "snapshot"
      PROVE  \E j \in DOMAIN r : j < i /\ Brings(r[j], q, p[r[i].time][q])
  <2>1. i \in Int /\ i + 1 \in DOMAIN d /\ r[i] = d[i + 1] /\ 1 < i + 1
    BY <1>1
  <2>2. PICK j \in DOMAIN d : /\ 1 < j /\ j < i + 1
                              /\ Brings(d[j], q, p[d[i + 1].time][q])
    BY <1>3, <1>4, <1>5, <2>1
  <2>3. j - 1 < i
    BY <1>1, <2>1, <2>2
  <2>4. QED
    BY <1>4, <2>1, <2>2, <2>3
<1>6. SuppliedIn(r, p, s, q, h)
  BY <1>3, <1>4, <1>5 DEF SuppliedIn
<1>7. QED
  BY <1>6 DEF r

LEMMA WatchedTail ==
    ASSUME NEW S, NEW d \in Seq(S), d # << >>, NEW u, NEW q, WatchedIn(u, d, q)
    PROVE  WatchedIn(u, Tail(d), q)
<1> DEFINE r == Tail(d)
<1>1. /\ Len(d) \in Nat /\ DOMAIN d = 1..Len(d)
      /\ DOMAIN r = 1..(Len(d) - 1)
      /\ \A i \in DOMAIN r : i + 1 \in DOMAIN d /\ r[i] = d[i + 1]
      /\ \A i \in DOMAIN d : i > 1 => i - 1 \in DOMAIN r /\ r[i - 1] = d[i]
  BY TailFacts
<1> HIDE DEF r
<1>2. ASSUME NEW k \in DOMAIN r, Says(r[k], "removed", q)
      PROVE  \/ \E j \in DOMAIN r : k < j /\ Says(r[j], "added", q)
             \/ \E j \in DOMAIN u : Says(u[j], "watch", q)
  <2>1. k \in Int /\ k >= 1 /\ k + 1 \in DOMAIN d /\ Says(d[k + 1], "removed", q)
    BY <1>1, <1>2
  <2>2. \/ \E j \in DOMAIN d : k + 1 < j /\ Says(d[j], "added", q)
        \/ \E j \in DOMAIN u : Says(u[j], "watch", q)
    BY <2>1 DEF WatchedIn
  <2>3. \A j \in DOMAIN d : k + 1 < j => /\ j - 1 \in DOMAIN r
                                         /\ r[j - 1] = d[j]
                                         /\ k < j - 1
    BY <1>1, <2>1
  <2>4. QED
    BY <2>2, <2>3
<1>3. WatchedIn(u, r, q)
  BY <1>2 DEF WatchedIn
<1>4. QED
  BY <1>3 DEF r

-----------------------------------------------------------------------------
(* A request is answered: m is added to d, or added to u.                  *)

LEMMA AppendFacts ==
    ASSUME NEW S, NEW d \in Seq(S), NEW m \in S
    PROVE  /\ Append(d, m) \in Seq(S)
           /\ Len(d) \in Nat /\ DOMAIN d = 1..Len(d)
           /\ DOMAIN Append(d, m) = 1..(Len(d) + 1)
           /\ \A i \in DOMAIN d : i \in DOMAIN Append(d, m) /\ Append(d,
             m)[i] = d[i]
           /\ Append(d, m)[Len(d) + 1] = m
           /\ \A i \in DOMAIN Append(d, m) : i \notin DOMAIN d => i = Len(d) + 1
  BY AppendProperties, LenProperties

LEMMA AnswerInOrder ==
    ASSUME NEW S, NEW d \in Seq(S), NEW m \in S, m.kind \in {"added", "removed"},
           NEW p, NEW n, NEW f, PairedIn(d, p), OrderedIn(d, n), NotAhead(f, d,
             p, n)
    PROVE  /\ PairedIn(Append(d, m), p)
           /\ OrderedIn(Append(d, m), n)
           /\ NotAhead(f, Append(d, m), p, n)
<1> DEFINE e == Append(d, m)
<1>1. /\ \A i \in DOMAIN d : i \in DOMAIN e /\ e[i] = d[i]
      /\ \A i \in DOMAIN e : i \notin DOMAIN d => e[i] = m
  BY AppendFacts
<1> HIDE DEF e
<1>2. \A i \in DOMAIN e : e[i].kind \in {"documents", "snapshot"} =>
                             i \in DOMAIN d /\ e[i] = d[i]
  BY <1>1
<1>3. PairedIn(e, p)
  BY <1>1, <1>2 DEF PairedIn
<1>4. OrderedIn(e, n)
  BY <1>1, <1>2 DEF OrderedIn
<1>5. NotAhead(f, e, p, n)
  BY <1>1, <1>2 DEF NotAhead
<1>6. QED
  BY <1>3, <1>4, <1>5 DEF e

\* The backend has answered a request for target r.
Answered(m, r, s, s2) ==
    /\ \A q \in DOMAIN s : q # r => q \in DOMAIN s2 /\ s2[q] = s[q]
    /\ \/ Says(m, "added", r) /\ r \in DOMAIN s2 /\ s2[r] = None
       \/ Says(m, "removed", r)

LEMMA AnswerAfterAdded ==
    ASSUME NEW S, NEW d \in Seq(S), NEW m \in S, NEW p, NEW s, NEW s2, NEW r,
           Answered(m, r, s, s2), AfterAddedIn(d, p, s)
    PROVE  AfterAddedIn(Append(d, m), p, s2)
<1> DEFINE e == Append(d, m)
<1>1. /\ Len(d) \in Nat /\ DOMAIN d = 1..Len(d)
      /\ DOMAIN e = 1..(Len(d) + 1)
      /\ \A i \in DOMAIN d : i \in DOMAIN e /\ e[i] = d[i]
      /\ e[Len(d) + 1] = m
      /\ \A i \in DOMAIN e : i \notin DOMAIN d => i = Len(d) + 1
  BY AppendFacts
<1> HIDE DEF e
<1>2. m.kind # "snapshot"
  BY DEF Answered, Says
<1>3. ASSUME NEW k \in DOMAIN e, NEW q \in Query, Says(e[k], "added", q)
      PROVE  /\ \A i \in DOMAIN e : k < i /\ e[i].kind = "snapshot" =>
                   \E j \in DOMAIN e : /\ k < j /\ j < i
                                       /\ \/ Brings(e[j], q, p[e[i].time][q])
                                          \/ Says(e[j], "removed", q)
             /\ \/ \E j \in DOMAIN e : k < j /\ Says(e[j], "removed", q)
                \/ /\ q \in DOMAIN s2
                   /\ \/ s2[q] = None
                      \/ \E j \in DOMAIN e : k < j /\ Brings(e[j], q, s2[q])
  <2>1. CASE k \in DOMAIN d
    <3>1. Says(d[k], "added", q)
      BY <1>1, <1>3, <2>1
    <3>2. /\ \A i \in DOMAIN d : k < i /\ d[i].kind = "snapshot" =>
                \E j \in DOMAIN d : /\ k < j /\ j < i
                                    /\ \/ Brings(d[j], q, p[d[i].time][q])
                                       \/ Says(d[j], "removed", q)
          /\ \/ \E j \in DOMAIN d : k < j /\ Says(d[j], "removed", q)
             \/ /\ q \in DOMAIN s
                /\ \/ s[q] = None
                   \/ \E j \in DOMAIN d : k < j /\ Brings(d[j], q, s[q])
      BY <2>1, <3>1 DEF AfterAddedIn
    <3>3. \A i \in DOMAIN e : e[i].kind = "snapshot" => i \in DOMAIN d /\ e[i] = d[i]
      BY <1>1, <1>2
    <3>4. \A i \in DOMAIN e : k < i /\ e[i].kind = "snapshot" =>
             \E j \in DOMAIN e : /\ k < j /\ j < i
                                 /\ \/ Brings(e[j], q, p[e[i].time][q])
                                    \/ Says(e[j], "removed", q)
      BY <1>1, <3>2, <3>3
    <3>5. /\ Len(d) + 1 \in DOMAIN e /\ k < Len(d) + 1 /\ e[Len(d) + 1] = m
      BY <1>1, <2>1
    <3>6. \/ Says(m, "removed", q)
          \/ q \in DOMAIN s2 /\ s2[q] = None
          \/ q # r
      BY DEF Answered
    <3>7. CASE q # r
      <4>1. q \in DOMAIN s => q \in DOMAIN s2 /\ s2[q] = s[q]
        BY <3>7 DEF Answered
      <4>2. QED
        BY <1>1, <3>2, <3>4, <4>1
    <3>8. QED
      BY <3>4, <3>5, <3>6, <3>7
  <2>2. CASE k = Len(d) + 1
    <3>1. Says(m, "added", q)
      BY <1>1, <1>3, <2>2
    <3>2. q = r /\ q \in DOMAIN s2 /\ s2[q] = None
      BY <3>1 DEF Answered, Says
    <3>3. \A i \in DOMAIN e : ~(k < i)
      BY <1>1, <2>2
    <3>4. QED
      BY <3>2, <3>3
  <2>3. QED
    BY <1>1, <2>1, <2>2
<1>4. AfterAddedIn(e, p, s2)
  BY <1>3 DEF AfterAddedIn
<1>5. QED
  BY <1>4 DEF e

LEMMA AnswerSupplied ==
    ASSUME NEW S, NEW d \in Seq(S), NEW m \in S, NEW p, NEW s, NEW s2, NEW r,
           NEW q, NEW h, q # r,
           Answered(m, r, s, s2), SuppliedIn(d, p, s, q, h)
    PROVE  SuppliedIn(Append(d, m), p, s2, q, h)
<1> DEFINE e == Append(d, m)
<1>1. /\ \A i \in DOMAIN d : i \in DOMAIN e /\ e[i] = d[i]
      /\ \A i \in DOMAIN e : i \notin DOMAIN d => e[i] = m
  BY AppendFacts
<1> HIDE DEF e
<1>2. m.kind # "snapshot"
  BY DEF Answered, Says
<1>3. q \in DOMAIN s2 /\ s2[q] = s[q]
  BY DEF Answered, SuppliedIn
<1>4. \A i \in DOMAIN e : e[i].kind = "snapshot" => i \in DOMAIN d /\ e[i] = d[i]
  BY <1>1, <1>2
<1>5. SuppliedIn(e, p, s2, q, h)
  BY <1>1, <1>3, <1>4 DEF SuppliedIn
<1>6. QED
  BY <1>5 DEF e

\* The head of u is answered by m.
LEMMA AnswerWatched ==
    ASSUME NEW S, NEW T, NEW d \in Seq(S), NEW u \in Seq(T), u # << >>,
           NEW m \in S, NEW q, WatchedIn(u, d, q),
           \/ \E r : Says(u[1], "watch", r) /\ Says(m, "added", r)
           \/ \E r : Says(u[1], "unwatch", r) /\ Says(m, "removed", r)
    PROVE  WatchedIn(Tail(u), Append(d, m), q)
<1> DEFINE e == Append(d, m)
           w == Tail(u)
<1>1. /\ Len(d) \in Nat /\ DOMAIN d = 1..Len(d)
      /\ DOMAIN e = 1..(Len(d) + 1)
      /\ \A i \in DOMAIN d : i \in DOMAIN e /\ e[i] = d[i]
      /\ e[Len(d) + 1] = m
      /\ \A i \in DOMAIN e : i \notin DOMAIN d => i = Len(d) + 1
  BY AppendFacts
<1>2. /\ Len(u) \in Nat /\ DOMAIN u = 1..Len(u) /\ 1 \in DOMAIN u
      /\ DOMAIN w = 1..(Len(u) - 1)
      /\ \A i \in DOMAIN w : i + 1 \in DOMAIN u /\ w[i] = u[i + 1]
      /\ \A i \in DOMAIN u : i > 1 => i - 1 \in DOMAIN w /\ w[i - 1] = u[i]
  BY TailFacts
<1> HIDE DEF e, w
<1>3. ASSUME NEW k \in DOMAIN w, Says(w[k], "unwatch", q)
      PROVE  \E j \in DOMAIN w : k < j /\ Says(w[j], "watch", q)
  <2>1. k \in Int /\ k >= 1 /\ k + 1 \in DOMAIN u /\ Says(u[k + 1], "unwatch", q)
    BY <1>2, <1>3
  <2>2. PICK j \in DOMAIN u : k + 1 < j /\ Says(u[j], "watch", q)
    BY <2>1 DEF WatchedIn
  <2>3. j - 1 \in DOMAIN w /\ w[j - 1] = u[j] /\ k < j - 1
    BY <1>2, <2>1, <2>2
  <2>4. QED
    BY <2>2, <2>3
<1>4. ASSUME NEW k \in DOMAIN e, Says(e[k], "removed", q)
      PROVE  \/ \E j \in DOMAIN e : k < j /\ Says(e[j], "added", q)
             \/ \E j \in DOMAIN w : Says(w[j], "watch", q)
  <2>1. CASE k \in DOMAIN d
    <3>1. Says(d[k], "removed", q)
      BY <1>1, <1>4, <2>1
    <3>2. \/ \E j \in DOMAIN d : k < j /\ Says(d[j], "added", q)
          \/ \E j \in DOMAIN u : Says(u[j], "watch", q)
      BY <2>1, <3>1 DEF WatchedIn
    <3>3. ASSUME NEW j \in DOMAIN u, Says(u[j], "watch", q)
          PROVE  \/ \E i \in DOMAIN e : k < i /\ Says(e[i], "added", q)
                 \/ \E i \in DOMAIN w : Says(w[i], "watch", q)
      <4>1. CASE j = 1
        <5>1. Says(m, "added", q)
          BY <3>3, <4>1 DEF Says
        <5>2. Len(d) + 1 \in DOMAIN e /\ k < Len(d) + 1
          BY <1>1, <2>1
        <5>3. QED
          BY <1>1, <5>1, <5>2
      <4>2. CASE j # 1
        <5>1. j - 1 \in DOMAIN w /\ w[j - 1] = u[j]
          BY <1>2, <4>2
        <5>2. QED
          BY <3>3, <5>1
      <4>3. QED
        BY <4>1, <4>2
    <3>4. QED
      BY <1>1, <3>2, <3>3
  <2>2. CASE k = Len(d) + 1
    <3>1. Says(m, "removed", q)
      BY <1>1, <1>4, <2>2
    <3>2. Says(u[1], "unwatch", q)
      BY <3>1 DEF Says
    <3>3. PICK j \in DOMAIN u : 1 < j /\ Says(u[j], "watch", q)
      BY <1>2, <3>2 DEF WatchedIn
    <3>4. j - 1 \in DOMAIN w /\ w[j - 1] = u[j]
      BY <1>2, <3>3
    <3>5. QED
      BY <3>3, <3>4
  <2>3. QED
    BY <1>1, <2>1, <2>2
<1>5. WatchedIn(w, e, q)
  BY <1>3, <1>4 DEF WatchedIn
<1>6. QED
  BY <1>5 DEF e, w

\* A request m is sent.
LEMMA RequestWatched ==
    ASSUME NEW T, NEW u \in Seq(T), NEW d, NEW m \in T, NEW q,
           ~Says(m, "unwatch", q),
           Says(m, "watch", q) \/ WatchedIn(u, d, q)
    PROVE  WatchedIn(Append(u, m), d, q)
<1> DEFINE w == Append(u, m)
<1>1. /\ Len(u) \in Nat /\ DOMAIN u = 1..Len(u)
      /\ DOMAIN w = 1..(Len(u) + 1)
      /\ \A i \in DOMAIN u : i \in DOMAIN w /\ w[i] = u[i]
      /\ w[Len(u) + 1] = m
      /\ \A i \in DOMAIN w : i \notin DOMAIN u => i = Len(u) + 1
  BY AppendFacts
<1> HIDE DEF w
<1>2. CASE Says(m, "watch", q)
  <2>1. Len(u) + 1 \in DOMAIN w /\ Says(w[Len(u) + 1], "watch", q)
    BY <1>1, <1>2
  <2>2. \A k \in DOMAIN w : Says(w[k], "unwatch", q) => k < Len(u) + 1
    BY <1>1
  <2>3. WatchedIn(w, d, q)
    BY <2>1, <2>2 DEF WatchedIn
  <2>4. QED
    BY <2>3 DEF w
<1>3. CASE WatchedIn(u, d, q)
  <2>1. \A k \in DOMAIN w : Says(w[k], "unwatch", q) => k \in DOMAIN u
    BY <1>1
  <2>2. WatchedIn(w, d, q)
    BY <1>1, <1>3, <2>1 DEF WatchedIn
  <2>3. QED
    BY <2>2 DEF w
<1>4. QED
  BY <1>2, <1>3

-----------------------------------------------------------------------------
(* The backend brings the targets up to date: documents D, snapshot N.     *)

Sending(D, N, t, p, s, s2) ==
    /\ D.kind = "documents"
    /\ N.kind = "snapshot" /\ N.time = t
    /\ \A q \in DOMAIN D.versions : D.versions[q] = p[t][q]
    /\ \A q \in DOMAIN s : /\ q \in DOMAIN s2
                           /\ s2[q] = p[t][q]
                           /\ q \in DOMAIN D.versions \/ s[q] = p[t][q]

LEMMA SendFacts ==
    ASSUME NEW S, NEW d \in Seq(S), NEW D \in S, NEW N \in S
    PROVE  LET e == Append(Append(d, D), N)
           IN  /\ Len(d) \in Nat /\ DOMAIN d = 1..Len(d)
               /\ DOMAIN e = 1..(Len(d) + 2)
               /\ \A i \in DOMAIN d : i \in DOMAIN e /\ e[i] = d[i]
               /\ e[Len(d) + 1] = D
               /\ e[Len(d) + 2] = N
<1> DEFINE b == Append(d, D)
           e == Append(b, N)
<1>1. /\ b \in Seq(S)
      /\ Len(d) \in Nat /\ DOMAIN d = 1..Len(d)
      /\ DOMAIN b = 1..(Len(d) + 1)
      /\ \A i \in DOMAIN d : i \in DOMAIN b /\ b[i] = d[i]
      /\ b[Len(d) + 1] = D
  BY AppendFacts
<1> HIDE DEF b
<1>2. /\ Len(b) \in Nat /\ DOMAIN b = 1..Len(b)
      /\ DOMAIN e = 1..(Len(b) + 1)
      /\ \A i \in DOMAIN b : i \in DOMAIN e /\ e[i] = b[i]
      /\ e[Len(b) + 1] = N
  BY <1>1, AppendFacts
<1> HIDE DEF e
<1>3. Len(b) = Len(d) + 1
  BY <1>1, <1>2
<1>4. /\ DOMAIN e = 1..(Len(d) + 2)
      /\ \A i \in DOMAIN d : i \in DOMAIN e /\ e[i] = d[i]
      /\ e[Len(d) + 1] = D
      /\ e[Len(d) + 2] = N
  BY <1>1, <1>2, <1>3
<1>5. QED
  BY <1>1, <1>4 DEF e, b

LEMMA SendPaired ==
    ASSUME NEW S, NEW d \in Seq(S), NEW D \in S, NEW N \in S,
           NEW t, NEW p, NEW s, NEW s2, Sending(D, N, t, p, s, s2),
           PairedIn(d, p)
    PROVE  PairedIn(Append(Append(d, D), N), p)
<1> DEFINE e == Append(Append(d, D), N)
<1>1. /\ Len(d) \in Nat /\ DOMAIN d = 1..Len(d)
      /\ DOMAIN e = 1..(Len(d) + 2)
      /\ \A i \in DOMAIN d : i \in DOMAIN e /\ e[i] = d[i]
      /\ e[Len(d) + 1] = D
      /\ e[Len(d) + 2] = N
  BY SendFacts
<1> HIDE DEF e
<1>2. ASSUME NEW i \in DOMAIN e, e[i].kind = "documents"
      PROVE  /\ i + 1 \in DOMAIN e
             /\ e[i + 1].kind = "snapshot"
             /\ \A q \in DOMAIN e[i].versions :
                   e[i].versions[q] = p[e[i + 1].time][q]
  <2>1. CASE i \in DOMAIN d
    <3>1. /\ i + 1 \in DOMAIN d
          /\ d[i + 1].kind = "snapshot"
          /\ \A q \in DOMAIN d[i].versions :
                d[i].versions[q] = p[d[i + 1].time][q]
      BY <1>1, <1>2, <2>1 DEF PairedIn
    <3>2. QED
      BY <1>1, <2>1, <3>1
  <2>2. CASE i = Len(d) + 1
    <3>1. i + 1 = Len(d) + 2 /\ i + 1 \in DOMAIN e
      BY <1>1, <2>2
    <3>2. QED
      BY <1>1, <2>2, <3>1 DEF Sending
  <2>3. CASE i = Len(d) + 2
    BY <1>1, <1>2, <2>3 DEF Sending
  <2>4. QED
    BY <1>1, <2>1, <2>2, <2>3
<1>3. PairedIn(e, p)
  BY <1>2 DEF PairedIn
<1>4. QED
  BY <1>3 DEF e

LEMMA SendInOrder ==
    ASSUME NEW S, NEW d \in Seq(S), NEW D \in S, NEW N \in S,
           NEW n \in Int, NEW t \in Int, n <= t, NEW p, NEW s, NEW s2,
           Sending(D, N, t, p, s, s2),
           \A i \in DOMAIN d : d[i].kind = "snapshot" => d[i].time \in Int,
           OrderedIn(d, n)
    PROVE  OrderedIn(Append(Append(d, D), N), t)
<1> DEFINE e == Append(Append(d, D), N)
<1>1. /\ Len(d) \in Nat /\ DOMAIN d = 1..Len(d)
      /\ DOMAIN e = 1..(Len(d) + 2)
      /\ \A i \in DOMAIN d : i \in DOMAIN e /\ e[i] = d[i]
      /\ e[Len(d) + 1] = D
      /\ e[Len(d) + 2] = N
  BY SendFacts
<1> HIDE DEF e
<1>2. \A i \in DOMAIN e : e[i].kind = "snapshot" =>
         \/ i \in DOMAIN d /\ e[i] = d[i]
         \/ i = Len(d) + 2 /\ e[i].time = t
  BY <1>1 DEF Sending
<1>3. \A i \in DOMAIN d : d[i].kind = "snapshot" => d[i].time <= t
  BY DEF OrderedIn
<1>4. OrderedIn(e, t)
  <2>1. ASSUME NEW i \in DOMAIN e, e[i].kind = "snapshot"
        PROVE  e[i].time <= t
    BY <1>2, <1>3, <2>1
  <2>2. ASSUME NEW i \in DOMAIN e, e[i].kind = "snapshot",
               NEW j \in DOMAIN e, e[j].kind = "snapshot", i <= j
        PROVE  e[i].time <= e[j].time
    <3>1. CASE j = Len(d) + 2 /\ e[j].time = t
      BY <2>1, <2>2, <3>1
    <3>2. CASE j \in DOMAIN d /\ e[j] = d[j]
      <4>1. i \in DOMAIN d /\ e[i] = d[i]
        BY <1>1, <1>2, <2>2, <3>2
      <4>2. QED
        BY <2>2, <3>2, <4>1 DEF OrderedIn
    <3>3. QED
      BY <1>2, <2>2, <3>1, <3>2
  <2>3. QED
    BY <2>1, <2>2 DEF OrderedIn
<1>5. QED
  BY <1>4 DEF e

LEMMA SendNotAhead ==
    ASSUME NEW S, NEW d \in Seq(S), NEW D \in S, NEW N \in S,
           NEW p, Growth(p), NEW n \in Int, NEW t \in 1..Len(p), n <= t,
           NEW s, NEW s2, Sending(D, N, t, p, s, s2),
           NEW f \in [Query -> Version], NotAhead(f, d, p, n)
    PROVE  NotAhead(f, Append(Append(d, D), N), p, t)
<1> DEFINE e == Append(Append(d, D), N)
<1>1. /\ Len(d) \in Nat /\ DOMAIN d = 1..Len(d)
      /\ DOMAIN e = 1..(Len(d) + 2)
      /\ \A i \in DOMAIN d : i \in DOMAIN e /\ e[i] = d[i]
      /\ e[Len(d) + 1] = D
      /\ e[Len(d) + 2] = N
  BY SendFacts
<1> HIDE DEF e
<1>2. \A i \in DOMAIN e : e[i].kind = "snapshot" =>
         \/ i \in DOMAIN d /\ e[i] = d[i]
         \/ e[i].time = t
  BY <1>1 DEF Sending
<1>3. ASSUME NEW q \in Query, f[q] > 0
      PROVE  t >= 1 /\ f[q] <= p[t][q]
  <2>1. n >= 1 /\ f[q] <= p[n][q]
    BY <1>3 DEF NotAhead
  <2>2. Len(p) \in Nat
    BY LenProperties DEF Growth
  <2>3. n \in 1..Len(p) /\ t \in 1..Len(p)
    BY <2>1, <2>2
  <2>4. p[n][q] <= p[t][q]
    BY <2>3 DEF Growth
  <2>5. p[n] \in [Query -> Version] /\ p[t] \in [Query -> Version]
    BY <2>3, ElementOfSeq DEF Growth
  <2>6. p[n][q] \in Int /\ p[t][q] \in Int /\ f[q] \in Int
    BY <2>5 DEF Version
  <2>7. QED
    BY <2>1, <2>2, <2>4, <2>6
<1>4. NotAhead(f, e, p, t)
  BY <1>2, <1>3 DEF NotAhead
<1>5. QED
  BY <1>4 DEF e

LEMMA SendAfterAdded ==
    ASSUME NEW S, NEW d \in Seq(S), NEW D \in S, NEW N \in S,
           NEW p, NEW t, p[t] \in [Query -> Version],
           NEW s, NEW s2, Sending(D, N, t, p, s, s2),
           AfterAddedIn(d, p, s)
    PROVE  AfterAddedIn(Append(Append(d, D), N), p, s2)
<1> DEFINE e == Append(Append(d, D), N)
           L == Len(d)
<1>1. /\ L \in Nat /\ DOMAIN d = 1..L
      /\ DOMAIN e = 1..(L + 2)
      /\ \A i \in DOMAIN d : i \in DOMAIN e /\ e[i] = d[i]
      /\ e[L + 1] = D
      /\ e[L + 2] = N
  BY SendFacts
<1> HIDE DEF e, L
<1>2. ASSUME NEW k \in DOMAIN e, NEW q \in Query, Says(e[k], "added", q)
      PROVE  /\ \A i \in DOMAIN e : k < i /\ e[i].kind = "snapshot" =>
                   \E j \in DOMAIN e : /\ k < j /\ j < i
                                       /\ \/ Brings(e[j], q, p[e[i].time][q])
                                          \/ Says(e[j], "removed", q)
             /\ \/ \E j \in DOMAIN e : k < j /\ Says(e[j], "removed", q)
                \/ /\ q \in DOMAIN s2
                   /\ \/ s2[q] = None
                      \/ \E j \in DOMAIN e : k < j /\ Brings(e[j], q, s2[q])
  <2>1. k \in DOMAIN d /\ Says(d[k], "added", q)
    <3>1. ~Says(D, "added", q) /\ ~Says(N, "added", q)
      BY DEF Sending, Says
    <3>2. k # L + 1 /\ k # L + 2
      BY <1>1, <1>2, <3>1
    <3>3. QED
      BY <1>1, <1>2, <3>2
  <2>2. /\ \A i \in DOMAIN d : k < i /\ d[i].kind = "snapshot" =>
              \E j \in DOMAIN d : /\ k < j /\ j < i
                                  /\ \/ Brings(d[j], q, p[d[i].time][q])
                                     \/ Says(d[j], "removed", q)
        /\ \/ \E j \in DOMAIN d : k < j /\ Says(d[j], "removed", q)
           \/ /\ q \in DOMAIN s
              /\ \/ s[q] = None
                 \/ \E j \in DOMAIN d : k < j /\ Brings(d[j], q, s[q])
    BY <2>1 DEF AfterAddedIn
  <2>3. \/ \E j \in DOMAIN d : k < j /\ Says(d[j], "removed", q)
        \/ /\ q \in DOMAIN s2 /\ s2[q] = p[t][q]
           /\ \E j \in DOMAIN e : /\ k < j /\ j < L + 2
                                  /\ Brings(e[j], q, p[t][q])
    <3>1. SUFFICES ASSUME q \in DOMAIN s,
                          \/ s[q] = None
                          \/ \E j \in DOMAIN d : k < j /\ Brings(d[j], q, s[q])
                   PROVE  /\ q \in DOMAIN s2 /\ s2[q] = p[t][q]
                          /\ \E j \in DOMAIN e : /\ k < j /\ j < L + 2
                                                 /\ Brings(e[j], q, p[t][q])
      BY <2>2
    <3>2. q \in DOMAIN s2 /\ s2[q] = p[t][q]
      BY <3>1 DEF Sending
    <3>3. p[t][q] \in Int /\ p[t][q] # None
      <4>1. p[t][q] \in Version
        OBVIOUS
      <4>2. QED
        BY <4>1 DEF Version, None
    <3>4. CASE q \in DOMAIN D.versions
      <4>1. Brings(D, q, p[t][q])
        BY <3>3, <3>4 DEF Brings, Sending
      <4>2. L + 1 \in DOMAIN e /\ k < L + 1 /\ L + 1 < L + 2
        BY <1>1, <2>1
      <4>3. QED
        BY <1>1, <3>2, <4>1, <4>2
    <3>5. CASE s[q] = p[t][q]
      <4>1. PICK j \in DOMAIN d : k < j /\ Brings(d[j], q, s[q])
        BY <3>1, <3>3, <3>5
      <4>2. j < L + 2
        BY <1>1
      <4>3. QED
        BY <1>1, <3>2, <3>5, <4>1, <4>2
    <3>6. QED
      BY <3>1, <3>4, <3>5 DEF Sending
  <2>4. ASSUME NEW i \in DOMAIN e, k < i, e[i].kind = "snapshot"
        PROVE  \E j \in DOMAIN e : /\ k < j /\ j < i
                                   /\ \/ Brings(e[j], q, p[e[i].time][q])
                                      \/ Says(e[j], "removed", q)
    <3>1. CASE i \in DOMAIN d
      <4>1. PICK j \in DOMAIN d : /\ k < j /\ j < i
                                  /\ \/ Brings(d[j], q, p[d[i].time][q])
                                     \/ Says(d[j], "removed", q)
        BY <1>1, <2>2, <2>4, <3>1
      <4>2. QED
        BY <1>1, <3>1, <4>1
    <3>2. CASE i = L + 1
      BY <1>1, <2>4, <3>2 DEF Sending
    <3>3. CASE i = L + 2
      <4>1. e[i].time = t
        BY <1>1, <3>3 DEF Sending
      <4>2. CASE \E j \in DOMAIN d : k < j /\ Says(d[j], "removed", q)
        <5>1. PICK j \in DOMAIN d : k < j /\ Says(d[j], "removed", q)
          BY <4>2
        <5>2. j < i
          BY <1>1, <3>3
        <5>3. QED
          BY <1>1, <5>1, <5>2
      <4>3. QED
        BY <2>3, <3>3, <4>1, <4>2
    <3>4. QED
      BY <1>1, <3>1, <3>2, <3>3
  <2>5. QED
    BY <1>1, <2>3, <2>4
<1>3. AfterAddedIn(e, p, s2)
  BY <1>2 DEF AfterAddedIn
<1>4. QED
  BY <1>3 DEF e

LEMMA SendSupplied ==
    ASSUME NEW S, NEW d \in Seq(S), NEW D \in S, NEW N \in S,
           NEW p, NEW t, p[t] \in [Query -> Version],
           NEW s, NEW s2, Sending(D, N, t, p, s, s2),
           NEW q \in Query, NEW h, SuppliedIn(d, p, s, q, h)
    PROVE  SuppliedIn(Append(Append(d, D), N), p, s2, q, h)
<1> DEFINE e == Append(Append(d, D), N)
           L == Len(d)
<1>1. /\ L \in Nat /\ DOMAIN d = 1..L
      /\ DOMAIN e = 1..(L + 2)
      /\ \A i \in DOMAIN d : i \in DOMAIN e /\ e[i] = d[i]
      /\ e[L + 1] = D
      /\ e[L + 2] = N
  BY SendFacts
<1> HIDE DEF e, L
<1>2. q \in DOMAIN s2 /\ s2[q] = p[t][q]
  BY DEF Sending, SuppliedIn
<1>3. p[t][q] \in Int /\ p[t][q] # None
  <2>1. p[t][q] \in Version
    OBVIOUS
  <2>2. QED
    BY <2>1 DEF Version, None
<1>4. \/ h >= p[t][q]
      \/ \E j \in DOMAIN e : j < L + 2 /\ Brings(e[j], q, p[t][q])
  <2>1. CASE q \in DOMAIN D.versions
    <3>1. Brings(D, q, p[t][q])
      BY <1>3, <2>1 DEF Brings, Sending
    <3>2. L + 1 \in DOMAIN e /\ L + 1 < L + 2
      BY <1>1
    <3>3. QED
      BY <1>1, <3>1, <3>2
  <2>2. CASE s[q] = p[t][q]
    <3>1. \/ h >= s[q]
          \/ \E j \in DOMAIN d : Brings(d[j], q, s[q])
      BY <1>3, <2>2 DEF SuppliedIn
    <3>2. \A j \in DOMAIN d : j < L + 2
      BY <1>1
    <3>3. QED
      BY <1>1, <2>2, <3>1, <3>2
  <2>3. QED
    BY <2>1, <2>2 DEF Sending, SuppliedIn
<1>5. ASSUME NEW i \in DOMAIN e, e[i].kind = "snapshot"
      PROVE  \/ h >= p[e[i].time][q]
             \/ \E j \in DOMAIN e : j < i /\ Brings(e[j], q, p[e[i].time][q])
  <2>1. CASE i \in DOMAIN d
    <3>1. \/ h >= p[d[i].time][q]
          \/ \E j \in DOMAIN d : j < i /\ Brings(d[j], q, p[d[i].time][q])
      BY <1>1, <1>5, <2>1 DEF SuppliedIn
    <3>2. QED
      BY <1>1, <2>1, <3>1
  <2>2. CASE i = L + 1
    BY <1>1, <1>5, <2>2 DEF Sending
  <2>3. CASE i = L + 2
    <3>1. e[i].time = t
      BY <1>1, <2>3 DEF Sending
    <3>2. QED
      BY <1>4, <2>3, <3>1
  <2>4. QED
    BY <1>1, <2>1, <2>2, <2>3
<1>6. SuppliedIn(e, p, s2, q, h)
  BY <1>2, <1>4, <1>5 DEF SuppliedIn
<1>7. QED
  BY <1>6 DEF e

-----------------------------------------------------------------------------
(* Documents are written: the past p goes on as p2.                        *)

GoesOn(p, p2) == \A t \in 1..Len(p) : t \in 1..Len(p2) /\ p2[t] = p[t]

LEMMA WireGoesOn ==
    ASSUME NEW d \in Seq(Response), NEW p, NEW p2, GoesOn(p, p2),
           NEW n \in Int, n <= Len(p), Len(p) \in Nat, NEW f, NEW s,
           PairedIn(d, p), OrderedIn(d, n), NotAhead(f, d, p, n),
           AfterAddedIn(d, p, s)
    PROVE  /\ \A i \in DOMAIN d : d[i].kind = "snapshot" =>
                 p2[d[i].time] = p[d[i].time]
           /\ PairedIn(d, p2)
           /\ NotAhead(f, d, p2, n)
           /\ AfterAddedIn(d, p2, s)
<1>1. \A i \in DOMAIN d : d[i].kind = "snapshot" => p2[d[i].time] = p[d[i].time]
  <2>1. SUFFICES ASSUME NEW i \in DOMAIN d, d[i].kind = "snapshot"
                 PROVE  p2[d[i].time] = p[d[i].time]
    OBVIOUS
  <2>2. d[i] \in Response
    BY LenProperties
  <2>3. d[i].time \in Time /\ d[i].time <= n
    BY <2>1, <2>2, ResponseFields DEF OrderedIn
  <2>4. d[i].time \in 1..Len(p)
    BY <2>3 DEF Time
  <2>5. QED
    BY <2>4 DEF GoesOn
<1>2. PairedIn(d, p2)
  BY <1>1 DEF PairedIn
<1>3. n >= 1 => p2[n] = p[n]
  BY DEF GoesOn
<1>4. NotAhead(f, d, p2, n)
  BY <1>1, <1>3 DEF NotAhead
<1>5. AfterAddedIn(d, p2, s)
  BY <1>1 DEF AfterAddedIn
<1>6. QED
  BY <1>1, <1>2, <1>4, <1>5

LEMMA SuppliedGoesOn ==
    ASSUME NEW d, NEW p, NEW p2, NEW s, NEW q, NEW h,

                       \A i \in DOMAIN d : d[i].kind = "snapshot" => p2[d[i].time] = p[d[i].time],
           SuppliedIn(d, p, s, q, h)
    PROVE  SuppliedIn(d, p2, s, q, h)
  BY DEF SuppliedIn

\* A version that is written is newer than any before it.
LEMMA GrowthGoesOn ==
    ASSUME TypeOK, Growing, Growth(past), NEW q \in Query, WriteDocuments(q)
    PROVE  GoesOn(past, past') /\ Growth(past')
<1>1. past[Now] \in [Query -> Version] /\ Now \in Nat /\ Now \in 1..Now
      /\ past \in Seq([Query -> Version])
  BY DEF TypeOK, Now, Time
<1> DEFINE new == [past[Now] EXCEPT ![q] = Now + 1]
<1>2. new \in [Query -> Version]
  BY <1>1, BoundsAssumption DEF WriteDocuments, Version
<1>3. /\ past' = Append(past, new) /\ past' \in Seq([Query -> Version])
      /\ Len(past') = Now + 1
      /\ \A t \in 1..Now : past'[t] = past[t]
      /\ past'[Now + 1] = new
  BY <1>1, <1>2, AppendProperties DEF WriteDocuments, Now
<1>4. GoesOn(past, past')
  BY <1>1, <1>3 DEF GoesOn, Now
<1>5. ASSUME NEW t1 \in 1..(Now + 1), NEW t2 \in 1..(Now + 1), t1 <= t2,
  NEW r \in Query
      PROVE  past'[t1][r] <= past'[t2][r]
  <2>1. CASE t2 \in 1..Now
    <3>1. t1 \in 1..Now
      BY <1>1, <1>5, <2>1
    <3>2. QED
      BY <1>3, <1>5, <2>1, <3>1 DEF Growth, Now
  <2>2. CASE t2 = Now + 1 /\ t1 \in 1..Now
    <3>1. past[t1] \in [Query -> Version]
      BY <1>1, <2>2, ElementOfSeq DEF Now
    <3>2. past[t1][r] <= past[Now][r] /\ past[t1][r] <= t1
      BY <2>2 DEF Growing
    <3>3. past[t1][r] <= new[r]
      BY <1>1, <2>2, <3>1, <3>2 DEF Version
    <3>4. QED
      BY <1>3, <2>2, <3>3
  <2>3. CASE t2 = Now + 1 /\ t1 = Now + 1
    <3>1. new[r] \in Int
      BY <1>2 DEF Version
    <3>2. QED
      BY <1>3, <2>3, <3>1
  <2>4. QED
    BY <1>1, <1>5, <2>1, <2>2, <2>3
<1>6. Growth(past')
  BY <1>3, <1>5 DEF Growth
<1>7. QED
  BY <1>4, <1>6

-----------------------------------------------------------------------------
(* The wire and the copy: what every step preserves of them.               *)

WireInv ==
    /\ Growth(past)
    /\ last <= Now /\ backend.time <= Now
    /\ PairedIn(down, past)
    /\ OrderedIn(down, backend.time)
    /\ NotAhead(agg.updates, down, past, backend.time)
    /\ AfterAddedIn(down, past, backend.sent)
    /\ \A q \in Query : cache[q] > 0 => last >= 1 /\ cache[q] <= past[last][q]

\* The same of the next state, with the prime on the variables.
LEMMA WirePrimed ==
    ASSUME Growth(past'),
           last' <= Len(past'), backend'.time <= Len(past'),
           PairedIn(down', past'),
           OrderedIn(down', backend'.time),
           NotAhead(agg'.updates, down', past', backend'.time),
           AfterAddedIn(down', past', backend'.sent),
           \A q \in Query :
              cache'[q] > 0 => last' >= 1 /\ cache'[q] <= past'[last'][q]
    PROVE  WireInv'
<1>1. Growth(past)' /\ (last <= Now /\ backend.time <= Now)'
  BY DEF Growth, Now
<1>2. PairedIn(down, past)' /\ OrderedIn(down, backend.time)'
  BY DEF PairedIn, OrderedIn
<1>3. NotAhead(agg.updates, down, past, backend.time)'
  BY DEF NotAhead
<1>4. AfterAddedIn(down, past, backend.sent)'
  BY DEF AfterAddedIn, Brings, Says
<1>5. QED
  BY <1>1, <1>2, <1>3, <1>4 DEF WireInv

\* The types of what is on the wire.
LEMMA WireTypes ==
    ASSUME TypeOK
    PROVE  /\ down \in Seq(Response) /\ DOMAIN down = 1..Len(down)
           /\ past \in Seq([Query -> Version])
           /\ Now \in Int /\ Now >= 1 /\ last \in Int /\ last >= 0
           /\ backend.time \in Int /\ backend.time >= 0
           /\ \A t \in 1..Now : past[t] \in [Query -> Version]
           /\ \A i \in DOMAIN down :
                 down[i].kind = "snapshot" => down[i].time \in Time
           /\ \A q \in Query : /\ cache[q] \in Int /\ cache[q] >= 0
                               /\ agg.updates[q] \in Int /\ agg.updates[q] >= 0
<1>1. down \in Seq(Response) /\ DOMAIN down = 1..Len(down)
  BY LenProperties DEF TypeOK
<1>2. \A i \in DOMAIN down : down[i] \in Response
  BY <1>1, ElementOfSeq
<1>3. \A i \in DOMAIN down : down[i].kind = "snapshot" => down[i].time \in Time
  BY <1>2, ResponseFields
<1>4. past \in Seq([Query -> Version]) /\ Now \in Int /\ Now >= 1
  BY DEF TypeOK, Now, Time
<1>5. \A t \in 1..Now : past[t] \in [Query -> Version]
  BY <1>4, ElementOfSeq DEF Now
<1>6. \A q \in Query : /\ cache[q] \in Int /\ cache[q] >= 0
                       /\ agg.updates[q] \in Int /\ agg.updates[q] >= 0
  BY DEF TypeOK, Aggregator, Version
<1>7. /\ last \in Int /\ last >= 0
      /\ backend.time \in Int /\ backend.time >= 0
  BY BoundsAssumption DEF TypeOK, BackendState
<1>8. QED
  BY <1>1, <1>3, <1>4, <1>5, <1>6, <1>7

LEMMA WireKept ==
    ASSUME WireInv, UNCHANGED <<past, backend, down, cache, last>>,
           agg'.updates = agg.updates
    PROVE  WireInv'
<1>1. Growth(past') /\ last' <= Len(past') /\ backend'.time <= Len(past')
  BY DEF WireInv, Now
<1>2. /\ PairedIn(down', past')
      /\ OrderedIn(down', backend'.time)
      /\ NotAhead(agg'.updates, down', past', backend'.time)
      /\ AfterAddedIn(down', past', backend'.sent)
  BY DEF WireInv
<1>3. \A q \in Query :
         cache'[q] > 0 => last' >= 1 /\ cache'[q] <= past'[last'][q]
  BY DEF WireInv
<1>4. QED
  BY <1>1, <1>2, <1>3, WirePrimed

LEMMA WireHungUp ==
    ASSUME TypeOK, WireInv, UNCHANGED <<past, cache, last>>,
           backend' = NoBackend, down' = << >>, agg' = NewAggregator
    PROVE  WireInv'
<1>1. Growth(past') /\ last' <= Len(past')
  BY DEF WireInv, Now
<1>2. backend'.time = 0 /\ 0 <= Len(past')
  BY WireTypes DEF NoBackend, Now
<1>3. DOMAIN down' = {}
  OBVIOUS
<1>4. \A q \in Query : ~(agg'.updates[q] > 0)
  BY DEF NewAggregator
<1>5. /\ PairedIn(down', past')
      /\ OrderedIn(down', backend'.time)
      /\ NotAhead(agg'.updates, down', past', backend'.time)
      /\ AfterAddedIn(down', past', backend'.sent)
  BY <1>3, <1>4 DEF PairedIn, OrderedIn, NotAhead, AfterAddedIn
<1>6. \A q \in Query :
         cache'[q] > 0 => last' >= 1 /\ cache'[q] <= past'[last'][q]
  BY DEF WireInv
<1>7. QED
  BY <1>1, <1>2, <1>5, <1>6, WirePrimed

LEMMA WireWritten ==
    ASSUME TypeOK, Growing, WireInv, NEW q \in Query, WriteDocuments(q)
    PROVE  /\ WireInv'
           /\ GoesOn(past, past')
           /\ \A i \in DOMAIN down : down[i].kind = "snapshot" =>
                 past'[down[i].time] = past[down[i].time]
<1>1. GoesOn(past, past') /\ Growth(past')
  BY GrowthGoesOn DEF WireInv
<1>2. UNCHANGED <<backend, down, agg, cache, last>>
  BY DEF WriteDocuments, wire
<1>3. /\ backend.time \in Int /\ backend.time <= Len(past) /\ Len(past) \in Nat
      /\ last \in Int /\ last >= 0 /\ last <= Len(past)
      /\ down \in Seq(Response)
  BY WireTypes DEF WireInv, Now
<1>4. /\ PairedIn(down, past) /\ OrderedIn(down, backend.time)
      /\ NotAhead(agg.updates, down, past, backend.time)
      /\ AfterAddedIn(down, past, backend.sent)
  BY DEF WireInv
<1>5. /\ \A i \in DOMAIN down : down[i].kind = "snapshot" =>
            past'[down[i].time] = past[down[i].time]
      /\ PairedIn(down, past')
      /\ NotAhead(agg.updates, down, past', backend.time)
      /\ AfterAddedIn(down, past', backend.sent)
  BY <1>1, <1>3, <1>4, WireGoesOn
<1>6. Len(past) <= Len(past')
  <2>1. Len(past) \in 1..Len(past)
    BY WireTypes DEF Now
  <2>2. Len(past) \in 1..Len(past')
    BY <1>1, <2>1 DEF GoesOn
  <2>3. Len(past') \in Nat
    BY <1>1, LenProperties DEF Growth
  <2>4. QED
    BY <2>2, <2>3
<1>7. last' <= Len(past') /\ backend'.time <= Len(past')
  <2>1. Len(past') \in Nat
    BY <1>1, LenProperties DEF Growth
  <2>2. QED
    BY <1>2, <1>3, <1>6, <2>1
<1>8. \A r \in Query : cache[r] > 0 => last >= 1 /\ cache[r] <= past'[last][r]
  <2>1. last >= 1 => past'[last] = past[last]
    BY <1>1, <1>3 DEF GoesOn
  <2>2. QED
    BY <2>1 DEF WireInv
<1>9. WireInv'
  BY <1>1, <1>2, <1>4, <1>5, <1>7, <1>8, WirePrimed
<1>10. QED
  BY <1>1, <1>5, <1>9

\* What an answer of the backend is.
LEMMA AnswerFacts ==
    ASSUME TypeOK, BackendAnswers
    PROVE  \E m \in Response :
              LET r == Head(up).query
              IN  /\ down' = Append(down, m)
                  /\ r \in Query
                  /\ Answered(m, r, backend.sent, backend'.sent)
                  /\ m.kind \in {"added", "removed"}
                  /\ backend'.time = backend.time
                  /\ \/ Says(up[1], "watch", r) /\ Says(m, "added", r)
                     \/ Says(up[1], "unwatch", r) /\ Says(m, "removed", r)
<1> DEFINE r == Head(up).query
           s == backend.sent
<1>1. up \in Seq(Requests) /\ up # << >>
  BY DEF BackendAnswers, TypeOK
<1>2. Head(up) \in Requests /\ Head(up) = up[1]
  BY <1>1, HeadTailProperties
<1>3. r \in Query /\ Head(up).kind \in {"watch", "unwatch"}
  BY <1>2 DEF Requests
<1>4. Added(r) \in Response /\ Removed(r) \in Response
  BY <1>3, ResponseTypes
<1>5. CASE Head(up).kind = "watch"
  <2>1. /\ down' = Append(down, Added(r))
        /\ backend' = [backend EXCEPT !.sent =
                          [q \in DOMAIN s \cup {r} |-> IF q = r THEN None ELSE s[q]]]
    BY <1>5 DEF BackendAnswers
  <2>2. /\ backend'.sent = [q \in DOMAIN s \cup {r} |-> IF q = r THEN None ELSE s[q]]
        /\ backend'.time = backend.time
    BY <2>1 DEF TypeOK, BackendState
  <2>3. Says(Added(r), "added", r) /\ Says(up[1], "watch", r)
    BY <1>2, <1>5 DEF Says, Added
  <2>4. Answered(Added(r), r, s, backend'.sent)
    BY <2>2, <2>3 DEF Answered
  <2>5. Added(r).kind \in {"added", "removed"}
    BY DEF Added
  <2>6. QED
    BY <1>3, <1>4, <2>1, <2>2, <2>3, <2>4, <2>5
<1>6. CASE Head(up).kind = "unwatch"
  <2>1. /\ down' = Append(down, Removed(r))
        /\ backend' = [backend EXCEPT !.sent = Restrict(s, DOMAIN s \ {r})]
    BY <1>6 DEF BackendAnswers
  <2>2. /\ backend'.sent = Restrict(s, DOMAIN s \ {r})
        /\ backend'.time = backend.time
    BY <2>1 DEF TypeOK, BackendState
  <2>3. Says(Removed(r), "removed", r) /\ Says(up[1], "unwatch", r)
    BY <1>2, <1>6 DEF Says, Removed
  <2>4. Answered(Removed(r), r, s, backend'.sent)
    BY <2>2, <2>3 DEF Answered, Restrict
  <2>5. Removed(r).kind \in {"added", "removed"}
    BY DEF Removed
  <2>6. QED
    BY <1>3, <1>4, <2>1, <2>2, <2>3, <2>4, <2>5
<1>7. QED
  BY <1>3, <1>5, <1>6

LEMMA WireAnswered ==
    ASSUME TypeOK, WireInv, BackendAnswers
    PROVE  WireInv'
<1> DEFINE r == Head(up).query
<1>1. PICK m \in Response :
         /\ down' = Append(down, m)
         /\ Answered(m, r, backend.sent, backend'.sent)
         /\ m.kind \in {"added", "removed"}
         /\ backend'.time = backend.time
  BY AnswerFacts
<1>2. UNCHANGED <<past, agg, cache, last>>
  BY DEF BackendAnswers
<1>3. down \in Seq(Response)
  BY WireTypes
<1>4. /\ PairedIn(down', past)
      /\ OrderedIn(down', backend.time)
      /\ NotAhead(agg.updates, down', past, backend.time)
  BY <1>1, <1>3, AnswerInOrder DEF WireInv
<1>5. AfterAddedIn(down', past, backend'.sent)
  BY <1>1, <1>3, AnswerAfterAdded DEF WireInv
<1>6. \A q \in Query :
         cache'[q] > 0 => last' >= 1 /\ cache'[q] <= past'[last'][q]
  BY <1>2 DEF WireInv
<1>7. Growth(past') /\ last' <= Len(past') /\ backend'.time <= Len(past')
  BY <1>1, <1>2 DEF WireInv, Now
<1>8. QED
  BY <1>1, <1>2, <1>4, <1>5, <1>6, <1>7, WirePrimed

\* What the backend sends.
LEMMA SendingFacts ==
    ASSUME TypeOK, NEW t \in Time, t >= backend.time, t <= Now, BackendSends(t)
    PROVE  /\ \E D, N \in Response :
                 /\ down' = Append(Append(down, D), N)
                 /\ Sending(D, N, t, past, backend.sent, backend'.sent)
           /\ backend'.time = t
           /\ past[t] \in [Query -> Version]
           /\ t \in 1..Len(past)
<1> DEFINE news == {q \in DOMAIN backend.sent : backend.sent[q] # past[t][q]}
           versions == [q \in news |-> past[t][q]]
           D == Documents(versions)
           N == Snapshot(t)
<1>1. D \in Response /\ N \in Response /\ down' = Append(Append(down, D), N)
  BY DownAfterSending
<1>2. /\ backend'.time = t
      /\ backend'.sent = [q \in DOMAIN backend.sent |-> past[t][q]]
  BY DEF BackendSends
<1>3. D.kind = "documents" /\ D.versions = versions
  BY DEF Documents
<1>4. N.kind = "snapshot" /\ N.time = t
  BY DEF Snapshot
<1>5. Sending(D, N, t, past, backend.sent, backend'.sent)
  <2>1. \A q \in DOMAIN D.versions : D.versions[q] = past[t][q]
    BY <1>3
  <2>2. \A q \in DOMAIN backend.sent :
           /\ q \in DOMAIN backend'.sent
           /\ backend'.sent[q] = past[t][q]
           /\ q \in DOMAIN D.versions \/ backend.sent[q] = past[t][q]
    BY <1>2, <1>3
  <2> HIDE DEF D, N
  <2>3. QED
    BY <1>3, <1>4, <2>1, <2>2 DEF Sending
<1>6. t \in 1..Len(past)
  BY WireTypes DEF Time, Now
<1>7. past[t] \in [Query -> Version]
  BY <1>6, WireTypes DEF Now
<1> HIDE DEF D, N
<1>8. QED
  BY <1>1, <1>2, <1>5, <1>6, <1>7

LEMMA WireSent ==
    ASSUME TypeOK, WireInv, NEW t \in Time, t >= backend.time, t <= Now,
           BackendSends(t)
    PROVE  WireInv'
<1>1. PICK D \in Response, N \in Response :
         /\ down' = Append(Append(down, D), N)
         /\ Sending(D, N, t, past, backend.sent, backend'.sent)
  BY SendingFacts
<1>2. /\ backend'.time = t
      /\ past[t] \in [Query -> Version]
      /\ t \in 1..Len(past)
  BY SendingFacts
<1>3. UNCHANGED <<past, agg, cache, last>>
  BY DEF BackendSends
<1>4. /\ down \in Seq(Response) /\ backend.time \in Int /\ t \in Int
      /\ backend.time <= t
      /\ \A i \in DOMAIN down : down[i].kind = "snapshot" => down[i].time \in Int
      /\ agg.updates \in [Query -> Version]
  BY WireTypes DEF Time, TypeOK, Aggregator
<1>5. PairedIn(down', past)
  BY <1>1, <1>4, SendPaired DEF WireInv
<1>6. OrderedIn(down', t)
  BY <1>1, <1>4, SendInOrder DEF WireInv
<1>7. NotAhead(agg.updates, down', past, t)
  BY <1>1, <1>2, <1>4, SendNotAhead DEF WireInv
<1>8. AfterAddedIn(down', past, backend'.sent)
  BY <1>1, <1>2, <1>4, SendAfterAdded DEF WireInv
<1>9. \A q \in Query :
         cache'[q] > 0 => last' >= 1 /\ cache'[q] <= past'[last'][q]
  BY <1>3 DEF WireInv
<1>10. Growth(past') /\ last' <= Len(past') /\ backend'.time <= Len(past')
  BY <1>2, <1>3 DEF WireInv, Now
<1>11. QED
  BY <1>2, <1>3, <1>5, <1>6, <1>7, <1>8, <1>9, <1>10, WirePrimed

\* What every response leaves alone.
LEMMA ResponsesFrame ==
    ASSUME TypeOK, Responses
    PROVE  /\ down # << >> /\ down' = Tail(down) /\ Head(down) = down[1]
           /\ 1 \in DOMAIN down
           /\ UNCHANGED <<past, backend, up, stream, on>>
<1>1. down # << >> /\ down' = Tail(down)
  BY DEF Responses, TargetAdded, TargetRemoved, DocumentsChange, SnapshotIgnored,
         SnapshotRaised, Receive
<1>2. UNCHANGED <<past, backend, up, stream, on>>
  BY DEF Responses, TargetAdded, TargetRemoved, DocumentsChange, SnapshotIgnored,
         SnapshotRaised, RaiseWatchSnapshot, world, views
<1>3. Head(down) = down[1] /\ 1 \in DOMAIN down
  BY <1>1, TailFacts DEF TypeOK
<1>4. QED
  BY <1>1, <1>2, <1>3

\* A snapshot under way is of a time the backend has reached.
LEMMA SnapshotTimes ==
    ASSUME TypeOK, WireInv, NEW i \in DOMAIN down, down[i].kind = "snapshot"
    PROVE  down[i].time \in 1..Now /\ down[i].time <= backend.time
<1>1. down[i].time \in Time /\ backend.time \in Int /\ Now \in Int
  BY WireTypes
<1>2. down[i].time <= backend.time /\ backend.time <= Now
  BY DEF WireInv, OrderedIn
<1>3. QED
  BY <1>1, <1>2 DEF Time

\* Documents that are received are as old as the snapshot behind them, and
\* newer than what the aggregator holds.
LEMMA DocumentsFacts ==
    ASSUME TypeOK, WireInv, 1 \in DOMAIN down, down[1].kind = "documents",
           NEW q \in DOMAIN down[1].versions
    PROVE  /\ q \in Query
           /\ down[1].versions[q] \in Version
           /\ backend.time >= 1
           /\ down[1].versions[q] <= past[backend.time][q]
           /\ \A i \in DOMAIN down : down[i].kind = "snapshot" =>
                 down[1].versions[q] <= past[down[i].time][q]
           /\ agg.updates[q] <= down[1].versions[q]
<1>1. down[1] \in Response
  BY WireTypes, ElementOfSeq
<1>2. q \in Query /\ down[1].versions[q] \in Version
  BY <1>1, ResponseFields DEF Versions
<1>3. /\ 2 \in DOMAIN down /\ down[2].kind = "snapshot"
      /\ down[1].versions[q] = past[down[2].time][q]
  <2>1. /\ 1 + 1 \in DOMAIN down /\ down[1 + 1].kind = "snapshot"
        /\ down[1].versions[q] = past[down[1 + 1].time][q]
    BY Zenon DEF WireInv, PairedIn
  <2>2. 1 + 1 = 2
    OBVIOUS
  <2>3. QED
    BY <2>1, <2>2
<1> DEFINE t == down[2].time
<1>4. t \in 1..Now /\ t <= backend.time
  BY <1>3, SnapshotTimes
<1>5. backend.time \in 1..Now
  BY <1>4, WireTypes DEF WireInv
<1>6. past[t][q] <= past[backend.time][q]
  BY <1>2, <1>4, <1>5 DEF WireInv, Growth, Now
<1>7. ASSUME NEW i \in DOMAIN down, down[i].kind = "snapshot"
      PROVE  past[t][q] <= past[down[i].time][q]
  <2>1. i # 1 /\ i \in Int /\ i >= 1
    BY <1>7, WireTypes
  <2>2. 2 <= i
    BY <2>1
  <2>3. t <= down[i].time
    BY <1>3, <1>7, <2>2 DEF WireInv, OrderedIn
  <2>4. down[i].time \in 1..Now
    BY <1>7, SnapshotTimes
  <2>5. QED
    BY <1>2, <1>4, <2>3, <2>4 DEF WireInv, Growth, Now
<1>8. agg.updates[q] <= past[t][q]
  <2>1. CASE agg.updates[q] > 0
    BY <1>2, <1>3, <2>1 DEF WireInv, NotAhead
  <2>2. CASE ~(agg.updates[q] > 0)
    <3>1. agg.updates[q] = 0
      BY <1>2, <2>2, WireTypes
    <3>2. past[t][q] \in Version
      BY <1>2, <1>4, WireTypes
    <3>3. QED
      BY <3>1, <3>2 DEF Version
  <2>3. QED
    BY <2>1, <2>2
<1>9. QED
  BY <1>2, <1>3, <1>5, <1>6, <1>7, <1>8

\* A snapshot that is raised is not behind what is held.
LEMMA SnapshotFacts ==
    ASSUME TypeOK, WireInv, 1 \in DOMAIN down, down[1].kind = "snapshot",
           last <= down[1].time, NEW q \in Query
    PROVE  /\ down[1].time \in 1..Now
           /\ Held(q) <= past[down[1].time][q]
           /\ past[down[1].time][q] \in Version
           /\ Held(q) \in Int
<1> DEFINE t == down[1].time
<1>1. t \in 1..Now /\ past[t] \in [Query -> Version]
  BY SnapshotTimes, WireTypes
<1>2. past[t][q] \in Int /\ past[t][q] >= 0
  BY <1>1 DEF Version
<1>3. agg.updates[q] <= past[t][q]
  BY <1>2, WireTypes DEF WireInv, NotAhead
<1>4. cache[q] <= past[t][q]
  <2>1. CASE cache[q] > 0
    <3>1. last \in 1..Now /\ cache[q] <= past[last][q]
      BY <2>1, WireTypes DEF WireInv
    <3>2. past[last][q] <= past[t][q]
      BY <1>1, <3>1 DEF WireInv, Growth, Now
    <3>3. past[last][q] \in Version
      BY <3>1, WireTypes
    <3>4. cache[q] \in Int
      BY WireTypes
    <3>5. QED
      BY <1>2, <3>1, <3>2, <3>3, <3>4 DEF Version
  <2>2. CASE ~(cache[q] > 0)
    BY <1>2, <2>2, WireTypes
  <2>3. QED
    BY <2>1, <2>2
<1>5. QED
  BY <1>1, <1>2, <1>3, <1>4, WireTypes DEF Held, Newer

LEMMA WireReceived ==
    ASSUME TypeOK, WireInv, Responses
    PROVE  WireInv'
<1>1. /\ down # << >> /\ down' = Tail(down) /\ Head(down) = down[1]
      /\ 1 \in DOMAIN down
      /\ UNCHANGED <<past, backend>>
      /\ down \in Seq(Response)
  BY ResponsesFrame, WireTypes
<1>2. PairedIn(down', past')
  BY <1>1, PairedTail DEF WireInv
<1>3. OrderedIn(down', backend'.time)
  BY <1>1, OrderedTail DEF WireInv
<1>4. AfterAddedIn(down', past', backend'.sent)
  BY <1>1, AfterAddedTail DEF WireInv
<1>5. NotAhead(agg.updates, down', past', backend'.time)
  BY <1>1, NotAheadTail DEF WireInv
<1>6. Growth(past') /\ backend'.time <= Len(past')
  BY <1>1 DEF WireInv, Now
<1>7. \A i \in DOMAIN down' : i + 1 \in DOMAIN down /\ down'[i] = down[i + 1]
  BY <1>1, TailFacts
<1>8. CASE TargetAdded \/ TargetRemoved \/ SnapshotIgnored
  <2>1. agg'.updates = agg.updates /\ UNCHANGED <<cache, last>>
    BY <1>8 DEF TargetAdded, TargetRemoved, SnapshotIgnored, TypeOK, Aggregator
  <2>2. \A q \in Query :
           cache'[q] > 0 => last' >= 1 /\ cache'[q] <= past'[last'][q]
    BY <1>1, <2>1 DEF WireInv
  <2>3. last' <= Len(past')
    BY <1>1, <2>1 DEF WireInv, Now
  <2>4. QED
    BY <1>2, <1>3, <1>4, <1>5, <1>6, <2>1, <2>2, <2>3, WirePrimed
<1>9. CASE DocumentsChange
  <2> DEFINE versions == Head(down).versions
             taken == {q \in DOMAIN versions : Active(q)}
  <2>1. UNCHANGED <<cache, last>>
    BY <1>9 DEF DocumentsChange
  <2>2. agg'.updates = [q \in Query |-> IF q \in taken THEN versions[q]
                                       ELSE agg.updates[q]]
    BY <1>9 DEF DocumentsChange, TypeOK, Aggregator
  <2>3. down[1].kind = "documents"
    BY <1>1, <1>9 DEF DocumentsChange, Receive
  <2>4. ASSUME NEW q \in Query, agg'.updates[q] > 0
        PROVE  /\ backend'.time >= 1
               /\ agg'.updates[q] <= past'[backend'.time][q]
               /\ \A i \in DOMAIN down' : down'[i].kind = "snapshot" =>
                     agg'.updates[q] <= past'[down'[i].time][q]
    <3>1. CASE q \in taken
      <4>1. agg'.updates[q] = down[1].versions[q] /\ q \in DOMAIN down[1].versions
        BY <1>1, <2>2, <3>1
      <4>2. /\ backend.time >= 1
            /\ down[1].versions[q] <= past[backend.time][q]
            /\ \A i \in DOMAIN down : down[i].kind = "snapshot" =>
                  down[1].versions[q] <= past[down[i].time][q]
        BY <1>1, <2>3, <4>1, DocumentsFacts
      <4>3. QED
        BY <1>1, <1>7, <4>1, <4>2
    <3>2. CASE q \notin taken
      <4>1. agg'.updates[q] = agg.updates[q]
        BY <2>2, <3>2
      <4>2. QED
        BY <1>5, <2>4, <4>1 DEF NotAhead
    <3>3. QED
      BY <3>1, <3>2
  <2>5. NotAhead(agg'.updates, down', past', backend'.time)
    BY <2>4 DEF NotAhead
  <2>6. \A q \in Query :
           cache'[q] > 0 => last' >= 1 /\ cache'[q] <= past'[last'][q]
    BY <1>1, <2>1 DEF WireInv
  <2>7. last' <= Len(past')
    BY <1>1, <2>1 DEF WireInv, Now
  <2>8. QED
    BY <1>2, <1>3, <1>4, <1>6, <2>5, <2>6, <2>7, WirePrimed
<1>10. CASE SnapshotRaised
  <2>1. /\ down[1].kind = "snapshot" /\ last <= down[1].time
        /\ last' = down[1].time
        /\ cache' = [q \in Query |-> Held(q)]
        /\ agg'.updates = [q \in Query |-> 0]
    <3>1. /\ Head(down).kind = "snapshot" /\ Head(down).time >= last
          /\ RaiseWatchSnapshot(Head(down).time)
      BY <1>10 DEF SnapshotRaised, Receive
    <3>2. Head(down).time \in Int /\ last \in Int
      BY <1>1, <3>1, WireTypes DEF Time
    <3>3. last <= Head(down).time
      BY <3>1, <3>2
    <3>4. agg'.updates = [q \in Query |-> 0]
      BY <3>1 DEF RaiseWatchSnapshot, TypeOK, Aggregator
    <3>5. QED
      BY <1>1, <3>1, <3>3, <3>4 DEF RaiseWatchSnapshot, Held
  <2>2. \A q \in Query : ~(agg'.updates[q] > 0)
    BY <2>1
  <2>3. NotAhead(agg'.updates, down', past', backend'.time)
    BY <2>2 DEF NotAhead
  <2>4. last' \in 1..Now
    BY <1>1, <2>1, SnapshotTimes
  <2>5. last' <= Len(past') /\ last' >= 1
    BY <1>1, <2>4 DEF Now
  <2>6. \A q \in Query : cache'[q] <= past'[last'][q]
    BY <1>1, <2>1, SnapshotFacts
  <2>7. QED
    BY <1>2, <1>3, <1>4, <1>6, <2>3, <2>5, <2>6, WirePrimed
<1>11. QED
  BY <1>8, <1>9, <1>10 DEF Responses

LEMMA WireStep ==
    ASSUME TypeOK, OnlyOpen, Growing, WireInv, [Next]_vars
    PROVE  WireInv'
<1>1. CASE UNCHANGED vars
  BY <1>1, WireKept DEF vars
<1>2. CASE Backend
  BY <1>2, WireWritten, WireAnswered, WireSent DEF Backend
<1>3. CASE App
  <2>1. agg'.updates = agg.updates
    <3>1. PICK l \in Listener : Listen(l) \/ Unlisten(l)
      BY <1>3 DEF App
    <3>2. \/ agg' = agg
          \/ \E requests : agg' = AfterSending(agg, requests)
          \/ ~IsOpen /\ agg' = NewAggregator
      BY <3>1 DEF Listen, Unlisten, Send, IsOpen, IsStarted
    <3>3. \A requests : AfterSending(agg, requests).updates = agg.updates
      BY DEF AfterSending, TypeOK, Aggregator
    <3>4. QED
      BY <3>2, <3>3 DEF OnlyOpen
  <2>2. UNCHANGED <<past, backend, down, cache, last>>
    BY <1>3 DEF App, Listen, Unlisten, world
  <2>3. QED
    BY <2>1, <2>2, WireKept
<1>4. CASE Connecting
  <2>1. agg'.updates = agg.updates
    BY <1>4 DEF Connecting, LateCredentialsCome, Connect, BackoffElapsed,
      AfterSending,
                TypeOK, Aggregator
  <2>2. UNCHANGED <<past, backend, down, cache, last>>
    BY <1>4 DEF Connecting, LateCredentialsCome, Connect, BackoffElapsed, world,
      wire
  <2>3. QED
    BY <2>1, <2>2, WireKept
<1>5. CASE OnlineStateTimeout
  BY <1>5, WireKept DEF OnlineStateTimeout, world, wire
<1>6. CASE IdleTimeout \/ Faults
  BY <1>6, WireHungUp
  DEF IdleTimeout, Faults, StreamFails, RestartNetwork, Restart, HangUp,
      BackendFinishes, CloseGracefully, AppEnds
<1>7. QED
  BY <1>1, <1>2, <1>3, <1>4, <1>5, <1>6, WireReceived DEF Next, Timeouts

-----------------------------------------------------------------------------
(* Targets, requests and views.                                            *)

\* The target of a listener is watched, or will be.
WatchedLast == \A q \in Targets : WatchedIn(up, down, q)

\* A target that no response is due of is supplied.
WhileActive ==
    IsOpen => \A q \in Query :
        Active(q) => SuppliedIn(down, past, backend.sent, q, Held(q))

\* What a view in sync stands on.
SyncedMeans ==
    /\ synced \subseteq Targets
    /\ synced # {} => last >= 1
    /\ \A q \in synced : agg.acks[q] # 0 => q \notin agg.current

LEMMA WatchedPrimed ==
    ASSUME \A q \in TargetsOf(on') : WatchedIn(up', down', q)
    PROVE  WatchedLast'
  BY DEF WatchedLast, Targets, TargetsOf, WatchedIn, Says

LEMMA ActivePrimed ==
    ASSUME stream'.state = "open" =>
              \A q \in Query : q \in TargetsOf(on') /\ agg'.acks[q] = 0 =>
                 SuppliedIn(down', past', backend'.sent, q,
                            Newer(agg'.updates[q], cache'[q]))
    PROVE  WhileActive'
<1>1. SUFFICES ASSUME IsOpen', NEW q \in Query, Active(q)'
               PROVE  SuppliedIn(down, past, backend.sent, q, Held(q))'
  BY DEF WhileActive
<1>2. stream'.state = "open" /\ q \in TargetsOf(on') /\ agg'.acks[q] = 0
  BY <1>1 DEF IsOpen, Active, Targets, TargetsOf
<1>3. SuppliedIn(down', past', backend'.sent, q, Newer(agg'.updates[q], cache'[q]))
  BY <1>2
<1>4. QED
  BY <1>3 DEF SuppliedIn, Held, Newer, Brings

LEMMA SyncedPrimed ==
    ASSUME synced' \subseteq TargetsOf(on'),
           synced' # {} => last' >= 1,
           \A q \in synced' : agg'.acks[q] # 0 => q \notin agg'.current
    PROVE  SyncedMeans'
  BY DEF SyncedMeans, Targets, TargetsOf

LEMMA ViewsPrimed ==
    ASSUME \A q \in synced' :
              /\ q \in TargetsOf(on') /\ agg'.acks[q] = 0
              /\ q \in agg'.current /\ q \notin agg'.changed
              => cache'[q] = past'[last'][q]
    PROVE  ViewsAreConsistent'
  BY DEF ViewsAreConsistent, Confirmed, Active, Targets, TargetsOf

\* No response is due of a target exactly if nothing about it is under way.
LEMMA NothingDue ==
    ASSUME NEW u \in Seq(Requests), NEW d \in Seq(Response), NEW q,
           DueTo(q, u, {"watch", "unwatch"}) + DueTo(q, d, {"added", "removed"}) = 0
    PROVE  /\ \A i \in DOMAIN u :
                  ~Says(u[i], "watch", q) /\ ~Says(u[i], "unwatch", q)
           /\ \A i \in DOMAIN d :
                  ~Says(d[i], "added", q) /\ ~Says(d[i], "removed", q)
<1>1. /\ DueTo(q, u, {"watch", "unwatch"}) \in Nat
      /\ DueTo(q, d, {"added", "removed"}) \in Nat
  BY DueToFinite
<1>2. /\ DueTo(q, u, {"watch", "unwatch"}) = 0
      /\ DueTo(q, d, {"added", "removed"}) = 0
  BY <1>1
<1>3. ASSUME NEW S, NEW m \in Seq(S), NEW kinds, DueTo(q, m, kinds) = 0
      PROVE  Positions(q, m, kinds) = {}
  BY <1>3, DueToFinite, FS_EmptySet, Zenon
<1>4. /\ Positions(q, u, {"watch", "unwatch"}) = {}
      /\ Positions(q, d, {"added", "removed"}) = {}
  BY <1>2, <1>3
<1>5. QED
  BY <1>4 DEF Positions, Says

LEMMA AcksPrimed ==
    ASSUME TypeOK', AcksAreUnderWay', NEW q \in Query
    PROVE  /\ agg'.acks[q] \in Nat
           /\ agg'.acks[q] = 0 =>
                /\ \A i \in DOMAIN up' : /\ ~Says(up'[i], "watch", q)
                                         /\ ~Says(up'[i], "unwatch", q)
                /\ \A i \in DOMAIN down' : /\ ~Says(down'[i], "added", q)
                                           /\ ~Says(down'[i], "removed", q)
<1>1. up' \in Seq(Requests) /\ down' \in Seq(Response)
  BY DEF TypeOK
<1>2. agg'.acks[q] = DueTo(q, up', {"watch", "unwatch"})
                     + DueTo(q, down', {"added", "removed"})
  BY DEF AcksAreUnderWay, DueTo
<1>3. /\ DueTo(q, up', {"watch", "unwatch"}) \in Nat
      /\ DueTo(q, down', {"added", "removed"}) \in Nat
  BY <1>1, DueToFinite
<1>4. agg'.acks[q] \in Nat
  BY <1>2, <1>3
<1>5. QED
  BY <1>1, <1>2, <1>4, NothingDue

LEMMA AcksFacts ==
    ASSUME TypeOK, AcksAreUnderWay, NEW q \in Query
    PROVE  /\ agg.acks[q] \in Nat
           /\ agg.acks[q] = 0 =>
                /\ \A i \in DOMAIN up : /\ ~Says(up[i], "watch", q)
                                        /\ ~Says(up[i], "unwatch", q)
                /\ \A i \in DOMAIN down : /\ ~Says(down[i], "added", q)
                                          /\ ~Says(down[i], "removed", q)
<1>1. up \in Seq(Requests) /\ down \in Seq(Response)
  BY DEF TypeOK
<1>2. agg.acks[q] = DueTo(q, up, {"watch", "unwatch"})
                    + DueTo(q, down, {"added", "removed"})
  BY DEF AcksAreUnderWay
<1>3. /\ DueTo(q, up, {"watch", "unwatch"}) \in Nat
      /\ DueTo(q, down, {"added", "removed"}) \in Nat
  BY <1>1, DueToFinite
<1>4. agg.acks[q] \in Nat
  BY <1>2, <1>3
<1>5. QED
  BY <1>1, <1>2, <1>4, NothingDue

-----------------------------------------------------------------------------
(* The calls of the app.                                                   *)

\* A request for r is sent: the counts but no more of the aggregator change.
Requested(m, r) ==
    /\ up' = Append(up, m)
    /\ \A q \in Query : agg'.acks[q] = agg.acks[q] + IF q = r THEN 1 ELSE 0
    /\ agg'.current = agg.current
    /\ agg'.changed = agg.changed
    /\ agg'.updates = agg.updates

LEMMA RequestedWhenSent ==
    ASSUME TypeOK, NEW m \in Requests,
           up' = up \o << m >>, agg' = AfterSending(agg, << m >>)
    PROVE  Requested(m, m.query)
<1>1. agg \in Aggregator /\ << m >> \in Seq(Requests) /\ up \in Seq(Requests)
  BY DEF TypeOK
<1>2. up' = Append(up, m)
  BY <1>1
<1>3. ASSUME NEW q \in Query
      PROVE  agg'.acks[q] = agg.acks[q] + IF q = m.query THEN 1 ELSE 0
  <2>1. agg'.acks[q] = agg.acks[q] + DueTo(q, << m >>, {"watch", "unwatch"})
    BY <1>1, SendingCounts
  <2>2. DueTo(q, << m >>, {"watch", "unwatch"}) = One(q, m, {"watch", "unwatch"})
    BY DueToOne
  <2>3. One(q, m, {"watch", "unwatch"}) = IF q = m.query THEN 1 ELSE 0
    BY DEF One, Requests
  <2>4. QED
    BY <2>1, <2>2, <2>3, Zenon
<1>4. /\ agg'.current = agg.current /\ agg'.changed = agg.changed
      /\ agg'.updates = agg.updates
  BY <1>1 DEF AfterSending, Aggregator
<1>5. QED
  BY <1>2, <1>3, <1>4 DEF Requested

\* What a call of the app does to targets and requests.
LEMMA CallFacts ==
    ASSUME TypeOK, OnlyOpen, NEW l \in Listener, Listen(l) \/ Unlisten(l)
    PROVE  /\ UNCHANGED <<past, backend, down, cache, last>>
           /\ synced' \subseteq synced
           /\ stream'.state = "open" => IsOpen
           /\ synced \subseteq Targets => synced' \subseteq TargetsOf(on')
           /\ \/ /\ UNCHANGED <<up, agg>>
                 /\ IsOpen => TargetsOf(on') \subseteq Targets
              \/ \E m \in Requests :
                    /\ IsOpen
                    /\ Requested(m, m.query)
                    /\ \/ /\ m.kind = "watch" /\ m.query \notin Targets
                          /\ TargetsOf(on') = Targets \cup {m.query}
                       \/ /\ m.kind = "unwatch" /\ m.query \notin TargetsOf(on')
                          /\ TargetsOf(on') \subseteq Targets
<1>1. QueryOf[l] \in Query
  BY QueryOfAssumption
<1>2. CASE Listen(l)
  <2>1. TargetsOf(on') = Targets \cup {QueryOf[l]}
    BY <1>2 DEF Listen, TargetsOf, Targets
  <2>2. /\ UNCHANGED <<past, backend, down, cache, last, synced>>
    BY <1>2 DEF Listen, world
  <2>3. CASE /\ QueryOf[l] \in Targets \/ stream.state \in {"starting", "backoff"}
             /\ UNCHANGED <<stream, agg, up>>
    BY <2>1, <2>2, <2>3 DEF IsOpen
  <2>4. CASE /\ QueryOf[l] \notin Targets /\ IsOpen
             /\ Send(<< [kind |-> "watch", query |-> QueryOf[l]] >>)
    <3> DEFINE m == [kind |-> "watch", query |-> QueryOf[l]]
    <3>1. m \in Requests /\ m.kind = "watch" /\ m.query = QueryOf[l]
      BY <1>1 DEF Requests
    <3>2. up' = up \o << m >> /\ agg' = AfterSending(agg, << m >>)
      BY <2>4 DEF Send
    <3> HIDE DEF m
    <3>3. Requested(m, m.query)
      BY <3>1, <3>2, RequestedWhenSent
    <3>4. QED
      BY <2>1, <2>2, <2>4, <3>1, <3>3
  <2>5. CASE /\ QueryOf[l] \notin Targets /\ ~IsStarted
             /\ stream' = Started(stream)
             /\ agg' = NewAggregator
             /\ UNCHANGED up
    <3>1. ~IsOpen /\ agg' = agg
      BY <2>5 DEF IsOpen, IsStarted, OnlyOpen
    <3>2. stream'.state # "open"
      BY <2>5 DEF Started, Starting, TypeOK, StreamState
    <3>3. QED
      BY <2>1, <2>2, <2>5, <3>1, <3>2
  <2>6. QED
    BY <1>2, <2>3, <2>4, <2>5 DEF Listen
<1>3. CASE Unlisten(l)
  <2>1. TargetsOf(on') \subseteq Targets
    BY <1>3 DEF Unlisten, TargetsOf, Targets
  <2>2. /\ UNCHANGED <<past, backend, down, cache, last>>
        /\ synced' = synced \cap TargetsOf(on')
    BY <1>3 DEF Unlisten, world
  <2>3. CASE UNCHANGED <<stream, agg, up>>
    BY <2>1, <2>2, <2>3 DEF IsOpen
  <2>4. CASE /\ QueryOf[l] \notin TargetsOf(on') /\ IsOpen
             /\ LET requests == << [kind |-> "unwatch", query |-> QueryOf[l]] >>
                IN  /\ up' = up \o requests
                    /\ agg' = AfterSending(agg, requests)
                    /\ stream' = [stream EXCEPT !.idle = on' = {}]
    <3> DEFINE m == [kind |-> "unwatch", query |-> QueryOf[l]]
    <3>1. m \in Requests /\ m.kind = "unwatch" /\ m.query = QueryOf[l]
      BY <1>1 DEF Requests
    <3>2. up' = up \o << m >> /\ agg' = AfterSending(agg, << m >>)
      BY <2>4
    <3> HIDE DEF m
    <3>3. Requested(m, m.query)
      BY <3>1, <3>2, RequestedWhenSent
    <3>4. QED
      BY <2>1, <2>2, <2>4, <3>1, <3>3
  <2>5. QED
    BY <1>3, <2>3, <2>4 DEF Unlisten
<1>4. QED
  BY <1>2, <1>3

\* What is left when the stream comes to its end.
LEMMA HungUpFacts ==
    ASSUME TypeOK, IdleTimeout \/ Faults
    PROVE  /\ up' = << >> /\ down' = << >> /\ agg' = NewAggregator
           /\ UNCHANGED <<past, cache, last>>
           /\ stream'.state # "open"
           /\ \/ synced' = {}
              \/ synced' = synced /\ on' = on
<1>1. /\ up' = << >> /\ down' = << >> /\ agg' = NewAggregator
      /\ UNCHANGED <<past, cache, last>>
  BY DEF IdleTimeout, Faults, StreamFails, RestartNetwork, Restart, HangUp,
    BackendFinishes, CloseGracefully, AppEnds
<1>2. stream'.state # "open"
  BY DEF IdleTimeout, Faults, StreamFails, RestartNetwork, Restart, Started,
         Starting, Stopped, BackendFinishes, CloseGracefully, AppEnds
<1>3. \/ synced' = {}
      \/ synced' = synced /\ on' = on
  BY DEF IdleTimeout, Faults, StreamFails, RestartNetwork, Restart,
    SetOnlineState, BackendFinishes, CloseGracefully, AppEnds
<1>4. QED
  BY <1>1, <1>2, <1>3

LEMMA DownWatched ==
    ASSUME NEW S, NEW d \in Seq(S), NEW u, NEW m \in S, NEW q,
           m.kind # "removed", WatchedIn(u, d, q)
    PROVE  WatchedIn(u, Append(d, m), q)
<1> DEFINE e == Append(d, m)
<1>1. /\ \A i \in DOMAIN d : i \in DOMAIN e /\ e[i] = d[i]
      /\ \A i \in DOMAIN e : i \notin DOMAIN d => e[i] = m
  BY AppendFacts
<1> HIDE DEF e
<1>2. WatchedIn(u, e, q)
  BY <1>1 DEF WatchedIn, Says
<1>3. QED
  BY <1>2 DEF e

LEMMA SendWatched ==
    ASSUME NEW S, NEW d \in Seq(S), NEW D \in S, NEW N \in S, NEW u, NEW q,
           NEW t, NEW p, NEW s, NEW s2, Sending(D, N, t, p, s, s2),
           WatchedIn(u, d, q)
    PROVE  WatchedIn(u, Append(Append(d, D), N), q)
<1>1. D.kind # "removed" /\ N.kind # "removed"
  BY DEF Sending
<1>2. Append(d, D) \in Seq(S)
  BY AppendFacts
<1>3. WatchedIn(u, Append(d, D), q)
  BY <1>1, DownWatched
<1>4. QED
  BY <1>1, <1>2, <1>3, DownWatched

\* No target is given up while it has a listener.
LEMMA WatchedStep ==
    ASSUME TypeOK, AcksAreUnderWay, OnlyOpen, WatchedLast, [Next]_vars
    PROVE  WatchedLast'
<1>1. up \in Seq(Requests) /\ down \in Seq(Response)
  BY DEF TypeOK
<1>2. CASE UNCHANGED <<up, down, on>>
  BY <1>2, WatchedPrimed DEF WatchedLast, Targets, TargetsOf
<1>3. CASE UNCHANGED vars
  BY <1>2, <1>3 DEF vars
<1>4. CASE BackendAnswers
  <2> DEFINE r == Head(up).query
  <2>1. up # << >> /\ up' = Tail(up) /\ on' = on
    BY <1>4 DEF BackendAnswers, views
  <2>2. PICK m \in Response :
           /\ down' = Append(down, m)
           /\ \/ Says(up[1], "watch", r) /\ Says(m, "added", r)
              \/ Says(up[1], "unwatch", r) /\ Says(m, "removed", r)
    BY <1>4, AnswerFacts
  <2>3. ASSUME NEW q \in Targets
        PROVE  WatchedIn(up', down', q)
    <3>1. WatchedIn(up, down, q)
      BY DEF WatchedLast
    <3>2. \/ \E x : Says(up[1], "watch", x) /\ Says(m, "added", x)
          \/ \E x : Says(up[1], "unwatch", x) /\ Says(m, "removed", x)
      BY <2>2
    <3>3. WatchedIn(Tail(up), Append(down, m), q)
      BY <1>1, <2>1, <3>1, <3>2, AnswerWatched
    <3>4. QED
      BY <2>1, <2>2, <3>3
  <2>4. QED
    BY <2>1, <2>3, WatchedPrimed DEF Targets, TargetsOf
<1>5. ASSUME NEW t \in Time, t >= backend.time, t <= Now, BackendSends(t)
      PROVE  WatchedLast'
  <2>1. UNCHANGED <<up, on>>
    BY <1>5 DEF BackendSends, views
  <2>2. PICK D \in Response, N \in Response :
           /\ down' = Append(Append(down, D), N)
           /\ Sending(D, N, t, past, backend.sent, backend'.sent)
    BY <1>5, SendingFacts
  <2>3. ASSUME NEW q \in Targets
        PROVE  WatchedIn(up', down', q)
    BY <1>1, <2>1, <2>2, SendWatched DEF WatchedLast
  <2>4. QED
    BY <2>1, <2>3, WatchedPrimed DEF Targets, TargetsOf
<1>6. CASE Backend
  <2>1. ASSUME NEW q \in Query, WriteDocuments(q)
        PROVE  WatchedLast'
    BY <1>2, <2>1 DEF WriteDocuments, wire, views
  <2>2. QED
    BY <1>4, <1>5, <1>6, <2>1 DEF Backend
<1>7. CASE App
  <2>1. PICK l \in Listener : Listen(l) \/ Unlisten(l)
    BY <1>7 DEF App
  <2>2. down' = down
    BY <2>1, CallFacts
  <2>3. ASSUME NEW q \in TargetsOf(on')
        PROVE  WatchedIn(up', down', q)
    <3>1. CASE UNCHANGED up /\ IsOpen /\ TargetsOf(on') \subseteq Targets
      BY <2>2, <2>3, <3>1 DEF WatchedLast
    <3>2. CASE UNCHANGED up /\ ~IsOpen
      <4>1. DOMAIN up' = {} /\ DOMAIN down' = {}
        BY <2>2, <3>2 DEF OnlyOpen
      <4>2. QED
        BY <4>1 DEF WatchedIn
    <3>3. ASSUME NEW m \in Requests, Requested(m, m.query),
                 \/ /\ m.kind = "watch"
                    /\ TargetsOf(on') = Targets \cup {m.query}
                 \/ /\ m.kind = "unwatch" /\ m.query \notin TargetsOf(on')
                    /\ TargetsOf(on') \subseteq Targets
          PROVE  WatchedIn(up', down', q)
      <4>1. up' = Append(up, m)
        BY <3>3 DEF Requested
      <4>2. ~Says(m, "unwatch", q) /\ (Says(m, "watch", q) \/ q \in Targets)
        BY <2>3, <3>3 DEF Says
      <4>3. Says(m, "watch", q) \/ WatchedIn(up, down, q)
        BY <4>2 DEF WatchedLast
      <4>4. QED
        BY <1>1, <2>2, <4>1, <4>2, <4>3, RequestWatched
    <3>4. QED
      BY <2>1, <3>1, <3>2, <3>3, CallFacts
  <2>4. QED
    BY <2>3, WatchedPrimed
<1>8. CASE Connect
  <2>1. \A i \in DOMAIN up' : up'[i].kind = "watch"
    BY <1>8, ConnectAcks
  <2>2. DOMAIN down' = {}
    BY <1>8 DEF Connect, IsOpen, OnlyOpen
  <2>3. ASSUME NEW q \in TargetsOf(on')
        PROVE  WatchedIn(up', down', q)
    BY <2>1, <2>2 DEF WatchedIn, Says
  <2>4. QED
    BY <2>3, WatchedPrimed
<1>9. CASE LateCredentialsCome \/ BackoffElapsed \/ OnlineStateTimeout
  BY <1>2, <1>9 DEF LateCredentialsCome, BackoffElapsed, OnlineStateTimeout,
    wire, views
<1>10. CASE IdleTimeout \/ Faults
  <2>1. DOMAIN up' = {} /\ DOMAIN down' = {}
    BY <1>10, HungUpFacts
  <2>2. ASSUME NEW q \in TargetsOf(on')
        PROVE  WatchedIn(up', down', q)
    BY <2>1 DEF WatchedIn
  <2>3. QED
    BY <2>2, WatchedPrimed
<1>11. CASE Responses
  <2>1. down # << >> /\ down' = Tail(down) /\ UNCHANGED <<up, on>>
    BY <1>11, ResponsesFrame
  <2>2. ASSUME NEW q \in Targets
        PROVE  WatchedIn(up', down', q)
    BY <1>1, <2>1, WatchedTail DEF WatchedLast
  <2>3. QED
    BY <2>1, <2>2, WatchedPrimed DEF Targets, TargetsOf
<1>12. QED
  BY <1>3, <1>6, <1>7, <1>8, <1>9, <1>10, <1>11 DEF Next, Connecting, Timeouts

\* A view is in sync only of a target, after a snapshot, and as long as the
\* target is current it is active.
LEMMA SyncedStep ==
    ASSUME TypeOK, TypeOK', AcksAreUnderWay', OnlyOpen, SyncedMeans, [Next]_vars
    PROVE  SyncedMeans'
<1>1. /\ \A q \in Query : agg.acks[q] \in Int
      /\ agg.current \in SUBSET Query /\ agg.changed \in SUBSET Query
      /\ agg \in Aggregator
  BY DEF TypeOK, Aggregator
<1>2. Targets \in SUBSET Query
  BY TargetsAreQueries DEF TypeOK, Targets
<1>3. CASE /\ UNCHANGED <<agg, on, last>>
           /\ synced' \subseteq synced
  BY <1>3, SyncedPrimed DEF SyncedMeans, Targets, TargetsOf
<1>4. CASE UNCHANGED vars
  BY <1>3, <1>4 DEF vars
<1>5. CASE Backend
  BY <1>3, <1>5 DEF Backend, WriteDocuments, BackendAnswers, BackendSends, views
<1>6. CASE App
  <2>1. PICK l \in Listener : Listen(l) \/ Unlisten(l)
    BY <1>6 DEF App
  <2>2. /\ synced' \subseteq synced /\ last' = last
        /\ synced' \subseteq TargetsOf(on')
    BY <2>1, CallFacts DEF SyncedMeans
  <2>3. ASSUME NEW q \in synced'
        PROVE  agg'.acks[q] # 0 => q \notin agg'.current
    <3>1. q \in synced /\ q \in Targets /\ q \in Query /\ q \in TargetsOf(on')
      BY <1>2, <2>2 DEF SyncedMeans
    <3>2. CASE UNCHANGED agg
      BY <3>1, <3>2 DEF SyncedMeans
    <3>3. ASSUME NEW m \in Requests, Requested(m, m.query), q # m.query
          PROVE  agg'.acks[q] # 0 => q \notin agg'.current
      <4>1. agg'.acks[q] = agg.acks[q] /\ agg'.current = agg.current
        BY <1>1, <3>1, <3>3 DEF Requested
      <4>2. QED
        BY <3>1, <4>1 DEF SyncedMeans
    <3>4. QED
      BY <2>1, <3>1, <3>2, <3>3, CallFacts
  <2>4. QED
    BY <2>2, <2>3, SyncedPrimed DEF SyncedMeans
<1>7. CASE Connect
  <2>1. agg.current = {}
    BY <1>7 DEF Connect, IsOpen, OnlyOpen, NewAggregator
  <2>2. agg'.current = {}
    BY <1>1, <1>7, <2>1 DEF Connect, AfterSending, Aggregator
  <2>3. UNCHANGED <<synced, on, last>>
    BY <1>7 DEF Connect, views
  <2>4. QED
    BY <2>2, <2>3, SyncedPrimed DEF SyncedMeans, Targets, TargetsOf
<1>8. CASE LateCredentialsCome \/ BackoffElapsed
  BY <1>3, <1>8 DEF LateCredentialsCome, BackoffElapsed, views
<1>9. CASE OnlineStateTimeout
  BY <1>3, <1>9 DEF OnlineStateTimeout, SetOnlineState
<1>10. CASE IdleTimeout \/ Faults
  <2>1. agg'.current = {} /\ last' = last
    BY <1>10, HungUpFacts DEF NewAggregator
  <2>2. synced' \subseteq TargetsOf(on') /\ synced' \subseteq synced
    <3>1. synced \subseteq TargetsOf(on)
      BY DEF SyncedMeans, Targets
    <3>2. CASE synced' = {}
      BY <3>2
    <3>3. CASE synced' = synced /\ on' = on
      BY <3>1, <3>3
    <3>4. QED
      BY <1>10, <3>2, <3>3, HungUpFacts
  <2>3. \A q \in synced' : agg'.acks[q] # 0 => q \notin agg'.current
    BY <2>1
  <2>4. synced' # {} => last' >= 1
    BY <2>1, <2>2 DEF SyncedMeans
  <2>5. QED
    BY <2>2, <2>3, <2>4, SyncedPrimed
<1>11. CASE TargetAdded \/ TargetRemoved
  <2> DEFINE r == Head(down).query
  <2>1. /\ agg'.acks = [agg.acks EXCEPT ![r] = @ - 1]
        /\ agg'.current \subseteq agg.current
        /\ UNCHANGED <<synced, on, last>>
    <3>1. CASE TargetAdded
      BY <1>1, <3>1 DEF TargetAdded, views, Aggregator
    <3>2. CASE TargetRemoved
      BY <1>1, <3>2 DEF TargetRemoved, views, Aggregator
    <3>3. QED
      BY <1>11, <3>1, <3>2
  <2>2. ASSUME NEW q \in synced, agg'.acks[q] # 0
        PROVE  q \notin agg.current
    <3>1. q \in Query /\ agg.acks \in [Query -> Int]
      BY <1>1, <1>2 DEF SyncedMeans, Aggregator
    <3>2. agg'.acks[q] \in Nat
      BY <3>1, AcksPrimed
    <3>3. agg'.acks[q] = IF q = r THEN agg.acks[q] - 1 ELSE agg.acks[q]
      BY <2>1, <3>1
    <3>4. agg.acks[q] # 0
      BY <1>1, <2>2, <3>1, <3>2, <3>3
    <3>5. QED
      BY <3>4 DEF SyncedMeans
  <2>3. QED
    BY <2>1, <2>2, SyncedPrimed DEF SyncedMeans, Targets, TargetsOf
<1>12. CASE DocumentsChange
  <2> DEFINE taken == {q \in DOMAIN Head(down).versions : Active(q)}
  <2>1. /\ agg'.acks = agg.acks
        /\ agg'.current = agg.current \cup taken
        /\ UNCHANGED <<synced, on, last>>
    BY <1>1, <1>12 DEF DocumentsChange, views, Aggregator
  <2>2. ASSUME NEW q \in synced, agg'.acks[q] # 0
        PROVE  q \notin agg'.current
    BY <2>1, <2>2 DEF SyncedMeans, Active
  <2>3. QED
    BY <2>1, <2>2, SyncedPrimed DEF SyncedMeans, Targets, TargetsOf
<1>13. CASE SnapshotIgnored
  BY <1>3, <1>13 DEF SnapshotIgnored, views
<1>14. CASE SnapshotRaised
  <2> DEFINE changes == {q \in agg.changed : Active(q)}
  <2>1. /\ down # << >> /\ Head(down).kind = "snapshot"
        /\ last' = Head(down).time /\ on' = on
        /\ synced' = (synced \ changes) \cup (changes \cap agg.current)
        /\ agg'.acks = agg.acks /\ agg'.current = agg.current
    BY <1>1, <1>14 DEF SnapshotRaised, RaiseWatchSnapshot, Receive, Aggregator
  <2>2. last' >= 1
    <3>1. Head(down) = down[1] /\ 1 \in DOMAIN down
      BY <1>14, ResponsesFrame DEF Responses
    <3>2. Head(down).time \in Time
      BY <2>1, <3>1, WireTypes
    <3>3. QED
      BY <2>1, <3>2 DEF Time
  <2>3. changes \subseteq Targets /\ \A q \in changes : agg.acks[q] = 0
    BY DEF Active
  <2>4. synced' \subseteq TargetsOf(on')
    BY <2>1, <2>3 DEF SyncedMeans, Targets
  <2>5. \A q \in synced' : agg'.acks[q] # 0 => q \notin agg'.current
    BY <2>1, <2>3 DEF SyncedMeans
  <2>6. QED
    BY <2>2, <2>4, <2>5, SyncedPrimed
<1>15. QED
  BY <1>4, <1>5, <1>6, <1>7, <1>8, <1>9, <1>10, <1>11, <1>12, <1>13, <1>14
  DEF Next, Connecting, Timeouts, Responses

\* An active target stays supplied when a response is received.
LEMMA ActiveReceived ==
    ASSUME TypeOK, TypeOK', AcksAreUnderWay', OnlyOpen, WireInv, WatchedLast,
           WhileActive, Responses
    PROVE  WhileActive'
<1>1. /\ down # << >> /\ down' = Tail(down) /\ Head(down) = down[1]
      /\ 1 \in DOMAIN down
      /\ UNCHANGED <<past, backend, up, stream, on>>
      /\ down \in Seq(Response)
  BY ResponsesFrame, WireTypes
<1>2. IsOpen
  BY <1>1 DEF OnlyOpen
<1>3. agg \in Aggregator
  BY DEF TypeOK
<1>4. \A q \in Query : Held(q) \in Int /\ Held(q) >= 0
  BY WireTypes DEF Held, Newer
<1>5. ASSUME NEW q \in Query, Active(q), NEW g \in Int, g >= Held(q),
             \A v \in Int : Brings(down[1], q, v) => g >= v
      PROVE  SuppliedIn(down', past', backend'.sent, q, g)
  <2>1. SuppliedIn(down, past, backend.sent, q, Held(q))
    BY <1>2, <1>5 DEF WhileActive
  <2>2. backend.sent[q] \in Int
    <3>1. q \in DOMAIN backend.sent
      BY <2>1 DEF SuppliedIn
    <3>2. backend.sent[q] \in Version \cup {None}
      BY <3>1 DEF TypeOK, BackendState, Ends
    <3>3. QED
      BY <3>2 DEF Version, None
  <2>3. \A i \in DOMAIN down : down[i].kind = "snapshot" =>
           past[down[i].time][q] \in Int
    <3>1. SUFFICES ASSUME NEW i \in DOMAIN down, down[i].kind = "snapshot"
                   PROVE  past[down[i].time][q] \in Int
      OBVIOUS
    <3>2. down[i].time \in 1..Now
      BY <3>1, SnapshotTimes
    <3>3. past[down[i].time] \in [Query -> Version]
      BY <3>2, WireTypes
    <3>4. QED
      BY <3>3 DEF Version
  <2>4. SuppliedIn(Tail(down), past, backend.sent, q, g)
    BY <1>1, <1>4, <1>5, <2>1, <2>2, <2>3, SuppliedTail
  <2>5. QED
    BY <1>1, <2>4
<1>6. CASE TargetAdded \/ TargetRemoved
  <2> DEFINE r == Head(down).query
  <2>1. /\ agg'.acks = [agg.acks EXCEPT ![r] = @ - 1]
        /\ agg'.updates = agg.updates
        /\ cache' = cache
    <3>1. CASE TargetAdded
      BY <1>3, <3>1 DEF TargetAdded, Aggregator
    <3>2. CASE TargetRemoved
      BY <1>3, <3>2 DEF TargetRemoved, Aggregator
    <3>3. QED
      BY <1>6, <3>1, <3>2
  <2>2. \/ Says(down[1], "added", r)
        \/ Says(down[1], "removed", r)
    BY <1>1, <1>6 DEF TargetAdded, TargetRemoved, Receive, Says
  <2>3. ASSUME NEW q \in Query, q \in TargetsOf(on'), agg'.acks[q] = 0
        PROVE  SuppliedIn(down', past', backend'.sent, q, Held(q))
    <3>1. q \in Targets
      BY <1>1, <2>3 DEF Targets
    <3>2. /\ \A i \in DOMAIN up : ~Says(up[i], "watch", q)
          /\ \A i \in DOMAIN Tail(down) : /\ ~Says(Tail(down)[i], "added", q)
                                          /\ ~Says(Tail(down)[i], "removed", q)
      BY <1>1, <2>3, AcksPrimed
    <3>3. CASE q # r
      <4>1. Active(q)
        BY <1>3, <2>1, <2>3, <3>1, <3>3 DEF Active, Aggregator
      <4>2. \A v \in Int : ~Brings(down[1], q, v)
        BY <2>2 DEF Says, Brings
      <4>3. QED
        BY <1>4, <1>5, <4>1, <4>2
    <3>4. CASE q = r /\ Says(down[1], "added", r)
      <4>1. SuppliedIn(Tail(down), past, backend.sent, q, Held(q))
        BY <1>1, <3>2, <3>4, SuppliedAfterAdded DEF WireInv
      <4>2. QED
        BY <1>1, <4>1
    <3>5. CASE q = r /\ Says(down[1], "removed", r)
      <4>1. WatchedIn(up, down, q)
        BY <3>1 DEF WatchedLast
      <4>2. PICK j \in DOMAIN down : 1 < j /\ Says(down[j], "added", q)
        BY <1>1, <3>2, <3>5, <4>1 DEF WatchedIn
      <4>3. j - 1 \in DOMAIN Tail(down) /\ Tail(down)[j - 1] = down[j]
        BY <1>1, <4>2, TailFacts
      <4>4. QED
        BY <3>2, <4>2, <4>3
    <3>6. QED
      BY <2>2, <3>3, <3>4, <3>5
  <2>4. QED
    BY <2>1, <2>3, ActivePrimed DEF Held
<1>7. CASE DocumentsChange
  <2> DEFINE versions == Head(down).versions
             taken == {q \in DOMAIN versions : Active(q)}
  <2>1. /\ agg'.acks = agg.acks
        /\ agg'.updates = [q \in Query |-> IF q \in taken THEN versions[q]
                                          ELSE agg.updates[q]]
        /\ cache' = cache
        /\ down[1].kind = "documents"
    BY <1>1, <1>3, <1>7 DEF DocumentsChange, Receive, Aggregator
  <2>2. ASSUME NEW q \in Query, q \in TargetsOf(on'), agg'.acks[q] = 0
        PROVE  SuppliedIn(down', past', backend'.sent, q,
                          Newer(agg'.updates[q], cache'[q]))
    <3>1. Active(q)
      BY <1>1, <2>1, <2>2 DEF Active, Targets
    <3>2. /\ agg.updates[q] \in Int /\ agg.updates[q] >= 0
          /\ cache[q] \in Int /\ cache[q] >= 0
      BY WireTypes
    <3> DEFINE g == Newer(agg'.updates[q], cache'[q])
    <3>3. CASE q \in taken
      <4>1. /\ q \in DOMAIN down[1].versions
            /\ agg'.updates[q] = down[1].versions[q]
        BY <1>1, <2>1, <3>3
      <4>2. /\ down[1].versions[q] \in Version
            /\ agg.updates[q] <= down[1].versions[q]
        BY <1>1, <2>1, <4>1, DocumentsFacts
      <4>3. down[1].versions[q] \in Int
        BY <4>2 DEF Version
      <4>4. g \in Int /\ g >= Held(q) /\ g >= down[1].versions[q]
        BY <2>1, <3>2, <4>1, <4>2, <4>3 DEF Held, Newer
      <4>5. \A v \in Int : Brings(down[1], q, v) => g >= v
        BY <4>3, <4>4 DEF Brings
      <4> HIDE DEF g
      <4>6. SuppliedIn(down', past', backend'.sent, q, g)
        BY <1>5, <3>1, <4>4, <4>5
      <4>7. QED
        BY <4>6 DEF g
    <3>4. CASE q \notin taken
      <4>1. q \notin DOMAIN down[1].versions
        BY <1>1, <3>1, <3>4
      <4>2. g = Held(q)
        BY <2>1, <3>4 DEF Held
      <4>3. \A v \in Int : ~Brings(down[1], q, v)
        BY <4>1 DEF Brings
      <4>4. SuppliedIn(down', past', backend'.sent, q, Held(q))
        BY <1>4, <1>5, <3>1, <4>3
      <4>5. QED
        BY <4>2, <4>4
    <3>5. QED
      BY <3>3, <3>4
  <2>3. QED
    BY <2>2, ActivePrimed
<1>8. CASE SnapshotIgnored \/ SnapshotRaised
  <2>1. agg'.acks = agg.acks /\ down[1].kind = "snapshot"
    BY <1>1, <1>3, <1>8
    DEF SnapshotIgnored, SnapshotRaised, RaiseWatchSnapshot, Receive, Aggregator
  <2>2. ASSUME NEW q \in Query
        PROVE  Newer(agg'.updates[q], cache'[q]) = Held(q)
    <3>1. CASE SnapshotIgnored
      BY <3>1 DEF SnapshotIgnored, Held
    <3>2. CASE SnapshotRaised
      <4>1. agg'.updates[q] = 0 /\ cache'[q] = Held(q)
        BY <1>3, <3>2 DEF SnapshotRaised, RaiseWatchSnapshot, Aggregator, Held
      <4>2. QED
        BY <1>4, <4>1 DEF Newer
    <3>3. QED
      BY <1>8, <3>1, <3>2
  <2>3. ASSUME NEW q \in Query, q \in TargetsOf(on'), agg'.acks[q] = 0
        PROVE  SuppliedIn(down', past', backend'.sent, q, Held(q))
    <3>1. Active(q)
      BY <1>1, <2>1, <2>3 DEF Active, Targets
    <3>2. \A v \in Int : ~Brings(down[1], q, v)
      BY <2>1 DEF Brings
    <3>3. QED
      BY <1>4, <1>5, <3>1, <3>2
  <2>4. QED
    BY <2>2, <2>3, ActivePrimed
<1>9. QED
  BY <1>6, <1>7, <1>8 DEF Responses

\* An active target stays supplied, whatever happens.
LEMMA ActiveStep ==
    ASSUME TypeOK, TypeOK', AcksAreUnderWay, AcksAreUnderWay', OnlyOpen, Growing,
           WireInv, WatchedLast, WhileActive, [Next]_vars
    PROVE  WhileActive'
<1>1. down \in Seq(Response) /\ agg \in Aggregator
  BY WireTypes DEF TypeOK
<1>2. CASE /\ UNCHANGED <<past, backend, down, agg, cache, on>>
           /\ stream'.state = "open" => IsOpen
  <2>1. ASSUME IsOpen, NEW q \in Query, q \in TargetsOf(on'), agg'.acks[q] = 0
        PROVE  SuppliedIn(down', past', backend'.sent, q,
                          Newer(agg'.updates[q], cache'[q]))
    <3>1. SuppliedIn(down, past, backend.sent, q, Held(q))
      BY <1>2, <2>1 DEF WhileActive, Active, Targets
    <3>2. QED
      BY <1>2, <3>1 DEF Held
  <2>2. QED
    BY <1>2, <2>1, ActivePrimed
<1>3. CASE UNCHANGED vars
  BY <1>2, <1>3 DEF vars, IsOpen
\* The targets and the counts are left alone.
<1>4. ASSUME UNCHANGED <<agg, cache, on, stream>>,
             \A q \in Query : Active(q) /\ IsOpen =>
                SuppliedIn(down', past', backend'.sent, q, Held(q))
      PROVE  WhileActive'
  <2>1. ASSUME IsOpen, NEW q \in Query, q \in TargetsOf(on'), agg'.acks[q] = 0
        PROVE  SuppliedIn(down', past', backend'.sent, q,
                          Newer(agg'.updates[q], cache'[q]))
    <3>1. SuppliedIn(down', past', backend'.sent, q, Held(q))
      BY <1>4, <2>1 DEF Active, Targets
    <3>2. QED
      BY <1>4, <3>1 DEF Held
  <2>2. QED
    BY <1>4, <2>1, ActivePrimed DEF IsOpen
<1>5. ASSUME NEW w \in Query, WriteDocuments(w)
      PROVE  WhileActive'
  <2>1. \A i \in DOMAIN down : down[i].kind = "snapshot" =>
           past'[down[i].time] = past[down[i].time]
    BY <1>5, WireWritten
  <2>2. UNCHANGED <<backend, down, agg, cache, on, stream>>
    BY <1>5 DEF WriteDocuments, wire, views
  <2>3. ASSUME NEW q \in Query, Active(q), IsOpen
        PROVE  SuppliedIn(down', past', backend'.sent, q, Held(q))
    <3>1. SuppliedIn(down, past, backend.sent, q, Held(q))
      BY <2>3 DEF WhileActive
    <3>2. SuppliedIn(down, past', backend.sent, q, Held(q))
      BY <2>1, <3>1, SuppliedGoesOn
    <3>3. QED
      BY <2>2, <3>2
  <2>4. QED
    BY <1>4, <2>2, <2>3
<1>6. CASE BackendAnswers
  <2> DEFINE r == Head(up).query
  <2>1. PICK m \in Response :
           /\ down' = Append(down, m)
           /\ Answered(m, r, backend.sent, backend'.sent)
           /\ Says(up[1], "watch", r) \/ Says(up[1], "unwatch", r)
    BY <1>6, AnswerFacts
  <2>2. UNCHANGED <<past, agg, cache, on, stream>>
    BY <1>6 DEF BackendAnswers, views
  <2>3. 1 \in DOMAIN up
    BY <1>6, TailFacts DEF BackendAnswers, TypeOK
  <2>4. ASSUME NEW q \in Query, Active(q), IsOpen
        PROVE  SuppliedIn(down', past', backend'.sent, q, Held(q))
    <3>1. SuppliedIn(down, past, backend.sent, q, Held(q))
      BY <2>4 DEF WhileActive
    <3>2. ~Says(up[1], "watch", q) /\ ~Says(up[1], "unwatch", q)
      BY <2>3, <2>4, AcksFacts DEF Active
    <3>3. q # r
      BY <2>1, <3>2
    <3>4. SuppliedIn(Append(down, m), past, backend'.sent, q, Held(q))
      BY <1>1, <2>1, <3>1, <3>3, AnswerSupplied
    <3>5. QED
      BY <2>1, <2>2, <3>4
  <2>5. QED
    BY <1>4, <2>2, <2>4
<1>7. ASSUME NEW t \in Time, t >= backend.time, t <= Now, BackendSends(t)
      PROVE  WhileActive'
  <2>1. PICK D \in Response, N \in Response :
           /\ down' = Append(Append(down, D), N)
           /\ Sending(D, N, t, past, backend.sent, backend'.sent)
    BY <1>7, SendingFacts
  <2>2. past[t] \in [Query -> Version]
    BY <1>7, SendingFacts
  <2>3. UNCHANGED <<past, agg, cache, on, stream>>
    BY <1>7 DEF BackendSends, views
  <2>4. ASSUME NEW q \in Query, Active(q), IsOpen
        PROVE  SuppliedIn(down', past', backend'.sent, q, Held(q))
    <3>1. SuppliedIn(down, past, backend.sent, q, Held(q))
      BY <2>4 DEF WhileActive
    <3>2. SuppliedIn(Append(Append(down, D), N), past, backend'.sent, q, Held(q))
      BY <1>1, <2>1, <2>2, <3>1, SendSupplied
    <3>3. QED
      BY <2>1, <2>3, <3>2
  <2>5. QED
    BY <1>4, <2>3, <2>4
<1>8. CASE App
  <2>1. PICK l \in Listener : Listen(l) \/ Unlisten(l)
    BY <1>8 DEF App
  <2>2. /\ UNCHANGED <<past, backend, down, cache>>
        /\ stream'.state = "open" => IsOpen
    BY <2>1, CallFacts
  <2>3. ASSUME IsOpen, NEW q \in Query, q \in TargetsOf(on'), agg'.acks[q] = 0
        PROVE  /\ Active(q)
               /\ agg'.updates = agg.updates
    <3>1. CASE UNCHANGED agg /\ TargetsOf(on') \subseteq Targets
      BY <2>3, <3>1 DEF Active
    <3>2. ASSUME NEW m \in Requests, Requested(m, m.query),
                 TargetsOf(on') \subseteq Targets \cup {m.query}
          PROVE  /\ Active(q)
                 /\ agg'.updates = agg.updates
      <4>1. agg.acks[q] \in Nat
        BY AcksFacts
      <4>2. agg'.acks[q] = agg.acks[q] + IF q = m.query THEN 1 ELSE 0
        BY <3>2 DEF Requested
      <4>3. agg.acks[q] = 0 /\ q # m.query
        BY <2>3, <4>1, <4>2
      <4>4. QED
        BY <2>3, <3>2, <4>3 DEF Active, Requested
    <3>3. QED
      BY <2>1, <2>3, <3>1, <3>2, CallFacts
  <2>4. ASSUME IsOpen, NEW q \in Query, q \in TargetsOf(on'), agg'.acks[q] = 0
        PROVE  SuppliedIn(down', past', backend'.sent, q,
                          Newer(agg'.updates[q], cache'[q]))
    <3>1. SuppliedIn(down, past, backend.sent, q, Held(q))
      BY <2>3, <2>4 DEF WhileActive
    <3>2. agg'.updates = agg.updates
      BY <2>3, <2>4
    <3>3. QED
      BY <2>2, <3>1, <3>2 DEF Held
  <2>5. QED
    BY <2>2, <2>4, ActivePrimed
<1>9. CASE Connect
  <2>1. on' = on /\ \A q \in Targets : agg'.acks[q] # 0
    BY <1>9, ConnectAcks DEF Connect, views
  <2>2. QED
    BY <2>1, ActivePrimed DEF Targets
<1>10. CASE LateCredentialsCome \/ OnlineStateTimeout
  <2>1. stream'.state = "open" => IsOpen
    BY <1>10 DEF LateCredentialsCome, OnlineStateTimeout, IsOpen, TypeOK,
      StreamState
  <2>2. QED
    BY <1>2, <1>10, <2>1 DEF LateCredentialsCome, OnlineStateTimeout, world,
      wire, views
<1>11. CASE IdleTimeout \/ Faults \/ BackoffElapsed
  <2>1. stream'.state # "open"
    BY <1>11, HungUpFacts DEF BackoffElapsed, Starting
  <2>2. QED
    BY <2>1, ActivePrimed
<1>12. QED
  BY <1>3, <1>5, <1>6, <1>7, <1>8, <1>9, <1>10, <1>11, ActiveReceived
  DEF Next, Backend, Connecting, Timeouts

-----------------------------------------------------------------------------
(* The views.                                                              *)

\* The copy goes by the last snapshot, and no view is confirmed anew.
LEMMA ViewsKept ==
    ASSUME ViewsAreConsistent, UNCHANGED <<cache, last>>,
           synced # {} => past'[last] = past[last],
           \A q \in synced' :
              /\ q \in TargetsOf(on') /\ agg'.acks[q] = 0
              /\ q \in agg'.current /\ q \notin agg'.changed
              => q \in Confirmed
    PROVE  ViewsAreConsistent'
<1>1. ASSUME NEW q \in Confirmed
      PROVE  cache'[q] = past'[last'][q]
  <2>1. synced # {} /\ cache[q] = past[last][q]
    BY DEF ViewsAreConsistent, Confirmed
  <2>2. QED
    BY <2>1
<1>2. QED
  BY <1>1, ViewsPrimed

LEMMA ViewsReceived ==
    ASSUME TypeOK, TypeOK', AcksAreUnderWay', OnlyOpen, WireInv, WhileActive,
           SyncedMeans, ViewsAreConsistent, Responses
    PROVE  ViewsAreConsistent'
<1>1. /\ down # << >> /\ down' = Tail(down) /\ Head(down) = down[1]
      /\ 1 \in DOMAIN down
      /\ UNCHANGED <<past, backend, up, stream, on>>
  BY ResponsesFrame
<1>2. agg \in Aggregator
  BY DEF TypeOK
<1>3. Targets \in SUBSET Query
  BY TargetsAreQueries DEF TypeOK, Targets
<1>4. CASE TargetAdded \/ TargetRemoved
  <2> DEFINE r == Head(down).query
  <2>1. /\ agg'.acks = [agg.acks EXCEPT ![r] = @ - 1]
        /\ agg'.current \subseteq agg.current
        /\ \A q \in agg.changed : q = r \/ q \in agg'.changed
        /\ UNCHANGED <<synced, cache, last>>
    <3>1. CASE TargetAdded
      BY <1>2, <3>1 DEF TargetAdded, views, Aggregator
    <3>2. CASE TargetRemoved
      BY <1>2, <3>2 DEF TargetRemoved, views, Aggregator
    <3>3. QED
      BY <1>4, <3>1, <3>2
  <2>2. ASSUME NEW q \in synced, q \in TargetsOf(on'), agg'.acks[q] = 0,
               q \in agg'.current, q \notin agg'.changed
        PROVE  q \in Confirmed
    <3>1. q \in Query /\ q \in Targets /\ q \in agg.current
      BY <1>1, <1>3, <2>1, <2>2 DEF Targets
    <3>2. agg.acks[q] = 0
      BY <3>1 DEF SyncedMeans
    <3>3. q # r
      BY <1>2, <2>1, <2>2, <3>1, <3>2 DEF Aggregator
    <3>4. QED
      BY <2>1, <2>2, <3>1, <3>2, <3>3 DEF Confirmed, Active
  <2>3. QED
    BY <1>1, <2>1, <2>2, ViewsKept
<1>5. CASE DocumentsChange
  <2> DEFINE taken == {q \in DOMAIN Head(down).versions : Active(q)}
  <2>1. /\ agg'.acks = agg.acks
        /\ agg'.current = agg.current \cup taken
        /\ agg'.changed = agg.changed \cup taken
        /\ UNCHANGED <<synced, cache, last>>
    BY <1>2, <1>5 DEF DocumentsChange, views, Aggregator
  <2>2. ASSUME NEW q \in synced, q \in TargetsOf(on'), agg'.acks[q] = 0,
               q \in agg'.current, q \notin agg'.changed
        PROVE  q \in Confirmed
    BY <1>1, <2>1, <2>2 DEF Confirmed, Active, Targets
  <2>3. QED
    BY <1>1, <2>1, <2>2, ViewsKept
<1>6. CASE SnapshotIgnored
  <2>1. UNCHANGED <<synced, agg, cache, last>>
    BY <1>6 DEF SnapshotIgnored, views
  <2>2. QED
    BY <1>1, <2>1, ViewsKept DEF Confirmed, Active, Targets
<1>7. CASE SnapshotRaised
  <2>1. /\ down[1].kind = "snapshot" /\ last' = down[1].time
        /\ last <= down[1].time
        /\ agg'.acks = agg.acks
        /\ cache' = [q \in Query |-> Held(q)]
    <3>1. /\ Head(down).kind = "snapshot" /\ Head(down).time >= last
          /\ RaiseWatchSnapshot(Head(down).time)
      BY <1>7 DEF SnapshotRaised, Receive
    <3>2. Head(down).time \in Int /\ last \in Int
      BY <1>1, <3>1, WireTypes DEF Time
    <3>3. agg'.acks = agg.acks
      BY <1>2, <3>1 DEF RaiseWatchSnapshot, Aggregator
    <3>4. QED
      BY <1>1, <3>1, <3>2, <3>3 DEF RaiseWatchSnapshot, Held
  <2>2. ASSUME NEW q, q \in TargetsOf(on'), agg'.acks[q] = 0
        PROVE  cache'[q] = past'[last'][q]
    <3>1. q \in Query /\ Active(q)
      BY <1>1, <1>3, <2>1, <2>2 DEF Active, Targets
    <3>2. IsOpen
      BY <1>1 DEF OnlyOpen
    <3>3. SuppliedIn(down, past, backend.sent, q, Held(q))
      BY <3>1, <3>2 DEF WhileActive
    <3>4. \A j \in DOMAIN down : ~(j < 1)
      BY WireTypes
    <3>5. Held(q) >= past[down[1].time][q]
      BY <1>1, <2>1, <3>3, <3>4 DEF SuppliedIn
    <3>6. /\ Held(q) <= past[down[1].time][q]
          /\ Held(q) \in Int
          /\ past[down[1].time][q] \in Version
      BY <1>1, <2>1, <3>1, SnapshotFacts
    <3>7. Held(q) = past[down[1].time][q]
      BY <3>5, <3>6 DEF Version
    <3>8. QED
      BY <1>1, <2>1, <3>1, <3>7
  <2>3. QED
    BY <2>2, ViewsPrimed
<1>8. QED
  BY <1>4, <1>5, <1>6, <1>7 DEF Responses

LEMMA ViewsStep ==
    ASSUME TypeOK, TypeOK', AcksAreUnderWay', OnlyOpen, Growing, WireInv,
           WhileActive, SyncedMeans, ViewsAreConsistent, [Next]_vars
    PROVE  ViewsAreConsistent'
<1>1. agg \in Aggregator
  BY DEF TypeOK
<1>2. Targets \in SUBSET Query
  BY TargetsAreQueries DEF TypeOK, Targets
<1>3. CASE /\ UNCHANGED <<past, cache, last, agg, on>>
           /\ synced' \subseteq synced
  <2>1. \A q \in synced' :
           /\ q \in TargetsOf(on') /\ agg'.acks[q] = 0
           /\ q \in agg'.current /\ q \notin agg'.changed
           => q \in Confirmed
    BY <1>3 DEF Confirmed, Active, Targets
  <2>2. QED
    BY <1>3, <2>1, ViewsKept
<1>4. CASE UNCHANGED vars
  BY <1>3, <1>4 DEF vars
<1>5. ASSUME NEW w \in Query, WriteDocuments(w)
      PROVE  ViewsAreConsistent'
  <2>1. UNCHANGED <<cache, last, agg, on, synced>>
    BY <1>5 DEF WriteDocuments, views
  <2>2. synced # {} => past'[last] = past[last]
    <3>1. GoesOn(past, past')
      BY <1>5, WireWritten
    <3>2. synced # {} => last \in 1..Len(past)
      BY WireTypes DEF SyncedMeans, WireInv, Now
    <3>3. QED
      BY <3>1, <3>2 DEF GoesOn
  <2>3. \A q \in synced' :
           /\ q \in TargetsOf(on') /\ agg'.acks[q] = 0
           /\ q \in agg'.current /\ q \notin agg'.changed
           => q \in Confirmed
    BY <2>1 DEF Confirmed, Active, Targets
  <2>4. QED
    BY <2>1, <2>2, <2>3, ViewsKept
<1>6. CASE Backend
  <2>1. CASE BackendAnswers
    BY <1>3, <2>1 DEF BackendAnswers, views
  <2>2. ASSUME NEW t, BackendSends(t)
        PROVE  ViewsAreConsistent'
    BY <1>3, <2>2 DEF BackendSends, views
  <2>3. QED
    BY <1>5, <1>6, <2>1, <2>2 DEF Backend
<1>7. CASE App
  <2>1. PICK l \in Listener : Listen(l) \/ Unlisten(l)
    BY <1>7 DEF App
  <2>2. /\ UNCHANGED <<past, cache, last>>
        /\ synced' \subseteq synced
    BY <2>1, CallFacts
  <2>3. ASSUME NEW q \in synced', q \in TargetsOf(on'), agg'.acks[q] = 0,
               q \in agg'.current, q \notin agg'.changed
        PROVE  q \in Confirmed
    <3>1. q \in synced /\ q \in Targets /\ q \in Query
      BY <1>2, <2>2 DEF SyncedMeans
    <3>2. CASE UNCHANGED agg
      BY <2>3, <3>1, <3>2 DEF Confirmed, Active
    <3>3. ASSUME NEW m \in Requests, Requested(m, m.query), q # m.query
          PROVE  q \in Confirmed
      <4>1. agg'.acks[q] = agg.acks[q]
        BY <1>1, <3>1, <3>3 DEF Requested, Aggregator
      <4>2. QED
        BY <2>3, <3>1, <3>3, <4>1 DEF Confirmed, Active, Requested
    <3>4. QED
      BY <2>1, <2>3, <3>1, <3>2, <3>3, CallFacts
  <2>4. QED
    BY <2>2, <2>3, ViewsKept
<1>8. CASE Connect
  <2>1. agg.current = {}
    BY <1>8 DEF Connect, IsOpen, OnlyOpen, NewAggregator
  <2>2. agg'.current = {}
    BY <1>1, <1>8, <2>1 DEF Connect, AfterSending, Aggregator
  <2>3. QED
    BY <2>2, ViewsPrimed
<1>9. CASE LateCredentialsCome \/ BackoffElapsed
  BY <1>3, <1>9 DEF LateCredentialsCome, BackoffElapsed, world, views
<1>10. CASE OnlineStateTimeout
  BY <1>3, <1>10 DEF OnlineStateTimeout, SetOnlineState, world
<1>11. CASE IdleTimeout \/ Faults
  <2>1. agg'.current = {}
    BY <1>11, HungUpFacts DEF NewAggregator
  <2>2. QED
    BY <2>1, ViewsPrimed
<1>12. QED
  BY <1>4, <1>6, <1>7, <1>8, <1>9, <1>10, <1>11, ViewsReceived
  DEF Next, Connecting, Timeouts

-----------------------------------------------------------------------------
(* All of it together.                                                     *)

\* The inductive invariant.
ViewInv == WireInv /\ WatchedLast /\ WhileActive /\ SyncedMeans /\ ViewsAreConsistent

LEMMA InitViewInv == Init => ViewInv
<1> SUFFICES ASSUME Init PROVE ViewInv
  OBVIOUS
<1>1. /\ past = << Initially >> /\ last = 0 /\ backend.time = 0
      /\ DOMAIN down = {} /\ DOMAIN up = {}
      /\ \A q \in Query : ~(cache[q] > 0) /\ ~(agg.updates[q] > 0)
      /\ synced = {} /\ Targets = {}
  BY DEF Init, NoBackend, NewAggregator, Targets, TargetsOf
<1>2. Growth(past) /\ Now = 1
  <2>1. Len(past) = 1 /\ past[1] = Initially
    BY <1>1
  <2>2. past \in Seq([Query -> Version])
    BY InitTypeOK DEF TypeOK
  <2>3. \A q \in Query : Initially[q] <= Initially[q]
    BY InitiallyAssumption
  <2>4. \A t \in 1..Len(past) : t = 1
    BY <2>1
  <2>5. QED
    BY <2>1, <2>2, <2>3, <2>4 DEF Growth, Now
<1>3. WireInv
  BY <1>1, <1>2 DEF WireInv, PairedIn, OrderedIn, NotAhead, AfterAddedIn
<1>4. QED
  BY <1>1, <1>3
  DEF ViewInv, WatchedLast, WhileActive, SyncedMeans, ViewsAreConsistent,
      Confirmed, Active

LEMMA ViewInvStep ==
    ASSUME TypeOK, TypeOK', AcksAreUnderWay, AcksAreUnderWay', OnlyOpen, Genuine,
           ViewInv, [Next]_vars
    PROVE  ViewInv'
<1>1. Growing
  BY DEF Genuine
<1>2. WireInv' /\ WatchedLast' /\ WhileActive' /\ SyncedMeans' /\ ViewsAreConsistent'
  BY <1>1, WireStep, WatchedStep, ActiveStep, SyncedStep, ViewsStep DEF ViewInv
<1>3. QED
  BY <1>2 DEF ViewInv

\* The views in sync show one state of the database together, that of the
\* last snapshot, whatever targets are removed and added again, and whichever
\* stream the answers come on.
THEOREM ViewsAlwaysConsistent == Spec => []ViewsAreConsistent
<1>1. Spec => []Genuine
  BY InitGenuine, TypeCorrect, GenuineStep, PTL DEF Spec
<1>2. /\ TypeOK /\ TypeOK' /\ (AcksAreUnderWay /\ OnlyOpen)
      /\ (AcksAreUnderWay /\ OnlyOpen)' /\ Genuine /\ ViewInv /\ [Next]_vars
      => ViewInv'
  BY ViewInvStep
<1>3. ViewInv => ViewsAreConsistent
  BY DEF ViewInv
<1>4. QED
  BY <1>1, <1>2, <1>3, InitViewInv, TypeCorrect, AcksAlways, PTL DEF Spec
=============================================================================
