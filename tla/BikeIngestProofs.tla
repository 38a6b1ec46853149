-------------------------- MODULE BikeIngestProofs --------------------------
(***************************************************************************)
(* Theorems about BikeIngest, for every set of processes, stations and     *)
(* sources, every window length and every bound on the clock.              *)
(***************************************************************************)
EXTENDS BikeIngestShared, TLAPS

-----------------------------------------------------------------------------
(* Facts about the operators the pipeline is built from.                   *)

\* A window that slides stays a window.
LEMMA SlideType ==
  ASSUME NEW w \in Window, NEW h \in Stamp
  PROVE  BB!Slide(w, h) \in Window
BY WindowAssumption DEF Window, BB!Window, BB!Slide

\* Extending a table gives a table.
LEMMA ExtendType ==
  ASSUME NEW t \in Table, NEW R, NEW h \in Stamp
  PROVE  BB!Extend(t, R, h) \in Table
<1>1. ASSUME NEW s \in Tracked
      PROVE  (IF s \in R THEN BB!Slide(t[s], h) ELSE t[s]) \in Window
  BY SlideType DEF Table
<1> QED
  BY <1>1 DEF Table, BB!Extend

\* Overlaying documents with windows of tracked stations gives documents.
LEMMA OverlayType ==
  ASSUME NEW docs \in [Documented -> Window], NEW t \in Table,
         NEW R \in SUBSET Tracked
  PROVE  BB!Overlay(docs, t, R) \in [Documented -> Window]
BY DEF Table, BB!Overlay

LEMMA BlankType == Blank \in Table /\ NoAnswer \in Answer
<1>1. Old \in Stamp
  BY DEF Stamp
<1> QED
  BY <1>1 DEF Blank, Table, Window, BB!Window, NoAnswer, Answer

-----------------------------------------------------------------------------
(* Type correctness.  The stations of a transformed answer are tracked,    *)
(* which the commit needs.                                                 *)

TransformedIsTracked ==
    \A p \in Proc : pc[p] \in {"opening", "flushing", "committing"} =>
                       resp[p].stations \subseteq Tracked

Typed == TypeOK /\ TransformedIsTracked

LEMMA TypedInit == Init => Typed
<1> SUFFICES ASSUME Init PROVE Typed
  OBVIOUS
<1>1. 0 \in Time /\ Old \in Stamp
  BY ClockAssumption DEF Time, Stamp
<1>2. [s \in Documented |-> [i \in 1..W |-> Old]] \in [Documented -> Window]
  BY <1>1 DEF Window, BB!Window
<1> QED
  BY <1>1, <1>2, BlankType DEF Init, Typed, TypeOK, TransformedIsTracked, Phase, FileState

LEMMA TypedStep == Typed /\ [Next]_vars => Typed'
<1> SUFFICES ASSUME Typed, [Next]_vars PROVE Typed'
  OBVIOUS
<1> USE DEF Typed, TypeOK, TransformedIsTracked, Phase, FileState
<1>1. ASSUME NEW src \in Source, Refresh(src) PROVE Typed'
  <2>1. clock' \in Time
    BY <1>1, ClockAssumption DEF Refresh, Time
  <2> QED
    BY <1>1, <2>1 DEF Refresh
<1>2. ASSUME NEW p \in Proc, Crash(p) PROVE Typed'
  BY <1>2, BlankType DEF Crash, Leave, Goto
<1>3. ASSUME NEW p \in Proc, Restart(p) PROVE Typed'
  BY <1>3 DEF Restart, Goto
<1>4. ASSUME NEW p \in Proc, Fire(p) PROVE Typed'
  BY <1>4 DEF Fire, Goto
<1>5. ASSUME NEW p \in Proc, Respond(p) PROVE Typed'
  <2>1. [source |-> source[p], time |-> feed[source[p]]] \in Stamp
    BY DEF Stamp
  <2> QED
    BY <1>5, <2>1 DEF Respond, Goto, Answer
<1>6. ASSUME NEW p \in Proc, FetchFails(p) PROVE Typed'
  BY <1>6, BlankType DEF FetchFails, Leave, Goto
<1>7. ASSUME NEW p \in Proc, Transform(p) PROVE Typed'
  <2>1. BB!Extend(saved, resp[p].stations, resp[p].stamp) \in Table
    BY ExtendType DEF Answer
  <2> QED
    BY <1>7, <2>1 DEF Transform, Transformable, Goto
<1>8. ASSUME NEW p \in Proc, TransformRaises(p) PROVE Typed'
  BY <1>8, BlankType DEF TransformRaises, Leave, Goto
<1>9. ASSUME NEW p \in Proc, OpenCsv(p) PROVE Typed'
  BY <1>9 DEF OpenCsv, Goto
<1>10. ASSUME NEW p \in Proc, FlushCsv(p) PROVE Typed'
  BY <1>10 DEF FlushCsv, Goto
<1>11. ASSUME NEW p \in Proc, Commit(p) PROVE Typed'
  <2>1. BB!Overlay(board, frame[p], resp[p].stations) \in [Documented -> Window]
    BY <1>11, OverlayType DEF Commit
  <2> QED
    BY <1>11, <2>1, BlankType DEF Commit, Leave, Goto
<1>12. ASSUME NEW p \in Proc, CommitFails(p) PROVE Typed'
  BY <1>12, BlankType DEF CommitFails, Leave, Goto
<1>13. CASE UNCHANGED vars
  BY <1>13 DEF vars
<1> QED
  BY <1>1, <1>2, <1>3, <1>4, <1>5, <1>6, <1>7, <1>8, <1>9, <1>10, <1>11, <1>12,
     <1>13 DEF Next, Local

LEMMA TypedAlways == Spec => []Typed
BY TypedInit, TypedStep, PTL DEF Spec

\* The state of the ingest job keeps its type, whatever the processes do.
THEOREM TypeCorrect == Spec => []TypeOK
<1>1. Typed => TypeOK
  BY DEF Typed
<1> QED
  BY <1>1, TypedAlways, PTL

-----------------------------------------------------------------------------
(* A save that is interrupted after the truncation silences the service:   *)
(* no later step of any process changes the file or the board.             *)

LEMMA SilencedStep ==
  ASSUME Typed, Silenced, [Next]_vars
  PROVE  Silenced' /\ UNCHANGED <<csv, saved, board>>
<1> USE DEF Typed, TypeOK, Silenced
<1>1. ASSUME NEW src \in Source, Refresh(src) PROVE Silenced' /\ UNCHANGED <<csv, saved, board>>
  BY <1>1 DEF Refresh
<1>2. ASSUME NEW p \in Proc, Crash(p) \/ Restart(p)
      PROVE  Silenced' /\ UNCHANGED <<csv, saved, board>>
  BY <1>2 DEF Crash, Restart, Leave, Goto
<1>3. ASSUME NEW p \in Proc, Fire(p) \/ Respond(p) \/ FetchFails(p)
      PROVE  Silenced' /\ UNCHANGED <<csv, saved, board>>
  BY <1>3 DEF Fire, Respond, FetchFails, Leave, Goto
<1>4. ASSUME NEW p \in Proc, Transform(p) PROVE FALSE
  BY <1>4 DEF Transform, Transformable
<1>5. ASSUME NEW p \in Proc, TransformRaises(p)
      PROVE  Silenced' /\ UNCHANGED <<csv, saved, board>>
  BY <1>5 DEF TransformRaises, Leave, Goto
<1>6. ASSUME NEW p \in Proc, OpenCsv(p) \/ FlushCsv(p) \/ Commit(p) \/ CommitFails(p)
      PROVE  FALSE
  BY <1>6 DEF OpenCsv, FlushCsv, Commit, CommitFails
<1>7. CASE UNCHANGED vars
  BY <1>7 DEF vars
<1> QED
  BY <1>1, <1>2, <1>3, <1>4, <1>5, <1>6, <1>7 DEF Next, Local

\* After a save torn by a crash, or by a second writer, the file and the
\* board never change again, however many processes there are.
THEOREM LossIsForGood == Spec => LossIsPermanent
<1>1. Typed /\ [Next]_vars =>
         [Silenced => Silenced' /\ UNCHANGED <<csv, saved, board>>]_vars
  BY SilencedStep
<1> QED
  BY <1>1, TypedAlways, PTL DEF Spec, LossIsPermanent

-----------------------------------------------------------------------------
(* One process: the job implements the abstract board.  The invariant ties *)
(* the table in memory to the one in the file through the whole save.      *)

OneProcess == \A p, q \in Proc : p = q

InStep ==
    \A p \in Proc :
        /\ pc[p] \in {"opening", "flushing"} =>
              frame[p] = BB!Extend(saved, resp[p].stations, resp[p].stamp)
        /\ pc[p] = "flushing" => csv = "empty"
        /\ pc[p] = "committing" => frame[p] = saved /\ last = resp[p].stations

LEMMA InStepInit == Init => InStep
BY DEF Init, InStep

LEMMA InStepStep ==
  ASSUME OneProcess, Typed, InStep, [Next]_vars
  PROVE  InStep'
<1> USE DEF Typed, TypeOK, InStep, OneProcess
<1>1. ASSUME NEW src \in Source, Refresh(src) PROVE InStep'
  BY <1>1 DEF Refresh
<1>2. ASSUME NEW p \in Proc, Crash(p) \/ Restart(p) \/ Fire(p) \/ FetchFails(p)
      PROVE  InStep'
  BY <1>2 DEF Crash, Restart, Fire, FetchFails, Leave, Goto
<1>3. ASSUME NEW p \in Proc, Respond(p) PROVE InStep'
  BY <1>3 DEF Respond, Goto
<1>4. ASSUME NEW p \in Proc, Transform(p) PROVE InStep'
  BY <1>4 DEF Transform, Goto
<1>5. ASSUME NEW p \in Proc, TransformRaises(p) \/ Commit(p) \/ CommitFails(p)
      PROVE  InStep'
  BY <1>5 DEF TransformRaises, Commit, CommitFails, Leave, Goto
<1>6. ASSUME NEW p \in Proc, OpenCsv(p) PROVE InStep'
  BY <1>6 DEF OpenCsv, Goto
<1>7. ASSUME NEW p \in Proc, FlushCsv(p) PROVE InStep'
  BY <1>7 DEF FlushCsv, Goto
<1>8. CASE UNCHANGED vars
  BY <1>8 DEF vars
<1> QED
  BY <1>1, <1>2, <1>3, <1>4, <1>5, <1>6, <1>7, <1>8 DEF Next, Local

LEMMA InStepAlways ==
  ASSUME OneProcess
  PROVE  Spec => [](Typed /\ InStep)
<1>1. Typed /\ InStep /\ [Next]_vars => InStep'
  BY InStepStep, OneProcess
<1> QED
  BY <1>1, InStepInit, TypedAlways, PTL DEF Spec

\* A flush by the only process saves the file's table extended by the
\* answer its cycle works on.
LEMMA FlushSaves ==
  ASSUME Typed, InStep, NEW p \in Proc, FlushCsv(p)
  PROVE  /\ saved' = BB!Extend(saved, resp[p].stations, resp[p].stamp)
         /\ last' = resp[p].stations
BY DEF Typed, TypeOK, InStep, FlushCsv

\* Only a flush changes the saved rows, only a commit the board.
LEMMA QuietSteps ==
  ASSUME [Next]_vars, \A p \in Proc : ~FlushCsv(p)
  PROVE  /\ UNCHANGED <<saved, last>>
         /\ (\A p \in Proc : ~Commit(p)) => UNCHANGED board
BY DEF vars, Next, Local, Refresh, Crash, Restart, Fire, Respond, FetchFails,
       Transform, TransformRaises, OpenCsv, Commit, CommitFails

\* Every save of a single process adds its snapshot to the saved history.
THEOREM HistoryIsExtended ==
  ASSUME OneProcess
  PROVE  Spec => SavesExtendHistory
<1>1. Typed /\ InStep /\ [Next]_vars =>
         [saved' # saved =>
            \E p \in Proc :
               saved' = BB!Extend(saved, resp[p].stations, resp[p].stamp)]_vars
  BY FlushSaves, QuietSteps
<1> QED
  BY <1>1, InStepAlways, OneProcess, PTL DEF Spec, SavesExtendHistory

LEMMA BoardInit == Init => BB!Init
<1>1. Old \in Stamp
  BY DEF Stamp
<1> QED
  BY <1>1 DEF Init, BB!Init, Blank, BB!Window

LEMMA BoardStep ==
  ASSUME Typed, InStep, [Next]_vars
  PROVE  [BB!Next]_(BB!vars)
<1>1. ASSUME NEW p \in Proc, FlushCsv(p) PROVE BB!Next
  <2>1. BB!Record(resp[p].stations, resp[p].stamp)
    BY <1>1, FlushSaves DEF BB!Record, FlushCsv
  <2>2. resp[p].stations \in SUBSET Tracked /\ resp[p].stamp \in Stamp
    BY <1>1 DEF FlushCsv, Typed, TypeOK, TransformedIsTracked, Answer
  <2> QED
    BY <2>1, <2>2 DEF BB!Next
<1>2. ASSUME NEW p \in Proc, Commit(p) PROVE BB!Next
  BY <1>2 DEF Commit, InStep, BB!Publish, BB!Next
<1>3. CASE (\A p \in Proc : ~FlushCsv(p)) /\ (\A p \in Proc : ~Commit(p))
  BY <1>3, QuietSteps DEF BB!vars
<1> QED
  BY <1>1, <1>2, <1>3

\* A single process implements the abstract board, through crashes at any
\* point, failed requests, unusable answers and failed commits.
THEOREM JobImplementsBoard ==
  ASSUME OneProcess
  PROVE  Spec => ImplementsBoard
<1>1. Typed /\ InStep /\ [Next]_vars => [BB!Next]_(BB!vars)
  BY BoardStep
<1> QED
  BY <1>1, BoardInit, InStepAlways, OneProcess, PTL DEF Spec, ImplementsBoard, BB!Spec

-----------------------------------------------------------------------------
(* One process, any number of sources: no window and no document goes back *)
(* to an older observation of a source.  Nothing observed is newer than    *)
(* what its source serves by now, and nothing in the file or on the board  *)
(* is newer than the answer of the same source that is being worked on.    *)

\* An observation is not newer than what its source serves.
Fed(h) == h = Old \/ h.time <= feed[h.source]

Ordered(w) == \A i, j \in 1..W : i < j => ~Older(w[j], w[i])

Working == {"transforming", "opening", "flushing", "committing"}

InOrder ==
    /\ \A src \in Source : feed[src] <= clock
    /\ \A s \in Tracked : Ordered(saved[s]) /\ \A i \in 1..W : Fed(saved[s][i])
    /\ \A s \in Documented : Ordered(board[s]) /\ \A i \in 1..W : Fed(board[s][i])
    /\ \A s \in Documented \cap Tracked : \A i \in 1..W :
          ~Older(saved[s][W], board[s][i])
    /\ \A p \in Proc : pc[p] \in Working =>
          /\ Fed(resp[p].stamp)
          /\ \A s \in Tracked : \A i \in 1..W : ~Older(resp[p].stamp, saved[s][i])
          /\ \A s \in Documented : \A i \in 1..W : ~Older(resp[p].stamp, board[s][i])

LEMMA LastIndex == W \in 1..W /\ W \in Nat
BY WindowAssumption

LEMMA WindowIs ==
  ASSUME NEW w \in Window, NEW i \in 1..W
  PROVE  w[i] \in Stamp
BY DEF Window, BB!Window

LEMMA NotOlderThanItself == ASSUME NEW h \in Stamp PROVE ~Older(h, h)
<1>1. h.time \in Nat
  BY ClockAssumption DEF Stamp, Old, Time
<1> QED
  BY <1>1 DEF Older

\* What a source serves is not older than anything it served before.
LEMMA ServedIsNewest ==
  ASSUME NEW src \in Source, feed[src] \in Time,
         NEW k \in Stamp, Fed(k)
  PROVE  ~Older([source |-> src, time |-> feed[src]], k)
<1> DEFINE h == [source |-> src, time |-> feed[src]]
<1>1. h # Old
  BY SourceAssumption DEF Old
<1>2. CASE k = Old
  BY <1>1, <1>2, SourceAssumption DEF Older, Old
<1>3. CASE k # Old
  <2>1. k.time \in Time /\ k.time <= feed[k.source]
    BY <1>3 DEF Stamp, Fed
  <2> QED
    BY <1>1, <2>1, ClockAssumption DEF Older, Time
<1> QED
  BY <1>2, <1>3

\* A window in order stays in order when it takes an observation that is not
\* older than those it has.
LEMMA SlideIsOrdered ==
  ASSUME NEW w \in Window, Ordered(w), NEW h \in Stamp,
         \A i \in 1..W : ~Older(h, w[i])
  PROVE  /\ Ordered(BB!Slide(w, h))
         /\ BB!Slide(w, h)[W] = h
         /\ \A i \in 1..W : BB!Slide(w, h)[i] = h \/ \E k \in 1..W : BB!Slide(w, h)[i] = w[k]
<1> USE WindowAssumption
<1>1. BB!Slide(w, h)[W] = h
  BY DEF BB!Slide
<1>2. ASSUME NEW i \in 1..W, i < W
      PROVE  i + 1 \in 1..W /\ BB!Slide(w, h)[i] = w[i + 1]
  BY <1>2 DEF BB!Slide
<1>3. ASSUME NEW i \in 1..W, NEW j \in 1..W, i < j
      PROVE  ~Older(BB!Slide(w, h)[j], BB!Slide(w, h)[i])
  <2>1. i + 1 \in 1..W /\ BB!Slide(w, h)[i] = w[i + 1]
    BY <1>2, <1>3
  <2>2. CASE j = W
    BY <2>1, <2>2, <1>1
  <2>3. CASE j < W
    <3>1. j + 1 \in 1..W /\ BB!Slide(w, h)[j] = w[j + 1] /\ i + 1 < j + 1
      BY <2>3, <1>2, <1>3
    <3> QED
      BY <2>1, <3>1 DEF Ordered
  <2> QED
    BY <2>2, <2>3
<1>4. ASSUME NEW i \in 1..W
      PROVE  BB!Slide(w, h)[i] = h \/ \E k \in 1..W : BB!Slide(w, h)[i] = w[k]
  <2>1. CASE i = W
    BY <1>1, <2>1
  <2>2. CASE i < W
    BY <1>2, <2>2
  <2> QED
    BY <2>1, <2>2
<1> QED
  BY <1>1, <1>3, <1>4 DEF Ordered

\* What a flush leaves in the file: each window is that of before, or slid.
LEMMA SavedIsOrdered ==
  ASSUME Typed, InStep, InOrder, NEW p \in Proc, FlushCsv(p), NEW s \in Tracked
  PROVE  /\ saved'[s] \in Window
         /\ Ordered(saved'[s])
         /\ saved'[s][W] = resp[p].stamp \/ saved'[s][W] = saved[s][W]
         /\ \A i \in 1..W : \/ saved'[s][i] = resp[p].stamp
                            \/ \E k \in 1..W : saved'[s][i] = saved[s][k]
<1> USE DEF Typed, TypeOK
<1>1. saved' = BB!Extend(saved, resp[p].stations, resp[p].stamp)
  BY FlushSaves
<1>2. saved[s] \in Window /\ resp[p].stamp \in Stamp
  BY DEF Table, Answer
<1>3. Ordered(saved[s]) /\ \A i \in 1..W : ~Older(resp[p].stamp, saved[s][i])
  BY DEF InOrder, FlushCsv, Working
<1>4. CASE s \in resp[p].stations
  <2>1. saved'[s] = BB!Slide(saved[s], resp[p].stamp)
    BY <1>1, <1>4 DEF BB!Extend
  <2> QED
    BY <2>1, <1>2, <1>3, SlideIsOrdered, SlideType
<1>5. CASE s \notin resp[p].stations
  <2>1. saved'[s] = saved[s]
    BY <1>1, <1>5 DEF BB!Extend
  <2> QED
    BY <2>1, <1>2, <1>3
<1> QED
  BY <1>4, <1>5

LEMMA InOrderInit == Init => InOrder
<1> SUFFICES ASSUME Init PROVE InOrder
  OBVIOUS
<1>1. \A s \in Tracked : \A i \in 1..W : saved[s][i] = Old
  BY DEF Init, Blank
<1>2. \A s \in Documented : \A i \in 1..W : board[s][i] = Old
  BY DEF Init
<1>3. ~Older(Old, Old) /\ Fed(Old)
  BY DEF Older, Old, Fed
<1>4. clock = 0 /\ \A src \in Source : feed[src] = 0
  BY DEF Init
<1>5. \A p \in Proc : pc[p] \notin Working
  BY DEF Init, Working
<1> QED
  BY <1>1, <1>2, <1>3, <1>4, <1>5, LastIndex DEF InOrder, Ordered

\* What a source serves only gets newer.
LEMMA RefreshNewer ==
  ASSUME Typed, InOrder, NEW src \in Source, Refresh(src)
  PROVE  /\ \A any \in Source : feed'[any] <= clock'
         /\ \A h \in Stamp : Fed(h) => Fed(h)'
<1> USE DEF Typed, TypeOK
<1>1. clock \in Nat /\ clock' = clock + 1 /\ \A any \in Source : feed[any] \in Nat
  BY ClockAssumption DEF Refresh, Time
<1>2. ASSUME NEW any \in Source
      PROVE  feed[any] <= feed'[any] /\ feed'[any] <= clock' /\ feed'[any] \in Nat
  BY <1>1 DEF InOrder, Refresh
<1>3. ASSUME NEW h \in Stamp, Fed(h) PROVE Fed(h)'
  <2>1. CASE h = Old
    BY <2>1 DEF Fed
  <2>2. CASE h # Old
    <3>1. h.source \in Source /\ h.time \in Nat /\ h.time <= feed[h.source]
      BY <1>3, <2>2, ClockAssumption DEF Stamp, Time, Fed
    <3> QED
      BY <3>1, <1>1, <1>2 DEF Fed
  <2> QED
    BY <2>1, <2>2
<1> QED
  BY <1>2, <1>3

LEMMA InOrderStep ==
  ASSUME OneProcess, Typed, InStep, InOrder, [Next]_vars
  PROVE  InOrder'
<1> USE DEF Typed, TypeOK
<1>a. ASSUME NEW s \in Tracked, NEW i \in 1..W PROVE saved[s][i] \in Stamp
  BY WindowIs DEF Table
<1>b. ASSUME NEW s \in Documented, NEW i \in 1..W PROVE board[s][i] \in Stamp
  BY WindowIs
<1>c. ASSUME NEW p \in Proc PROVE resp[p].stamp \in Stamp
  BY DEF Answer
<1>1. ASSUME NEW src \in Source, Refresh(src) PROVE InOrder'
  <2>1. /\ \A any \in Source : feed'[any] <= clock'
        /\ \A h \in Stamp : Fed(h) => Fed(h)'
    BY <1>1, RefreshNewer
  <2>2. UNCHANGED <<pc, resp, saved, board>>
    BY <1>1 DEF Refresh
  <2>3. \A s \in Tracked : \A i \in 1..W : Fed(saved[s][i])'
    BY <2>1, <2>2, <1>a DEF InOrder
  <2>4. \A s \in Documented : \A i \in 1..W : Fed(board[s][i])'
    BY <2>1, <2>2, <1>b DEF InOrder
  <2>5. \A p \in Proc : pc[p] \in Working => Fed(resp[p].stamp)'
    BY <2>1, <2>2, <1>c DEF InOrder
  <2> QED
    BY <2>1, <2>2, <2>3, <2>4, <2>5 DEF InOrder, Ordered, Older
<1>2. ASSUME NEW p \in Proc, Crash(p) \/ Restart(p) \/ Fire(p) \/ FetchFails(p)
      PROVE  InOrder'
  <2>1. UNCHANGED <<clock, feed, saved, board>>
    BY <1>2 DEF Crash, Restart, Fire, FetchFails
  <2>2. \A q \in Proc : pc'[q] \notin Working
    BY <1>2 DEF Crash, Restart, Fire, FetchFails, Leave, Goto, OneProcess, Working
  <2> QED
    BY <2>1, <2>2 DEF InOrder, Ordered, Older, Fed
<1>3. ASSUME NEW p \in Proc, Respond(p) PROVE InOrder'
  <2> DEFINE h == [source |-> source[p], time |-> feed[source[p]]]
  <2>1. resp'[p].stamp = h /\ source[p] \in Source /\ feed[source[p]] \in Time
    BY <1>3 DEF Respond
  <2>2. UNCHANGED <<clock, feed, saved, board>>
    BY <1>3 DEF Respond
  <2>3. \A q \in Proc : q = p
    BY DEF OneProcess
  <2>4. Fed(h)
    BY <2>1, ClockAssumption DEF Fed, Time
  <2>5. \A s \in Tracked : \A i \in 1..W : ~Older(h, saved[s][i])
    BY <2>1, <1>a, ServedIsNewest DEF InOrder
  <2>6. \A s \in Documented : \A i \in 1..W : ~Older(h, board[s][i])
    BY <2>1, <1>b, ServedIsNewest DEF InOrder
  <2> QED
    BY <2>1, <2>2, <2>3, <2>4, <2>5, <2>6 DEF InOrder, Ordered, Older, Fed
<1>4. ASSUME NEW p \in Proc,
             Transform(p) \/ TransformRaises(p) \/ OpenCsv(p) \/ CommitFails(p)
      PROVE  InOrder'
  <2>1. UNCHANGED <<clock, feed, saved, board>>
    BY <1>4 DEF Transform, TransformRaises, OpenCsv, CommitFails
  <2>2. \A q \in Proc : pc'[q] \in Working => pc[q] \in Working /\ resp'[q] = resp[q]
    BY <1>4 DEF Transform, TransformRaises, OpenCsv, CommitFails, Leave, Goto,
                Working, OneProcess
  <2> QED
    BY <2>1, <2>2 DEF InOrder, Ordered, Older, Fed
<1>5. ASSUME NEW p \in Proc, FlushCsv(p) PROVE InOrder'
  <2> DEFINE h == resp[p].stamp
  <2>1. UNCHANGED <<clock, feed, resp, board>> /\ pc[p] \in Working
    BY <1>5 DEF FlushCsv, Working
  <2>2. \A q \in Proc : q = p
    BY DEF OneProcess
  <2>3. /\ Fed(h) /\ h \in Stamp
        /\ \A s \in Tracked : \A i \in 1..W : ~Older(h, saved[s][i])
        /\ \A s \in Documented : \A i \in 1..W : ~Older(h, board[s][i])
    BY <2>1, <1>c DEF InOrder
  <2>4. ASSUME NEW s \in Tracked
        PROVE  /\ Ordered(saved'[s])
               /\ saved'[s][W] = h \/ saved'[s][W] = saved[s][W]
               /\ \A i \in 1..W : saved'[s][i] = h \/ \E k \in 1..W : saved'[s][i] = saved[s][k]
    BY <1>5, SavedIsOrdered
  <2>5. ASSUME NEW s \in Tracked, NEW i \in 1..W
        PROVE  Fed(saved'[s][i]) /\ ~Older(h, saved'[s][i])
    BY <2>3, <2>4, NotOlderThanItself DEF InOrder
  <2>6. ASSUME NEW s \in Documented \cap Tracked, NEW i \in 1..W
        PROVE  ~Older(saved'[s][W], board[s][i])
    BY <2>3, <2>4 DEF InOrder
  <2>7. /\ \A s \in Tracked : Ordered(saved[s])'
        /\ \A s \in Tracked : \A i \in 1..W : Fed(saved[s][i])'
    BY <2>1, <2>4, <2>5 DEF Ordered, Older, Fed
  <2> QED
    BY <2>1, <2>2, <2>3, <2>5, <2>6, <2>7 DEF InOrder, Ordered, Older, Fed
<1>6. ASSUME NEW p \in Proc, Commit(p) PROVE InOrder'
  <2>1. \A q \in Proc : pc'[q] \notin Working
    BY <1>6 DEF Commit, Leave, Goto, OneProcess, Working
  <2>2. UNCHANGED <<clock, feed, saved>>
    BY <1>6 DEF Commit
  <2>3. ASSUME NEW s \in Documented
        PROVE  board'[s] = board[s] \/ (s \in Tracked /\ board'[s] = saved[s])
    BY <1>6 DEF Commit, InStep, BB!Overlay, TransformedIsTracked
  <2>4. ASSUME NEW s \in Documented
        PROVE  Ordered(board'[s]) /\ \A i \in 1..W : Fed(board'[s][i])
    BY <2>3 DEF InOrder
  <2>5. ASSUME NEW s \in Documented \cap Tracked, NEW i \in 1..W
        PROVE  ~Older(saved[s][W], board'[s][i])
    <3>1. CASE board'[s] = board[s]
      BY <3>1 DEF InOrder
    <3>2. CASE board'[s] = saved[s] /\ i = W
      BY <3>2, <1>a, LastIndex, NotOlderThanItself
    <3>3. CASE board'[s] = saved[s] /\ i < W
      BY <3>3, LastIndex DEF InOrder, Ordered
    <3> QED
      BY <2>3, <3>1, <3>2, <3>3, LastIndex
  <2> QED
    BY <2>1, <2>2, <2>4, <2>5 DEF InOrder, Ordered, Older, Fed
<1>7. CASE UNCHANGED vars
  BY <1>7 DEF vars, InOrder, Ordered, Older, Fed
<1> QED
  BY <1>1, <1>2, <1>3, <1>4, <1>5, <1>6, <1>7 DEF Next, Local

LEMMA InOrderAlways ==
  ASSUME OneProcess
  PROVE  Spec => [](Typed /\ InStep /\ InOrder)
<1>1. Typed /\ InStep /\ InOrder /\ [Next]_vars => InOrder'
  BY InOrderStep, OneProcess
<1> QED
  BY <1>1, InOrderInit, InStepAlways, OneProcess, PTL DEF Spec

\* With one process, and any number of sources to choose from, no observation
\* stands behind a newer one of its source in a saved window.
THEOREM WindowsAreInOrder ==
  ASSUME OneProcess
  PROVE  Spec => []WindowInSourceOrder
<1>1. InOrder => WindowInSourceOrder
  BY DEF InOrder, Ordered, WindowInSourceOrder
<1> QED
  BY <1>1, InOrderAlways, OneProcess, PTL

\* With one process, and any number of sources to choose from, the newest
\* observation a document shows is not older than one of its source in the
\* window it showed before, whatever fails or crashes on the way.
THEOREM BoardIsMonotone ==
  ASSUME OneProcess
  PROVE  Spec => BoardNeverRegresses
<1>1. Typed /\ InStep /\ InOrder /\ [Next]_vars =>
         [\A s \in Documented : \A i \in 1..W :
             ~Older(board'[s][W], board[s][i])]_vars
  <2> SUFFICES ASSUME Typed, InStep, InOrder, [Next]_vars,
                      NEW s \in Documented, NEW i \in 1..W
               PROVE  ~Older(board'[s][W], board[s][i])
    OBVIOUS
  <2>1. ~Older(board[s][W], board[s][i])
    <3>1. board[s][W] \in Stamp
      BY WindowIs, LastIndex DEF Typed, TypeOK
    <3>2. CASE i = W
      BY <3>1, <3>2, NotOlderThanItself
    <3>3. CASE i < W
      BY <3>3, LastIndex DEF InOrder, Ordered
    <3> QED
      BY <3>2, <3>3, LastIndex
  <2>2. ASSUME NEW p \in Proc, Commit(p) PROVE ~Older(board'[s][W], board[s][i])
    BY <2>1, <2>2 DEF Commit, InStep, BB!Overlay, InOrder, Typed, TransformedIsTracked
  <2>3. ASSUME NEW p \in Proc, FlushCsv(p) PROVE ~Older(board'[s][W], board[s][i])
    BY <2>1, <2>3 DEF FlushCsv
  <2>4. CASE (\A p \in Proc : ~FlushCsv(p)) /\ (\A p \in Proc : ~Commit(p))
    BY <2>1, <2>4, QuietSteps
  <2> QED
    BY <2>2, <2>3, <2>4
<1> QED
  BY <1>1, InOrderAlways, OneProcess, PTL DEF Spec, BoardNeverRegresses

-----------------------------------------------------------------------------
(* Any number of processes: what they keep of the promise together.  The   *)
(* table a process has in memory is one that was saved, with its answer.   *)

Rooted ==
    /\ saved \in tables
    /\ \A p \in Proc : pc[p] \in {"opening", "flushing", "committing"} =>
          \E t \in tables :
             frame[p] = BB!Extend(t, resp[p].stations, resp[p].stamp)

LEMMA RootedInit == SharedInit => Rooted
BY DEF SharedInit, Init, Rooted

LEMMA RootedStep ==
  ASSUME Typed, Rooted, [SharedNext]_<<vars, tables>>
  PROVE  Rooted'
<1> USE DEF Typed, TypeOK
<1>1. CASE UNCHANGED <<vars, tables>>
  BY <1>1 DEF vars, Rooted
<1>2. CASE SharedNext
  <2>1. Next /\ tables \subseteq tables' /\ saved' \in tables'
    BY <1>2 DEF SharedNext
  <2>2. ASSUME NEW p \in Proc, pc'[p] \in {"opening", "flushing", "committing"}
        PROVE  \E t \in tables :
                  frame'[p] = BB!Extend(t, resp'[p].stations, resp'[p].stamp)
    <3>1. CASE /\ pc[p] \in {"opening", "flushing", "committing"}
               /\ frame'[p] = frame[p] /\ resp'[p] = resp[p]
      BY <3>1 DEF Rooted
    <3>2. CASE Transform(p)
      BY <3>2 DEF Transform, Goto, Rooted
    <3>3. ASSUME NEW q \in Proc,
                 \/ Fire(q) \/ Respond(q) \/ FetchFails(q) \/ TransformRaises(q)
                 \/ Crash(q) \/ Restart(q) \/ Commit(q) \/ CommitFails(q)
          PROVE  /\ pc[p] \in {"opening", "flushing", "committing"}
                 /\ frame'[p] = frame[p] /\ resp'[p] = resp[p]
      BY <2>2, <3>3 DEF Fire, Respond, FetchFails, TransformRaises, Crash, Restart,
                        Commit, CommitFails, Leave, Goto
    <3>4. ASSUME NEW q \in Proc, OpenCsv(q) \/ FlushCsv(q) \/ (Transform(q) /\ q # p)
          PROVE  /\ pc[p] \in {"opening", "flushing", "committing"}
                 /\ frame'[p] = frame[p] /\ resp'[p] = resp[p]
      BY <2>2, <3>4 DEF OpenCsv, FlushCsv, Transform, Goto
    <3>5. ASSUME NEW src \in Source, Refresh(src)
          PROVE  /\ pc[p] \in {"opening", "flushing", "committing"}
                 /\ frame'[p] = frame[p] /\ resp'[p] = resp[p]
      BY <2>2, <3>5 DEF Refresh
    <3>6. \/ \E src \in Source : Refresh(src)
          \/ \E q \in Proc :
                \/ \/ Fire(q) \/ Respond(q) \/ FetchFails(q) \/ TransformRaises(q)
                   \/ Crash(q) \/ Restart(q) \/ Commit(q) \/ CommitFails(q)
                \/ OpenCsv(q) \/ FlushCsv(q) \/ (Transform(q) /\ q # p)
                \/ Transform(q) /\ q = p
      BY <2>1, Zenon DEF Next, Local
    <3> QED
      BY <3>1, <3>2, <3>3, <3>4, <3>5, <3>6
  <2> QED
    BY <2>1, <2>2 DEF Rooted
<1> QED
  BY <1>1, <1>2

LEMMA RootedAlways == SharedSpec => [](Typed /\ Rooted)
<1>1. SharedInit => Init
  BY DEF SharedInit
<1>2. [SharedNext]_<<vars, tables>> => [Next]_vars
  BY DEF SharedNext
<1>3. SharedSpec => []Typed
  BY <1>1, <1>2, TypedInit, TypedStep, PTL DEF SharedSpec
<1>4. Typed /\ Rooted /\ [SharedNext]_<<vars, tables>> => Rooted'
  BY RootedStep
<1> QED
  BY <1>3, <1>4, RootedInit, PTL DEF SharedSpec

LEMMA SharedBoardInit == SharedInit => SB!Init
<1> SUFFICES ASSUME SharedInit PROVE SB!Init
  OBVIOUS
<1>1. saved \in [Tracked -> BB!Window] /\ board \in [Documented -> BB!Window]
  BY BoardInit DEF SharedInit, BB!Init
<1>2. ~Silenced
  BY DEF SharedInit, Init, Silenced
<1>3. (Silenced = FALSE)
  BY <1>2 DEF Silenced
<1> QED
  BY <1>1, <1>3 DEF SharedInit, SB!Init, SB!Alone!Window, BB!Window

\* A step of the job is a step of the shared board or leaves it as it is.
LEMMA SharedBoardStep ==
  ASSUME Typed, Rooted, SharedNext
  PROVE  [SB!Next]_(SB!vars)
<1> USE DEF Typed, TypeOK
<1>1. Next /\ tables' = tables \cup {saved'} /\ saved \in tables
  BY DEF SharedNext, Rooted
<1>2. CASE Silenced
  <2>1. Silenced' /\ UNCHANGED <<saved, board>>
    BY <1>1, <1>2, SilencedStep
  <2>2. tables' = tables
    BY <1>1, <2>1
  <2>3. Silenced' = Silenced
    BY <1>2, <2>1 DEF Silenced
  <2> QED
    BY <2>1, <2>2, <2>3 DEF SB!vars
<1>3. ASSUME ~Silenced, UNCHANGED <<saved, board>>
      PROVE  [SB!Next]_(SB!vars)
  <2>1. tables' = tables
    BY <1>1, <1>3
  <2>2. CASE Silenced'
    BY <1>3, <2>1, <2>2 DEF SB!Next, SB!End
  <2>3. CASE ~Silenced'
    <3>1. Silenced' = Silenced
      BY <1>3, <2>3 DEF Silenced
    <3> QED
      BY <1>3, <2>1, <3>1 DEF SB!vars
  <2> QED
    BY <2>2, <2>3
<1>4. ASSUME ~Silenced, NEW p \in Proc, FlushCsv(p), UNCHANGED saved
      PROVE  [SB!Next]_(SB!vars)
  BY <1>3, <1>4 DEF FlushCsv
<1>5. ASSUME ~Silenced, NEW p \in Proc, FlushCsv(p), saved' = frame[p], csv' = "whole"
      PROVE  SB!Next
  <2>1. PICK t \in tables :
           frame[p] = BB!Extend(t, resp[p].stations, resp[p].stamp)
    BY <1>5 DEF FlushCsv, Rooted
  <2>2. resp[p].stations \in SUBSET Tracked /\ resp[p].stamp \in Stamp
    BY <1>5 DEF FlushCsv, TransformedIsTracked, Answer
  <2>3. Silenced' = Silenced
    BY <1>5 DEF Silenced
  <2>4. saved' = BB!Extend(t, resp[p].stations, resp[p].stamp) /\ board' = board
    BY <1>5, <2>1 DEF FlushCsv
  <2>5. SB!Record(t, resp[p].stations, resp[p].stamp)
    BY <1>1, <1>5, <2>3, <2>4
    DEF SB!Record, SB!Alone!Extend, SB!Alone!Slide, BB!Extend, BB!Slide
  <2> QED
    BY <2>2, <2>5 DEF SB!Next
<1>6. ASSUME ~Silenced, NEW p \in Proc, Commit(p)
      PROVE  SB!Next
  <2>1. PICK t \in tables :
           frame[p] = BB!Extend(t, resp[p].stations, resp[p].stamp)
    BY <1>6 DEF Commit, Rooted
  <2>2. resp[p].stations \in SUBSET Tracked /\ resp[p].stamp \in Stamp
    BY <1>6 DEF Commit, TransformedIsTracked, Answer
  <2>3. UNCHANGED <<saved, tables>> /\ resp[p].stations \subseteq Documented
    BY <1>1, <1>6 DEF Commit
  <2>4. board' = BB!Overlay(board, frame[p], resp[p].stations)
    BY <1>6 DEF Commit
  <2>5. Silenced' \in BOOLEAN
    BY DEF Silenced
  <2>6. SB!Publish(t, resp[p].stations, resp[p].stamp)
    BY <1>6, <2>1, <2>3, <2>4, <2>5
    DEF SB!Publish, SB!Alone!Overlay, SB!Alone!Extend, SB!Alone!Slide, BB!Overlay,
        BB!Extend, BB!Slide
  <2> QED
    BY <2>2, <2>6 DEF SB!Next
<1>7. CASE (\A p \in Proc : ~FlushCsv(p)) /\ (\A p \in Proc : ~Commit(p))
  BY <1>1, <1>2, <1>3, <1>7, QuietSteps
<1> QED
  BY <1>2, <1>4, <1>5, <1>6, <1>7 DEF FlushCsv

\* However many processes write the file: every save adds one snapshot to a
\* table that was saved before, every batch shows one such table as a whole,
\* and a loss is for good.
THEOREM ProcessesShareBoard == SharedSpec => KeepsSharedPromise
<1>1. Typed /\ Rooted /\ [SharedNext]_<<vars, tables>> => [SB!Next]_(SB!vars)
  <2>1. UNCHANGED <<vars, tables>> => UNCHANGED SB!vars
    BY DEF vars, SB!vars, Silenced
  <2> QED
    BY <2>1, SharedBoardStep
<1> QED
  BY <1>1, SharedBoardInit, RootedAlways, PTL
  DEF SharedSpec, KeepsSharedPromise, SB!Spec
=============================================================================
