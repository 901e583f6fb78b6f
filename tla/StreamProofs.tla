---------------------------- MODULE StreamProofs ----------------------------
(***************************************************************************)
(* Proofs about log streams and packet captures, for any number of         *)
(* streams, tabs, readers, captures and messages under way; and about all  *)
(* the parts that MCStreams joins: what is proved of a part by itself holds*)
(* of them together.                                                       *)
(***************************************************************************)
EXTENDS MCStreams, InformerProofs, PaneProofs

-----------------------------------------------------------------------------
(* Log streams.                                                            *)

\* What a stream was not started for has not happened, and what only its end
\* brings comes after its end.
LinesKept == \A s \in LogStreams : stream[s].left + stream[s].buffered <= MaxLines
UnstartedIsIdle == \A s \in LogStreams : stream[s].pc = "none" => ~reader[s].armed
EndComesLast ==
    \A s \in LogStreams :
        reader[s].dones > 0 \/ restarts[s] > 0 => stream[s].pc = "closed"

\* A view shows a stream that was started and has no cancel function but its;
\* in the explorer only a stream that a late answer started is behind it.
GoodView(v) ==
    /\ v.ch # NoStream => stream[v.ch].pc # "none"
    /\ v.cancel # NoStream => v.cancel = v.ch
    /\ v.mode = "explorer" /\ v.cancel # NoStream =>
          v.cancel \in lost \/ stream[v.cancel].cancelled
GoodViews == GoodView(logView) /\ \A t \in LogTabs : GoodView(logTab[t])

StreamTypes == LogStreamsTypeOK /\ LinesKept
StreamOrder == UnstartedIsIdle /\ EndComesLast

LogInv ==
    /\ StreamTypes /\ StreamOrder /\ GoodViews
    /\ SingleReader /\ NoStreamStalls /\ NoStreamLeaks

LEMMA NoStreamIsNone == NoStream \notin LogStreams
  BY DEF NoStream, LogStreams

\* The invariant holds with one tab in the explorer.
LEMMA LogInitial == LogStreamsInit => LogInv
  <1> SUFFICES ASSUME LogStreamsInit PROVE LogInv
    OBVIOUS
  <1> USE LogStreamsAssumption, NoStreamIsNone
  <1>1. StreamTypes
    <2>1. Explorer \in Views
      BY DEF Explorer, Views
    <2>2. stream \in [LogStreams -> StreamStates]
      BY DEF LogStreamsInit, StreamStates
    <2>3. reader \in [LogStreams -> ReaderStates]
      BY DEF LogStreamsInit, ReaderStates
    <2>4. restarts \in [LogStreams -> 0 .. MaxRestarts]
      BY DEF LogStreamsInit
    <2>5. LinesKept
      BY DEF LogStreamsInit, LinesKept
    <2> QED
      BY <2>1, <2>2, <2>3, <2>4, <2>5 DEF LogStreamsInit, StreamTypes, LogStreamsTypeOK
  <1>2. StreamOrder /\ SingleReader
    BY DEF LogStreamsInit, StreamOrder, UnstartedIsIdle, EndComesLast, SingleReader,
           Outstanding
  <1>3. GoodViews /\ NoStreamStalls /\ NoStreamLeaks
    BY DEF LogStreamsInit, GoodViews, GoodView, Explorer, NoStreamStalls, ShownBy,
           NoStreamLeaks
  <1> QED
    BY <1>1, <1>2, <1>3 DEF LogInv

\* Cancelling changes nothing else of a stream.
LEMMA CancelFacts ==
  ASSUME StreamTypes, NEW set
  PROVE  /\ Cancelled(set) \in [LogStreams -> StreamStates]
         /\ \A s \in LogStreams :
              /\ Cancelled(set)[s].pc = stream[s].pc
              /\ Cancelled(set)[s].left = stream[s].left
              /\ Cancelled(set)[s].buffered = stream[s].buffered
              /\ Cancelled(set)[s].cancelled = (stream[s].cancelled \/ s \in set)
  BY DEF StreamTypes, LogStreamsTypeOK, StreamStates, Cancelled

\* A reader that is armed while there is none is the only one.
LEMMA ArmedFacts ==
  ASSUME NEW r \in ReaderStates, r.waiting + r.lines + r.dones = 0
  PROVE  /\ Armed(r) \in ReaderStates
         /\ Armed(r).armed /\ Armed(r).waiting = 1 /\ Armed(r).lines = 0
         /\ Armed(r).dones = 0 /\ Armed(r).over = r.over
  <1> USE LogStreamsAssumption
  <1>1. /\ r.waiting \in Nat /\ r.lines \in Nat /\ r.dones \in Nat
        /\ r.armed \in BOOLEAN /\ r.over \in BOOLEAN
    BY DEF ReaderStates
  <1>2. r.waiting = 0 /\ r.lines = 0 /\ r.dones = 0
    BY <1>1
  <1>3. /\ Armed(r).armed /\ Armed(r).waiting = r.waiting + 1
        /\ Armed(r).lines = r.lines /\ Armed(r).dones = r.dones
        /\ Armed(r).over = r.over
    BY DEF Armed, ReaderStates
  <1>4. r.waiting + 1 \in 0 .. MaxReaders
    BY <1>2
  <1>5. Armed(r) \in ReaderStates
    BY <1>4 DEF Armed, ReaderStates
  <1> QED
    BY <1>2, <1>3, <1>5

\* A start takes a stream that was not started, arms its reader and shows it.
LEMMA StartFacts ==
  ASSUME LogInv, NEW mode \in {"explorer", "logs"}, NEW set, StartStream(mode, set)
  PROVE  /\ NextStream \in LogStreams /\ stream[NextStream].pc = "none"
         /\ stream' \in [LogStreams -> StreamStates]
         /\ \A s \in LogStreams :
              /\ stream'[s].pc = IF s = NextStream THEN "live" ELSE stream[s].pc
              /\ stream'[s].left = stream[s].left
              /\ stream'[s].buffered = stream[s].buffered
              /\ stream'[s].cancelled = (stream[s].cancelled \/ s \in set)
         /\ reader' = [reader EXCEPT ![NextStream] = Armed(@)]
         /\ reader' \in [LogStreams -> ReaderStates]
         /\ Armed(reader[NextStream]).armed /\ Armed(reader[NextStream]).waiting = 1
         /\ Armed(reader[NextStream]).lines = 0 /\ Armed(reader[NextStream]).dones = 0
         /\ logView' = [mode |-> mode, ch |-> NextStream, cancel |-> NextStream]
         /\ logView' \in Views
  <1>1. NextStream \in LogStreams /\ stream[NextStream].pc = "none"
    BY DEF StartStream, NextStream, Unstarted
  <1>2. /\ stream' = [Cancelled(set) EXCEPT ![NextStream].pc = "live"]
        /\ reader' = [reader EXCEPT ![NextStream] = Armed(@)]
        /\ logView' = [mode |-> mode, ch |-> NextStream, cancel |-> NextStream]
    BY DEF StartStream
  <1>3. StreamTypes
    BY DEF LogInv
  <1>4. reader[NextStream] \in ReaderStates
    BY <1>1, <1>3 DEF StreamTypes, LogStreamsTypeOK
  <1>5. reader[NextStream].waiting + reader[NextStream].lines + reader[NextStream].dones = 0
    BY <1>1 DEF LogInv, StreamOrder, UnstartedIsIdle, SingleReader, Outstanding
  <1>6. reader' \in [LogStreams -> ReaderStates]
    BY <1>1, <1>2, <1>3, <1>4, <1>5, ArmedFacts DEF StreamTypes, LogStreamsTypeOK
  <1>7. /\ stream' \in [LogStreams -> StreamStates]
        /\ \A s \in LogStreams :
              /\ stream'[s].pc = IF s = NextStream THEN "live" ELSE stream[s].pc
              /\ stream'[s].left = stream[s].left
              /\ stream'[s].buffered = stream[s].buffered
              /\ stream'[s].cancelled = (stream[s].cancelled \/ s \in set)
    BY <1>1, <1>2, <1>3, CancelFacts DEF StreamStates
  <1>8. logView' \in Views
    BY <1>1, <1>2 DEF Views
  <1> QED
    BY <1>1, <1>2, <1>4, <1>5, <1>6, <1>7, <1>8, ArmedFacts

\* The goroutine of a stream and its reader: the views stay as they are.
LEMMA GoroutineSteps ==
  ASSUME LogInv, NEW s \in LogStreams, Emit(s) \/ CloseStream(s) \/ Receive(s)
  PROVE  LogInv'
  <1> USE LogStreamsAssumption, NoStreamIsNone
  <1>1. LogStreamsTypeOK /\ LinesKept
    BY DEF LogInv, StreamTypes
  <1>2. /\ stream[s] \in StreamStates /\ reader[s] \in ReaderStates
        /\ stream[s].left \in Nat /\ stream[s].buffered \in Nat
        /\ reader[s].waiting \in Nat /\ reader[s].lines \in Nat /\ reader[s].dones \in Nat
    BY <1>1 DEF LogStreamsTypeOK, StreamStates, ReaderStates
  <1>3. /\ stream' \in [LogStreams -> StreamStates] /\ LinesKept'
        /\ \A x \in LogStreams : /\ stream'[x].cancelled = stream[x].cancelled
                                 /\ stream'[x].pc = "none" <=> stream[x].pc = "none"
                                 /\ stream'[x].pc = "live" => stream[x].pc = "live"
                                 /\ stream[x].pc = "closed" => stream'[x].pc = "closed"
    <2>1. CASE Emit(s)
      <3>1. stream' = [stream EXCEPT ![s].left = @ - 1, ![s].buffered = @ + 1]
        BY <2>1 DEF Emit
      <3>2. stream[s].left - 1 \in 0 .. MaxLines /\ stream[s].buffered + 1 \in 0 .. MaxLines
        BY <1>1, <1>2, <2>1 DEF LinesKept, Emit, StreamStates
      <3> QED
        BY <1>1, <1>2, <3>1, <3>2 DEF LogStreamsTypeOK, LinesKept, StreamStates
    <2>2. CASE CloseStream(s)
      BY <1>1, <1>2, <2>2 DEF LogStreamsTypeOK, LinesKept, StreamStates, CloseStream
    <2>3. CASE Receive(s)
      <3>1. CASE UNCHANGED stream
        BY <1>1, <3>1 DEF LogStreamsTypeOK, LinesKept
      <3>2. CASE stream' = [stream EXCEPT ![s].buffered = @ - 1] /\ stream[s].buffered > 0
        BY <1>1, <1>2, <3>2 DEF LogStreamsTypeOK, LinesKept, StreamStates
      <3> QED
        BY <2>3, <3>1, <3>2 DEF Receive
    <2> QED
      BY <2>1, <2>2, <2>3
  <1>4. /\ reader' \in [LogStreams -> ReaderStates]
        /\ \A x \in LogStreams :
             /\ reader'[x].armed = reader[x].armed /\ reader'[x].over = reader[x].over
             /\ Outstanding(x)' = Outstanding(x)
             /\ reader'[x].dones > 0 => reader[x].dones > 0 \/ stream'[x].pc = "closed"
    <2>1. CASE UNCHANGED reader
      BY <1>1, <2>1 DEF LogStreamsTypeOK, Outstanding
    <2>2. CASE Receive(s)
      <3>1. reader[s].waiting + reader[s].lines + reader[s].dones \in 0 .. 1
        BY <1>2 DEF LogInv, SingleReader, Outstanding
      <3>2. CASE reader' = [reader EXCEPT ![s].waiting = @ - 1, ![s].lines = @ + 1]
        BY <1>1, <1>2, <2>2, <3>1, <3>2
        DEF LogStreamsTypeOK, ReaderStates, Outstanding, Receive
      <3>3. CASE reader' = [reader EXCEPT ![s].waiting = @ - 1, ![s].dones = @ + 1]
                 /\ stream[s].pc = "closed" /\ UNCHANGED stream
        BY <1>1, <1>2, <2>2, <3>1, <3>3
        DEF LogStreamsTypeOK, ReaderStates, Outstanding, Receive
      <3> QED
        BY <2>2, <3>2, <3>3 DEF Receive
    <2> QED
      BY <2>1, <2>2 DEF Emit, CloseStream
  <1>5. UNCHANGED <<logView, logTab, openTabs, frontTab, restarts, asking, leaving,
                    logSession, lost, forsaken>>
    BY DEF Emit, CloseStream, Receive
  <1>6. StreamTypes'
    BY <1>1, <1>3, <1>4, <1>5 DEF StreamTypes, LogStreamsTypeOK
  <1>7. StreamOrder' /\ SingleReader'
    BY <1>3, <1>4, <1>5
    DEF LogInv, StreamOrder, UnstartedIsIdle, EndComesLast, SingleReader
  <1>8. GoodViews'
    <2>1. ASSUME NEW v \in Views, GoodView(v)
          PROVE  /\ v.ch # NoStream => stream'[v.ch].pc # "none"
                 /\ v.cancel # NoStream => v.cancel = v.ch
                 /\ v.mode = "explorer" /\ v.cancel # NoStream =>
                       v.cancel \in lost' \/ stream'[v.cancel].cancelled
      BY <1>3, <1>5, <2>1 DEF GoodView, Views
    <2>2. logView \in Views /\ \A t \in LogTabs : logTab[t] \in Views
      BY <1>1 DEF LogStreamsTypeOK
    <2> QED
      BY <1>5, <2>1, <2>2 DEF LogInv, GoodViews, GoodView
  <1>9. NoStreamStalls'
    BY <1>1, <1>4, <1>5 DEF LogInv, NoStreamStalls, ShownBy, LogStreamsTypeOK, Views
  <1>10. NoStreamLeaks'
    BY <1>1, <1>3, <1>5 DEF LogInv, NoStreamLeaks, HasHolder
  <1> QED
    BY <1>6, <1>7, <1>8, <1>9, <1>10 DEF LogInv

\* What a step leaves of the streams when it starts none.
StreamsKept ==
    /\ stream' \in [LogStreams -> StreamStates]
    /\ \A s \in LogStreams : /\ stream'[s].pc = stream[s].pc
                             /\ stream'[s].left = stream[s].left
                             /\ stream'[s].buffered = stream[s].buffered
                             /\ stream[s].cancelled => stream'[s].cancelled

LEMMA KeptFacts ==
  ASSUME StreamTypes, NEW set, stream' = Cancelled(set) \/ stream' = stream
  PROVE  StreamsKept
  <1>1. CASE stream' = Cancelled(set)
    <2>1. /\ stream' \in [LogStreams -> StreamStates]
          /\ \A s \in LogStreams : /\ stream'[s].pc = stream[s].pc
                                   /\ stream'[s].left = stream[s].left
                                   /\ stream'[s].buffered = stream[s].buffered
      BY <1>1, CancelFacts
    <2>2. \A s \in LogStreams : stream'[s].cancelled = (stream[s].cancelled \/ s \in set)
      BY <1>1, CancelFacts
    <2> QED
      BY <2>1, <2>2 DEF StreamsKept
  <1>2. CASE stream' = stream
    BY <1>2 DEF StreamTypes, LogStreamsTypeOK, StreamsKept
  <1> QED
    BY <1>1, <1>2

\* A line and the end of a stream, handled: the reader that brought it was the
\* only one.
LEMMA HandlerSteps ==
  ASSUME LogInv, NEW s \in LogStreams, HandleLine(s) \/ HandleDone(s)
  PROVE  LogInv'
  <1> USE LogStreamsAssumption, NoStreamIsNone
  <1>1. LogStreamsTypeOK /\ LinesKept
    BY DEF LogInv, StreamTypes
  <1>2. /\ reader[s] \in ReaderStates
        /\ reader[s].waiting \in Nat /\ reader[s].lines \in Nat /\ reader[s].dones \in Nat
        /\ reader[s].waiting + reader[s].lines + reader[s].dones = 1
        /\ reader[s].waiting = 0 /\ reader[s].armed
    <2>1. /\ reader[s] \in ReaderStates
          /\ reader[s].waiting \in Nat /\ reader[s].lines \in Nat /\ reader[s].dones \in Nat
      BY <1>1 DEF LogStreamsTypeOK, ReaderStates
    <2>2. Outstanding(s) = IF reader[s].armed THEN 1 ELSE 0
      BY DEF LogInv, SingleReader
    <2>3. reader[s].lines > 0 \/ reader[s].dones > 0
      BY DEF HandleLine, HandleDone
    <2>4. Outstanding(s) > 0
      BY <2>1, <2>3 DEF Outstanding
    <2>5. reader[s].armed /\ Outstanding(s) = 1
      BY <2>2, <2>4
    <2> QED
      BY <2>1, <2>3, <2>5 DEF Outstanding
  <1>3. /\ UNCHANGED <<stream, logView, logTab, openTabs, frontTab, asking, leaving,
                       logSession, lost, forsaken>>
        /\ reader' = [reader EXCEPT ![s] = reader'[s]]
    BY <1>1 DEF HandleLine, HandleDone, LogStreamsTypeOK
  <1>4. /\ reader'[s] \in ReaderStates
        /\ reader'[s].waiting + reader'[s].lines + reader'[s].dones
              = IF reader'[s].armed THEN 1 ELSE 0
        /\ reader'[s].dones = 0
        /\ reader[s].over => reader'[s].over
        /\ s = logView.ch \/ KnownTo(s) # {} => reader'[s].armed \/ reader'[s].over
    <2>1. CASE HandleLine(s)
      <3> DEFINE idle == [reader[s] EXCEPT !.lines = @ - 1, !.armed = FALSE]
      <3>0. reader[s].lines = 1 /\ reader[s].dones = 0 /\ reader[s].lines - 1 = 0
        BY <1>2, <2>1 DEF HandleLine
      <3>1. /\ idle \in ReaderStates /\ idle.waiting = 0 /\ idle.lines = 0 /\ idle.dones = 0
            /\ idle.armed = FALSE /\ idle.over = reader[s].over
        BY <1>2, <3>0 DEF ReaderStates
      <3>2. reader'[s] = IF Rearms(s) THEN Armed(idle) ELSE idle
        BY <1>1, <2>1 DEF HandleLine, LogStreamsTypeOK
      <3> HIDE DEF idle
      <3>3. /\ Armed(idle) \in ReaderStates /\ Armed(idle).armed /\ Armed(idle).waiting = 1
            /\ Armed(idle).lines = 0 /\ Armed(idle).dones = 0 /\ Armed(idle).over = idle.over
        BY <3>1, ArmedFacts
      <3> QED
        BY <3>1, <3>2, <3>3 DEF Rearms
    <2>2. CASE HandleDone(s)
      BY <1>1, <1>2, <2>2 DEF HandleDone, LogStreamsTypeOK, ReaderStates
    <2> QED
      BY <2>1, <2>2
  <1>5. reader' \in [LogStreams -> ReaderStates]
        /\ \A x \in LogStreams \ {s} : reader'[x] = reader[x]
    BY <1>1, <1>3, <1>4 DEF LogStreamsTypeOK
  <1>6. restarts' \in [LogStreams -> 0 .. MaxRestarts]
        /\ \A x \in LogStreams : restarts'[x] > 0 => restarts[x] > 0 \/ stream[x].pc = "closed"
    <2>1. CASE UNCHANGED restarts
      BY <1>1, <2>1 DEF LogStreamsTypeOK
    <2>2. CASE restarts[s] < MaxRestarts /\ restarts' = [restarts EXCEPT ![s] = @ + 1]
               /\ reader[s].dones > 0
      <3>1. restarts[s] + 1 \in 0 .. MaxRestarts
        BY <1>1, <2>2 DEF LogStreamsTypeOK
      <3>2. stream[s].pc = "closed"
        BY <2>2 DEF LogInv, StreamOrder, EndComesLast
      <3> QED
        BY <1>1, <2>2, <3>1, <3>2 DEF LogStreamsTypeOK
    <2> QED
      BY <2>1, <2>2 DEF HandleLine, HandleDone
  <1>7. StreamTypes'
    BY <1>1, <1>3, <1>5, <1>6 DEF StreamTypes, LogStreamsTypeOK, LinesKept
  <1>8. StreamOrder' /\ SingleReader'
    <2>1. UnstartedIsIdle'
      BY <1>2, <1>3, <1>5 DEF LogInv, StreamOrder, UnstartedIsIdle
    <2>2. EndComesLast'
      BY <1>3, <1>4, <1>5, <1>6 DEF LogInv, StreamOrder, EndComesLast
    <2>3. SingleReader'
      <3> SUFFICES ASSUME NEW x \in LogStreams
                   PROVE  Outstanding(x)' = IF reader'[x].armed THEN 1 ELSE 0
        BY DEF SingleReader
      <3>1. CASE x = s
        BY <3>1, <1>4 DEF Outstanding
      <3>2. CASE x # s
        BY <3>2, <1>5 DEF Outstanding, LogInv, SingleReader
      <3> QED
        BY <3>1, <3>2
    <2> QED
      BY <2>1, <2>2, <2>3 DEF StreamOrder
  <1>9. GoodViews'
    BY <1>3 DEF LogInv, GoodViews, GoodView
  <1>10. NoStreamStalls'
    <2> SUFFICES ASSUME NEW t \in openTabs, NEW x \in LogStreams, x = ShownBy(t)
                 PROVE  Outstanding(x)' > 0 \/ reader'[x].over
      BY <1>1, <1>3 DEF LogStreamsTypeOK, Views, NoStreamStalls, ShownBy, Outstanding
    <2>1. Outstanding(x) > 0 \/ reader[x].over
      BY DEF LogInv, NoStreamStalls
    <2>2. CASE x = s
      <3>1. s = logView.ch \/ KnownTo(s) # {}
        BY <2>2 DEF ShownBy, KnownTo
      <3> QED
        BY <1>4, <2>2, <3>1 DEF Outstanding
    <2>3. CASE x # s
      BY <1>5, <2>1, <2>3 DEF Outstanding
    <2> QED
      BY <2>2, <2>3
  <1>11. NoStreamLeaks'
    BY <1>3 DEF LogInv, NoStreamLeaks, HasHolder
  <1> QED
    BY <1>7, <1>8, <1>9, <1>10, <1>11 DEF LogInv

\* A start keeps the invariant when the stream it takes the view from has ended,
\* is cancelled or counts as lost, and the new one is lost if nothing shows it.
LEMMA LogStartKeeps ==
  ASSUME LogInv, NEW mode \in {"explorer", "logs"}, NEW set, StartStream(mode, set),
         UNCHANGED <<logTab, openTabs, frontTab, logSession, forsaken>>,
         restarts' \in [LogStreams -> 0 .. MaxRestarts],
         \A s \in LogStreams : restarts'[s] <= restarts[s],
         asking' \in {"nothing", "containers", "pods"}, leaving' \in BOOLEAN,
         lost \subseteq lost', lost' \subseteq LogStreams,
         mode = "explorer" => NextStream \in lost',
         logView.cancel # NoStream =>
            \/ logView.cancel \in lost' \cup set
            \/ stream[logView.cancel].cancelled
            \/ stream[logView.cancel].pc = "closed"
  PROVE  LogInv'
  <1> USE LogStreamsAssumption, NoStreamIsNone
  <1> DEFINE n == NextStream
  <1>1. LogStreamsTypeOK /\ LinesKept
    BY DEF LogInv, StreamTypes
  <1>2. /\ n \in LogStreams /\ stream[n].pc = "none"
        /\ stream' \in [LogStreams -> StreamStates]
        /\ reader' = [reader EXCEPT ![n] = Armed(@)]
        /\ reader' \in [LogStreams -> ReaderStates]
        /\ Armed(reader[n]).armed /\ Armed(reader[n]).waiting = 1
        /\ Armed(reader[n]).lines = 0 /\ Armed(reader[n]).dones = 0
        /\ logView' = [mode |-> mode, ch |-> n, cancel |-> n]
        /\ logView' \in Views
    BY StartFacts
  <1>3. \A s \in LogStreams :
              /\ stream'[s].pc = IF s = n THEN "live" ELSE stream[s].pc
              /\ stream'[s].left = stream[s].left
              /\ stream'[s].buffered = stream[s].buffered
    BY StartFacts
  <1>4. \A s \in LogStreams :
              stream'[s].cancelled = (stream[s].cancelled \/ s \in set)
    BY StartFacts
  <1> HIDE DEF n
  <1>5. /\ \A s \in LogStreams \ {n} : reader'[s] = reader[s]
        /\ reader'[n].armed /\ reader'[n].waiting = 1
        /\ reader'[n].lines = 0 /\ reader'[n].dones = 0
        /\ reader[n].dones = 0
    <2>1. reader[n].waiting \in Nat /\ reader[n].lines \in Nat /\ reader[n].dones \in Nat
      BY <1>1, <1>2 DEF LogStreamsTypeOK, ReaderStates
    <2>2. Outstanding(n) = 0
      BY <1>2 DEF LogInv, StreamOrder, UnstartedIsIdle, SingleReader
    <2> QED
      BY <1>1, <1>2, <2>1, <2>2 DEF LogStreamsTypeOK, Outstanding
  <1>6. StreamTypes'
    BY <1>1, <1>2, <1>3 DEF StreamTypes, LogStreamsTypeOK, LinesKept
  <1>7. StreamOrder'
    <2>1. UnstartedIsIdle'
      BY <1>2, <1>3, <1>5 DEF LogInv, StreamOrder, UnstartedIsIdle
    <2>2. EndComesLast'
      <3> SUFFICES ASSUME NEW s \in LogStreams, reader'[s].dones > 0 \/ restarts'[s] > 0
                   PROVE  stream'[s].pc = "closed"
        BY DEF EndComesLast
      <3>1. restarts[s] \in Nat /\ restarts'[s] \in Nat /\ restarts'[s] <= restarts[s]
        BY <1>1 DEF LogStreamsTypeOK
      <3>2. reader[s].dones > 0 \/ restarts[s] > 0
        BY <1>5, <3>1
      <3>3. stream[s].pc = "closed"
        BY <3>2 DEF LogInv, StreamOrder, EndComesLast
      <3> QED
        BY <1>2, <1>3, <3>3
    <2> QED
      BY <2>1, <2>2 DEF StreamOrder
  <1>8. SingleReader'
    <2> SUFFICES ASSUME NEW s \in LogStreams
                 PROVE  Outstanding(s)' = IF reader'[s].armed THEN 1 ELSE 0
      BY DEF SingleReader
    <2>1. CASE s = n
      BY <1>5, <2>1 DEF Outstanding
    <2>2. CASE s # n
      BY <1>5, <2>2 DEF Outstanding, LogInv, SingleReader
    <2> QED
      BY <2>1, <2>2
  <1>9. GoodViews'
    <2>1. GoodView(logView)'
      <3>1. stream'[n].pc # "none"
        BY <1>2, <1>3
      <3>2. mode = "explorer" => n \in lost'
        BY DEF n
      <3> QED
        BY <1>2, <3>1, <3>2 DEF GoodView
    <2>2. ASSUME NEW t \in LogTabs
          PROVE  GoodView(logTab[t])'
      <3>1. GoodView(logTab[t]) /\ logTab[t] \in Views
        BY <1>1 DEF LogInv, GoodViews, LogStreamsTypeOK
      <3>2. logTab[t].ch # NoStream => stream'[logTab[t].ch].pc # "none"
        BY <1>3, <3>1 DEF GoodView, Views
      <3>3. \A s \in LogStreams : stream[s].cancelled => stream'[s].cancelled
        BY <1>4
      <3> QED
        BY <3>1, <3>2, <3>3 DEF GoodView, Views
    <2> QED
      BY <2>1, <2>2 DEF GoodViews
  <1>10. NoStreamStalls'
    <2> SUFFICES ASSUME NEW t \in openTabs, NEW x \in LogStreams, x = ShownBy(t)'
                 PROVE  Outstanding(x)' > 0 \/ reader'[x].over
      BY <1>1, <1>2 DEF LogStreamsTypeOK, Views, NoStreamStalls, ShownBy, Outstanding
    <2>1. CASE x = n
      BY <1>5, <2>1 DEF Outstanding
    <2>2. CASE x # n
      <3>1. x = ShownBy(t)
        BY <1>2, <2>2 DEF ShownBy
      <3> QED
        BY <1>5, <2>2, <3>1 DEF LogInv, NoStreamStalls, Outstanding
    <2> QED
      BY <2>1, <2>2
  <1>11. NoStreamLeaks'
    <2> SUFFICES ASSUME NEW s \in LogStreams \ (lost' \cup forsaken), stream'[s].pc = "live",
                        ~ stream'[s].cancelled
                 PROVE  HasHolder(s)'
      BY DEF NoStreamLeaks
    <2>1. CASE s = n
      BY <1>2, <2>1 DEF HasHolder
    <2>2. CASE s # n
      <3>1. HasHolder(s) /\ ~ stream[s].cancelled /\ s \notin set /\ stream[s].pc = "live"
        BY <1>3, <1>4, <2>2 DEF LogInv, NoStreamLeaks
      <3>2. logView.cancel # s
        BY <3>1
      <3> QED
        BY <3>1, <3>2 DEF HasHolder
    <2> QED
      BY <2>1, <2>2
  <1> QED
    BY <1>6, <1>7, <1>8, <1>9, <1>10, <1>11 DEF LogInv

\* The steps that start a stream, or drop the request for one.
LEMMA StartSteps ==
  ASSUME LogInv, ContainersAnswered \/ PodsAnswered \/ OpenLogs \/ RestartLogs
                 \/ \E s \in LogStreams : HandleRestart(s)
  PROVE  LogInv'
  <1> USE LogStreamsAssumption, NoStreamIsNone
  <1>1. LogStreamsTypeOK
    BY DEF LogInv, StreamTypes
  <1>2. /\ logView.mode \in {"explorer", "logs"} /\ lost \subseteq LogStreams
        /\ asking \in {"nothing", "containers", "pods"} /\ leaving \in BOOLEAN
        /\ restarts \in [LogStreams -> 0 .. MaxRestarts]
        /\ logView.cancel \in LogStreams \cup {NoStream}
        /\ Unheld(logView) \subseteq LogStreams
    BY <1>1 DEF LogStreamsTypeOK, Views, Unheld
  <1>3. \A s \in LogStreams : restarts[s] <= restarts[s]
    BY <1>2
  <1>4. ASSUME Unstarted # {} PROVE NextStream \in LogStreams
    BY <1>4 DEF NextStream, Unstarted
  <1>5. CASE ContainersAnswered
    <2>1. CASE StartStream(logView.mode, {}) /\ lost' = lost \cup LostBy(logView.mode)
      <3>1. NextStream \in LogStreams
        BY <1>4, <2>1 DEF StartStream
      <3> QED
        BY <1>2, <1>3, <1>5, <2>1, <3>1, LogStartKeeps DEF ContainersAnswered, LostBy, Unheld
    <2>2. CASE /\ StartStream(logView.mode, Unheld(logView))
               /\ lost' = IF logView.mode = "logs" THEN lost ELSE lost \cup {NextStream}
      <3>1. NextStream \in LogStreams
        BY <1>4, <2>2 DEF StartStream
      <3> QED
        BY <1>2, <1>3, <1>5, <2>2, <3>1, LogStartKeeps DEF ContainersAnswered, Unheld
    <2>3. CASE UNCHANGED <<stream, reader, logView, lost>>
      BY <1>5, <2>3
      DEF ContainersAnswered, LogInv, StreamTypes, LogStreamsTypeOK, LinesKept, StreamOrder,
          UnstartedIsIdle, EndComesLast, GoodViews, GoodView, SingleReader, Outstanding,
          NoStreamStalls, ShownBy, NoStreamLeaks, HasHolder
    <2> QED
      BY <1>5, <2>1, <2>2, <2>3 DEF ContainersAnswered
  <1>6. CASE PodsAnswered
    <2>1. CASE StartStream("logs", {}) /\ lost' = lost \cup LostBy("logs")
      <3>1. NextStream \in LogStreams
        BY <1>4, <2>1 DEF StartStream
      <3> QED
        BY <1>2, <1>3, <1>6, <2>1, <3>1, LogStartKeeps DEF PodsAnswered, LostBy, Unheld
    <2>2. CASE UNCHANGED <<stream, reader, logView, lost>>
      BY <1>6, <2>2
      DEF PodsAnswered, LogInv, StreamTypes, LogStreamsTypeOK, LinesKept, StreamOrder,
          UnstartedIsIdle, EndComesLast, GoodViews, GoodView, SingleReader, Outstanding,
          NoStreamStalls, ShownBy, NoStreamLeaks, HasHolder
    <2> QED
      BY <1>6, <2>1, <2>2 DEF PodsAnswered
  <1>7. CASE OpenLogs
    <2>1. logView.cancel # NoStream =>
             logView.cancel \in lost \/ stream[logView.cancel].cancelled
      BY <1>7 DEF OpenLogs, LogInv, GoodViews, GoodView
    <2> QED
      BY <1>2, <1>3, <1>7, <2>1, LogStartKeeps DEF OpenLogs
  <1>8. CASE RestartLogs
    BY <1>2, <1>3, <1>8, LogStartKeeps DEF RestartLogs, Unheld
  <1>9. ASSUME NEW s \in LogStreams, HandleRestart(s)
        PROVE  LogInv'
    <2>1. /\ restarts[s] - 1 \in 0 .. MaxRestarts
          /\ restarts' = [restarts EXCEPT ![s] = @ - 1]
      BY <1>2, <1>9 DEF HandleRestart
    <2>2. /\ restarts' \in [LogStreams -> 0 .. MaxRestarts]
          /\ \A x \in LogStreams : restarts'[x] <= restarts[x]
      BY <1>2, <2>1
    <2>3. stream[s].pc = "closed"
      BY <1>9 DEF HandleRestart, LogInv, StreamOrder, EndComesLast
    <2>4. CASE StartStream("logs", {}) /\ IsForView(s)
      <3>1. logView.cancel # NoStream => stream[logView.cancel].pc = "closed"
        BY <2>3, <2>4 DEF IsForView, LogInv, GoodViews, GoodView
      <3> QED
        BY <1>2, <1>9, <2>2, <2>4, <3>1, LogStartKeeps DEF HandleRestart
    <2>5. CASE UNCHANGED <<stream, reader, logView>>
      <3>1. \A x \in LogStreams : restarts'[x] > 0 => restarts[x] > 0
        BY <1>2, <2>2
      <3>2. UNCHANGED <<stream, reader, logView, logTab, openTabs, frontTab, asking,
                        leaving, logSession, lost, forsaken>>
        BY <1>9, <2>5 DEF HandleRestart
      <3> QED
        BY <2>2, <3>1, <3>2
        DEF LogInv, StreamTypes, LogStreamsTypeOK, LinesKept, StreamOrder,
            UnstartedIsIdle, EndComesLast, GoodViews, GoodView, SingleReader, Outstanding,
            NoStreamStalls, ShownBy, NoStreamLeaks, HasHolder
    <2> QED
      BY <1>9, <2>4, <2>5 DEF HandleRestart
  <1> QED
    BY <1>5, <1>6, <1>7, <1>8, <1>9

\* The readers after a step that only a switch of tabs may have armed one in.
ReadersKept ==
    /\ reader' \in [LogStreams -> ReaderStates] /\ SingleReader'
    /\ \A s \in LogStreams :
          /\ reader'[s].dones = reader[s].dones /\ reader'[s].over = reader[s].over
          /\ Outstanding(s) > 0 => Outstanding(s)' > 0
          /\ reader'[s].armed => reader[s].armed \/ stream[s].pc # "none"

LEMMA SameReaders ==
  ASSUME LogInv, UNCHANGED reader
  PROVE  ReadersKept
  BY DEF LogInv, StreamTypes, LogStreamsTypeOK, ReadersKept, SingleReader, Outstanding

LEMMA SwitchReaders ==
  ASSUME LogInv, NEW s \in LogStreams, stream[s].pc # "none",
         reader' = [reader EXCEPT ![s] = ArmedIfIdle(@)]
  PROVE  ReadersKept
  <1>1. reader \in [LogStreams -> ReaderStates]
    BY DEF LogInv, StreamTypes, LogStreamsTypeOK
  <1>2. CASE reader[s].armed
    BY <1>1, <1>2, SameReaders DEF ArmedIfIdle
  <1>3. CASE ~reader[s].armed
    <2>1. reader[s].waiting \in Nat /\ reader[s].lines \in Nat /\ reader[s].dones \in Nat
      BY <1>1 DEF ReaderStates
    <2>2. Outstanding(s) = 0
      BY <1>3 DEF LogInv, SingleReader
    <2>3. /\ reader[s].waiting + reader[s].lines + reader[s].dones = 0
          /\ reader[s].dones = 0 /\ reader[s] \in ReaderStates
      BY <1>1, <2>1, <2>2 DEF Outstanding
    <2>4. reader' = [reader EXCEPT ![s] = Armed(reader[s])]
      BY <1>3 DEF ArmedIfIdle
    <2>5. /\ reader' = [reader EXCEPT ![s] = Armed(reader[s])]
          /\ Armed(reader[s]) \in ReaderStates
          /\ Armed(reader[s]).armed /\ Armed(reader[s]).waiting = 1
          /\ Armed(reader[s]).lines = 0 /\ Armed(reader[s]).dones = 0
          /\ Armed(reader[s]).over = reader[s].over
          /\ reader[s].dones = 0
      BY <2>3, <2>4, ArmedFacts
    <2>6. /\ reader' \in [LogStreams -> ReaderStates]
          /\ \A x \in LogStreams \ {s} : reader'[x] = reader[x]
          /\ reader'[s] = Armed(reader[s])
      BY <1>1, <2>5
    <2>7. SingleReader'
      BY <2>5, <2>6 DEF LogInv, SingleReader, Outstanding
    <2> QED
      BY <2>5, <2>6, <2>7 DEF ReadersKept, Outstanding
  <1> QED
    BY <1>2, <1>3

\* Views that come from views, and a stream cancelled wherever its function is
\* dropped, keep the invariant.
LEMMA ViewKeeps ==
  ASSUME LogInv, StreamsKept, ReadersKept, UNCHANGED <<restarts, lost>>,
         logSession' \in BOOLEAN, forsaken' \subseteq LogStreams,
         asking' \in {"nothing", "containers", "pods"}, leaving' \in BOOLEAN,
         openTabs' \subseteq LogTabs, frontTab' \in openTabs',
         logView' \in Views, logTab' \in [LogTabs -> Views],
         GoodViews', NoStreamLeaks',
         \A t \in openTabs' :
            ShownBy(t)' = NoStream \/ \E u \in openTabs : ShownBy(t)' = ShownBy(u)
  PROVE  LogInv'
  <1> USE LogStreamsAssumption, NoStreamIsNone
  <1>1. LogStreamsTypeOK /\ LinesKept
    BY DEF LogInv, StreamTypes
  <1>2. StreamTypes'
    BY <1>1 DEF StreamTypes, LogStreamsTypeOK, LinesKept, StreamsKept, ReadersKept
  <1>3. StreamOrder' /\ SingleReader'
    BY DEF LogInv, StreamOrder, UnstartedIsIdle, EndComesLast, StreamsKept, ReadersKept
  <1>4. NoStreamStalls'
    <2> SUFFICES ASSUME NEW t \in openTabs', NEW x \in LogStreams, x = ShownBy(t)'
                 PROVE  Outstanding(x)' > 0 \/ reader'[x].over
      BY DEF LogStreamsTypeOK, Views, NoStreamStalls, ShownBy, Outstanding
    <2>1. \E u \in openTabs : x = ShownBy(u)
      OBVIOUS
    <2> QED
      BY <2>1 DEF LogInv, NoStreamStalls, ReadersKept
  <1> QED
    BY <1>2, <1>3, <1>4 DEF LogInv

\* A stream that no cancel function reached had a holder, and has its state.
LEMMA LeftRunning ==
  ASSUME LogInv, NEW set, stream' = Cancelled(set),
         NEW s \in LogStreams \ (lost \cup forsaken), stream'[s].pc = "live", ~ stream'[s].cancelled
  PROVE  HasHolder(s) /\ s \notin set
  <1>1. StreamTypes
    BY DEF LogInv
  <1>2. stream[s].pc = "live"
    BY <1>1, CancelFacts
  <1>3. ~ stream[s].cancelled /\ s \notin set
    BY <1>1, CancelFacts
  <1> QED
    BY <1>2, <1>3 DEF LogInv, NoStreamLeaks

\* The steps that only move, drop or save views.
LEMMA ViewSteps ==
  ASSUME LogInv,
         \/ QuitLogs \/ AskContainers \/ AskPods \/ SaveSession \/ InterruptLast \/ Leave
         \/ AskSession \/ RestoreSession
         \/ \E t \in LogTabs : SwitchTab(t) \/ NewTab(t) \/ CloseTab(t)
  PROVE  LogInv'
  <1> USE LogStreamsAssumption, NoStreamIsNone
  <1>1. StreamTypes /\ LogStreamsTypeOK
    BY DEF LogInv, StreamTypes
  <1>2. /\ logView \in Views /\ logTab \in [LogTabs -> Views] /\ Explorer \in Views
        /\ frontTab \in openTabs /\ openTabs \subseteq LogTabs /\ leaving \in BOOLEAN
        /\ asking \in {"nothing", "containers", "pods"}
        /\ logSession \in BOOLEAN /\ forsaken \subseteq LogStreams
        /\ GoodView(logView) /\ \A t \in LogTabs : GoodView(logTab[t])
    BY <1>1 DEF LogStreamsTypeOK, LogInv, GoodViews, Explorer, Views
  <1>3. ASSUME NEW v \in Views, GoodView(v), StreamsKept, UNCHANGED lost
        PROVE  /\ v.ch # NoStream => stream'[v.ch].pc # "none"
               /\ v.cancel # NoStream => v.cancel = v.ch
               /\ v.mode = "explorer" /\ v.cancel # NoStream =>
                     v.cancel \in lost' \/ stream'[v.cancel].cancelled
    BY <1>3 DEF GoodView, Views, StreamsKept
  <1>4. CASE QuitLogs
    <2>1. StreamsKept /\ ReadersKept
      BY <1>1, <1>4, KeptFacts, SameReaders DEF QuitLogs
    <2>2. GoodViews'
      BY <1>2, <1>3, <1>4, <2>1 DEF QuitLogs, GoodViews, GoodView, Explorer
    <2>3. NoStreamLeaks'
      <3> SUFFICES ASSUME NEW s \in LogStreams \ (lost \cup forsaken), stream'[s].pc = "live",
                          ~ stream'[s].cancelled
                   PROVE  HasHolder(s)'
        BY <1>4 DEF QuitLogs, NoStreamLeaks
      <3>1. HasHolder(s) /\ s \notin Unheld(logView)
        BY <1>4, LeftRunning DEF QuitLogs, CancelledByQ
      <3> QED
        BY <1>4, <3>1 DEF QuitLogs, Unheld, HasHolder
    <2>4. \A t \in openTabs' :
             ShownBy(t)' = NoStream \/ \E u \in openTabs : ShownBy(t)' = ShownBy(u)
      BY <1>4 DEF QuitLogs, ShownBy, Explorer
    <2> QED
      BY <1>2, <1>4, <2>1, <2>2, <2>3, <2>4, ViewKeeps DEF QuitLogs
  <1>5. CASE AskContainers
    <2>1. StreamsKept /\ ReadersKept
      BY <1>1, <1>5, KeptFacts, SameReaders DEF AskContainers
    <2>2. GoodViews'
      BY <1>2, <1>3, <1>5, <2>1 DEF AskContainers, GoodViews, GoodView
    <2>3. NoStreamLeaks'
      BY <1>5 DEF AskContainers, LogInv, NoStreamLeaks, HasHolder
    <2>4. \A t \in openTabs' :
             ShownBy(t)' = NoStream \/ \E u \in openTabs : ShownBy(t)' = ShownBy(u)
      BY <1>5 DEF AskContainers, ShownBy
    <2> QED
      BY <1>2, <1>5, <2>1, <2>2, <2>3, <2>4, ViewKeeps DEF AskContainers
  <1>6. CASE AskPods
    <2>1. StreamsKept /\ ReadersKept
      BY <1>1, <1>6, KeptFacts, SameReaders DEF AskPods
    <2>2. /\ logView' \in Views /\ logView'.mode = logView.mode
          /\ logView'.ch = NoStream /\ logView'.cancel = NoStream
      BY <1>2, <1>6 DEF AskPods, Views
    <2>3. GoodViews'
      BY <1>2, <1>3, <1>6, <2>1, <2>2 DEF AskPods, GoodViews, GoodView
    <2>4. NoStreamLeaks'
      BY <1>6, <2>2, LeftRunning DEF AskPods, Unheld, NoStreamLeaks, HasHolder
    <2>5. \A t \in openTabs' :
             ShownBy(t)' = NoStream \/ \E u \in openTabs : ShownBy(t)' = ShownBy(u)
      BY <1>6, <2>2 DEF AskPods, ShownBy
    <2> QED
      BY <1>2, <1>6, <2>1, <2>2, <2>3, <2>4, <2>5, ViewKeeps DEF AskPods
  <1>7. CASE SaveSession \/ AskSession
    <2>1. StreamsKept /\ ReadersKept
      BY <1>1, <1>7, KeptFacts, SameReaders DEF SaveSession, AskSession
    <2>2. logTab' = [logTab EXCEPT ![frontTab] = logView]
      BY <1>7 DEF SaveSession, AskSession, Saved
    <2>3. GoodViews'
      BY <1>2, <1>3, <1>7, <2>1, <2>2 DEF SaveSession, AskSession, GoodViews, GoodView
    <2>4. NoStreamLeaks'
      BY <1>2, <1>7, <2>2 DEF SaveSession, AskSession, LogInv, NoStreamLeaks, HasHolder
    <2>5. \A t \in openTabs' :
             ShownBy(t)' = NoStream \/ \E u \in openTabs : ShownBy(t)' = ShownBy(u)
      BY <1>2, <1>7, <2>2 DEF SaveSession, AskSession, ShownBy
    <2> QED
      BY <1>2, <1>7, <2>1, <2>2, <2>3, <2>4, <2>5, ViewKeeps DEF SaveSession, AskSession
  <1>8. CASE InterruptLast
    <2>1. StreamsKept /\ ReadersKept
      BY <1>1, <1>8, KeptFacts, SameReaders DEF InterruptLast
    <2>2. GoodViews'
      BY <1>2, <1>3, <1>8, <2>1 DEF InterruptLast, GoodViews, GoodView
    <2>3. NoStreamLeaks'
      BY <1>8, LeftRunning DEF InterruptLast, NoStreamLeaks, HasHolder
    <2>4. \A t \in openTabs' :
             ShownBy(t)' = NoStream \/ \E u \in openTabs : ShownBy(t)' = ShownBy(u)
      BY <1>8 DEF InterruptLast, ShownBy
    <2> QED
      BY <1>2, <1>8, <2>1, <2>2, <2>3, <2>4, ViewKeeps DEF InterruptLast
  <1>9. CASE Leave
    <2>1. StreamsKept /\ ReadersKept
      BY <1>1, <1>9, KeptFacts, SameReaders DEF Leave
    <2>2. /\ logView' \in Views /\ logView'.mode = logView.mode
          /\ logView'.ch = logView.ch /\ logView'.cancel = NoStream
      BY <1>2, <1>9 DEF Leave, Views
    <2>3. /\ logTab' \in [LogTabs -> Views]
          /\ \A t \in LogTabs : /\ logTab'[t].mode = logTab[t].mode
                                /\ logTab'[t].ch = logTab[t].ch
                                /\ logTab'[t].cancel = NoStream
      BY <1>2, <1>9 DEF Leave, Views
    <2>4. GoodViews'
      <3>1. UNCHANGED lost
        BY <1>9 DEF Leave
      <3>2. GoodView(logView)'
        BY <1>2, <1>3, <2>1, <2>2, <3>1 DEF GoodView
      <3>3. \A t \in LogTabs : logTab[t].ch # NoStream => stream'[logTab[t].ch].pc # "none"
        BY <1>2, <1>3, <2>1, <3>1
      <3>4. \A t \in LogTabs : GoodView(logTab[t])'
        BY <2>3, <3>3 DEF GoodView
      <3> QED
        BY <3>2, <3>4 DEF GoodViews
    <2>5. NoStreamLeaks'
      <3> DEFINE held == Unheld(logView) \cup UNION {Unheld(logTab[t]) : t \in openTabs}
      <3>1. stream' = Cancelled(held)
        BY <1>9 DEF Leave
      <3>2. \A s \in LogStreams : HasHolder(s) => s \in held
        BY DEF HasHolder, Unheld
      <3> HIDE DEF held
      <3>3. SUFFICES ASSUME NEW s \in LogStreams \ (lost \cup forsaken), stream'[s].pc = "live",
                            ~ stream'[s].cancelled
                     PROVE  FALSE
        BY <1>9 DEF Leave, NoStreamLeaks
      <3> QED
        BY <3>1, <3>2, <3>3, LeftRunning
    <2>6. \A t \in openTabs' :
             ShownBy(t)' = NoStream \/ \E u \in openTabs : ShownBy(t)' = ShownBy(u)
      BY <1>2, <1>9, <2>2, <2>3 DEF Leave, ShownBy
    <2> QED
      BY <1>2, <1>9, <2>1, <2>2, <2>3, <2>4, <2>5, <2>6, ViewKeeps DEF Leave
  <1>10. ASSUME NEW t \in LogTabs, SwitchTab(t)
         PROVE  LogInv'
    <2>1. ReadersKept
      <3>1. CASE /\ logTab[t].ch # NoStream
                 /\ reader' = [reader EXCEPT ![logTab[t].ch] = ArmedIfIdle(@)]
        BY <1>2, <3>1, SwitchReaders DEF GoodView, Views
      <3>2. CASE UNCHANGED reader
        BY <3>2, SameReaders
      <3> QED
        BY <1>10, <3>1, <3>2 DEF SwitchTab
    <2>2. StreamsKept
      BY <1>1, <1>10, KeptFacts DEF SwitchTab
    <2>3. /\ logTab' = [logTab EXCEPT ![frontTab] = logView]
          /\ t \in openTabs /\ t # frontTab /\ frontTab' = t /\ logView' = logTab[t]
          /\ UNCHANGED <<stream, openTabs, restarts, asking, leaving, logSession, lost,
                        forsaken>>
      BY <1>10 DEF SwitchTab, Saved
    <2>4. GoodViews'
      BY <1>2, <1>3, <2>2, <2>3 DEF GoodViews, GoodView
    <2>5. NoStreamLeaks'
      BY <1>2, <2>3 DEF LogInv, NoStreamLeaks, HasHolder
    <2>6. \A x \in openTabs' :
             ShownBy(x)' = NoStream \/ \E u \in openTabs : ShownBy(x)' = ShownBy(u)
      BY <1>2, <2>3 DEF ShownBy
    <2> QED
      BY <1>2, <2>1, <2>2, <2>3, <2>4, <2>5, <2>6, ViewKeeps
  <1>11. ASSUME NEW t \in LogTabs, NewTab(t)
         PROVE  LogInv'
    <2>1. StreamsKept /\ ReadersKept
      BY <1>1, <1>11, KeptFacts, SameReaders DEF NewTab
    <2>2. /\ logTab' = [[logTab EXCEPT ![frontTab] = logView] EXCEPT ![t] = Explorer]
          /\ t \notin openTabs /\ frontTab' = t /\ logView' = Explorer
          /\ openTabs' = openTabs \cup {t}
          /\ UNCHANGED <<stream, restarts, asking, leaving, logSession, lost, forsaken>>
      BY <1>11 DEF NewTab, Saved
    <2>3. GoodViews'
      BY <1>2, <1>3, <2>1, <2>2 DEF GoodViews, GoodView, Explorer
    <2>4. NoStreamLeaks'
      BY <1>2, <2>2 DEF LogInv, NoStreamLeaks, HasHolder
    <2>5. \A x \in openTabs' :
             ShownBy(x)' = NoStream \/ \E u \in openTabs : ShownBy(x)' = ShownBy(u)
      BY <1>2, <2>2 DEF ShownBy, Explorer
    <2> QED
      BY <1>2, <2>1, <2>2, <2>3, <2>4, <2>5, ViewKeeps
  <1>12. ASSUME NEW t \in LogTabs, CloseTab(t)
         PROVE  LogInv'
    <2>1. StreamsKept /\ ReadersKept
      BY <1>1, <1>12, KeptFacts, SameReaders DEF CloseTab
    <2>2. /\ logTab' = [logTab EXCEPT ![frontTab] = Explorer]
          /\ t \in openTabs /\ t # frontTab /\ frontTab' = t /\ logView' = logTab[t]
          /\ openTabs' = openTabs \ {frontTab}
          /\ stream' = Cancelled(Unheld(logView))
          /\ UNCHANGED <<restarts, asking, leaving, logSession, lost, forsaken>>
      BY <1>12 DEF CloseTab, CancelledByClose
    <2>3. GoodViews'
      BY <1>2, <1>3, <2>1, <2>2 DEF GoodViews, GoodView, Explorer
    <2>4. NoStreamLeaks'
      <3> SUFFICES ASSUME NEW s \in LogStreams \ (lost \cup forsaken), stream'[s].pc = "live",
                          ~ stream'[s].cancelled
                   PROVE  HasHolder(s)'
        BY <2>2 DEF NoStreamLeaks
      <3>1. HasHolder(s) /\ s \notin Unheld(logView)
        BY <2>2, LeftRunning
      <3> QED
        BY <1>2, <2>2, <3>1 DEF Unheld, HasHolder
    <2>5. \A x \in openTabs' :
             ShownBy(x)' = NoStream \/ \E u \in openTabs : ShownBy(x)' = ShownBy(u)
      BY <1>2, <2>2 DEF ShownBy
    <2> QED
      BY <1>2, <2>1, <2>2, <2>3, <2>4, <2>5, ViewKeeps
  <1>13. CASE RestoreSession
    <2>1. StreamsKept /\ ReadersKept
      BY <1>1, <1>13, KeptFacts, SameReaders DEF RestoreSession
    <2>2. UNCHANGED <<stream, logView, restarts, asking, leaving, lost>>
          /\ logSession' = FALSE
      BY <1>13 DEF RestoreSession
    <2>3. CASE UNCHANGED <<logTab, openTabs, frontTab, forsaken>>
      <3>1. GoodViews'
        BY <1>2, <1>3, <2>1, <2>2, <2>3 DEF GoodViews, GoodView
      <3>2. NoStreamLeaks'
        BY <2>2, <2>3 DEF LogInv, NoStreamLeaks, HasHolder
      <3>3. \A t \in openTabs' : \E u \in openTabs : ShownBy(t)' = ShownBy(u)
        BY <2>2, <2>3 DEF ShownBy
      <3> QED
        BY <1>2, <2>1, <2>2, <2>3, <3>1, <3>2, <3>3, ViewKeeps
    <2>4. CASE /\ openTabs' \in SUBSET LogTabs /\ frontTab' \in openTabs'
               /\ logTab' = [t \in LogTabs |-> Explorer]
               /\ forsaken' = forsaken \cup {s \in HeldBehind : ~stream[s].cancelled}
      <3>1. GoodViews'
        BY <1>2, <1>3, <2>1, <2>2, <2>4 DEF GoodViews, GoodView, Explorer
      <3>2. NoStreamLeaks'
        <4> SUFFICES ASSUME NEW s \in LogStreams \ (lost \cup forsaken'),
                            stream[s].pc = "live", ~ stream[s].cancelled
                     PROVE  logView.cancel = s
          BY <2>2 DEF NoStreamLeaks, HasHolder
        <4>1. s \notin forsaken /\ s \notin HeldBehind
          BY <2>4
        <4>2. HasHolder(s)
          BY <4>1 DEF LogInv, NoStreamLeaks
        <4> QED
          BY <4>1, <4>2 DEF HasHolder, HeldBehind, Unheld
      <3>3. HeldBehind \subseteq LogStreams
        BY <1>2 DEF HeldBehind, Unheld, Views
      <3>4. \A t \in openTabs' :
               ShownBy(t)' = NoStream \/ \E u \in openTabs : ShownBy(t)' = ShownBy(u)
        BY <1>2, <2>2, <2>4 DEF ShownBy, Explorer
      <3>5. logTab' \in [LogTabs -> Views] /\ forsaken' \subseteq LogStreams
        BY <1>2, <2>4, <3>3
      <3> QED
        BY <1>2, <2>1, <2>2, <2>4, <3>1, <3>2, <3>4, <3>5, ViewKeeps
    <2> QED
      BY <1>13, <2>3, <2>4 DEF RestoreSession
  <1> QED
    BY <1>4, <1>5, <1>6, <1>7, <1>8, <1>9, <1>10, <1>11, <1>12, <1>13

\* Every step keeps the invariant.
LEMMA LogStep ==
  ASSUME LogInv, [LogStreamsNext]_logVars
  PROVE  LogInv'
  <1>1. CASE UNCHANGED logVars
    BY <1>1
    DEF logVars, LogInv, StreamTypes, LogStreamsTypeOK, LinesKept, StreamOrder,
        UnstartedIsIdle, EndComesLast, GoodViews, GoodView, SingleReader, Outstanding,
        NoStreamStalls, ShownBy, NoStreamLeaks, HasHolder
  <1>2. CASE \E s \in LogStreams : \/ Emit(s) \/ CloseStream(s) \/ Receive(s)
                                   \/ HandleLine(s) \/ HandleDone(s) \/ HandleRestart(s)
    BY <1>2, GoroutineSteps, HandlerSteps, StartSteps
  <1>3. CASE \E t \in LogTabs : SwitchTab(t) \/ NewTab(t) \/ CloseTab(t)
    BY <1>3, ViewSteps
  <1>4. CASE OpenLogs \/ RestartLogs \/ ContainersAnswered \/ PodsAnswered
    BY <1>4, StartSteps
  <1>5. CASE \/ QuitLogs \/ AskContainers \/ AskPods \/ SaveSession \/ InterruptLast \/ Leave
             \/ AskSession \/ RestoreSession
    BY <1>5, ViewSteps
  <1> QED
    BY <1>1, <1>2, <1>3, <1>4, <1>5 DEF LogStreamsNext

THEOREM LogAlwaysInv == LogStreamsSpec => []LogInv
  BY LogInitial, LogStep, PTL DEF LogStreamsSpec

\* A channel has one reader at most, however the user switches, opens and closes
\* tabs and whichever answers come late: no two goroutines share the lines of a
\* stream and hand them over in the wrong order (commands_logs.go:367-377).
THEOREM OneReaderPerStream == LogStreamsSpec => []SingleReader
  <1>1. LogInv => SingleReader
    BY DEF LogInv
  <1> QED
    BY <1>1, LogAlwaysInv, PTL

\* The stream that a tab shows, in front or behind, has a reader or a message
\* under way, until its end was handled (update_exec_log_msgs.go:96-117).
THEOREM ShownStreamsAreRead == LogStreamsSpec => []NoStreamStalls
  <1>1. LogInv => NoStreamStalls
    BY DEF LogInv
  <1> QED
    BY <1>1, LogAlwaysInv, PTL

\* A kubectl that runs was cancelled or is held by a tab that can cancel it,
\* unless an answer to \ took its cancel function away or came too late to be
\* shown (update_actions_misc.go:95-123), or a switch of the session dropped its
\* tab (update_bookmarks_session.go:243).
THEOREM StreamsAreStoppable == LogStreamsSpec => []NoStreamLeaks
  <1>1. LogInv => NoStreamLeaks
    BY DEF LogInv
  <1> QED
    BY <1>1, LogAlwaysInv, PTL

-----------------------------------------------------------------------------
(* Packet captures.                                                        *)

\* The types, but for the bound on captureStoppedMsg.
CaptureTypes ==
    /\ starts \in [Captures -> StartStates] /\ child \in [Captures -> ChildStates]
    /\ stops \in [Captures -> Nat] /\ overlay \in Overlays /\ quit \in BOOLEAN
    /\ pcaps \subseteq Captures /\ saved \subseteq Captures /\ removed \subseteq Captures
    /\ overlapped \subseteq Captures /\ displaced \subseteq Captures

\* What a capture was not started for has not happened; two starts under way
\* know of each other.
ChildFollowsStart ==
    \A c \in Captures :
        /\ starts[c] \in {"none", "flying"} => ~Started(c)
        /\ starts[c] = "posted" \/ stops[c] > 0 \/ overlay.capture = c => Started(c)
        /\ child[c].live => child[c].status \in {"Starting", "Running"}
        /\ stops[c] > 0 => child[c].cancelled
OverlapsAreKnown ==
    \A c, d \in Captures : UnderWay(c) /\ UnderWay(d) /\ c # d => c \in overlapped

\* Only a capture whose start was handled has a file that someone disposed of,
\* and an overlay that is off the screen has lost the file it answers for.
FilesAreOfTheDone ==
    /\ \A c \in Captures : c \in saved \cup removed \cup Forgotten => starts[c] = "done"
    /\ overlay.unsaved \notin saved
    /\ overlay.open \/ Forgotten \subseteq displaced

\* While the overlay answers for the file of a capture that goes on, it shows
\* the capture live, where Esc and Enter start no other.
UnsavedIsShown ==
    \A c \in Forgotten \ overlapped :
        child[c].live /\ ~child[c].cancelled =>
            /\ overlay.phase = "live" /\ overlay.capture = c
            /\ \A d \in Captures : ~UnderWay(d)

CaptureInv ==
    /\ CaptureTypes /\ ChildFollowsStart /\ OverlapsAreKnown
    /\ FilesAreOfTheDone /\ UnsavedIsShown
    /\ RemovedIsStopped /\ PcapsAreAccountedFor

LEMMA NoCaptureIsNone == NoCapture \notin Captures
  BY DEF NoCapture, Captures

\* The invariant holds before the first capture.
LEMMA CaptureInitial == CapturesInit => CaptureInv
  <1> SUFFICES ASSUME CapturesInit PROVE CaptureInv
    OBVIOUS
  <1> USE NoCaptureIsNone
  <1>1. overlay.unsaved = NoCapture /\ Forgotten = {}
    BY DEF CapturesInit, Forgotten
  <1>2. CaptureTypes
    BY DEF CapturesInit, CaptureTypes, StartStates, ChildStates, Overlays
  <1>3. ChildFollowsStart /\ OverlapsAreKnown
    BY DEF CapturesInit, ChildFollowsStart, OverlapsAreKnown, UnderWay, Started
  <1> QED
    BY <1>1, <1>2, <1>3
    DEF CapturesInit, CaptureInv, FilesAreOfTheDone, UnsavedIsShown, RemovedIsStopped,
        PcapsAreAccountedFor

\* The manager's steps: the overlay does not see them, and none undoes an end.
LEMMA ManagerSteps ==
  ASSUME CaptureInv, NEW c \in Captures, StartCapture(c) \/ ChildExit(c) \/ MarkRunning(c)
  PROVE  /\ CaptureInv'
         /\ \A x \in Captures : child[x].status = "Ended" => child'[x].status = "Ended"
  <1> USE NoCaptureIsNone
  <1>1. /\ CaptureTypes
        /\ UNCHANGED <<stops, overlay, quit, saved, removed, overlapped, displaced>>
        /\ Forgotten' = Forgotten /\ Forgotten \subseteq Captures
    BY DEF CaptureInv, CaptureTypes, Overlays, StartCapture, ChildExit, MarkRunning, Forgotten
  <1>2. /\ child[c] \in ChildStates /\ starts[c] \in StartStates
        /\ starts[c] = "flying" => ~Started(c) /\ stops[c] = 0 /\ overlay.capture # c
    BY <1>1 DEF CaptureInv, ChildFollowsStart, CaptureTypes
  <1>3. /\ child' \in [Captures -> ChildStates]
        /\ \A x \in Captures \ {c} : child'[x] = child[x]
        /\ ~StartCapture(c) =>
              /\ Started(c) <=> child'[c].status # "none"
              /\ child'[c].live => child[c].live
              /\ child'[c].cancelled = child[c].cancelled
              /\ child'[c].live => child'[c].status \in {"Starting", "Running"}
        /\ child[c].status = "Ended" => child'[c].status = "Ended"
    <2>1. CASE StartCapture(c)
      <3>1. CASE child' = [child EXCEPT ![c] = [status |-> "Starting", live |-> TRUE,
                                                cancelled |-> FALSE, flip |-> TRUE]]
        BY <1>1, <1>2, <2>1, <3>1 DEF CaptureTypes, ChildStates, StartCapture, Started
      <3>2. CASE UNCHANGED child
        BY <1>1, <1>2, <2>1, <3>2 DEF CaptureTypes, StartCapture
      <3> QED
        BY <2>1, <3>1, <3>2 DEF StartCapture
    <2>2. CASE ChildExit(c)
      BY <1>1, <1>2, <2>2
      DEF CaptureInv, ChildFollowsStart, CaptureTypes, ChildStates, ChildExit, Started
    <2>3. CASE MarkRunning(c)
      BY <1>1, <1>2, <2>3
      DEF CaptureInv, ChildFollowsStart, CaptureTypes, ChildStates, MarkRunning, Started,
          Flipped
    <2> QED
      BY <2>1, <2>2, <2>3
  <1>4. /\ starts' \in [Captures -> StartStates]
        /\ pcaps' \subseteq Captures /\ pcaps \subseteq pcaps' /\ pcaps' \subseteq pcaps \cup {c}
        /\ \A x \in Captures \ {c} : starts'[x] = starts[x]
        /\ c \in pcaps' => c \in pcaps \/ starts'[c] = "posted"
        /\ starts[c] \in {"done", "posted"} => starts'[c] = starts[c]
        /\ ~StartCapture(c) => starts'[c] = starts[c]
        /\ starts'[c] \in {"flying", "posted", "failed"} =>
              starts[c] \in {"flying", "posted", "failed"}
    BY <1>1, <1>2 DEF CaptureTypes, StartStates, StartCapture, ChildExit, MarkRunning
  <1>5. StartCapture(c) =>
           /\ starts[c] = "flying"
           /\ starts'[c] = "posted" => child'[c].status = "Starting"
           /\ starts'[c] \in {"posted", "failed"}
           /\ child'[c].live => child'[c].status = "Starting"
    <2> SUFFICES ASSUME StartCapture(c)
                 PROVE  /\ starts[c] = "flying"
                        /\ starts'[c] = "posted" => child'[c].status = "Starting"
                        /\ starts'[c] \in {"posted", "failed"}
                        /\ child'[c].live => child'[c].status = "Starting"
      OBVIOUS
    <2>1. ~child[c].live
      BY <1>2 DEF CaptureInv, ChildFollowsStart, Started, StartCapture
    <2> QED
      BY <1>1, <2>1 DEF CaptureTypes, StartCapture
  <1>6. CaptureTypes'
    BY <1>1, <1>3, <1>4 DEF CaptureTypes
  <1>7. ChildFollowsStart'
    <2>1. CASE StartCapture(c)
      BY <1>1, <1>2, <1>3, <1>4, <1>5, <2>1
      DEF CaptureInv, CaptureTypes, ChildFollowsStart, Started
    <2>2. CASE ~StartCapture(c)
      BY <1>1, <1>3, <1>4, <2>2 DEF CaptureInv, CaptureTypes, ChildFollowsStart, Started
    <2> QED
      BY <2>1, <2>2
  <1>8. OverlapsAreKnown'
    BY <1>1, <1>4 DEF CaptureInv, OverlapsAreKnown, UnderWay
  <1>9. FilesAreOfTheDone'
    BY <1>1, <1>4 DEF CaptureInv, FilesAreOfTheDone
  <1>10. UnsavedIsShown'
    <2>1. c \in Forgotten => starts[c] = "done" /\ ~StartCapture(c)
      BY DEF CaptureInv, FilesAreOfTheDone, StartCapture
    <2>2. \A d \in Captures : UnderWay(d)' => UnderWay(d)
      BY <1>4 DEF UnderWay
    <2> QED
      BY <1>1, <1>3, <2>1, <2>2 DEF CaptureInv, UnsavedIsShown
  <1>11. RemovedIsStopped'
    <2>1. c \in removed => starts[c] = "done" /\ ~StartCapture(c)
      BY DEF CaptureInv, FilesAreOfTheDone, StartCapture
    <2> QED
      BY <1>1, <1>3, <2>1 DEF CaptureInv, RemovedIsStopped, CaptureTypes
  <1>12. PcapsAreAccountedFor'
    BY <1>1, <1>4 DEF CaptureInv, PcapsAreAccountedFor
  <1>13. \A x \in Captures : child[x].status = "Ended" => child'[x].status = "Ended"
    BY <1>3
  <1> QED
    BY <1>6, <1>7, <1>8, <1>9, <1>10, <1>11, <1>12, <1>13 DEF CaptureInv

\* Steps of the overlay alone.
LEMMA OverlaySteps ==
  ASSUME CaptureInv,
         \/ OpenOverlay \/ ToConfig \/ Displace
         \/ \E c \in Captures : OpenRow(c) \/ HandleFailed(c) \/ HandleStopped(c)
  PROVE  CaptureInv' /\ UNCHANGED child
  <1> USE NoCaptureIsNone
  <1>1. /\ CaptureTypes /\ UNCHANGED <<child, pcaps, quit, saved, removed, overlapped>>
        /\ Forgotten \subseteq Captures
    BY DEF CaptureInv, CaptureTypes, Overlays, OpenOverlay, ToConfig, Displace, OpenRow,
           HandleFailed, HandleStopped, Forgotten
  <1>2. overlay' \in Overlays
    <2>1. CASE OpenOverlay
      BY <2>1 DEF Overlays, OpenOverlay, Opened
    <2>2. CASE ToConfig \/ Displace
      BY <1>1, <2>2 DEF CaptureTypes, Overlays, ToConfig, Displace
    <2>3. ASSUME NEW c \in Captures, OpenRow(c) PROVE overlay' \in Overlays
      BY <2>3 DEF Overlays, OpenRow, Opened
    <2>4. ASSUME NEW c \in Captures, HandleFailed(c) \/ HandleStopped(c)
          PROVE  overlay' \in Overlays
      BY <1>1, <2>4 DEF CaptureTypes, Overlays, HandleFailed, HandleStopped, StoppedPhase
    <2> QED
      BY <2>1, <2>2, <2>3, <2>4
  <1>3. /\ displaced \subseteq displaced' /\ displaced' \subseteq Captures
        /\ displaced' \subseteq displaced \cup Forgotten
    BY <1>1
    DEF CaptureTypes, OpenOverlay, ToConfig, Displace, OpenRow, HandleFailed, HandleStopped
  <1>4. \/ overlay'.unsaved = overlay.unsaved
        \/ overlay'.unsaved = NoCapture /\ ~overlay.open
    BY <1>1
    DEF CaptureTypes, Overlays, OpenOverlay, ToConfig, Displace, OpenRow, HandleFailed,
        HandleStopped, Opened
  <1>5. /\ starts' \in [Captures -> StartStates] /\ stops' \in [Captures -> Nat]
        /\ \A c \in Captures : /\ starts'[c] \in {starts[c], "done"}
                               /\ starts[c] = "failed" \/ starts'[c] = starts[c]
                               /\ stops'[c] > 0 => stops[c] > 0
    BY <1>1
    DEF CaptureTypes, StartStates, OpenOverlay, ToConfig, Displace, OpenRow, HandleFailed,
        HandleStopped
  <1>6. CaptureTypes'
    BY <1>1, <1>2, <1>3, <1>5 DEF CaptureTypes
  <1>7. \A c \in Captures : overlay'.capture = c => overlay.capture = c \/ Started(c)
    BY <1>1
    DEF CaptureTypes, Overlays, OpenOverlay, ToConfig, Displace, OpenRow, HandleFailed,
        HandleStopped, Opened
  <1>8. ChildFollowsStart'
    BY <1>1, <1>5, <1>7 DEF CaptureInv, ChildFollowsStart, Started
  <1>9. OverlapsAreKnown'
    BY <1>1, <1>5 DEF CaptureInv, OverlapsAreKnown, UnderWay
  <1>10. Forgotten' \subseteq Forgotten /\ (overlay'.open \/ Forgotten' \subseteq displaced')
    <2>1. overlay'.open \/ overlay'.unsaved = NoCapture \/ ~overlay.open \/ Displace
      BY <1>1
      DEF CaptureTypes, Overlays, OpenOverlay, ToConfig, OpenRow, HandleFailed,
          HandleStopped, Opened
    <2>2. Forgotten' \subseteq Forgotten
      BY <1>4 DEF Forgotten
    <2>3. Displace => Forgotten \subseteq displaced'
      BY DEF Displace
    <2>4. overlay'.unsaved = NoCapture => Forgotten' = {}
      BY DEF Forgotten
    <2>5. ~overlay.open => Forgotten \subseteq displaced'
      BY <1>3 DEF CaptureInv, FilesAreOfTheDone
    <2> QED
      BY <2>1, <2>2, <2>3, <2>4, <2>5
  <1>11. FilesAreOfTheDone'
    BY <1>1, <1>4, <1>5, <1>10 DEF CaptureInv, CaptureTypes, FilesAreOfTheDone
  <1>12. UnsavedIsShown'
    <2> SUFFICES ASSUME NEW x \in Forgotten' \ overlapped, child[x].live,
                        ~child[x].cancelled
                 PROVE  /\ overlay'.phase = "live" /\ overlay'.capture = x
                        /\ \A d \in Captures : ~UnderWay(d)'
      BY <1>1 DEF UnsavedIsShown
    <2>1. /\ overlay.phase = "live" /\ overlay.capture = x
          /\ \A d \in Captures : ~UnderWay(d)
      BY <1>10 DEF CaptureInv, UnsavedIsShown
    <2>2. stops[x] = 0 /\ x \in Captures
      BY <1>1, <1>10 DEF CaptureInv, ChildFollowsStart, CaptureTypes
    <2>3. overlay'.phase = "live" /\ overlay'.capture = x
      BY <1>1, <2>1, <2>2
      DEF CaptureTypes, Overlays, OpenOverlay, ToConfig, Displace, OpenRow, HandleFailed,
          HandleStopped, Opened, StoppedPhase, UnderWay, Forgotten
    <2>4. \A d \in Captures : ~UnderWay(d)'
      BY <1>5, <2>1 DEF UnderWay
    <2> QED
      BY <2>3, <2>4
  <1>13. RemovedIsStopped'
    BY <1>1 DEF CaptureInv, RemovedIsStopped
  <1>14. PcapsAreAccountedFor'
    BY <1>1, <1>3, <1>4, <1>5, <1>10
    DEF CaptureInv, PcapsAreAccountedFor, FilesAreOfTheDone, Forgotten, CaptureTypes
  <1> QED
    BY <1>1, <1>6, <1>8, <1>9, <1>11, <1>12, <1>13, <1>14 DEF CaptureInv

\* A stop and the shutdown only tell captures to end.
LEMMA CaptureStopSteps ==
  ASSUME CaptureInv, Quit \/ \E c \in Captures : PressStop(c)
  PROVE  /\ CaptureInv'
         /\ \A x \in Captures : child'[x].status = child[x].status
  <1> USE NoCaptureIsNone
  <1>1. /\ CaptureTypes
        /\ UNCHANGED <<starts, pcaps, overlay, saved, removed, overlapped, displaced>>
        /\ Forgotten' = Forgotten /\ Forgotten \subseteq Captures /\ quit' \in BOOLEAN
    BY DEF CaptureInv, CaptureTypes, Overlays, Quit, PressStop, Forgotten
  <1>2. /\ child' \in [Captures -> ChildStates]
        /\ \A x \in Captures : /\ child'[x].status = child[x].status
                               /\ child'[x].live = child[x].live
                               /\ child[x].cancelled => child'[x].cancelled
    <2>1. CASE Quit
      <3> DEFINE told(x) == child[x].cancelled \/ Started(x)
      <3>1. child' = [x \in Captures |-> [child[x] EXCEPT !.cancelled = told(x)]]
        BY <2>1 DEF Quit
      <3>2. \A x \in Captures : told(x) \in BOOLEAN /\ (child[x].cancelled => told(x))
        BY DEF Started
      <3> HIDE DEF told
      <3>3. \A x \in Captures : /\ child'[x] \in ChildStates
                                /\ child'[x].status = child[x].status
                                /\ child'[x].live = child[x].live
                                /\ child'[x].cancelled = told(x)
        BY <1>1, <3>1, <3>2 DEF CaptureTypes, ChildStates
      <3> QED
        BY <3>1, <3>2, <3>3
    <2>2. CASE \E c \in Captures : PressStop(c)
      <3>1. PICK c \in Captures :
                child' = [child EXCEPT ![c] = [child[c] EXCEPT !.cancelled = TRUE]]
        BY <1>1, <2>2 DEF CaptureTypes, PressStop
      <3>2. \A x \in Captures \ {c} : child'[x] = child[x]
        BY <1>1, <3>1 DEF CaptureTypes
      <3>3. /\ child'[c] \in ChildStates /\ child'[c].cancelled
            /\ child'[c].status = child[c].status /\ child'[c].live = child[c].live
        BY <1>1, <3>1 DEF CaptureTypes, ChildStates
      <3> QED
        BY <1>1, <3>1, <3>2, <3>3 DEF CaptureTypes
    <2> QED
      BY <2>1, <2>2
  <1>3. /\ stops' \in [Captures -> Nat]
        /\ \A x \in Captures : stops'[x] > 0 => Started(x) /\ child'[x].cancelled
    <2>1. CASE Quit
      BY <1>1, <1>2, <2>1 DEF CaptureInv, CaptureTypes, ChildFollowsStart, Quit
    <2>2. ASSUME NEW c \in Captures, PressStop(c)
          PROVE  /\ stops' \in [Captures -> Nat]
                 /\ \A x \in Captures : stops'[x] > 0 => Started(x) /\ child'[x].cancelled
      <3>1. Started(c) /\ child'[c].cancelled
        BY <1>1, <2>2
        DEF CaptureInv, CaptureTypes, ChildFollowsStart, ChildStates, PressStop
      <3>2. /\ stops' \in [Captures -> Nat]
            /\ \A x \in Captures \ {c} : stops'[x] = stops[x]
        BY <1>1, <2>2 DEF CaptureTypes, PressStop
      <3> QED
        BY <1>1, <1>2, <3>1, <3>2 DEF CaptureInv, CaptureTypes, ChildFollowsStart
    <2> QED
      BY <2>1, <2>2
  <1>4. CaptureTypes'
    BY <1>1, <1>2, <1>3 DEF CaptureTypes
  <1>5. ChildFollowsStart'
    BY <1>1, <1>2, <1>3 DEF CaptureInv, ChildFollowsStart, Started
  <1>6. OverlapsAreKnown' /\ FilesAreOfTheDone' /\ PcapsAreAccountedFor'
    BY <1>1 DEF CaptureInv, OverlapsAreKnown, UnderWay, FilesAreOfTheDone, PcapsAreAccountedFor
  <1>7. UnsavedIsShown'
    BY <1>1, <1>2 DEF CaptureInv, UnsavedIsShown, UnderWay
  <1>8. RemovedIsStopped'
    BY <1>1, <1>2 DEF CaptureInv, RemovedIsStopped, CaptureTypes
  <1> QED
    BY <1>2, <1>4, <1>5, <1>6, <1>7, <1>8 DEF CaptureInv

\* The user's dealings with a file: kept, removed with the overlay, deleted.
LEMMA FileSteps ==
  ASSUME CaptureInv, PressY \/ Dismiss \/ \E c \in Captures : DeleteFile(c)
  PROVE  CaptureInv' /\ UNCHANGED child
  <1> USE NoCaptureIsNone
  <1>1. /\ CaptureTypes /\ UNCHANGED <<starts, child, stops, quit, overlapped, displaced>>
        /\ Forgotten \subseteq Captures
    BY DEF CaptureInv, CaptureTypes, Overlays, PressY, Dismiss, DeleteFile, Forgotten
  <1>2. /\ overlay' \in Overlays /\ Forgotten' \subseteq Forgotten
        /\ overlay'.phase = overlay.phase /\ overlay'.capture = overlay.capture
        /\ overlay'.open \/ Forgotten' \subseteq displaced
    <2>1. CASE PressY
      <3>1. UnsavedAfterY \in {NoCapture, overlay.unsaved}
        BY DEF UnsavedAfterY
      <3> QED
        BY <1>1, <2>1, <3>1 DEF CaptureTypes, Overlays, PressY, Forgotten
    <2>2. CASE Dismiss
      BY <1>1, <2>2 DEF CaptureTypes, Overlays, Dismiss, Forgotten
    <2>3. CASE \E c \in Captures : DeleteFile(c)
      BY <1>1, <2>3 DEF CaptureInv, CaptureTypes, FilesAreOfTheDone, DeleteFile, Forgotten
    <2> QED
      BY <2>1, <2>2, <2>3
  <1>3. /\ pcaps' \subseteq Captures /\ saved' \subseteq Captures /\ removed' \subseteq Captures
        /\ removed' \subseteq removed \cup Forgotten
        /\ \A c \in saved' : c \in saved \/ starts[c] = "done"
    BY <1>1 DEF CaptureTypes, PressY, Dismiss, DeleteFile, DeleteUnsaved, Forgotten
  <1>4. CaptureTypes'
    BY <1>1, <1>2, <1>3 DEF CaptureTypes
  <1>5. ChildFollowsStart' /\ OverlapsAreKnown'
    BY <1>1, <1>2
    DEF CaptureInv, ChildFollowsStart, OverlapsAreKnown, UnderWay, Started
  <1>6. overlay'.unsaved \notin saved'
    <2>1. CASE PressY
      BY <1>1, <2>1
      DEF PressY, UnsavedAfterY, CaptureInv, FilesAreOfTheDone, CaptureTypes, Overlays
    <2>2. CASE Dismiss
      BY <1>1, <2>2 DEF Dismiss, CaptureTypes, Overlays
    <2>3. CASE \E c \in Captures : DeleteFile(c)
      BY <2>3 DEF DeleteFile, CaptureInv, FilesAreOfTheDone
    <2> QED
      BY <2>1, <2>2, <2>3
  <1>7. FilesAreOfTheDone'
    BY <1>1, <1>2, <1>3, <1>6 DEF CaptureInv, FilesAreOfTheDone
  <1>8. UnsavedIsShown'
    BY <1>1, <1>2 DEF CaptureInv, UnsavedIsShown, UnderWay
  <1>9. RemovedIsStopped'
    <2>1. CASE UNCHANGED removed
      BY <1>1, <2>1 DEF CaptureInv, RemovedIsStopped
    <2>2. CASE Dismiss
      <3>1. \A c \in Forgotten \ overlapped : child[c].cancelled \/ ~child[c].live
        BY <1>1, <2>2 DEF CaptureInv, UnsavedIsShown, Dismiss
      <3> QED
        BY <1>1, <1>3, <3>1 DEF CaptureInv, RemovedIsStopped
    <2> QED
      BY <2>1, <2>2 DEF PressY, DeleteFile
  <1>10. PcapsAreAccountedFor'
    <2>1. CASE PressY
      BY <1>1, <2>1
      DEF PressY, UnsavedAfterY, CaptureInv, FilesAreOfTheDone, PcapsAreAccountedFor,
          CaptureTypes, Overlays, Forgotten
    <2>2. CASE Dismiss
      BY <1>1, <2>2
      DEF Dismiss, DeleteUnsaved, CaptureInv, FilesAreOfTheDone, PcapsAreAccountedFor,
          CaptureTypes
    <2>3. CASE \E c \in Captures : DeleteFile(c)
      BY <1>1, <2>3 DEF DeleteFile, CaptureInv, PcapsAreAccountedFor
    <2> QED
      BY <2>1, <2>2, <2>3
  <1> QED
    BY <1>1, <1>4, <1>5, <1>7, <1>8, <1>9, <1>10 DEF CaptureInv

\* A start asked for: it knows of those under way, and they of it.
LEMMA AskSteps ==
  ASSUME CaptureInv, NEW c \in Captures, StartSelected(c)
  PROVE  CaptureInv' /\ UNCHANGED child
  <1> USE NoCaptureIsNone
  <1>1. /\ CaptureTypes
        /\ UNCHANGED <<child, pcaps, stops, overlay, quit, saved, removed, displaced>>
        /\ Forgotten' = Forgotten /\ Forgotten \subseteq Captures
        /\ starts[c] = "none" /\ overlay.phase \in {"config", "stopped"}
    BY DEF CaptureInv, CaptureTypes, Overlays, StartSelected, Forgotten
  <1>2. /\ starts' = [starts EXCEPT ![c] = "flying"]
        /\ starts' \in [Captures -> StartStates]
    BY <1>1 DEF CaptureTypes, StartStates, StartSelected
  <1>3. /\ overlapped \subseteq overlapped' /\ overlapped' \subseteq Captures
        /\ \A d \in Captures : UnderWay(d) => d \in overlapped' /\ c \in overlapped'
    BY <1>1 DEF StartSelected, CaptureTypes
  <1>4. CaptureTypes'
    BY <1>1, <1>2, <1>3 DEF CaptureTypes
  <1>5. ChildFollowsStart'
    BY <1>1, <1>2 DEF CaptureInv, CaptureTypes, ChildFollowsStart, Started
  <1>6. OverlapsAreKnown'
    BY <1>1, <1>2, <1>3 DEF CaptureInv, CaptureTypes, OverlapsAreKnown, UnderWay
  <1>7. FilesAreOfTheDone'
    BY <1>1, <1>2 DEF CaptureInv, CaptureTypes, FilesAreOfTheDone
  <1>8. UnsavedIsShown'
    BY <1>1, <1>3 DEF CaptureInv, UnsavedIsShown
  <1>9. RemovedIsStopped'
    BY <1>1, <1>3 DEF CaptureInv, RemovedIsStopped
  <1>10. PcapsAreAccountedFor'
    BY <1>1, <1>2 DEF CaptureInv, CaptureTypes, PcapsAreAccountedFor
  <1> QED
    BY <1>1, <1>4, <1>5, <1>6, <1>7, <1>8, <1>9, <1>10 DEF CaptureInv

\* A start that succeeded: the overlay answers for the new file, and removes the
\* one it answered for.
LEMMA StartedSteps ==
  ASSUME CaptureInv, NEW c \in Captures, HandleStarted(c)
  PROVE  CaptureInv' /\ UNCHANGED child
  <1> USE NoCaptureIsNone
  <1>1. /\ CaptureTypes /\ UNCHANGED <<child, stops, quit, saved, overlapped>>
        /\ starts[c] = "posted" /\ c \notin saved /\ c \notin removed /\ Started(c)
    BY DEF CaptureInv, CaptureTypes, HandleStarted, FilesAreOfTheDone, ChildFollowsStart
  <1>2. /\ starts' = [starts EXCEPT ![c] = "done"]
        /\ starts' \in [Captures -> StartStates]
    BY <1>1 DEF CaptureTypes, StartStates, HandleStarted
  <1>3. /\ overlay' \in Overlays /\ overlay'.open = overlay.open
        /\ overlay'.phase = "live" /\ overlay'.capture = c /\ overlay'.unsaved = c
    BY <1>1 DEF CaptureTypes, Overlays, HandleStarted
  <1>4. /\ displaced \subseteq displaced' /\ displaced' \subseteq Captures
        /\ overlay.open \/ c \in displaced'
    BY <1>1 DEF CaptureTypes, HandleStarted
  <1>5. /\ pcaps' = pcaps \ {overlay.unsaved}
        /\ removed' \subseteq removed \cup Forgotten
        /\ overlay.unsaved # c
    BY <1>1
    DEF CaptureInv, CaptureTypes, Overlays, HandleStarted, DeleteUnsaved, Forgotten,
        FilesAreOfTheDone
  <1>6. Forgotten' = {c} /\ Forgotten \subseteq Captures
    BY <1>1, <1>3 DEF Forgotten, CaptureTypes, Overlays
  <1>7. CaptureTypes'
    BY <1>1, <1>2, <1>3, <1>4, <1>5, <1>6 DEF CaptureTypes
  <1>8. ChildFollowsStart'
    BY <1>1, <1>2, <1>3 DEF CaptureInv, CaptureTypes, ChildFollowsStart, Started
  <1>9. OverlapsAreKnown'
    BY <1>1, <1>2 DEF CaptureInv, CaptureTypes, OverlapsAreKnown, UnderWay
  <1>10. FilesAreOfTheDone'
    BY <1>1, <1>2, <1>3, <1>4, <1>5, <1>6 DEF CaptureInv, CaptureTypes, FilesAreOfTheDone
  <1>11. UnsavedIsShown'
    <2>1. \A d \in Captures : UnderWay(d)' => UnderWay(d) /\ d # c
      BY <1>1, <1>2 DEF CaptureTypes, UnderWay
    <2>2. \A d \in Captures : UnderWay(d)' => c \in overlapped
      BY <1>1, <2>1 DEF CaptureInv, OverlapsAreKnown, UnderWay
    <2> QED
      BY <1>1, <1>3, <1>6, <2>2 DEF UnsavedIsShown
  <1>12. RemovedIsStopped'
    <2>1. \A d \in Forgotten \ overlapped : child[d].cancelled \/ ~child[d].live
      BY <1>1 DEF CaptureInv, UnsavedIsShown, UnderWay
    <2> QED
      BY <1>1, <1>5, <2>1 DEF CaptureInv, RemovedIsStopped
  <1>13. PcapsAreAccountedFor'
    BY <1>1, <1>2, <1>3, <1>4, <1>5
    DEF CaptureInv, CaptureTypes, PcapsAreAccountedFor, FilesAreOfTheDone
  <1> QED
    BY <1>1, <1>7, <1>8, <1>9, <1>10, <1>11, <1>12, <1>13 DEF CaptureInv

\* Every step keeps the invariant, and no step undoes the end of a capture.
LEMMA CaptureStep ==
  ASSUME CaptureInv, [CapturesNext]_captureVars
  PROVE  /\ CaptureInv'
         /\ \A x \in Captures : child[x].status = "Ended" => child'[x].status = "Ended"
  <1>1. CASE UNCHANGED captureVars
    BY <1>1
    DEF captureVars, CaptureInv, CaptureTypes, ChildFollowsStart, Started, OverlapsAreKnown,
        UnderWay, FilesAreOfTheDone, Forgotten, UnsavedIsShown, RemovedIsStopped,
        PcapsAreAccountedFor
  <1>2. CASE \E c \in Captures : StartCapture(c) \/ ChildExit(c) \/ MarkRunning(c)
    BY <1>2, ManagerSteps
  <1>3. CASE \/ OpenOverlay \/ ToConfig \/ Displace
             \/ \E c \in Captures : OpenRow(c) \/ HandleFailed(c) \/ HandleStopped(c)
    BY <1>3, OverlaySteps
  <1>4. CASE Quit \/ \E c \in Captures : PressStop(c)
    BY <1>4, CaptureStopSteps
  <1>5. CASE PressY \/ Dismiss \/ \E c \in Captures : DeleteFile(c)
    BY <1>5, FileSteps
  <1>6. CASE \E c \in Captures : StartSelected(c) \/ HandleStarted(c)
    BY <1>6, AskSteps, StartedSteps
  <1> QED
    BY <1>1, <1>2, <1>3, <1>4, <1>5, <1>6 DEF CapturesNext

THEOREM CaptureAlwaysInv == CapturesSpec => []CaptureInv
  <1>1. CaptureInv /\ [CapturesNext]_captureVars => CaptureInv'
    BY CaptureStep
  <1> QED
    BY CaptureInitial, <1>1, PTL DEF CapturesSpec

\* A capture that ended stays ended, whenever the goroutine that calls it
\* running comes and however often it is stopped (capture.go:300-311, 376).
THEOREM CaptureStaysEnded == CapturesSpec => EndedStays
  <1>1. CaptureInv /\ [CapturesNext]_captureVars =>
           [\A c \in Captures : child[c].status = "Ended" =>
                                   child'[c].status = "Ended"]_captureVars
    BY CaptureStep
  <1> QED
    BY <1>1, CaptureAlwaysInv, PTL DEF CapturesSpec, EndedStays

\* The overlay removes the file of a capture that was told to stop or has ended,
\* unless its start overlapped another (update_overlays_capture.go:170-207).
THEOREM NoFileIsTorn == CapturesSpec => []RemovedIsStopped
  <1>1. CaptureInv => RemovedIsStopped
    BY DEF CaptureInv
  <1> QED
    BY <1>1, CaptureAlwaysInv, PTL

\* A file the user took stays, and no other stays behind than those of overlays
\* that were lost without Esc (captures.go:66-70, 267-275).
THEOREM FilesAreAccountedFor == CapturesSpec => []PcapsAreAccountedFor
  <1>1. CaptureInv => PcapsAreAccountedFor
    BY DEF CaptureInv
  <1> QED
    BY <1>1, CaptureAlwaysInv, PTL

\* No more messages of stops are under way than the bound allows.
LEMMA StopsStep ==
    ASSUME stops \in [Captures -> 0 .. MaxStops], [CapturesNext]_captureVars
    PROVE  stops' \in [Captures -> 0 .. MaxStops]
  <1>1. ASSUME NEW c \in Captures, PressStop(c) PROVE stops' \in [Captures -> 0 .. MaxStops]
    <2>1. stops[c] \in 0 .. MaxStops /\ stops[c] < MaxStops
      BY <1>1 DEF PressStop
    <2>2. stops[c] + 1 \in 0 .. MaxStops
      BY <2>1, CapturesAssumption
    <2>3. stops' = [stops EXCEPT ![c] = stops[c] + 1]
      BY <1>1 DEF PressStop
    <2> QED
      BY <2>2, <2>3
  <1>2. ASSUME NEW c \in Captures, HandleStopped(c) PROVE stops' \in [Captures -> 0 .. MaxStops]
    <2>1. stops[c] \in 0 .. MaxStops /\ stops[c] > 0
      BY <1>2 DEF HandleStopped
    <2>2. stops[c] - 1 \in 0 .. MaxStops
      BY <2>1, CapturesAssumption
    <2>3. stops' = [stops EXCEPT ![c] = stops[c] - 1]
      BY <1>2 DEF HandleStopped
    <2> QED
      BY <2>2, <2>3
  <1>3. CASE UNCHANGED stops
    BY <1>3
  <1>4. \/ UNCHANGED stops
        \/ \E c \in Captures : PressStop(c) \/ HandleStopped(c)
    BY DEF CapturesNext, captureVars, StartCapture, ChildExit, MarkRunning, OpenRow,
       StartSelected, HandleStarted, HandleFailed, DeleteFile, OpenOverlay, ToConfig,
       PressY, Dismiss, Displace, Quit
  <1> QED
    BY <1>1, <1>2, <1>3, <1>4

\* Every variable of the captures keeps its type.
THEOREM CapturesKeepTypes == CapturesSpec => []CapturesTypeOK
  <1> DEFINE Bounded == stops \in [Captures -> 0 .. MaxStops]
  <1>1. CapturesInit => Bounded
    BY CapturesAssumption DEF CapturesInit
  <1>2. Bounded /\ [CapturesNext]_captureVars => Bounded'
    BY StopsStep
  <1>3. CaptureInv /\ Bounded => CapturesTypeOK
    BY DEF CaptureInv, CaptureTypes, CapturesTypeOK
  <1> HIDE DEF Bounded
  <1> QED
    BY <1>1, <1>2, <1>3, CaptureAlwaysInv, PTL DEF CapturesSpec

-----------------------------------------------------------------------------
(* The parts together.                                                     *)

\* A behaviour of what reads from outside is one of each of its parts: what is
\* proved of a part holds of them together.
LEMMA ReadersRunApart ==
    StreamsSpec => /\ Spec /\ CapturesSpec /\ LogStreamsSpec /\ LogPreviewSpec
                   /\ TermSpec
  <1>1. StreamsInit => Init /\ CapturesInit /\ LogStreamsInit /\ LogPreviewInit /\ TermInit
    BY DEF StreamsInit
  <1>2. ASSUME [StreamsNext]_streamsVars
        PROVE  /\ [Next]_vars /\ [CapturesNext]_captureVars /\ [LogStreamsNext]_logVars
               /\ [LogPreviewNext]_previewVars /\ [TermNext]_termVars
    <2>1. CASE StreamsNext
      BY <2>1 DEF StreamsNext
    <2>2. CASE UNCHANGED streamsVars
      BY <2>2 DEF streamsVars
    <2> QED
      BY <1>2, <2>1, <2>2
  <1> QED
    BY <1>1, <1>2, PTL DEF StreamsSpec, Spec, CapturesSpec, LogStreamsSpec,
       LogPreviewSpec, TermSpec

\* Every variable of what reads from outside keeps its type: the readers, files
\* and terminals that are named exist, and no stop channel is closed twice.
THEOREM StreamsKeepTypes == StreamsSpec => []StreamsTypeOK
  <1>1. LogInv => LogStreamsTypeOK
    BY DEF LogInv, StreamTypes
  <1>2. PreviewInv => LogPreviewTypeOK
    BY DEF PreviewInv
  <1>3. TermInv => TermTypeOK
    BY DEF TermInv
  <1>4. TypeOK /\ CapturesTypeOK /\ LogStreamsTypeOK /\ LogPreviewTypeOK /\ TermTypeOK
          => StreamsTypeOK
    BY DEF StreamsTypeOK
  <1> QED
    BY <1>1, <1>2, <1>3, <1>4, ReadersRunApart, NoChannelIsClosedTwice,
       CapturesKeepTypes, LogAlwaysInv, PreviewAlwaysInv, TermAlwaysInv, PTL
=============================================================================
