-------------------------- MODULE PgTrackingProofs --------------------------
(***************************************************************************)
(* Positions are numbered without a gap, published in order and shown in   *)
(* order, for every number of orders, requests, event ids and clients and  *)
(* every queue size.                                                       *)
(***************************************************************************)
EXTENDS PgTracking, TLAPS

\* The provers tried for a leaf, with the seconds each one has.
USE ZenonT(3), SMTT(40), ZenonT(40)

-----------------------------------------------------------------------------
(***************************************************************************)
(* Queues.                                                                 *)
(***************************************************************************)

\* The larger of two numbers.
LEMMA MaxOfTwo ==
    ASSUME NEW a \in Nat, NEW b \in Nat
    PROVE  Max({a, b}) = IF a >= b THEN a ELSE b
<1> DEFINE m == IF a >= b THEN a ELSE b
<1>1. m \in {a, b} /\ \A y \in {a, b} : m >= y
  OBVIOUS
<1>2. \A x \in {a, b} : (\A y \in {a, b} : x >= y) => x = m
  OBVIOUS
<1> HIDE DEF m
<1> QED
  BY <1>1, <1>2 DEF Max, m

\* The empty sequence, and the length of any.
LEMMA EmptySeq ==
    ASSUME NEW S
    PROVE  <<>> \in Seq(S) /\ Len(<<>>) = 0
OBVIOUS

LEMMA LenIsNatural ==
    ASSUME NEW S, NEW q \in Seq(S)
    PROVE  Len(q) \in Nat
OBVIOUS

\* Taking the head of a queue: the last element stays the last, or was the head.
LEMMA TailEffect ==
    ASSUME NEW S, NEW q \in Seq(S), q # <<>>
    PROVE  /\ Tail(q) \in Seq(S) /\ Len(Tail(q)) = Len(q) - 1
           /\ Head(q) \in S /\ Head(q) = q[1]
           /\ \A i \in DOMAIN Tail(q) : i + 1 \in DOMAIN q /\ Tail(q)[i] = q[i + 1]
           /\ Tail(q) # <<>> => Tail(q)[Len(Tail(q))] = q[Len(q)]
           /\ Tail(q) = <<>> => Head(q) = q[Len(q)]
<1>1. Len(q) \in Nat /\ Len(q) > 0 /\ q \in [1..Len(q) -> S]
  OBVIOUS
<1>2. /\ Tail(q) \in Seq(S) /\ Len(Tail(q)) = Len(q) - 1 /\ Head(q) \in S
      /\ Head(q) = q[1]
      /\ \A i \in 1..Len(Tail(q)) : Tail(q)[i] = q[i + 1]
  BY <1>1
<1>3. DOMAIN Tail(q) = 1..(Len(q) - 1) /\ DOMAIN q = 1..Len(q)
  BY <1>1, <1>2
<1>4. Tail(q) # <<>> => Len(Tail(q)) > 0
  BY <1>2
<1>5. Tail(q) = <<>> => Len(q) = 1
  <2>1. Tail(q) = <<>> => Len(Tail(q)) = 0
    BY EmptySeq
  <2> QED
    BY <1>1, <1>2, <2>1
<1> QED
  BY <1>1, <1>2, <1>3, <1>4, <1>5

\* Appending to a queue.
LEMMA AppendEffect ==
    ASSUME NEW S, NEW q \in Seq(S), NEW e \in S
    PROVE  /\ Append(q, e) \in Seq(S) /\ Append(q, e) # <<>>
           /\ Len(Append(q, e)) = Len(q) + 1
           /\ Append(q, e)[Len(Append(q, e))] = e
           /\ \A i \in DOMAIN Append(q, e) :
                 \/ i \in DOMAIN q /\ Append(q, e)[i] = q[i]
                 \/ i = Len(q) + 1 /\ Append(q, e)[i] = e
<1>1. Len(q) \in Nat /\ DOMAIN q = 1..Len(q)
  OBVIOUS
<1>2. /\ Append(q, e) \in Seq(S) /\ Append(q, e) # <<>>
      /\ Len(Append(q, e)) = Len(q) + 1
      /\ \A i \in 1..Len(q) : Append(q, e)[i] = q[i]
      /\ Append(q, e)[Len(q) + 1] = e
  OBVIOUS
<1>3. DOMAIN Append(q, e) = 1..(Len(q) + 1)
  BY <1>2
<1> QED
  BY <1>1, <1>2, <1>3

\* A full queue makes room for the newest event.
LEMMA PutEffect ==
    ASSUME NEW q \in Seq(TrackingEvent), Len(q) <= queue_size, NEW e \in TrackingEvent
    PROVE  /\ put(q, e) \in Seq(TrackingEvent) /\ Len(put(q, e)) <= queue_size
           /\ put(q, e) # <<>> /\ put(q, e)[Len(put(q, e))] = e
<1> DEFINE rest == IF Len(q) = queue_size THEN Tail(q) ELSE q
<1>1. Len(q) \in Nat /\ queue_size \in Nat /\ queue_size > 0
  BY QueueSizeAssumption
<1>2. rest \in Seq(TrackingEvent) /\ Len(rest) < queue_size
  <2>1. CASE Len(q) = queue_size
    <3>1. q # <<>>
      BY <1>1, <2>1
    <3> QED
      BY <1>1, <2>1, <3>1, TailEffect
  <2> QED
    BY <1>1, <2>1
<1> HIDE DEF rest
<1>3. Len(rest) \in Nat
  BY <1>2
<1> QED
  BY <1>1, <1>2, <1>3, AppendEffect DEF put, rest

-----------------------------------------------------------------------------
(***************************************************************************)
(* The streams of one process.                                             *)
(***************************************************************************)
StreamsInv == StreamsTypeOK /\ StreamsFit /\ SseOnlyAdvances /\ NewestIsKept

\* The hub hands an event to every subscriber.
LEMMA PublishKeeps ==
    ASSUME StreamsInv, NEW event \in TrackingEvent, publish(event)
    PROVE  StreamsInv'
<1>1. /\ UNCHANGED <<stage, first, floor, shown, leaked>>
      /\ queue' = [s \in Streams |->
                     IF Subscribed(s) THEN put(queue[s], event) ELSE None]
      /\ latest' = [s \in Streams |-> IF Subscribed(s) THEN event ELSE latest[s]]
      /\ dropped' \in [Streams -> BOOLEAN]
  <2>1. dropped' \in [Streams -> BOOLEAN]
    BY DEF publish, StreamsInv, StreamsTypeOK
  <2> QED
    BY <2>1 DEF publish
<1>2. ASSUME NEW s \in Streams, Subscribed(s)
      PROVE  /\ queue'[s] \in Seq(TrackingEvent) /\ Len(queue'[s]) <= queue_size
             /\ queue'[s] # <<>> /\ queue'[s][Len(queue'[s])] = event
             /\ queue'[s] # None /\ latest'[s] = event
  <2>1. queue[s] \in Seq(TrackingEvent) /\ Len(queue[s]) <= queue_size
    BY <1>2 DEF StreamsInv, StreamsTypeOK, Subscribed
  <2> DEFINE q == put(queue[s], event)
  <2>2. queue'[s] = q /\ latest'[s] = event
    BY <1>1, <1>2
  <2>3. q \in Seq(TrackingEvent) /\ Len(q) <= queue_size /\ q # <<>> /\ q[Len(q)] = event
    BY <2>1, PutEffect
  <2>4. q # None
    BY <2>3, NoEventAssumption
  <2> HIDE DEF q
  <2> QED
    BY <2>2, <2>3, <2>4
<1>3. ASSUME NEW s \in Streams, ~Subscribed(s)
      PROVE  queue'[s] = None /\ latest'[s] = latest[s]
  BY <1>1, <1>3
<1>4. \A s \in Streams : Subscribed(s)' <=> Subscribed(s)
  BY <1>2, <1>3 DEF Subscribed
<1>5. queue' \in [Streams -> Seq(TrackingEvent) \cup {None}]
  <2>1. \A s \in Streams : queue'[s] \in Seq(TrackingEvent) \cup {None}
    BY <1>2, <1>3
  <2> QED
    BY <1>1, <2>1
<1>6. latest' \in [Streams -> TrackingEvent]
  BY <1>1 DEF StreamsInv, StreamsTypeOK
<1>7. StreamsTypeOK'
  <2>1. \A s \in Streams : Subscribed(s)' => Len(queue'[s]) <= queue_size
    BY <1>2, <1>4
  <2> QED
    BY <1>1, <1>5, <1>6, <2>1 DEF StreamsInv, StreamsTypeOK
<1>8. StreamsFit' /\ SseOnlyAdvances'
  BY <1>1, <1>4 DEF StreamsInv, StreamsFit, SseOnlyAdvances
<1>9. NewestIsKept'
  BY <1>2, <1>4 DEF NewestIsKept
<1> QED
  BY <1>7, <1>8, <1>9 DEF StreamsInv

\* The handler reads the snapshot.
LEMMA SseReadKeeps ==
    ASSUME StreamsInv, NEW s \in Sse, NEW stored \in TrackingEvent, SseRead(s, stored)
    PROVE  StreamsInv'
<1>1. s \in Streams /\ stage[s] = "closed"
  BY DEF SseRead, Streams
<1>2. /\ stage' = [stage EXCEPT ![s] = "read"]
      /\ first' = [first EXCEPT ![s] = stored]
      /\ UNCHANGED <<queue, floor, shown, latest, dropped, leaked>>
  BY DEF SseRead
<1>3. StreamsTypeOK'
  BY <1>1, <1>2 DEF StreamsInv, StreamsTypeOK, Subscribed
<1>4. StreamsFit' /\ SseOnlyAdvances' /\ NewestIsKept'
  BY <1>1, <1>2 DEF StreamsInv, StreamsTypeOK, StreamsFit, SseOnlyAdvances, NewestIsKept,
                    Subscribed
<1> QED
  BY <1>3, <1>4 DEF StreamsInv

\* The connection ends.
LEMMA CloseKeeps ==
    ASSUME StreamsInv, NEW s \in Sse, Close(s)
    PROVE  StreamsInv'
<1>1. s \in Streams
  BY DEF Streams
<1>2. /\ stage' = [stage EXCEPT ![s] = "closed"]
      /\ queue' = [queue EXCEPT ![s] = None]
      /\ shown' = [shown EXCEPT ![s] = <<>>]
      /\ UNCHANGED <<first, floor, latest, dropped, leaked>>
  BY DEF Close
<1>3. ~Subscribed(s)' /\ shown'[s] = <<>> /\ stage'[s] = "closed"
  BY <1>1, <1>2 DEF StreamsInv, StreamsTypeOK, Subscribed
<1>4. \A t \in Streams : t # s =>
         queue'[t] = queue[t] /\ shown'[t] = shown[t] /\ stage'[t] = stage[t]
  BY <1>1, <1>2 DEF StreamsInv, StreamsTypeOK
<1>5. StreamsTypeOK'
  <2>1. <<>> \in Seq(TrackingEvent)
    OBVIOUS
  <2>2. /\ queue' \in [Streams -> Seq(TrackingEvent) \cup {None}]
        /\ shown' \in [Streams -> Seq(TrackingEvent)]
        /\ stage' \in [Streams -> {"closed", "read", "loading", "loaded", "following"}]
    BY <1>1, <1>2, <2>1 DEF StreamsInv, StreamsTypeOK
  <2>3. \A t \in Streams : Subscribed(t)' => Len(queue'[t]) <= queue_size
    BY <1>3, <1>4 DEF StreamsInv, StreamsTypeOK, Subscribed
  <2> QED
    BY <1>2, <2>2, <2>3 DEF StreamsInv, StreamsTypeOK
<1>6. StreamsFit'
  BY <1>2, <1>3, <1>4 DEF StreamsInv, StreamsFit, Subscribed, Streams
<1>7. SseOnlyAdvances'
  BY <1>3, <1>4 DEF StreamsInv, SseOnlyAdvances, Streams
<1>8. NewestIsKept'
  BY <1>2, <1>3, <1>4 DEF StreamsInv, NewestIsKept, Subscribed
<1> QED
  BY <1>5, <1>6, <1>7, <1>8 DEF StreamsInv

\* The body starts with the snapshot.
LEMMA SseOpenKeeps ==
    ASSUME StreamsInv, NEW s \in Sse, SseOpen(s)
    PROVE  StreamsInv'
<1>1. s \in Streams
  BY DEF Streams
<1>2. PICK last \in {0, floor[s]} :
         floor' = [floor EXCEPT ![s] = Max({last, first[s].sequence})]
  BY DEF SseOpen
<1>3. first[s] \in TrackingEvent /\ first[s].sequence \in Nat /\ last \in Nat
  BY <1>1 DEF StreamsInv, StreamsTypeOK, TrackingEvent
<1>4. PICK top \in Nat : top >= first[s].sequence /\ floor' = [floor EXCEPT ![s] = top]
  <2> DEFINE m == Max({last, first[s].sequence})
  <2>1. m = IF last >= first[s].sequence THEN last ELSE first[s].sequence
    BY <1>3, MaxOfTwo
  <2> HIDE DEF m
  <2>2. m \in Nat /\ m >= first[s].sequence
    BY <1>3, <2>1
  <2> QED
    BY <1>2, <2>2 DEF m
<1>5. /\ queue' = [queue EXCEPT ![s] = <<>>]
      /\ latest' = [latest EXCEPT ![s] = NoPosition]
      /\ dropped' = [dropped EXCEPT ![s] = FALSE]
      /\ shown' = [shown EXCEPT ![s] = <<first[s]>>]
      /\ stage' = [stage EXCEPT ![s] = "following"]
      /\ UNCHANGED <<first, leaked>>
  BY DEF SseOpen, Subscribe
<1>6. /\ queue'[s] = <<>> /\ latest'[s] = NoPosition /\ floor'[s] = top
      /\ shown'[s] = <<first[s]>> /\ stage'[s] = "following"
  BY <1>1, <1>4, <1>5 DEF StreamsInv, StreamsTypeOK
<1>7. \A t \in Streams : t # s =>
         /\ queue'[t] = queue[t] /\ latest'[t] = latest[t] /\ floor'[t] = floor[t]
         /\ shown'[t] = shown[t] /\ stage'[t] = stage[t]
  BY <1>1, <1>4, <1>5 DEF StreamsInv, StreamsTypeOK
<1>8. <<>> \in Seq(TrackingEvent) /\ <<>> # None /\ Len(<<>>) = 0
  BY EmptySeq, NoEventAssumption
<1>9. Subscribed(s)' /\ \A t \in Streams : t # s => (Subscribed(t)' <=> Subscribed(t))
  BY <1>6, <1>7, <1>8 DEF Subscribed
<1>10. StreamsTypeOK'
  <2>1. <<first[s]>> \in Seq(TrackingEvent) /\ NoPosition \in TrackingEvent
    BY <1>3 DEF TrackingEvent, NoPosition
  <2>2. /\ queue' \in [Streams -> Seq(TrackingEvent) \cup {None}]
        /\ shown' \in [Streams -> Seq(TrackingEvent)]
        /\ stage' \in [Streams -> {"closed", "read", "loading", "loaded", "following"}]
    BY <1>5, <1>8, <2>1 DEF StreamsInv, StreamsTypeOK
  <2>3. /\ floor' \in [Streams -> Nat] /\ latest' \in [Streams -> TrackingEvent]
        /\ dropped' \in [Streams -> BOOLEAN]
    BY <1>4, <1>5, <2>1 DEF StreamsInv, StreamsTypeOK
  <2>4. \A t \in Streams : Subscribed(t)' => Len(queue'[t]) <= queue_size
    <3>1. Len(queue'[s]) <= queue_size
      BY <1>6, <1>8, QueueSizeAssumption
    <3> QED
      BY <1>7, <1>9, <3>1 DEF StreamsInv, StreamsTypeOK
  <2> QED
    BY <1>5, <2>2, <2>3, <2>4 DEF StreamsInv, StreamsTypeOK
<1>11. \A i \in DOMAIN shown'[s] : i = 1 /\ shown'[s][i] = first[s]
  BY <1>6
<1>12. StreamsFit'
  <2>1. \A t \in Streams :
           Subscribed(t)' <=> stage'[t] \in {"loading", "loaded", "following"}
    BY <1>6, <1>7, <1>9 DEF StreamsInv, StreamsFit
  <2>2. \A t \in Sse : \A i \in DOMAIN shown'[t] : shown'[t][i].sequence <= floor'[t]
    BY <1>4, <1>6, <1>7, <1>11 DEF StreamsInv, StreamsFit, Streams
  <2> QED
    BY <2>1, <2>2 DEF StreamsFit
<1>13. SseOnlyAdvances'
  BY <1>7, <1>11 DEF StreamsInv, SseOnlyAdvances, Streams
<1>14. NewestIsKept'
  <2>1. latest'[s].sequence = 0
    BY <1>6 DEF NoPosition
  <2> QED
    BY <1>6, <1>7, <1>9, <2>1 DEF StreamsInv, NewestIsKept
<1> QED
  BY <1>10, <1>12, <1>13, <1>14 DEF StreamsInv

\* The loop takes the next event of the queue.
LEMMA SseNextKeeps ==
    ASSUME StreamsInv, NEW s \in Sse, SseNext(s)
    PROVE  StreamsInv'
<1> DEFINE event == Head(queue[s])
           q == Tail(queue[s])
<1>1. s \in Streams /\ Subscribed(s) /\ queue[s] \in Seq(TrackingEvent)
      /\ Len(queue[s]) <= queue_size /\ queue[s] # <<>>
  BY DEF Streams, SseNext, StreamsInv, StreamsFit, StreamsTypeOK, Subscribed
<1>2. /\ q \in Seq(TrackingEvent) /\ Len(q) = Len(queue[s]) - 1
      /\ event \in TrackingEvent
      /\ q # <<>> => q[Len(q)] = queue[s][Len(queue[s])]
      /\ q = <<>> => event = queue[s][Len(queue[s])]
  BY <1>1, TailEffect
<1>3. /\ queue' = [queue EXCEPT ![s] = q]
      /\ IF event.sequence <= floor[s] THEN UNCHANGED <<floor, shown>>
         ELSE /\ floor' = [floor EXCEPT ![s] = event.sequence]
              /\ shown' = [shown EXCEPT ![s] = Append(shown[s], event)]
      /\ UNCHANGED <<stage, first, latest, dropped, leaked>>
  BY DEF SseNext
<1>4. event.sequence \in Nat /\ q # None /\ Len(queue[s]) \in Nat
  <2>1. event.sequence \in Nat
    BY <1>2 DEF TrackingEvent
  <2>2. Len(queue[s]) \in Nat
    BY <1>1, LenIsNatural
  <2> QED
    BY <1>2, <2>1, <2>2, NoEventAssumption
<1> HIDE DEF event, q
<1>5. /\ floor \in [Streams -> Nat] /\ shown \in [Streams -> Seq(TrackingEvent)]
      /\ queue \in [Streams -> Seq(TrackingEvent) \cup {None}]
  BY DEF StreamsInv, StreamsTypeOK
<1>6. queue'[s] = q /\ \A t \in Streams : t # s => queue'[t] = queue[t]
  BY <1>1, <1>3, <1>5
<1>7. \A t \in Streams : Subscribed(t)' <=> Subscribed(t)
  BY <1>1, <1>4, <1>6 DEF Subscribed
<1>8. floor' \in [Streams -> Nat] /\ floor'[s] >= event.sequence
  <2>1. CASE event.sequence <= floor[s]
    BY <1>3, <1>5, <2>1, <1>1
  <2>2. CASE ~(event.sequence <= floor[s])
    BY <1>1, <1>3, <1>4, <1>5, <2>2
  <2> QED
    BY <2>1, <2>2
<1>9. /\ shown' \in [Streams -> Seq(TrackingEvent)]
      /\ \A t \in Sse : \A i \in DOMAIN shown'[t] : shown'[t][i].sequence <= floor'[t]
      /\ SseOnlyAdvances'
  <2>1. CASE event.sequence <= floor[s]
    BY <1>3, <1>5, <2>1 DEF StreamsInv, StreamsFit, SseOnlyAdvances
  <2>2. CASE ~(event.sequence <= floor[s])
    <3>1. /\ floor' = [floor EXCEPT ![s] = event.sequence]
          /\ shown' = [shown EXCEPT ![s] = Append(shown[s], event)]
      BY <1>3, <2>2
    <3>2. \A t \in Streams : t # s => floor'[t] = floor[t] /\ shown'[t] = shown[t]
      BY <1>1, <1>5, <3>1
    <3>3. floor'[s] = event.sequence /\ shown'[s] = Append(shown[s], event)
      BY <1>1, <1>5, <3>1
    <3>4. shown[s] \in Seq(TrackingEvent) /\ Len(shown[s]) \in Nat
          /\ DOMAIN shown[s] = 1..Len(shown[s])
      BY <1>1, <1>5
    <3>5. /\ shown'[s] \in Seq(TrackingEvent)
          /\ \A i \in DOMAIN shown'[s] :
                \/ i \in DOMAIN shown[s] /\ shown'[s][i] = shown[s][i]
                \/ i = Len(shown[s]) + 1 /\ shown'[s][i] = event
      <4>1. /\ Append(shown[s], event) \in Seq(TrackingEvent)
            /\ \A i \in DOMAIN Append(shown[s], event) :
                  \/ i \in DOMAIN shown[s] /\ Append(shown[s], event)[i] = shown[s][i]
                  \/ i = Len(shown[s]) + 1 /\ Append(shown[s], event)[i] = event
        BY <1>2, <3>4, AppendEffect
      <4> QED
        BY <3>3, <4>1
    <3>6. \A i \in DOMAIN shown[s] :
             shown[s][i].sequence \in Nat /\ shown[s][i].sequence <= floor[s]
      <4>1. \A i \in DOMAIN shown[s] : shown[s][i] \in TrackingEvent
        BY <3>4
      <4> QED
        BY <4>1 DEF StreamsInv, StreamsFit, TrackingEvent
    <3>7. shown' \in [Streams -> Seq(TrackingEvent)]
      BY <1>5, <3>1, <3>3, <3>5, <1>1
    <3>8. \A t \in Sse : \A i \in DOMAIN shown'[t] : shown'[t][i].sequence <= floor'[t]
      <4>1. \A i \in DOMAIN shown'[s] : shown'[s][i].sequence <= floor'[s]
        BY <1>1, <1>4, <1>5, <2>2, <3>3, <3>5, <3>6
      <4> QED
        BY <3>2, <4>1 DEF StreamsInv, StreamsFit, Streams
    <3>9. SseOnlyAdvances'
      <4>1. ASSUME NEW i \in DOMAIN shown'[s], NEW j \in DOMAIN shown'[s], i < j
            PROVE  shown'[s][i].sequence < shown'[s][j].sequence
        <5>1. i \in DOMAIN shown[s] /\ shown'[s][i] = shown[s][i]
          BY <3>4, <3>5, <4>1
        <5>2. CASE j \in DOMAIN shown[s] /\ shown'[s][j] = shown[s][j]
          BY <4>1, <5>1, <5>2 DEF StreamsInv, SseOnlyAdvances
        <5>3. CASE shown'[s][j] = event
          BY <1>1, <1>4, <1>5, <2>2, <3>6, <5>1, <5>3
        <5> QED
          BY <3>5, <5>2, <5>3
      <4> QED
        BY <3>2, <4>1 DEF StreamsInv, SseOnlyAdvances, Streams
    <3> QED
      BY <3>7, <3>8, <3>9
  <2> QED
    BY <2>1, <2>2
<1>10. StreamsTypeOK'
  <2>1. queue' \in [Streams -> Seq(TrackingEvent) \cup {None}]
    BY <1>2, <1>3, <1>5
  <2>2. \A t \in Streams : Subscribed(t)' => Len(queue'[t]) <= queue_size
    <3>1. Len(queue'[s]) <= queue_size
      BY <1>1, <1>2, <1>4, <1>6, QueueSizeAssumption
    <3> QED
      BY <1>6, <1>7, <3>1 DEF StreamsInv, StreamsTypeOK
  <2> QED
    BY <1>3, <1>8, <1>9, <2>1, <2>2 DEF StreamsInv, StreamsTypeOK
<1>11. StreamsFit'
  BY <1>3, <1>7, <1>9 DEF StreamsInv, StreamsFit
<1>12. NewestIsKept'
  <2>1. latest[s] = queue[s][Len(queue[s])]
    BY <1>1 DEF StreamsInv, NewestIsKept
  <2>2. \/ queue'[s] # <<>> /\ queue'[s][Len(queue'[s])] = latest'[s]
        \/ queue'[s] = <<>> /\ s \in Sse /\ floor'[s] >= latest'[s].sequence
    BY <1>2, <1>3, <1>6, <1>8, <2>1
  <2>3. ASSUME NEW t \in Streams, t # s, Subscribed(t)'
        PROVE  /\ queue'[t] = queue[t] /\ latest'[t] = latest[t] /\ Subscribed(t)
               /\ shown'[t] = shown[t] /\ floor'[t] = floor[t]
    BY <1>1, <1>3, <1>5, <1>6, <1>7, <2>3
  <2> QED
    BY <2>2, <2>3 DEF StreamsInv, NewestIsKept
<1> QED
  BY <1>9, <1>10, <1>11, <1>12 DEF StreamsInv

-----------------------------------------------------------------------------
(***************************************************************************)
(* The rows, the requests and the channel.                                 *)
(***************************************************************************)
RowsInv == RowsTypeOK /\ SequencesAreRecorded /\ RequestsFit /\ BusFits

\* A request that has not upserted has nothing pending.
LEMMA NothingPending ==
    ASSUME RowsInv, NEW r \in Requests, phase[r] \in {"idle", "upsert"}
    PROVE  pending[r] = None
BY DEF RowsInv, RequestsFit, Holds

\* The two halves of RequestsFit: what one request knows, and what sets two apart.
RequestFits(r) ==
    /\ phase[r] # "idle" => order[r] \in Orders /\ id[r] \in Events
    /\ phase[r] \in {"outbox", "answered", "lost"} => pending[r] # None
    /\ pending[r] # None => Holds(r) \/ phase[r] = "lost"
    /\ Holds(r) /\ pending[r] # None =>
          /\ pending[r] = [sequence |-> snapshot[order[r]].sequence + 1, id |-> id[r]]
          /\ phase[r] \in {"answered", "published"} => \A row \in outbox : row.id # id[r]
    /\ phase[r] = "lost" => pending[r].sequence <= snapshot[order[r]].sequence + 1

Apart(q, r) ==
    Holds(q) /\ Holds(r) =>
        /\ order[q] # order[r]
        /\ pending[q] # None /\ pending[r] # None => id[q] # id[r]

LEMMA RequestsFitIs ==
    RequestsFit <=> /\ \A r \in Requests : RequestFits(r)
                    /\ \A q, r \in Requests : q # r => Apart(q, r)
BY DEF RequestsFit, RequestFits, Apart

\* A request that no step touches fits as before, as long as its rows stay.
LEMMA UntouchedFits ==
    ASSUME RowsInv, NEW q \in Requests,
           phase'[q] = phase[q], order'[q] = order[q], id'[q] = id[q],
           pending'[q] = pending[q], UNCHANGED <<snapshot, outbox>>
    PROVE  RequestFits(q)' /\ (Holds(q)' <=> Holds(q))
<1>1. RequestFits(q)
  BY RequestsFitIs DEF RowsInv
<1>2. Holds(q)' <=> Holds(q)
  BY DEF Holds
<1> QED
  BY <1>1, <1>2 DEF RequestFits

\* One request changes: the others fit, and stay apart from each other.
LEMMA OneChanges ==
    ASSUME RowsInv, NEW r \in Requests, UNCHANGED <<snapshot, outbox>>,
           \A q \in Requests : q # r =>
               /\ phase'[q] = phase[q] /\ order'[q] = order[q]
               /\ id'[q] = id[q] /\ pending'[q] = pending[q],
           RequestFits(r)',
           \A q \in Requests : q # r => Apart(q, r)'
    PROVE  RequestsFit'
<1>1. \A q \in Requests : RequestFits(q)'
  BY UntouchedFits
<1>2. ASSUME NEW q \in Requests, NEW t \in Requests, q # t
      PROVE  Apart(q, t)'
  <2>1. CASE q = r
    BY <1>2, <2>1 DEF Apart
  <2>2. CASE t = r
    BY <1>2, <2>2
  <2>3. CASE q # r /\ t # r
    <3>1. Apart(q, t) /\ (Holds(q)' <=> Holds(q)) /\ (Holds(t)' <=> Holds(t))
      BY <1>2, <2>3, UntouchedFits, RequestsFitIs DEF RowsInv
    <3> QED
      BY <2>3, <3>1 DEF Apart
  <2> QED
    BY <2>1, <2>2, <2>3
<1> QED
  BY <1>1, <1>2 DEF RequestsFit, RequestFits, Apart

\* The order is read.
LEMMA StartKeeps ==
    ASSUME RowsInv, NEW r \in Requests, NEW o \in Orders, NEW e \in Events, Start(r, o, e)
    PROVE  RowsInv'
<1>1. /\ phase' = [phase EXCEPT ![r] = "upsert"]
      /\ order' = [order EXCEPT ![r] = o]
      /\ id' = [id EXCEPT ![r] = e]
      /\ UNCHANGED <<active, snapshot, outbox, pending, answered, bus, listening>>
  BY DEF Start, Goto
<1>2. RowsTypeOK'
  BY <1>1 DEF RowsInv, RowsTypeOK
<1>3. SequencesAreRecorded' /\ BusFits'
  BY <1>1 DEF RowsInv, SequencesAreRecorded, BusFits
<1>4. pending[r] = None
  BY NothingPending DEF Start
<1>5. /\ phase'[r] = "upsert" /\ order'[r] = o /\ id'[r] = e /\ pending'[r] = None
      /\ \A q \in Requests : q # r =>
            /\ phase'[q] = phase[q] /\ order'[q] = order[q] /\ id'[q] = id[q]
            /\ pending'[q] = pending[q]
  BY <1>1, <1>4 DEF RowsInv, RowsTypeOK
<1>6. RequestsFit'
  <2>1. RequestFits(r)' /\ ~Holds(r)'
    BY <1>5 DEF RequestFits, Holds
  <2>2. \A q \in Requests : Apart(q, r)'
    BY <2>1 DEF Apart
  <2> QED
    BY <1>1, <1>5, <2>1, <2>2, OneChanges
<1> QED
  BY <1>2, <1>3, <1>6 DEF RowsInv

\* A request moves on with its order, its event id and what it has upserted.
LEMMA GotoKeeps ==
    ASSUME RowsInv, NEW r \in Requests, Holds(r),
           NEW p \in {"outbox", "answered", "published", "failed"}, Goto(r, p),
           p \in {"outbox", "answered"} => pending[r] # None,
           p \in {"answered", "published"} /\ pending[r] # None =>
               \A row \in outbox : row.id # id[r],
           UNCHANGED <<active, snapshot, outbox, order, id, pending>>
    PROVE  RequestsFit'
<1>1. /\ phase'[r] = p
      /\ \A q \in Requests : q # r => phase'[q] = phase[q]
  BY DEF Goto, RowsInv, RowsTypeOK
<1>2. RequestFits(r) /\ \A q \in Requests : q # r => Apart(q, r)
  BY RequestsFitIs DEF RowsInv
<1>3. Holds(r)' /\ phase[r] # "idle"
  BY <1>1 DEF Holds
<1>4. RequestFits(r)'
  BY <1>1, <1>2, <1>3 DEF RequestFits
<1>5. \A q \in Requests : q # r => (Holds(q)' <=> Holds(q))
  BY <1>1 DEF Holds
<1>6. \A q \in Requests : q # r => Apart(q, r)'
  BY <1>2, <1>5 DEF Apart
<1> QED
  BY <1>1, <1>4, <1>6, OneChanges

\* INSERT ... ON CONFLICT.
LEMMA UpsertKeeps ==
    ASSUME RowsInv, NEW r \in Requests, Upsert(r)
    PROVE  RowsInv'
<1> DEFINE current == snapshot[order[r]]
           event == [sequence |-> current.sequence + 1, id |-> id[r]]
<1>1. /\ phase[r] = "upsert" /\ ~RowPending(r)
      /\ UNCHANGED <<active, snapshot, outbox, order, id, bus, listening>>
  BY DEF Upsert
<1>2. order[r] \in Orders /\ id[r] \in Events /\ pending[r] = None
  BY <1>1, NothingPending DEF RowsInv, RequestsFit
<1>3. PICK p \in {"outbox", "published", "failed"} :
         /\ phase' = [phase EXCEPT ![r] = p]
         /\ \/ p # "outbox" /\ pending' = pending
            \/ p = "outbox" /\ ~IdPending(r) /\ pending' = [pending EXCEPT ![r] = event]
         /\ answered' \in {answered, answered \cup {id[r]}}
  BY DEF Upsert, Goto
<1>4. event \in TrackingEvent /\ event # None
  <2>1. current \in TrackingEvent /\ current.sequence \in Nat
    BY <1>2 DEF RowsInv, RowsTypeOK, TrackingEvent
  <2> QED
    BY <1>2, <2>1, NoEventAssumption DEF TrackingEvent
<1>5. RowsTypeOK'
  BY <1>1, <1>2, <1>3, <1>4 DEF RowsInv, RowsTypeOK
<1>6. SequencesAreRecorded' /\ BusFits'
  BY <1>1 DEF RowsInv, SequencesAreRecorded, BusFits
<1>7. /\ phase'[r] = p /\ pending'[r] = IF p = "outbox" THEN event ELSE None
      /\ \A q \in Requests : q # r => phase'[q] = phase[q] /\ pending'[q] = pending[q]
  BY <1>2, <1>3 DEF RowsInv, RowsTypeOK
<1>8. \A q \in Requests : q # r /\ Holds(q) => order[q] # order[r]
  BY <1>1 DEF RowPending
<1>9. \A q \in Requests : q # r /\ Holds(q) /\ pending[q] # None /\ p = "outbox" =>
         id[q] # id[r]
  <2>1. ASSUME NEW q \in Requests, q # r, Holds(q), pending[q] # None, p = "outbox"
        PROVE  pending[q].id = id[q] /\ pending[q].id # id[r]
    <3>1. pending[q].id = id[q]
      <4>1. pending[q] = [sequence |-> snapshot[order[q]].sequence + 1, id |-> id[q]]
        BY <2>1 DEF RowsInv, RequestsFit
      <4> QED
        BY <4>1
    <3>2. q \in Requests \ {r} /\ ~IdPending(r)
      BY <1>3, <2>1
    <3> QED
      BY <2>1, <3>1, <3>2 DEF IdPending
  <2> QED
    BY <2>1
<1> HIDE DEF event
<1>10. RequestsFit'
  <2>1. RequestFits(r)'
    <3>1. Holds(r)' /\ phase'[r] \notin {"answered", "lost"}
      BY <1>3, <1>7 DEF Holds
    <3>2. pending'[r] # None =>
             /\ p = "outbox"
             /\ pending'[r] = [sequence |-> snapshot'[order'[r]].sequence + 1, id |-> id'[r]]
      BY <1>1, <1>7 DEF event
    <3>3. order'[r] \in Orders /\ id'[r] \in Events
      BY <1>1, <1>2
    <3>4. phase'[r] = "outbox" => pending'[r] # None
      BY <1>4, <1>7
    <3> QED
      BY <1>7, <3>1, <3>2, <3>3, <3>4 DEF RequestFits
  <2>2. \A q \in Requests : q # r => (Holds(q)' <=> Holds(q))
    BY <1>7 DEF Holds
  <2>3. \A q \in Requests : q # r => Apart(q, r)'
    BY <1>1, <1>7, <1>8, <1>9, <2>2 DEF Apart
  <2> QED
    BY <1>1, <1>7, <2>1, <2>3, OneChanges
<1> QED
  BY <1>5, <1>6, <1>10 DEF RowsInv

\* The outbox row.
LEMMA InsertOutboxKeeps ==
    ASSUME RowsInv, NEW r \in Requests, InsertOutbox(r)
    PROVE  RowsInv'
<1>1. /\ phase[r] = "outbox"
      /\ UNCHANGED <<active, snapshot, outbox, order, id, pending, bus, listening>>
  BY DEF InsertOutbox
<1>2. Holds(r) /\ pending[r] # None /\ id[r] \in Events
  BY <1>1 DEF RowsInv, RequestsFit, Holds
<1>3. PICK p \in {"answered", "failed"} :
         /\ Goto(r, p) /\ answered' \in {answered, answered \cup {id[r]}}
         /\ p = "answered" => \A row \in outbox : row.id # id[r]
  BY DEF InsertOutbox
<1>4. RequestsFit'
  BY <1>1, <1>2, <1>3, GotoKeeps
<1>5. RowsTypeOK'
  BY <1>1, <1>2, <1>3 DEF RowsInv, RowsTypeOK, Goto
<1>6. SequencesAreRecorded' /\ BusFits'
  BY <1>1 DEF RowsInv, SequencesAreRecorded, BusFits
<1> QED
  BY <1>4, <1>5, <1>6 DEF RowsInv

\* A message joins the channel, or not.
LEMMA BusGrows ==
    ASSUME RowsInv, NEW r \in Requests, NEW sender \in {"open", "lost"},
           pending[r] \in TrackingEvent,
           pending[r].sequence <= snapshot[order[r]].sequence + 1,
           sender = "open" => pending[r].sequence = snapshot[order[r]].sequence + 1,
           bus' \in {bus, BusWith(r, sender)}, UNCHANGED snapshot
    PROVE  bus' \in Seq(Message) /\ BusFits'
<1> DEFINE n == snapshot[Watched].sequence
           m == [event |-> pending[r], sender |-> sender]
<1>1. bus \in Seq(Message) /\ Len(bus) \in Nat /\ DOMAIN bus = 1..Len(bus)
  BY DEF RowsInv, RowsTypeOK
<1>2. m \in Message /\ m.event = pending[r] /\ m.sender = sender
  BY DEF Message
<1>3. CASE bus' = bus
  BY <1>1, <1>3 DEF RowsInv, BusFits
<1>4. CASE order[r] = Watched /\ bus' = Append(bus, m)
  <2>1. n \in Nat /\ m.event.sequence \in Nat /\ m.event.sequence <= n + 1
        /\ (m.sender = "open" => m.event.sequence = n + 1)
    <3>1. snapshot[Watched] \in TrackingEvent
      BY WatchedAssumption DEF RowsInv, RowsTypeOK
    <3> QED
      BY <1>2, <1>4, <3>1 DEF TrackingEvent
  <2>2. \A i \in DOMAIN bus : bus[i].event.sequence <= n + 1
    BY DEF RowsInv, BusFits
  <2>3. \A i, j \in DOMAIN bus : i < j /\ bus[j].sender = "open" =>
           bus[i].event.sequence <= bus[j].event.sequence
    BY DEF RowsInv, BusFits
  <2>4. /\ Append(bus, m) \in Seq(Message)
        /\ \A i \in DOMAIN Append(bus, m) :
              \/ i \in DOMAIN bus /\ Append(bus, m)[i] = bus[i]
              \/ i = Len(bus) + 1 /\ Append(bus, m)[i] = m
    BY <1>1, <1>2, AppendEffect
  <2> HIDE DEF n, m
  <2>5. /\ bus' \in Seq(Message)
        /\ \A i \in DOMAIN bus' :
              \/ i \in DOMAIN bus /\ bus'[i] = bus[i]
              \/ i = Len(bus) + 1 /\ bus'[i] = m
    BY <1>4, <2>4
  <2>6. \A i \in DOMAIN bus' : bus'[i].event.sequence <= n + 1
    BY <2>1, <2>2, <2>5
  <2>7. ASSUME NEW i \in DOMAIN bus', NEW j \in DOMAIN bus', i < j, bus'[j].sender = "open"
        PROVE  bus'[i].event.sequence <= bus'[j].event.sequence
    <3>1. i \in DOMAIN bus /\ bus'[i] = bus[i]
      BY <1>1, <2>5, <2>7
    <3>2. CASE j \in DOMAIN bus /\ bus'[j] = bus[j]
      BY <2>3, <2>7, <3>1, <3>2
    <3>3. CASE bus'[j] = m
      BY <2>1, <2>2, <2>7, <3>1, <3>3
    <3> QED
      BY <2>5, <3>2, <3>3
  <2> QED
    BY <2>5, <2>6, <2>7 DEF BusFits, n
<1> QED
  BY <1>3, <1>4 DEF BusWith

\* The background task publishes.
LEMMA PublishRowsKeep ==
    ASSUME RowsInv, NEW r \in Requests, Publish(r)
    PROVE  RowsInv'
<1>1. /\ phase[r] = "answered" /\ Goto(r, "published")
      /\ bus' = BusWith(r, "open")
      /\ UNCHANGED <<active, snapshot, outbox, order, id, pending, answered, listening>>
  BY DEF Publish
<1>2. /\ Holds(r) /\ pending[r] # None /\ order[r] \in Orders
      /\ pending[r] = [sequence |-> snapshot[order[r]].sequence + 1, id |-> id[r]]
      /\ \A row \in outbox : row.id # id[r]
  BY <1>1 DEF RowsInv, RequestsFit, Holds
<1>3. RequestsFit'
  BY <1>1, <1>2, GotoKeeps
<1>4. SequencesAreRecorded'
  BY <1>1 DEF RowsInv, SequencesAreRecorded
<1>5. /\ pending[r] \in TrackingEvent
      /\ pending[r].sequence = snapshot[order[r]].sequence + 1
      /\ pending[r].sequence <= snapshot[order[r]].sequence + 1
  <2>1. pending[r] \in TrackingEvent /\ snapshot[order[r]] \in TrackingEvent
    BY <1>2 DEF RowsInv, RowsTypeOK
  <2>2. snapshot[order[r]].sequence \in Nat
    BY <2>1 DEF TrackingEvent
  <2>3. pending[r].sequence = snapshot[order[r]].sequence + 1
    BY <1>2
  <2> QED
    BY <2>1, <2>2, <2>3
<1>6. bus' \in Seq(Message) /\ BusFits'
  BY <1>1, <1>5, BusGrows
<1>7. RowsTypeOK'
  BY <1>1, <1>6 DEF RowsInv, RowsTypeOK, Goto
<1> QED
  BY <1>3, <1>4, <1>6, <1>7 DEF RowsInv

\* Redis refuses.
LEMMA PublishFailsKeeps ==
    ASSUME RowsInv, NEW r \in Requests, PublishFails(r)
    PROVE  RowsInv'
<1>1. /\ phase[r] = "answered" /\ Goto(r, "failed")
      /\ UNCHANGED <<active, snapshot, outbox, order, id, pending, answered, bus, listening>>
  BY DEF PublishFails
<1>2. RequestsFit'
  BY <1>1, GotoKeeps DEF Holds
<1>3. RowsTypeOK' /\ SequencesAreRecorded' /\ BusFits'
  BY <1>1 DEF RowsInv, RowsTypeOK, SequencesAreRecorded, BusFits, Goto
<1> QED
  BY <1>2, <1>3 DEF RowsInv

\* The session ends: the request lets go of its row and of its event id.
LEMMA EndSessionEffect ==
    ASSUME RowsInv, NEW r \in Requests, EndSession(r)
    PROVE  /\ phase'[r] = "idle" /\ pending'[r] = None
           /\ \A q \in Requests : q # r =>
                 /\ phase'[q] = phase[q] /\ order'[q] = order[q]
                 /\ id'[q] = id[q] /\ pending'[q] = pending[q]
           /\ phase' \in [Requests -> {"idle", "upsert", "outbox", "answered",
                                       "published", "failed", "lost"}]
           /\ order' \in [Requests -> Orders \cup {None}]
           /\ id' \in [Requests -> Events \cup {None}]
           /\ pending' \in [Requests -> TrackingEvent \cup {None}]
           /\ UNCHANGED <<active, listening>>
BY DEF EndSession, Goto, RowsInv, RowsTypeOK

\* A session that ends without a commit leaves the rows alone.
LEMMA NoCommitKeeps ==
    ASSUME RowsInv, NEW r \in Requests, EndSession(r), UNCHANGED <<snapshot, outbox>>,
           answered' \subseteq Events, bus' \in Seq(Message), BusFits'
    PROVE  RowsInv'
<1>1. RowsTypeOK'
  BY EndSessionEffect DEF RowsInv, RowsTypeOK
<1>2. SequencesAreRecorded'
  BY DEF RowsInv, SequencesAreRecorded
<1>3. RequestFits(r)' /\ ~Holds(r)'
  BY EndSessionEffect DEF RequestFits, Holds
<1>4. \A q \in Requests : Apart(q, r)'
  BY <1>3 DEF Apart
<1>5. RequestsFit'
  BY <1>3, <1>4, EndSessionEffect, OneChanges
<1> QED
  BY <1>1, <1>2, <1>5 DEF RowsInv

\* A session that ends and publishes nothing.
LEMMA QuietEndKeeps ==
    ASSUME RowsInv, NEW r \in Requests, EndSession(r), UNCHANGED <<snapshot, outbox, bus>>,
           answered' \subseteq Events
    PROVE  RowsInv'
<1>1. bus' \in Seq(Message) /\ BusFits'
  BY DEF RowsInv, RowsTypeOK, BusFits
<1> QED
  BY <1>1, NoCommitKeeps

\* The connection is lost: the request no longer counts, whether it knows or not.
LEMMA LoseConnectionKeeps ==
    ASSUME RowsInv, NEW r \in Requests, LoseConnection(r)
    PROVE  RowsInv'
<1>1. UNCHANGED <<snapshot, outbox, answered, bus>> /\ answered \subseteq Events
  BY DEF LoseConnection, RowsInv, RowsTypeOK
<1>2. CASE EndSession(r)
  BY <1>1, <1>2, QuietEndKeeps
<1>3. CASE /\ phase[r] = "answered" /\ Goto(r, "lost")
           /\ UNCHANGED <<active, order, id, pending, listening>>
  <2>1. RowsTypeOK' /\ SequencesAreRecorded' /\ BusFits'
    BY <1>1, <1>3 DEF RowsInv, RowsTypeOK, SequencesAreRecorded, BusFits, Goto
  <2>2. phase'[r] = "lost" /\ \A q \in Requests : q # r => phase'[q] = phase[q]
    BY <1>3 DEF Goto, RowsInv, RowsTypeOK
  <2>3. /\ order[r] \in Orders /\ id[r] \in Events /\ pending[r] # None
        /\ pending[r] = [sequence |-> snapshot[order[r]].sequence + 1, id |-> id[r]]
    BY <1>3 DEF RowsInv, RequestsFit, Holds
  <2>4. pending[r].sequence <= snapshot[order[r]].sequence + 1
    <3>1. snapshot[order[r]].sequence \in Nat
      BY <2>3 DEF RowsInv, RowsTypeOK, TrackingEvent
    <3>2. pending[r].sequence = snapshot[order[r]].sequence + 1
      BY <2>3
    <3> QED
      BY <3>1, <3>2
  <2>5. RequestFits(r)' /\ ~Holds(r)'
    BY <1>1, <1>3, <2>2, <2>3, <2>4 DEF RequestFits, Holds
  <2>6. \A q \in Requests : Apart(q, r)'
    BY <2>5 DEF Apart
  <2>7. RequestsFit'
    BY <1>1, <1>3, <2>2, <2>5, <2>6, OneChanges
  <2> QED
    BY <2>1, <2>7 DEF RowsInv
<1> QED
  BY <1>2, <1>3 DEF LoseConnection

\* The background task of a request without a transaction.
LEMMA PublishLostKeeps ==
    ASSUME RowsInv, NEW r \in Requests, PublishLost(r)
    PROVE  RowsInv'
<1>1. /\ phase[r] = "lost" /\ bus' \in {bus, BusWith(r, "lost")} /\ EndSession(r)
      /\ UNCHANGED <<snapshot, outbox, answered>>
  BY DEF PublishLost
<1>2. pending[r] # None /\ pending[r].sequence <= snapshot[order[r]].sequence + 1
  BY <1>1 DEF RowsInv, RequestsFit
<1>3. pending[r] \in TrackingEvent /\ answered \subseteq Events
  BY <1>2 DEF RowsInv, RowsTypeOK
<1>4. bus' \in Seq(Message) /\ BusFits'
  BY <1>1, <1>2, <1>3, BusGrows
<1> QED
  BY <1>1, <1>3, <1>4, NoCommitKeeps

\* COMMIT: the upserted event takes the next number of its order.
LEMMA CommitKeeps ==
    ASSUME RowsInv, NEW r \in Requests, Commit(r)
    PROVE  RowsInv'
<1>1. phase[r] = "published" /\ EndSession(r) /\ UNCHANGED <<answered, bus>>
  BY DEF Commit
<1>2. CASE pending[r] = None
  BY <1>1, <1>2, QuietEndKeeps DEF Commit, RowsInv, RowsTypeOK
<1>3. CASE pending[r] # None
  <2> DEFINE o == order[r]
             n == snapshot[o].sequence
             row == [order |-> o, sequence |-> n + 1, id |-> id[r]]
             At(x) == {y \in outbox : y.order = x}
  <2>1. /\ o \in Orders /\ id[r] \in Events /\ Holds(r)
        /\ pending[r] = [sequence |-> n + 1, id |-> id[r]]
        /\ \A x \in outbox : x.id # id[r]
    BY <1>1, <1>3 DEF RowsInv, RequestsFit, Holds
  <2>2. n \in Nat /\ pending[r] \in TrackingEvent
    <3>1. snapshot[o] \in TrackingEvent
      BY <2>1 DEF RowsInv, RowsTypeOK
    <3> QED
      BY <1>3, <3>1 DEF TrackingEvent, RowsInv, RowsTypeOK
  <2>3. /\ snapshot' = [snapshot EXCEPT ![o] = pending[r]]
        /\ outbox' = outbox \cup {row}
        /\ OutboxRow(o, pending[r]) = row
    <3>1. OutboxRow(o, pending[r]) = row
      <4>1. pending[r].sequence = n + 1 /\ pending[r].id = id[r]
        BY ONLY <2>1
      <4> QED
        BY ONLY <4>1 DEF OutboxRow
    <3> QED
      BY <1>3, <3>1 DEF Commit
  <2>4. row \in [order : Orders, sequence : Nat, id : Events]
    BY <2>1, <2>2
  <2>5. RowsTypeOK'
    BY <1>1, <2>2, <2>3, <2>4, EndSessionEffect DEF RowsInv, RowsTypeOK
  <2>6. /\ snapshot'[o] = pending[r] /\ snapshot'[o].sequence = n + 1
        /\ \A x \in Orders : x # o => snapshot'[x] = snapshot[x]
    <3>1. snapshot \in [Orders -> TrackingEvent]
      BY DEF RowsInv, RowsTypeOK
    <3>2. /\ snapshot'[o] = pending[r]
          /\ \A x \in Orders : x # o => snapshot'[x] = snapshot[x]
      BY <2>1, <2>3, <3>1
    <3> QED
      BY <2>1, <3>2
  <2>7. {y.sequence : y \in At(o)} = 1..n
    BY <2>1 DEF RowsInv, SequencesAreRecorded
  <2>8. row.order = o /\ row.sequence = n + 1 /\ row.id = id[r]
    OBVIOUS
  <2> HIDE DEF row, n
  <2>9. \A x \in Orders :
           /\ {y.sequence : y \in {z \in outbox' : z.order = x}} = 1..snapshot'[x].sequence
           /\ snapshot'[x].sequence > 0 => OutboxRow(x, snapshot'[x]) \in outbox'
    <3>1. {y.sequence : y \in {z \in outbox' : z.order = o}} = 1..(n + 1)
      <4>1. {z \in outbox' : z.order = o} = At(o) \cup {row}
        BY <2>3, <2>8
      <4>2. {y.sequence : y \in At(o) \cup {row}} = {y.sequence : y \in At(o)} \cup {n + 1}
        BY <2>8
      <4>3. (1..n) \cup {n + 1} = 1..(n + 1)
        BY <2>2
      <4> QED
        BY <2>7, <4>1, <4>2, <4>3
    <3>2. OutboxRow(o, snapshot'[o]) \in outbox'
      BY <2>3, <2>6
    <3>3. ASSUME NEW x \in Orders, x # o
          PROVE  {z \in outbox' : z.order = x} = At(x)
      BY <2>3, <2>8, <3>3
    <3>4. \A x \in Orders :
             /\ {y.sequence : y \in At(x)} = 1..snapshot[x].sequence
             /\ snapshot[x].sequence > 0 => OutboxRow(x, snapshot[x]) \in outbox
      BY DEF RowsInv, SequencesAreRecorded
    <3> HIDE DEF At
    <3>5. ASSUME NEW x \in Orders, x # o
          PROVE  /\ {y.sequence : y \in {z \in outbox' : z.order = x}}
                       = 1..snapshot'[x].sequence
                 /\ snapshot'[x].sequence > 0 => OutboxRow(x, snapshot'[x]) \in outbox'
      <4>1. snapshot'[x] = snapshot[x] /\ outbox \subseteq outbox'
        BY <2>3, <2>6, <3>5
      <4>2. {z \in outbox' : z.order = x} = At(x)
        BY <3>3, <3>5
      <4> QED
        BY <3>4, <4>1, <4>2
    <3> QED
      BY <2>6, <3>1, <3>2, <3>5
  <2>10. ASSUME NEW x \in outbox, x.order = o
         PROVE  x.sequence # n + 1
    <3>1. x.sequence \in 1..n
      BY <2>7, <2>10
    <3> QED
      BY <2>2, <3>1
  <2>11. \A x, y \in outbox' :
            x.id = y.id \/ (x.order = y.order /\ x.sequence = y.sequence) => x = y
    <3>1. \A x, y \in outbox :
             x.id = y.id \/ (x.order = y.order /\ x.sequence = y.sequence) => x = y
      BY DEF RowsInv, SequencesAreRecorded
    <3>2. \A x \in outbox :
             x.id # row.id /\ ~(x.order = row.order /\ x.sequence = row.sequence)
      BY <2>1, <2>8, <2>10
    <3> QED
      BY <2>3, <3>1, <3>2
  <2>12. SequencesAreRecorded'
    BY <2>9, <2>11 DEF SequencesAreRecorded
  <2>13. BusFits'
    <3>1. bus' = bus
      BY <1>1
    <3>2. snapshot[Watched].sequence \in Nat
      BY WatchedAssumption DEF RowsInv, RowsTypeOK, TrackingEvent
    <3>3. snapshot'[Watched].sequence \in {snapshot[Watched].sequence,
                                           snapshot[Watched].sequence + 1}
      BY <2>6, WatchedAssumption DEF n
    <3>4. \A i \in DOMAIN bus : bus[i].event.sequence \in Nat
      <4>1. \A i \in DOMAIN bus : bus[i] \in Message
        BY DEF RowsInv, RowsTypeOK
      <4> QED
        BY <4>1 DEF Message, TrackingEvent
    <3> QED
      BY <3>1, <3>2, <3>3, <3>4 DEF RowsInv, BusFits
  <2>14. ASSUME NEW q \in Requests, q # r, Holds(q)
         PROVE  order[q] \in Orders /\ snapshot'[order[q]] = snapshot[order[q]]
    BY <2>1, <2>6, <2>14 DEF RowsInv, RequestsFit, Holds
  <2>15. ASSUME NEW x \in Orders
         PROVE  /\ snapshot[x].sequence \in Nat /\ snapshot'[x].sequence \in Nat
                /\ snapshot[x].sequence <= snapshot'[x].sequence
    <3>1. snapshot[x].sequence \in Nat
      BY DEF RowsInv, RowsTypeOK, TrackingEvent
    <3> QED
      BY <2>2, <2>6, <3>1 DEF n
  <2>16. \A q \in Requests : q # r =>
            /\ phase'[q] = phase[q] /\ order'[q] = order[q] /\ id'[q] = id[q]
            /\ pending'[q] = pending[q] /\ (Holds(q)' <=> Holds(q))
    BY <1>1, EndSessionEffect DEF Holds
  <2>17. /\ phase'[r] = "idle" /\ pending'[r] = None /\ ~Holds(r)'
    BY <1>1, EndSessionEffect DEF Holds
  <2>18. ASSUME NEW q \in Requests, q # r
         PROVE  RequestFits(q)'
    <3>1. RequestFits(q) /\ Apart(q, r)
      BY <2>18, RequestsFitIs DEF RowsInv
    <3>2. Holds(q) /\ pending[q] # None => id[q] # id[r]
      BY <1>3, <2>1, <3>1 DEF Apart
    <3>3. Holds(q)' /\ pending'[q] # None =>
             /\ pending'[q] = [sequence |-> snapshot'[order'[q]].sequence + 1, id |-> id'[q]]
             /\ phase'[q] \in {"answered", "published"} => \A x \in outbox' : x.id # id'[q]
      <4>1. SUFFICES ASSUME Holds(q), pending[q] # None
                     PROVE  /\ pending[q] = [sequence |-> snapshot'[order[q]].sequence + 1,
                                              id |-> id[q]]
                            /\ phase[q] \in {"answered", "published"} =>
                                  \A x \in outbox' : x.id # id[q]
        BY <2>16, <2>18
      <4>2. snapshot'[order[q]] = snapshot[order[q]]
        BY <2>14, <2>18, <4>1
      <4>3. pending[q] = [sequence |-> snapshot[order[q]].sequence + 1, id |-> id[q]]
        BY <3>1, <4>1 DEF RequestFits
      <4>4. phase[q] \in {"answered", "published"} => \A x \in outbox : x.id # id[q]
        BY <3>1, <4>1 DEF RequestFits
      <4> QED
        BY <2>3, <2>8, <3>2, <4>1, <4>2, <4>3, <4>4
    <3>4. phase'[q] = "lost" =>
             pending'[q].sequence <= snapshot'[order'[q]].sequence + 1
      <4>1. SUFFICES ASSUME phase[q] = "lost"
                     PROVE  pending[q].sequence <= snapshot'[order[q]].sequence + 1
        BY <2>16, <2>18
      <4>2. /\ pending[q] # None /\ order[q] \in Orders
            /\ pending[q].sequence <= snapshot[order[q]].sequence + 1
        BY <3>1, <4>1 DEF RequestFits
      <4>3. pending[q].sequence \in Nat
        BY <4>2 DEF RowsInv, RowsTypeOK, TrackingEvent
      <4> QED
        BY <2>15, <4>2, <4>3
    <3> QED
      BY <2>16, <2>18, <3>1, <3>3, <3>4 DEF RequestFits
  <2>19. RequestFits(r)'
    BY <2>17 DEF RequestFits
  <2>20. ASSUME NEW q \in Requests, NEW t \in Requests, q # t
         PROVE  Apart(q, t)'
    <3>1. Apart(q, t)
      BY <2>20, RequestsFitIs DEF RowsInv
    <3> QED
      BY <2>16, <2>17, <3>1 DEF Apart
  <2>21. RequestsFit'
    BY <2>18, <2>19, <2>20 DEF RequestsFit, RequestFits, Apart
  <2> QED
    BY <2>5, <2>12, <2>13, <2>21 DEF RowsInv
<1> QED
  BY <1>2, <1>3

\* A message leaves the channel for the hub, or the channel is lost.
LEMMA BusStepKeeps ==
    ASSUME RowsInv, Deliver \/ Disconnect \/ Reconnect
    PROVE  RowsInv'
<1>1. /\ UNCHANGED <<active, snapshot, outbox, phase, order, id, pending, answered>>
      /\ bus' = bus \/ bus' = <<>> \/ (bus # <<>> /\ bus' = Tail(bus))
      /\ listening' \in BOOLEAN
  BY DEF Deliver, Disconnect, Reconnect, requests, RowsInv, RowsTypeOK
<1>2. bus \in Seq(Message)
  BY DEF RowsInv, RowsTypeOK
<1>3. bus' \in Seq(Message)
  BY <1>1, <1>2, TailEffect, EmptySeq
<1>4. RowsTypeOK'
  BY <1>1, <1>3 DEF RowsInv, RowsTypeOK
<1>5. SequencesAreRecorded' /\ RequestsFit'
  BY <1>1 DEF RowsInv, SequencesAreRecorded, RequestsFit, Holds
<1>6. BusFits'
  <2>1. CASE bus' = bus
    BY <1>1, <2>1 DEF RowsInv, BusFits
  <2>2. CASE bus' = <<>>
    BY <2>2 DEF BusFits
  <2>3. CASE bus # <<>> /\ bus' = Tail(bus)
    <3>1. DOMAIN bus' \subseteq Nat
          /\ \A i \in DOMAIN bus' : i + 1 \in DOMAIN bus /\ bus'[i] = bus[i + 1]
      BY <1>2, <1>3, <2>3, TailEffect
    <3>2. \A i, j \in DOMAIN bus' : i < j => i + 1 < j + 1
      BY <3>1
    <3> QED
      BY <1>1, <3>1, <3>2 DEF RowsInv, BusFits
  <2> QED
    BY <1>1, <2>1, <2>2, <2>3
<1> QED
  BY <1>4, <1>5, <1>6 DEF RowsInv

-----------------------------------------------------------------------------
TrackingInv == RowsInv /\ StreamsInv

\* A step of any actor.
LEMMA TrackingStep ==
    ASSUME TrackingInv, [Next]_vars
    PROVE  TrackingInv'
<1>1. ASSUME UNCHANGED streams
      PROVE  StreamsInv'
  BY <1>1 DEF TrackingInv, streams, StreamsInv, StreamsTypeOK, StreamsFit, SseOnlyAdvances,
              NewestIsKept, Subscribed
<1>2. ASSUME UNCHANGED <<snapshot, outbox, requests, bus, listening>>,
             active' \in [Orders -> BOOLEAN]
      PROVE  RowsInv'
  <2>1. RowsTypeOK'
    BY <1>2 DEF TrackingInv, RowsInv, RowsTypeOK, requests
  <2>2. SequencesAreRecorded' /\ RequestsFit' /\ BusFits'
    BY <1>2 DEF TrackingInv, RowsInv, SequencesAreRecorded, RequestsFit, Holds, BusFits,
                requests
  <2> QED
    BY <2>1, <2>2 DEF RowsInv
<1>3. active \in [Orders -> BOOLEAN] /\ answered \subseteq Events
      /\ snapshot[Watched] \in TrackingEvent
  BY WatchedAssumption DEF TrackingInv, RowsInv, RowsTypeOK
<1>4. CASE \E r \in Requests : \E o \in Orders, e \in Events : Start(r, o, e)
  <2>1. UNCHANGED streams
    BY <1>4 DEF Start
  <2> QED
    BY <1>1, <1>4, <2>1, StartKeeps DEF TrackingInv
<1>5. ASSUME NEW r \in Requests,
             RequestStep(r) \/ PublishFails(r) \/ Abort(r) \/ LoseConnection(r)
      PROVE  TrackingInv'
  <2>1. UNCHANGED streams
    BY <1>5 DEF RequestStep, Upsert, InsertOutbox, Publish, PublishFails, Commit, Rollback,
                PublishLost, Abort, LoseConnection, EndSession
  <2>2. Rollback(r) \/ Abort(r) => RowsInv'
    BY <1>3, QuietEndKeeps DEF Rollback, Abort, TrackingInv
  <2> QED
    BY <1>1, <1>5, <2>1, <2>2, UpsertKeeps, InsertOutboxKeeps, PublishRowsKeep,
       PublishFailsKeeps, CommitKeeps, PublishLostKeeps, LoseConnectionKeeps DEF RequestStep, TrackingInv
<1>6. CASE \E o \in Orders : Finish(o)
  <2>1. /\ UNCHANGED <<snapshot, outbox, requests, bus, listening>> /\ UNCHANGED streams
        /\ active' \in [Orders -> BOOLEAN]
    BY <1>3, <1>6 DEF Finish
  <2> QED
    BY <1>1, <1>2, <2>1 DEF TrackingInv
<1>7. CASE Deliver
  <2>1. Head(bus) \in Message /\ publish(Head(bus).event)
    BY <1>7, TailEffect DEF Deliver, TrackingInv, RowsInv, RowsTypeOK
  <2>2. Head(bus).event \in TrackingEvent
    BY <2>1 DEF Message
  <2> QED
    BY <1>7, <2>1, <2>2, PublishKeeps, BusStepKeeps DEF TrackingInv
<1>8. CASE Disconnect \/ Reconnect
  <2>1. UNCHANGED streams
    BY <1>8 DEF Disconnect, Reconnect
  <2> QED
    BY <1>1, <1>8, <2>1, BusStepKeeps DEF TrackingInv
<1>9. ASSUME NEW s \in Sse, StreamStep(s) \/ StreamChoice(s)
      PROVE  TrackingInv'
  <2>1. /\ UNCHANGED <<snapshot, outbox, requests, bus, listening>>
        /\ active' \in [Orders -> BOOLEAN]
    BY <1>3, <1>9 DEF StreamStep, StreamChoice
  <2>2. RowsInv'
    BY <1>2, <2>1
  <2> QED
    BY <1>3, <1>9, <2>2, SseOpenKeeps, SseNextKeeps, SseReadKeeps, CloseKeeps
       DEF StreamStep, StreamChoice, TrackingInv
<1>10. CASE UNCHANGED vars
  BY <1>1, <1>2, <1>3, <1>10 DEF vars, TrackingInv
<1> QED
  BY <1>4, <1>5, <1>6, <1>7, <1>8, <1>9, <1>10 DEF Next

\* At the start nothing is stored, nobody asks and nobody watches.
LEMMA TrackingInit ==
    ASSUME Init
    PROVE  TrackingInv
<1>1. NoPosition \in TrackingEvent /\ NoPosition.sequence = 0 /\ <<>> \in Seq(TrackingEvent)
  BY DEF NoPosition, TrackingEvent
<1>2. RowsTypeOK
  BY <1>1, EmptySeq DEF Init, RowsTypeOK
<1>3. SequencesAreRecorded
  <2>1. outbox = {} /\ \A o \in Orders : snapshot[o].sequence = 0
    BY <1>1 DEF Init
  <2>2. \A o \in Orders :
           {row.sequence : row \in {x \in outbox : x.order = o}} = 1..snapshot[o].sequence
    <3>1. 1..0 = {}
      OBVIOUS
    <3> QED
      BY <2>1, <3>1
  <2> QED
    BY <2>1, <2>2 DEF SequencesAreRecorded
<1>4. RequestsFit /\ BusFits
  BY DEF Init, RequestsFit, BusFits, Holds
<1>5. StreamsTypeOK
  BY <1>1 DEF Init, StreamsInit, StreamsTypeOK, Subscribed
<1>6. StreamsFit /\ SseOnlyAdvances /\ NewestIsKept
  BY DEF Init, StreamsInit, StreamsFit, SseOnlyAdvances, NewestIsKept, Subscribed, Streams
<1> QED
  BY <1>2, <1>3, <1>4, <1>5, <1>6 DEF TrackingInv, RowsInv, StreamsInv

\* What is sent with one number is recorded at most once.
LEMMA InOrder ==
    ASSUME TrackingInv
    PROVE  PublishedInOrder
<1> DEFINE n == snapshot[Watched].sequence
           Recorded(e) == OutboxRow(Watched, e) \in outbox
           Held(e) == \E r \in Requests :
                         Holds(r) /\ order[r] = Watched /\ pending[r] = e
<1>1. /\ RowsTypeOK /\ SequencesAreRecorded /\ RequestsFit /\ BusFits
      /\ bus \in Seq(Message)
  BY DEF TrackingInv, RowsInv, RowsTypeOK
<1>2. n \in Nat
  BY <1>1, WatchedAssumption DEF RowsTypeOK, TrackingEvent
<1>3. ASSUME NEW e \in TrackingEvent, Recorded(e)
      PROVE  e.sequence <= n
  <2>1. {row.sequence : row \in {x \in outbox : x.order = Watched}} = 1..n
    BY <1>1, WatchedAssumption DEF SequencesAreRecorded
  <2>2. OutboxRow(Watched, e) \in {x \in outbox : x.order = Watched}
        /\ OutboxRow(Watched, e).sequence = e.sequence
    BY <1>3 DEF OutboxRow
  <2>3. e.sequence \in 1..n
    BY <2>1, <2>2
  <2> QED
    BY <1>2, <2>3
<1>4. ASSUME NEW e \in TrackingEvent, Held(e)
      PROVE  e.sequence = n + 1
  <2>1. PICK r \in Requests : Holds(r) /\ order[r] = Watched /\ pending[r] = e
    BY <1>4
  <2>2. pending[r] # None
    BY <2>1, NoEventAssumption
  <2>3. pending[r] = [sequence |-> snapshot[order[r]].sequence + 1, id |-> id[r]]
    BY <1>1, <2>1, <2>2 DEF RequestsFit
  <2> QED
    BY <2>1, <2>3
<1>5. ASSUME NEW e \in TrackingEvent, NEW f \in TrackingEvent, e.sequence = f.sequence,
             Recorded(e) \/ Held(e), Recorded(f) \/ Held(f)
      PROVE  e = f
  <2>1. CASE Recorded(e) /\ Recorded(f)
    <3>1. OutboxRow(Watched, e) = OutboxRow(Watched, f)
      <4>1. /\ OutboxRow(Watched, e).order = OutboxRow(Watched, f).order
            /\ OutboxRow(Watched, e).sequence = OutboxRow(Watched, f).sequence
        BY <1>5 DEF OutboxRow
      <4> QED
        BY <1>1, <2>1, <4>1 DEF SequencesAreRecorded
    <3>2. e.id = f.id
      BY <3>1 DEF OutboxRow
    <3> QED
      BY <1>5, <3>2 DEF TrackingEvent
  <2>2. CASE Held(e) /\ Held(f)
    <3>1. PICK q \in Requests : Holds(q) /\ order[q] = Watched /\ pending[q] = e
      BY <2>2
    <3>2. PICK r \in Requests : Holds(r) /\ order[r] = Watched /\ pending[r] = f
      BY <2>2
    <3> QED
      BY <1>1, <3>1, <3>2 DEF RequestsFit
  <2>3. ~(Recorded(e) /\ Held(f)) /\ ~(Held(e) /\ Recorded(f))
    <3>1. ~(n + 1 <= n)
      BY <1>2
    <3> HIDE DEF n, Recorded, Held
    <3> QED
      BY <1>3, <1>4, <1>5, <3>1, Zenon
  <2> QED
    BY <1>5, <2>1, <2>2, <2>3
<1>6. \A i \in DOMAIN bus : bus[i].event \in TrackingEvent
  <2>1. \A i \in DOMAIN bus : bus[i] \in Message
    BY <1>1
  <2> QED
    BY <2>1 DEF Message
<1>7. \A i, j \in DOMAIN bus : i < j /\ bus[j].sender = "open" =>
         bus[i].event.sequence <= bus[j].event.sequence
  BY <1>1 DEF BusFits
<1> QED
  BY <1>5, <1>6, <1>7 DEF PublishedInOrder

\* Rows, requests, channel and streams always fit together.
LEMMA TrackingAlways == Spec => []TrackingInv
<1>1. Init => TrackingInv
  BY TrackingInit
<1>2. TrackingInv /\ [Next]_vars => TrackingInv'
  BY TrackingStep
<1> QED
  BY <1>1, <1>2, PTL DEF Spec

\* The rows number the positions of every order without a gap, and requests,
\* channel and streams keep to them (record_tracking_position, upsert_next,
\* TrackingHub), for every number of orders, requests, ids and clients.
THEOREM TrackingInvariant == Spec => []IInv
<1>1. TrackingInv => IInv
  BY DEF TrackingInv, RowsInv, StreamsInv, IInv, TypeOK
<1> QED
  BY <1>1, TrackingAlways, PTL

\* A request publishes before it commits, hence no higher number is ahead of the
\* message of one that has its transaction; and of two messages with one number,
\* whoever sent them, at most one is recorded (record_tracking_position,
\* _publish_tracking_event).
THEOREM TrackingPublishedInOrder == Spec => []PublishedInOrder
<1>1. TrackingInv => PublishedInOrder
  BY InOrder
<1> QED
  BY <1>1, TrackingAlways, PTL

\* order_event_stream: numbers only grow on one connection, whatever is lost,
\* repeated or dropped on the way.
THEOREM TrackingSseOnlyAdvances == Spec => []SseOnlyAdvances
<1>1. TrackingInv => SseOnlyAdvances
  BY DEF TrackingInv, StreamsInv
<1> QED
  BY <1>1, TrackingAlways, PTL

\* TrackingHub.publish drops the oldest event of a full queue and never the newest,
\* for every queue size.
THEOREM TrackingNewestIsKept == Spec => []NewestIsKept
<1>1. TrackingInv => NewestIsKept
  BY DEF TrackingInv, StreamsInv
<1> QED
  BY <1>1, TrackingAlways, PTL
=============================================================================
