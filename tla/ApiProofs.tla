----------------------------- MODULE ApiProofs -----------------------------
(***************************************************************************)
(* What ApiProcess promises for any number of requests, connections and    *)
(* bodies: connections come back, handlers have what lifespan opened, rows *)
(* have their object and metrics tell the truth.  IInv is inductive; there *)
(* is one lemma for each of its parts, with one step per action that can   *)
(* disturb it.                                                             *)
(***************************************************************************)
EXTENDS ApiProcess, FiniteSetTheorems, TLAPS

\* The provers tried for a leaf, with the seconds each one has.
USE ZenonT(3), SMTT(40), ZenonT(40)

\* What a request does on its own account.
RequestStep(r) ==
    (\E i \in Inputs : Arrive(r, i)) \/ Step(r) \/ StreamEnds(r) \/ CommitFails(r)

\* Nothing happens to request q.
Untouched(q) ==
    /\ checked_out'[q] = checked_out[q]
    /\ phase'[q] = phase[q] /\ input'[q] = input[q]
    /\ row'[q] = row[q] /\ raised'[q] = raised[q]
    /\ status'[q] = status[q] /\ sent'[q] = sent[q] /\ recorded'[q] = recorded[q]

\* A step of one request leaves the other requests and the lifespan alone.
LEMMA RequestFrame ==
  ASSUME RequestTypeOK, TelemetryTypeOK, NEW r \in Requests, RequestStep(r)
  PROVE  /\ UNCHANGED <<in_memory, process, ready, resources>>
         /\ \A q \in Requests : q # r => Untouched(q)
<1> USE DEF RequestTypeOK, TelemetryTypeOK, Untouched, lifecycle, telemetry
<1>1. ASSUME NEW i \in Inputs, Arrive(r, i)
      PROVE  /\ UNCHANGED <<in_memory, process, ready, resources>>
             /\ \A q \in Requests : q # r => Untouched(q)
  BY <1>1 DEF Arrive, Goto
<1>2. CASE ReadOrder(r)
  BY <1>2 DEF ReadOrder, Raise, CheckinAll, Connected, Checkout, Goto
<1>3. CASE PoolTimeout(r)
  BY <1>3 DEF PoolTimeout, Raise, CheckinAll, Goto
<1>4. CASE StoreObject(r)
  BY <1>4 DEF StoreObject, Raise, CheckinAll, Goto
<1>5. CASE Find(r)
  BY <1>5 DEF Find, Raise, CheckinAll, Connected, Checkout, Goto
<1>6. CASE Second(r)
  BY <1>6 DEF Second, Connected, Checkout, Goto
<1>7. CASE Insert(r)
  BY <1>7 DEF Insert, Raise, CheckinAll, Goto
<1>8. CASE Respond(r)
  BY <1>8 DEF Respond, ResponseStart, Goto
<1>9. CASE ExitSecond(r)
  BY <1>9 DEF ExitSecond, Checkin
<1>10. CASE ExitFirst(r)
  BY <1>10 DEF ExitFirst, Checkin, Goto
<1>11. CASE ErrorResponse(r)
  BY <1>11 DEF ErrorResponse, ResponseStart, Goto
<1>12. CASE Complete(r)
  BY <1>12 DEF Complete, Record, Goto
<1>13. CASE ServerError(r)
  BY <1>13 DEF ServerError, request
<1>14. CASE Leave(r)
  BY <1>14 DEF Leave, Goto
<1>15. CASE StreamEnds(r)
  BY <1>15 DEF StreamEnds, Goto
<1>16. CASE CommitFails(r)
  BY <1>16 DEF CommitFails, Raise, CheckinAll, Goto
<1> QED
  BY RequestStep(r), <1>1, <1>2, <1>3, <1>4, <1>5, <1>6, <1>7, <1>8, <1>9, <1>10, <1>11,
     <1>12, <1>13, <1>14, <1>15, <1>16 DEF RequestStep, Step

\* Every step is one of the lifespan, of a request, or none.
LEMMA Steps ==
  ASSUME [Next]_vars
  PROVE  Lifespan \/ (\E r \in Requests : RequestStep(r)) \/ UNCHANGED vars
BY DEF Next, RequestStep

\* What lifespan opens and closes is a list of resources.
LEMMA LifecycleTypesKept == TypeOK /\ [Next]_vars => LifecycleTypeOK'
<1> SUFFICES ASSUME TypeOK, [Next]_vars
             PROVE  LifecycleTypeOK'
  OBVIOUS
<1> USE DEF LifecycleTypeOK, lifecycle
<1>0. LifecycleTypeOK /\ RequestTypeOK /\ TelemetryTypeOK
  BY DEF TypeOK
<1>1. ASSUME NEW r \in Requests, RequestStep(r)
      PROVE  LifecycleTypeOK'
  <2>1. UNCHANGED <<in_memory, process, ready, resources>>
    BY ONLY <1>0, <1>1, RequestFrame
  <2> QED
    BY <1>0, <2>1
<1>2. CASE Start
  <2> DEFINE R == {"listener", "http", "redis", "engine"}
  <2>1. <<"http", "redis">> \in Seq(R) /\ <<"listener", "http", "redis", "engine">> \in Seq(R)
    BY ONLY SMT
  <2>2. resources' = <<"http", "redis">> \/ resources' = <<"listener", "http", "redis", "engine">>
    BY <1>2 DEF Start
  <2>3. resources' \in Seq(R)
    BY ONLY <2>1, <2>2, Zenon
  <2>4. process' = "starting" /\ in_memory' = in_memory /\ ready' = ready
    BY <1>2 DEF Start
  <2> QED
    BY <1>0, <2>3, <2>4
<1>3. CASE DatabaseAnswers \/ DatabaseFails \/ Terminate \/ Shutdown
  BY <1>0, <1>3 DEF DatabaseAnswers, DatabaseFails, Terminate, Shutdown
<1>4. CASE Close
  <2>1. resources' \in Seq({"listener", "http", "redis", "engine"})
    BY <1>0, <1>4 DEF Close
  <2>2. process' \in {process, "down"} /\ in_memory' = in_memory /\ ready' = ready
    BY <1>4 DEF Close
  <2>3. process' \in {"down", "starting", "serving", "draining", "closing"}
    BY <1>0, <2>2
  <2> QED
    BY <1>0, <2>1, <2>2, <2>3
<1>5. CASE Crash
  <2>1. resources' \in Seq({"listener", "http", "redis", "engine"})
    BY <1>5 DEF Crash
  <2>2. process' = "down" /\ in_memory' = in_memory /\ ready' = FALSE
    BY <1>5 DEF Crash
  <2> QED
    BY <1>0, <2>1, <2>2
<1>6. CASE UNCHANGED vars
  BY <1>0, <1>6 DEF vars
<1> QED
  BY Steps, <1>1, <1>2, <1>3, <1>4, <1>5, <1>6 DEF Lifespan

\* A request that is not over has an input of the right shape.
LEMMA InputKnown ==
  ASSUME IInv, NEW r \in Requests, phase[r] # "idle"
  PROVE  /\ input[r] \in Inputs
         /\ input[r].kind \in {"upload", "download", "stream", "get"}
         /\ input[r].body \in Bodies
         /\ media_of[input[r].body] \in Media \cup {None}
<1>1. input[r] # None
  BY DEF IInv, LifespanFits
<1>2. input[r] \in Inputs
  BY <1>1 DEF IInv, TypeOK, RequestTypeOK
<1> QED
  BY ONLY <1>2, InputsAssumption, MediaAssumption

\* An error leaves a request without connections and without a row.
LEMMA RaiseKeepsTypes ==
  ASSUME RequestTypeOK, NEW r \in Requests, NEW error \in Nat, Raise(r, error)
  PROVE  RequestTypeOK'
BY DEF RequestTypeOK, Raise, CheckinAll, Goto

\* What a request has and where it stands keep their shape.
LEMMA RequestTypesKept == IInv /\ [Next]_vars => RequestTypeOK'
<1> SUFFICES ASSUME IInv, [Next]_vars
             PROVE  RequestTypeOK'
  OBVIOUS
<1>0. RequestTypeOK
  BY DEF IInv, TypeOK
<1>1. ASSUME NEW r \in Requests, RequestStep(r)
      PROVE  RequestTypeOK'
  <2> USE DEF RequestTypeOK
  <2>1. ASSUME NEW i \in Inputs, Arrive(r, i)
        PROVE  RequestTypeOK'
    BY <1>0, <2>1 DEF Arrive, Goto
  <2>2. CASE ReadOrder(r)
    <3>1. Raise(r, 403) => RequestTypeOK'
      BY <1>0, RaiseKeepsTypes
    <3> QED
      BY <1>0, <2>2, <3>1 DEF ReadOrder, Connected, Checkout, Goto, Sessions
  <2>3. CASE PoolTimeout(r)
    BY <1>0, <2>3, RaiseKeepsTypes DEF PoolTimeout, Unexpected
  <2>4. CASE StoreObject(r)
    <3>1. Raise(r, 413) \/ Raise(r, 422) => RequestTypeOK'
      BY <1>0, RaiseKeepsTypes
    <3> QED
      BY <1>0, <2>4, <3>1 DEF StoreObject, Goto
  <2>5. CASE Find(r)
    <3>1. download_status(input[r].body) \in Nat
      BY ONLY SMT DEF download_status
    <3>2. Raise(r, download_status(input[r].body)) => RequestTypeOK'
      BY <1>0, <3>1, RaiseKeepsTypes
    <3> HIDE DEF download_status
    <3> QED
      BY <1>0, <2>5, <3>2 DEF Find, Connected, Checkout, Goto, Sessions
  <2>6. CASE Second(r)
    BY <1>0, <2>6 DEF Second, Connected, Checkout, Goto, Sessions
  <2>7. CASE Insert(r)
    <3>1. Raise(r, Unexpected) => RequestTypeOK'
      BY <1>0, RaiseKeepsTypes DEF Unexpected
    <3>2. media_of[input[r].body] \in Media \cup {None}
      BY <2>7, InputKnown DEF Insert
    <3> QED
      BY <1>0, <2>7, <3>1, <3>2 DEF Insert, Goto, inspect_proof
  <2>8. CASE Respond(r)
    BY <1>0, <2>8 DEF Respond, ResponseStart, Goto
  <2>9. CASE ExitSecond(r)
    BY <1>0, <2>9 DEF ExitSecond, Checkin
  <2>10. CASE ExitFirst(r)
    BY <1>0, <2>10 DEF ExitFirst, Checkin, Goto
  <2>11. CASE ErrorResponse(r)
    BY <1>0, <2>11 DEF ErrorResponse, ResponseStart, Goto
  <2>12. CASE Complete(r)
    BY <1>0, <2>12 DEF Complete, Record, Goto
  <2>13. CASE ServerError(r)
    BY <1>0, <2>13 DEF ServerError, request
  <2>14. CASE Leave(r)
    BY <1>0, <2>14 DEF Leave, Goto
  <2>15. CASE StreamEnds(r)
    BY <1>0, <2>15 DEF StreamEnds, Goto
  <2>16. CASE CommitFails(r)
    BY <1>0, <2>16, RaiseKeepsTypes DEF CommitFails, Unexpected
  <2> HIDE DEF RequestTypeOK
  <2> QED
    BY <1>1, <2>1, <2>2, <2>3, <2>4, <2>5, <2>6, <2>7, <2>8, <2>9, <2>10, <2>11, <2>12, <2>13,
       <2>14, <2>15, <2>16 DEF RequestStep, Step
<1>2. CASE Crash
  BY <1>0, <1>2 DEF Crash, NoRequest, RequestTypeOK
<1>3. CASE UNCHANGED <<checked_out, request>>
  BY <1>0, <1>3 DEF request, RequestTypeOK
<1> QED
  <2>1. Lifespan => Crash \/ UNCHANGED <<checked_out, request>>
    BY DEF Lifespan, Start, DatabaseAnswers, DatabaseFails, Terminate, Shutdown, Close
  <2>2. UNCHANGED vars => UNCHANGED <<checked_out, request>>
    BY DEF vars
  <2> QED
    BY Steps, <1>1, <1>2, <1>3, <2>1, <2>2

\* A request arrives, is completed by the middleware and leaves; every other step
\* happens while it runs.
LEMMA PhaseMoves ==
  ASSUME RequestTypeOK, NEW r \in Requests, RequestStep(r)
  PROVE  \/ (\E i \in Inputs : Arrive(r, i)) /\ phase[r] = "idle" /\ phase'[r] = "first"
         \/ Complete(r) /\ phase[r] = "ended" /\ phase'[r] = "completed"
         \/ ServerError(r) /\ phase[r] = "completed" /\ phase'[r] = "completed"
         \/ Leave(r) /\ phase[r] = "completed" /\ phase'[r] = "idle"
         \/ /\ phase[r] \notin {"idle", "completed"}
            /\ phase'[r] \notin {"idle", "completed"}
<1> DEFINE Runs == phase[r] \notin {"idle", "completed"} /\ phase'[r] \notin {"idle", "completed"}
<1> USE DEF RequestTypeOK
<1>1. ASSUME NEW i \in Inputs, Arrive(r, i)
      PROVE  phase[r] = "idle" /\ phase'[r] = "first"
  BY <1>1 DEF Arrive, Goto
<1>2. ReadOrder(r) => Runs
  BY DEF ReadOrder, Raise, Goto
<1>3. PoolTimeout(r) => Runs
  BY DEF PoolTimeout, Raise, Goto
<1>4. StoreObject(r) => Runs
  BY DEF StoreObject, Raise, Goto
<1>5. Find(r) => Runs
  BY DEF Find, Raise, Goto
<1>6. Second(r) => Runs
  BY DEF Second, Goto
<1>7. Insert(r) => Runs
  BY DEF Insert, Raise, Goto
<1>8. Respond(r) => Runs
  BY DEF Respond, Goto
<1>9. StreamEnds(r) => Runs
  BY DEF StreamEnds, Goto
<1>10. ExitSecond(r) => Runs
  BY DEF ExitSecond
<1>11. ExitFirst(r) => Runs
  BY DEF ExitFirst, Goto
<1>12. CommitFails(r) => Runs
  BY DEF CommitFails, Raise, Goto
<1>13. ErrorResponse(r) => Runs
  BY DEF ErrorResponse, Goto
<1>14. CASE Complete(r)
  BY <1>14 DEF Complete, Goto
<1>15. CASE ServerError(r)
  BY <1>15 DEF ServerError, request
<1>16. CASE Leave(r)
  BY <1>16 DEF Leave, Goto
<1> HIDE DEF RequestTypeOK
<1> QED
  BY <1>1, <1>2, <1>3, <1>4, <1>5, <1>6, <1>7, <1>8, <1>9, <1>10, <1>11, <1>12, <1>13, <1>14,
     <1>15, <1>16 DEF RequestStep, Step

\* The gauge goes up when a request arrives and down when it is completed.
LEMMA GaugeKept ==
  ASSUME IInv, [Next]_vars
  PROVE  IsFiniteSet(Running') /\ in_flight' = Cardinality(Running')
<1>0. /\ IsFiniteSet(Running) /\ in_flight = Cardinality(Running) /\ in_flight \in Nat
      /\ RequestTypeOK /\ TelemetryTypeOK
  BY DEF IInv, TypeOK, TelemetryTypeOK, CountsFit, MetricsTellTheTruth
<1>1. ASSUME NEW r \in Requests, RequestStep(r)
      PROVE  IsFiniteSet(Running') /\ in_flight' = Cardinality(Running')
  <2>1. \A q \in Requests : q # r => phase'[q] = phase[q]
    BY <1>0, <1>1, RequestFrame DEF Untouched
  <2>2. CASE \E i \in Inputs : Arrive(r, i)
    <3>0. phase[r] = "idle" /\ phase'[r] = "first"
      BY <1>0, <2>2 DEF Arrive, Goto, RequestTypeOK
    <3>1. Running' = Running \cup {r} /\ r \notin Running
      BY <2>1, <3>0 DEF Running
    <3>2. in_flight' = in_flight + 1
      BY <2>2 DEF Arrive
    <3> QED
      BY <1>0, <3>1, <3>2, FS_AddElement
  <2>3. CASE Complete(r)
    <3>0. phase[r] = "ended" /\ phase'[r] = "completed"
      BY <1>0, <2>3 DEF Complete, Goto, RequestTypeOK
    <3>1. Running' = Running \ {r} /\ r \in Running
      BY <2>1, <3>0 DEF Running
    <3>2. in_flight' = in_flight - 1
      BY <2>3 DEF Complete
    <3> QED
      BY <1>0, <3>1, <3>2, FS_RemoveElement
  <2>4. ASSUME ~\E i \in Inputs : Arrive(r, i), ~Complete(r)
        PROVE  in_flight' = in_flight
    BY <1>1, <2>4 DEF RequestStep, Step, telemetry, ReadOrder, PoolTimeout, StoreObject, Find,
       Second, Insert, Respond, ExitSecond, ExitFirst, ErrorResponse, ServerError, Leave,
       StreamEnds, CommitFails, Raise
  <2>5. ASSUME phase[r] \in {"idle", "completed"} <=> phase'[r] \in {"idle", "completed"}
        PROVE  Running' = Running
    BY <2>1, <2>5 DEF Running
  <2>6. ASSUME ~\E i \in Inputs : Arrive(r, i), ~Complete(r)
        PROVE  phase[r] \in {"idle", "completed"} <=> phase'[r] \in {"idle", "completed"}
    BY <1>0, <1>1, <2>6, PhaseMoves
  <2> QED
    BY <1>0, <2>2, <2>3, <2>4, <2>5, <2>6
<1>2. CASE Crash
  <2>1. Running' = {} /\ in_flight' = 0
    BY <1>2 DEF Crash, Running
  <2> QED
    BY <2>1, FS_EmptySet
<1>3. CASE UNCHANGED <<phase, in_flight>>
  BY <1>0, <1>3 DEF Running
<1> QED
  <2>1. Lifespan => Crash \/ UNCHANGED <<phase, in_flight>>
    BY DEF Lifespan, Start, DatabaseAnswers, DatabaseFails, Terminate, Shutdown, Close,
           request, telemetry
  <2>2. UNCHANGED vars => UNCHANGED <<phase, in_flight>>
    BY DEF vars, request, telemetry
  <2> QED
    BY Steps, <1>1, <1>2, <1>3, <2>1, <2>2

\* The steps that change what the middleware knows or the client is sent.
LEMMA TelemetryFrame ==
  ASSUME [Next]_vars
  PROVE  \/ Crash
         \/ UNCHANGED telemetry
         \/ \E r \in Requests : \/ \E i \in Inputs : Arrive(r, i)
                                \/ Respond(r) \/ ErrorResponse(r) \/ Complete(r)
                                \/ ServerError(r) \/ Leave(r)
<1>1. Lifespan => Crash \/ UNCHANGED telemetry
  BY DEF Lifespan, Start, DatabaseAnswers, DatabaseFails, Terminate, Shutdown, Close
<1>2. \A r \in Requests :
         ReadOrder(r) \/ PoolTimeout(r) \/ StoreObject(r) \/ Find(r) => UNCHANGED telemetry
  BY DEF ReadOrder, PoolTimeout, StoreObject, Find, Raise
<1>3. \A r \in Requests :
         Second(r) \/ Insert(r) \/ ExitSecond(r) \/ ExitFirst(r) => UNCHANGED telemetry
  BY DEF Second, Insert, ExitSecond, ExitFirst, Raise
<1>4. \A r \in Requests : StreamEnds(r) \/ CommitFails(r) => UNCHANGED telemetry
  BY DEF StreamEnds, CommitFails, Raise
<1>5. UNCHANGED vars => UNCHANGED telemetry
  BY DEF vars
<1> QED
  BY Steps, <1>1, <1>2, <1>3, <1>4, <1>5 DEF RequestStep, Step

\* The steps that change what is stored.
LEMMA StoreFrame ==
  ASSUME [Next]_vars
  PROVE  \/ Crash \/ Close
         \/ UNCHANGED store
         \/ \E r \in Requests : StoreObject(r) \/ ExitSecond(r)
<1>1. Lifespan => Crash \/ Close \/ UNCHANGED store
  BY DEF Lifespan, Start, DatabaseAnswers, DatabaseFails, Terminate, Shutdown
<1>2. \A r \in Requests :
         \/ ReadOrder(r) \/ PoolTimeout(r) \/ Find(r) \/ Second(r) \/ Insert(r)
         \/ ExitFirst(r) \/ StreamEnds(r) \/ CommitFails(r)
         => UNCHANGED store
  BY DEF ReadOrder, PoolTimeout, Find, Second, Insert, ExitFirst, StreamEnds, CommitFails, Raise
<1>3. \A r \in Requests :
         \/ (\E i \in Inputs : Arrive(r, i))
         \/ Respond(r) \/ ErrorResponse(r) \/ Complete(r) \/ ServerError(r) \/ Leave(r)
         => UNCHANGED store
  BY DEF Arrive, Respond, ErrorResponse, Complete, ServerError, Leave
<1>4. UNCHANGED vars => UNCHANGED store
  BY DEF vars
<1> QED
  BY Steps, <1>1, <1>2, <1>3, <1>4 DEF RequestStep, Step

\* Statuses are numbers and the gauge counts.
LEMMA TelemetryTypesKept == IInv /\ [Next]_vars => TelemetryTypeOK'
<1> SUFFICES ASSUME IInv, [Next]_vars
             PROVE  TelemetryTypeOK'
  OBVIOUS
<1>0. TelemetryTypeOK /\ RequestTypeOK
  BY DEF IInv, TypeOK
<1> DEFINE Statuses == [Requests -> Nat \cup {None}]
<1>1. in_flight' \in Nat
  BY GaugeKept, FS_CardinalityType
<1>2. status' \in Statuses /\ sent' \in Statuses /\ recorded' \in Statuses
  <2>0. status \in Statuses /\ sent \in Statuses /\ recorded \in Statuses /\ raised \in Statuses
    BY <1>0 DEF TelemetryTypeOK, RequestTypeOK
  <2>1. ASSUME NEW r \in Requests, NEW i \in Inputs, Arrive(r, i)
        PROVE  status' \in Statuses /\ sent' \in Statuses /\ recorded' \in Statuses
    BY <2>0, <2>1 DEF Arrive
  <2>2. ASSUME NEW r \in Requests, Respond(r)
        PROVE  status' \in Statuses /\ sent' \in Statuses /\ recorded' \in Statuses
    BY <2>0, <2>2 DEF Respond, ResponseStart
  <2>3. ASSUME NEW r \in Requests, ErrorResponse(r)
        PROVE  status' \in Statuses /\ sent' \in Statuses /\ recorded' \in Statuses
    BY <2>0, <2>3 DEF ErrorResponse, ResponseStart
  <2>4. ASSUME NEW r \in Requests, Complete(r)
        PROVE  status' \in Statuses /\ sent' \in Statuses /\ recorded' \in Statuses
    BY <2>0, <2>4 DEF Complete, Record
  <2>5. ASSUME NEW r \in Requests, ServerError(r) \/ Leave(r)
        PROVE  status' \in Statuses /\ sent' \in Statuses /\ recorded' \in Statuses
    BY <2>0, <2>5 DEF ServerError, Leave
  <2>6. CASE Crash
    BY <2>0, <2>6 DEF Crash, NoRequest
  <2>7. CASE UNCHANGED telemetry
    BY <2>0, <2>7 DEF telemetry
  <2> HIDE DEF Statuses
  <2> QED
    BY TelemetryFrame, <2>1, <2>2, <2>3, <2>4, <2>5, <2>6, <2>7
<1> QED
  BY <1>1, <1>2 DEF TelemetryTypeOK

\* What can happen to the store: a restart empties the memory; an upload stores a body
\* under the type its bytes say, and the row of a body is written, by whichever adapter,
\* once its object is there.
LEMMA StoreEffect ==
  ASSUME IInv, [Next]_vars
  PROVE  \/ UNCHANGED store
         \/ /\ objects' = [b \in Bodies |-> None]
            /\ records' \in {records, [b \in Bodies |-> None]}
            /\ lost' = lost \cup {b \in Bodies : objects[b] # None}
         \/ \E b \in Bodies :
               /\ media_of[b] # None
               /\ records' \in {records, [records EXCEPT ![b] = media_of[b]]}
               /\ \/ objects' = [objects EXCEPT ![b] = media_of[b]] /\ lost' = lost \ {b}
                  \/ objects[b] = media_of[b] /\ UNCHANGED <<objects, lost>>
<1>1. ASSUME NEW r \in Requests, StoreObject(r)
      PROVE  \/ UNCHANGED store
             \/ \E b \in Bodies :
                   /\ media_of[b] # None
                   /\ records' \in {records, [records EXCEPT ![b] = media_of[b]]}
                   /\ objects' = [objects EXCEPT ![b] = media_of[b]] /\ lost' = lost \ {b}
  <2>1. input[r].body \in Bodies
    BY <1>1, InputKnown DEF StoreObject
  <2>2. CASE UNCHANGED store
    BY <2>2
  <2>3. CASE ~UNCHANGED store
    <3>1. /\ media_of[input[r].body] # None
          /\ records' \in {records, [records EXCEPT ![input[r].body] = media_of[input[r].body]]}
          /\ objects' = [objects EXCEPT ![input[r].body] = media_of[input[r].body]]
          /\ lost' = lost \ {input[r].body}
      BY <1>1, <2>3 DEF StoreObject, Raise, inspect_proof, put_private
    <3> QED
      BY <2>1, <3>1
  <2> QED
    BY <2>2, <2>3
<1>2. ASSUME NEW r \in Requests, ExitSecond(r)
      PROVE  \/ UNCHANGED store
             \/ \E b \in Bodies :
                   /\ media_of[b] # None
                   /\ records' \in {records, [records EXCEPT ![b] = media_of[b]]}
                   /\ objects[b] = media_of[b] /\ UNCHANGED <<objects, lost>>
  <2>1. CASE row[r] = None
    BY <1>2, <2>1 DEF ExitSecond, store
  <2>2. CASE row[r] # None
    <3>1. input[r].body \in Bodies
      BY <1>2, InputKnown DEF ExitSecond
    <3>2. /\ objects[input[r].body] = media_of[input[r].body]
          /\ media_of[input[r].body] # None
          /\ row[r] = media_of[input[r].body]
      BY <2>2 DEF IInv, ProofsFit, ProofFits, Uploading
    <3>3. /\ records' = [records EXCEPT ![input[r].body] = row[r]]
          /\ UNCHANGED <<objects, lost>>
      BY <1>2, <2>2 DEF ExitSecond
    <3> QED
      BY <3>1, <3>2, <3>3
  <2> QED
    BY <2>1, <2>2
<1>3. Crash \/ Close =>
         \/ UNCHANGED store
         \/ /\ objects' = [b \in Bodies |-> None]
            /\ records' \in {records, [b \in Bodies |-> None]}
            /\ lost' = lost \cup {b \in Bodies : objects[b] # None}
  BY DEF Crash, Close
<1> QED
  BY <1>1, <1>2, <1>3, StoreFrame

\* What is stored keeps its shape and the type its bytes say, and every row has its
\* object.
LEMMA StoreKept ==
  ASSUME IInv, [Next]_vars
  PROVE  /\ StoreTypeOK'
         /\ RowsHaveTheirObject'
         /\ \A b \in Bodies : {objects'[b], records'[b]} \subseteq {None, media_of[b]}
<1>0. /\ StoreTypeOK /\ RowsHaveTheirObject
      /\ \A b \in Bodies : {objects[b], records[b]} \subseteq {None, media_of[b]}
  BY DEF IInv, TypeOK, ProofsFit
<1> USE MediaAssumption DEF StoreTypeOK, RowsHaveTheirObject
<1>1. CASE UNCHANGED store
  BY <1>0, <1>1 DEF store
<1>2. CASE /\ objects' = [b \in Bodies |-> None]
           /\ records' \in {records, [b \in Bodies |-> None]}
           /\ lost' = lost \cup {b \in Bodies : objects[b] # None}
  <2>1. records' = records \/ records' = [b \in Bodies |-> None]
    BY <1>2
  <2> QED
    BY <1>0, <1>2, <2>1
<1>3. ASSUME NEW b \in Bodies, media_of[b] # None,
             records' \in {records, [records EXCEPT ![b] = media_of[b]]},
             \/ objects' = [objects EXCEPT ![b] = media_of[b]] /\ lost' = lost \ {b}
             \/ objects[b] = media_of[b] /\ UNCHANGED <<objects, lost>>
      PROVE  /\ StoreTypeOK'
             /\ RowsHaveTheirObject'
             /\ \A c \in Bodies : {objects'[c], records'[c]} \subseteq {None, media_of[c]}
  <2>1. StoreTypeOK'
    BY <1>0, <1>3
  <2>2. /\ objects'[b] = media_of[b] /\ records'[b] \in {records[b], media_of[b]}
        /\ \A c \in Bodies : c # b => objects'[c] = objects[c] /\ records'[c] = records[c]
        /\ \A c \in Bodies : c # b /\ c \in lost => c \in lost'
    BY <1>0, <1>3
  <2>3. RowsHaveTheirObject'
    BY <1>0, <2>2
  <2> QED
    BY <1>0, <2>1, <2>2, <2>3
<1> QED
  BY StoreEffect, <1>1, <1>2, <1>3

\* Requests run only while what lifespan opened is there.
LEMMA LifespanKept == IInv /\ [Next]_vars => LifespanFits'
<1> SUFFICES ASSUME IInv, [Next]_vars
             PROVE  LifespanFits'
  OBVIOUS
<1>0. LifespanFits /\ LifecycleTypeOK /\ RequestTypeOK /\ TelemetryTypeOK
  BY DEF IInv, TypeOK
<1>1. ASSUME NEW r \in Requests, RequestStep(r)
      PROVE  LifespanFits'
  <2>1. UNCHANGED <<in_memory, process, ready, resources>>
    BY <1>0, <1>1, RequestFrame
  <2>2. \A q \in Requests : q # r => phase'[q] = phase[q] /\ input'[q] = input[q]
    BY <1>0, <1>1, RequestFrame DEF Untouched
  <2>3. phase'[r] # "idle" => process \in {"serving", "draining"} /\ input'[r] # None
    <3>1. ASSUME NEW i \in Inputs, Arrive(r, i)
          PROVE  process = "serving" /\ input'[r] # None
      BY <1>0, <3>1, NoneAssumption DEF Arrive, RequestTypeOK
    <3>2. CASE Leave(r)
      BY <1>0, <3>2 DEF Leave, Goto, RequestTypeOK
    <3>3. ASSUME ~\E i \in Inputs : Arrive(r, i), ~Leave(r)
          PROVE  input' = input /\ phase[r] # "idle"
      <4>1. phase[r] # "idle"
        BY <1>0, <1>1, <3>3, PhaseMoves
      <4>2. input' = input
        BY <1>1, <3>3 DEF RequestStep, Step, request, ReadOrder, PoolTimeout, StoreObject, Find,
           Second, Insert, Respond, ExitSecond, ExitFirst, ErrorResponse, Complete, ServerError,
           StreamEnds, CommitFails, Raise
      <4> QED
        BY <4>1, <4>2
    <3> QED
      BY <1>0, <3>1, <3>2, <3>3 DEF LifespanFits
  <2> QED
    BY <1>0, <2>1, <2>2, <2>3 DEF LifespanFits
<1>2. CASE Start
  <2>1. \A q \in Requests : phase[q] = "idle"
    BY <1>0, <1>2 DEF Start, LifespanFits
  <2>2. /\ process' = "starting" /\ UNCHANGED <<in_memory, phase>>
        /\ Len(resources') = IF in_memory THEN 2 ELSE 4
    BY <1>2 DEF Start, request
  <2> QED
    BY <2>1, <2>2 DEF LifespanFits
<1>3. CASE DatabaseAnswers
  BY <1>0, <1>3 DEF DatabaseAnswers, LifespanFits, request
<1>4. CASE DatabaseFails
  BY <1>0, <1>4 DEF DatabaseFails, LifespanFits, request
<1>5. CASE Terminate
  BY <1>0, <1>5 DEF Terminate, LifespanFits, request
<1>6. CASE Shutdown
  BY <1>0, <1>6 DEF Shutdown, Drained, LifespanFits, request
<1>7. CASE Close
  <2>1. process' \in {"closing", "down"} /\ phase' = phase
    BY <1>7 DEF Close, request
  <2>2. \A q \in Requests : phase[q] = "idle"
    BY <1>0, <1>7 DEF Close, LifespanFits
  <2> QED
    BY <2>1, <2>2 DEF LifespanFits
<1>8. CASE Crash
  BY <1>8 DEF Crash, LifespanFits
<1>9. CASE UNCHANGED vars
  BY <1>0, <1>9 DEF vars, lifecycle, request, LifespanFits
<1> QED
  BY Steps, <1>1, <1>2, <1>3, <1>4, <1>5, <1>6, <1>7, <1>8, <1>9 DEF Lifespan

\* No handler outlives what it uses.
LEMMA HandlersKept == LifespanFits => HandlersHaveTheirResources
BY DEF LifespanFits, HandlersHaveTheirResources

\* The middleware knows what was sent after every step, and counts it.
LEMMA TelemetryKept == IInv /\ [Next]_vars => TelemetryFits'
<1> SUFFICES ASSUME IInv, [Next]_vars, NEW q \in Requests
             PROVE  MiddlewareKnows(q)'
  BY DEF TelemetryFits
<1>0. RequestTypeOK /\ TelemetryTypeOK /\ MiddlewareKnows(q)
  BY DEF IInv, TypeOK, TelemetryFits
<1>1. ASSUME NEW r \in Requests, RequestStep(r), q # r
      PROVE  MiddlewareKnows(q)'
  <2>1. Untouched(q)
    BY <1>0, <1>1, RequestFrame
  <2> QED
    BY <1>0, <2>1 DEF Untouched, MiddlewareKnows
<1>2. CASE RequestStep(q)
  <2> USE DEF RequestTypeOK, TelemetryTypeOK
  <2>1. ASSUME NEW i \in Inputs, Arrive(q, i)
        PROVE  MiddlewareKnows(q)'
    <3>1. phase[q] = "idle" /\ phase'[q] = "first" /\ status'[q] = 500 /\ sent' = sent
      BY <1>0, <2>1 DEF Arrive, Goto
    <3> QED
      BY <1>0, <3>1 DEF MiddlewareKnows
  <2>2. CASE Respond(q)
    <3>1. /\ phase'[q] \in {"streaming", "exit"} /\ status'[q] = sent'[q]
          /\ sent'[q] \in Nat
      BY <1>0, <2>2 DEF Respond, ResponseStart, Goto
    <3> QED
      BY <3>1, NoneAssumption DEF MiddlewareKnows
  <2>3. CASE ErrorResponse(q)
    <3>1. phase[q] = "raised" /\ phase'[q] = "ended"
      BY <1>0, <2>3 DEF ErrorResponse, Goto
    <3>2. \/ status' = status /\ sent' = sent
          \/ status'[q] = raised[q] /\ sent'[q] = raised[q]
      BY <1>0, <2>3 DEF ErrorResponse, ResponseStart
    <3> QED
      BY <1>0, <3>1, <3>2 DEF MiddlewareKnows
  <2>4. CASE Complete(q)
    <3>1. phase[q] = "ended" /\ phase'[q] = "completed" /\ sent' = sent /\ status' = status
      BY <1>0, <2>4 DEF Complete, Goto
    <3>2. recorded'[q] = status[q]
      BY <1>0, <2>4 DEF Complete, Record
    <3> QED
      BY <1>0, <3>1, <3>2 DEF MiddlewareKnows
  <2>5. CASE ServerError(q)
    <3>1. /\ phase[q] = "completed" /\ sent[q] = None /\ phase' = phase
          /\ recorded' = recorded /\ sent'[q] = 500
      BY <1>0, <2>5 DEF ServerError, request
    <3> QED
      BY <1>0, <3>1, NoneAssumption DEF MiddlewareKnows
  <2>6. CASE Leave(q)
    <3>1. phase'[q] = "idle" /\ sent'[q] = None
      BY <1>0, <2>6 DEF Leave, Goto
    <3> QED
      BY <3>1 DEF MiddlewareKnows
  <2>7. ASSUME UNCHANGED telemetry, phase[q] \notin {"idle", "completed"},
               phase'[q] \notin {"idle", "completed"}, phase'[q] = "raised" => raised'[q] # None
        PROVE  MiddlewareKnows(q)'
    BY <1>0, <2>7 DEF MiddlewareKnows, telemetry
  <2>8. ASSUME ReadOrder(q) \/ PoolTimeout(q) \/ StoreObject(q) \/ Find(q) \/ Second(q)
               \/ Insert(q) \/ ExitSecond(q) \/ ExitFirst(q) \/ StreamEnds(q) \/ CommitFails(q)
        PROVE  /\ UNCHANGED telemetry
               /\ phase[q] \notin {"idle", "completed"} /\ phase'[q] \notin {"idle", "completed"}
               /\ phase'[q] = "raised" => raised'[q] # None
    <3>1. UNCHANGED telemetry
      BY <2>8 DEF ReadOrder, PoolTimeout, StoreObject, Find, Second, Insert, ExitSecond,
         ExitFirst, StreamEnds, CommitFails, Raise
    <3>2. phase[q] \notin {"idle", "completed", "raised"}
      BY <2>8 DEF ReadOrder, PoolTimeout, StoreObject, Find, Second, Insert, ExitSecond,
         ExitFirst, StreamEnds, CommitFails
    <3>3. \A error \in Nat : Raise(q, error) => phase'[q] = "raised" /\ raised'[q] # None
      BY <1>0, NoneAssumption DEF Raise, Goto
    <3>4. CASE \E error \in Nat : Raise(q, error)
      BY <3>1, <3>2, <3>3, <3>4
    <3>5. ASSUME ~\E error \in Nat : Raise(q, error)
          PROVE  phase'[q] \notin {"idle", "completed", "raised"}
      <4>1. download_status(input[q].body) \in Nat
        BY ONLY SMT DEF download_status
      <4>2. ReadOrder(q) => phase'[q] \notin {"idle", "completed", "raised"}
        BY <1>0, <3>5 DEF ReadOrder, Goto
      <4>3. PoolTimeout(q) \/ CommitFails(q) => FALSE
        BY <3>5 DEF PoolTimeout, CommitFails, Unexpected
      <4>4. StoreObject(q) => phase'[q] \notin {"idle", "completed", "raised"}
        BY <1>0, <3>5 DEF StoreObject, Goto
      <4>5. Find(q) => phase'[q] \notin {"idle", "completed", "raised"}
        BY <1>0, <3>5, <4>1 DEF Find, Goto
      <4>6. Second(q) \/ ExitFirst(q) \/ StreamEnds(q)
               => phase'[q] \notin {"idle", "completed", "raised"}
        BY <1>0 DEF Second, ExitFirst, StreamEnds, Goto
      <4>7. Insert(q) => phase'[q] \notin {"idle", "completed", "raised"}
        BY <1>0, <3>5 DEF Insert, Goto, Unexpected
      <4>8. ExitSecond(q) => phase'[q] \notin {"idle", "completed", "raised"}
        BY DEF ExitSecond
      <4> QED
        BY <2>8, <4>2, <4>3, <4>4, <4>5, <4>6, <4>7, <4>8
    <3> QED
      BY <3>1, <3>2, <3>4, <3>5
  <2> HIDE DEF RequestTypeOK, TelemetryTypeOK
  <2> QED
    BY <1>2, <2>1, <2>2, <2>3, <2>4, <2>5, <2>6, <2>7, <2>8 DEF RequestStep, Step
<1>3. CASE Crash
  BY <1>3 DEF Crash, NoRequest, MiddlewareKnows
<1>4. CASE UNCHANGED <<phase, raised, telemetry>>
  BY <1>0, <1>4 DEF MiddlewareKnows, telemetry
<1> QED
  <2>1. Lifespan => Crash \/ UNCHANGED <<phase, raised, telemetry>>
    BY DEF Lifespan, Start, DatabaseAnswers, DatabaseFails, Terminate, Shutdown, Close, request
  <2>2. UNCHANGED vars => UNCHANGED <<phase, raised, telemetry>>
    BY DEF vars, request
  <2> QED
    BY Steps, <1>1, <1>2, <1>3, <1>4, <2>1, <2>2

\* The counter tells what the client was sent.
LEMMA MetricsKept ==
  ASSUME TelemetryFits, in_flight = Cardinality(Running)
  PROVE  MetricsTellTheTruth
BY DEF TelemetryFits, MiddlewareKnows, MetricsTellTheTruth

\* A step takes one connection from the pool or none.
LEMMA PoolEffect ==
  ASSUME IInv, [Next]_vars
  PROVE  \/ \A q \in Requests : checked_out'[q] \subseteq checked_out[q]
         \/ \E r \in Requests, session \in Sessions : Checkout(r, session)
<1>0. checked_out \in [Requests -> SUBSET Sessions]
  BY DEF IInv, TypeOK, RequestTypeOK
<1>1. checked_out' = checked_out => \A q \in Requests : checked_out'[q] \subseteq checked_out[q]
  OBVIOUS
<1>2. ASSUME NEW r \in Requests, RequestStep(r)
      PROVE  \/ \A q \in Requests : checked_out'[q] \subseteq checked_out[q]
             \/ \E session \in Sessions : Checkout(r, session)
  <2>1. CheckinAll(r) => \A q \in Requests : checked_out'[q] \subseteq checked_out[q]
    BY <1>0 DEF CheckinAll
  <2>2. \A session \in Sessions :
           Checkin(r, session) => \A q \in Requests : checked_out'[q] \subseteq checked_out[q]
    BY <1>0 DEF Checkin
  <2>3. "first" \in Sessions /\ "second" \in Sessions
    BY DEF Sessions
  <2>4. ReadOrder(r) \/ Find(r) \/ Second(r)
           => CheckinAll(r) \/ checked_out' = checked_out
              \/ \E session \in Sessions : Checkout(r, session)
    BY <2>3 DEF ReadOrder, Find, Second, Raise, Connected
  <2>5. PoolTimeout(r) \/ StoreObject(r) \/ Insert(r) \/ CommitFails(r)
           => CheckinAll(r) \/ checked_out' = checked_out
    BY DEF PoolTimeout, StoreObject, Insert, CommitFails, Raise
  <2>6. ExitSecond(r) \/ ExitFirst(r) => Checkin(r, "second") \/ Checkin(r, "first")
    BY DEF ExitSecond, ExitFirst
  <2>7. \/ (\E i \in Inputs : Arrive(r, i))
        \/ Respond(r) \/ StreamEnds(r) \/ ErrorResponse(r) \/ Complete(r) \/ ServerError(r)
        \/ Leave(r)
        => checked_out' = checked_out
    BY DEF Arrive, Respond, StreamEnds, ErrorResponse, Complete, ServerError, Leave
  <2> QED
    BY <1>1, <1>2, <2>1, <2>2, <2>3, <2>4, <2>5, <2>6, <2>7 DEF RequestStep, Step
<1>3. Crash => \A q \in Requests : checked_out'[q] \subseteq checked_out[q]
  BY DEF Crash
<1>4. Lifespan => Crash \/ checked_out' = checked_out
  BY DEF Lifespan, Start, DatabaseAnswers, DatabaseFails, Terminate, Shutdown, Close
<1>5. UNCHANGED vars => checked_out' = checked_out
  BY DEF vars
<1> QED
  BY Steps, <1>1, <1>2, <1>3, <1>4, <1>5

\* The pool never gives more connections than it has.
LEMMA PoolKept ==
  ASSUME IInv, [Next]_vars
  PROVE  IsFiniteSet(Used') /\ Cardinality(Used') <= Capacity
<1>0. /\ checked_out \in [Requests -> SUBSET Sessions]
      /\ IsFiniteSet(Used) /\ Cardinality(Used) <= Capacity
  BY DEF IInv, TypeOK, RequestTypeOK, CountsFit, ConnectionsComeBack, InUse
<1>1. CASE \A q \in Requests : checked_out'[q] \subseteq checked_out[q]
  <2>1. Used' \subseteq Used
    BY <1>1 DEF Used
  <2>2. IsFiniteSet(Used') /\ Cardinality(Used') <= Cardinality(Used)
    BY <1>0, <2>1, FS_Subset
  <2>3. Cardinality(Used) \in Nat /\ Cardinality(Used') \in Nat
    BY <1>0, <2>2, FS_CardinalityType
  <2> QED
    BY ONLY <1>0, <2>2, <2>3, CapacityAssumption, SMT
<1>2. ASSUME NEW r \in Requests, NEW session \in Sessions, Checkout(r, session)
      PROVE  IsFiniteSet(Used') /\ Cardinality(Used') <= Capacity
  <2>1. /\ Cardinality(Used) < Capacity
        /\ checked_out' = [checked_out EXCEPT ![r] = @ \cup {session}]
    BY <1>2 DEF Checkout, InUse
  <2>2. Used' = Used \cup {<<r, session>>}
    BY <1>0, <2>1 DEF Used
  <2>3. /\ IsFiniteSet(Used')
        /\ Cardinality(Used') \in {Cardinality(Used), Cardinality(Used) + 1}
    BY <1>0, <2>2, FS_AddElement
  <2>4. Cardinality(Used) \in Nat
    BY <1>0, FS_CardinalityType
  <2> QED
    BY ONLY <2>1, <2>3, <2>4, CapacityAssumption, SMT
<1> QED
  BY PoolEffect, <1>1, <1>2

\* Whoever has a connection is running and has its transaction open.
LEMMA ConnectionsKept == IInv /\ [Next]_vars => ConnectionsComeBack'
<1> DEFINE Holds(q) ==
             checked_out[q] # {} =>
                 ~in_memory /\ phase[q] \notin {"idle", "first", "raised", "ended", "completed"}
<1> SUFFICES ASSUME IInv, [Next]_vars, NEW q \in Requests
             PROVE  Holds(q)'
  BY PoolKept DEF ConnectionsComeBack, InUse
<1>0. RequestTypeOK /\ TelemetryTypeOK /\ Holds(q)
  BY DEF IInv, TypeOK, ConnectionsComeBack
<1>1. ASSUME NEW r \in Requests, RequestStep(r), q # r
      PROVE  Holds(q)'
  <2>1. Untouched(q) /\ in_memory' = in_memory
    BY <1>0, <1>1, RequestFrame
  <2> QED
    BY <1>0, <2>1 DEF Untouched
<1>2. CASE RequestStep(q)
  <2>0. in_memory' = in_memory
    BY <1>0, <1>2, RequestFrame
  <2> USE DEF RequestTypeOK
  <2>1. \A error : Raise(q, error) => checked_out'[q] = {}
    BY <1>0 DEF Raise, CheckinAll
  <2>2. CASE ReadOrder(q)
    BY <1>0, <2>0, <2>1, <2>2 DEF ReadOrder, Connected, Goto
  <2>3. CASE Find(q)
    BY <1>0, <2>0, <2>1, <2>3 DEF Find, Connected, Goto
  <2>4. CASE Second(q)
    BY <1>0, <2>0, <2>4 DEF Second, Connected, Goto
  <2>5. CASE PoolTimeout(q) \/ CommitFails(q)
    BY <2>1, <2>5 DEF PoolTimeout, CommitFails
  <2>6. CASE StoreObject(q)
    BY <1>0, <2>0, <2>1, <2>6 DEF StoreObject, Goto
  <2>7. CASE Insert(q)
    BY <1>0, <2>0, <2>1, <2>7 DEF Insert, Goto
  <2>8. CASE ExitSecond(q)
    BY <1>0, <2>0, <2>8 DEF ExitSecond
  <2>9. CASE ExitFirst(q)
    <3>1. checked_out'[q] = checked_out[q] \ {"first"} /\ "second" \notin checked_out[q]
      BY <1>0, <2>9 DEF ExitFirst, Checkin
    <3>2. checked_out[q] \subseteq {"first", "second"}
      BY <1>0 DEF Sessions
    <3> QED
      BY <3>1, <3>2
  <2>10. CASE Respond(q) \/ StreamEnds(q)
    BY <1>0, <2>0, <2>10 DEF Respond, StreamEnds, Goto
  <2>11. CASE \/ (\E i \in Inputs : Arrive(q, i))
              \/ ErrorResponse(q) \/ Complete(q) \/ ServerError(q) \/ Leave(q)
    <3>1. phase[q] \in {"idle", "raised", "ended", "completed"} /\ checked_out' = checked_out
      BY <2>11 DEF Arrive, ErrorResponse, Complete, ServerError, Leave
    <3> QED
      BY <1>0, <3>1
  <2> HIDE DEF RequestTypeOK, Holds
  <2> QED
    BY <1>2, <2>2, <2>3, <2>4, <2>5, <2>6, <2>7, <2>8, <2>9, <2>10, <2>11 DEF RequestStep, Step
<1>3. CASE Crash
  BY <1>3 DEF Crash
<1>4. CASE UNCHANGED <<in_memory, checked_out, phase>>
  BY <1>0, <1>4
<1> QED
  <2>1. Lifespan => Crash \/ UNCHANGED <<in_memory, checked_out, phase>>
    BY DEF Lifespan, Start, DatabaseAnswers, DatabaseFails, Terminate, Shutdown, Close, request
  <2>2. UNCHANGED vars => UNCHANGED <<in_memory, checked_out, phase>>
    BY DEF vars, request
  <2> QED
    BY Steps, <1>1, <1>2, <1>3, <1>4, <2>1, <2>2

\* While the process lives, an object that has been stored stays.
LEMMA ObjectsStay ==
  ASSUME IInv, NEW r \in Requests, RequestStep(r),
         NEW b \in Bodies, objects[b] = media_of[b]
  PROVE  objects'[b] = media_of[b]
<1>0. objects \in [Bodies -> Media \cup {None}]
  BY DEF IInv, TypeOK, StoreTypeOK
<1>1. StoreObject(r) => objects'[b] = media_of[b]
  BY <1>0 DEF StoreObject, Raise, put_private, inspect_proof, store
<1>2. \/ ReadOrder(r) \/ PoolTimeout(r) \/ Find(r) \/ Second(r) \/ Insert(r)
      \/ ExitFirst(r) \/ ExitSecond(r) \/ StreamEnds(r) \/ CommitFails(r)
      => objects' = objects
  BY DEF ReadOrder, PoolTimeout, Find, Second, Insert, ExitFirst, ExitSecond, StreamEnds,
         CommitFails, Raise, store
<1>3. \/ (\E i \in Inputs : Arrive(r, i))
      \/ Respond(r) \/ ErrorResponse(r) \/ Complete(r) \/ ServerError(r) \/ Leave(r)
      => objects' = objects
  BY DEF Arrive, Respond, ErrorResponse, Complete, ServerError, Leave, store
<1> QED
  BY <1>1, <1>2, <1>3 DEF RequestStep, Step

\* An upload stores its object, then its row, in the session that is left first.
LEMMA ProofsKept == IInv /\ [Next]_vars => ProofsFit'
<1> SUFFICES ASSUME IInv, [Next]_vars, NEW q \in Requests
             PROVE  ProofFits(q)'
  BY StoreKept DEF ProofsFit
<1>0. RequestTypeOK /\ TelemetryTypeOK /\ ProofFits(q)
  BY DEF IInv, TypeOK, ProofsFit
<1>1. phase[q] \notin {"returned", "streaming", "exit"} => row[q] = None
  BY <1>0 DEF ProofFits
<1>2. ASSUME row'[q] = None, phase'[q] \notin {"reading", "insert"},
             phase'[q] = "second" => input'[q].kind # "upload"
      PROVE  ProofFits(q)'
  BY <1>2 DEF ProofFits, Uploading
<1>3. ASSUME NEW r \in Requests, RequestStep(r), q # r
      PROVE  ProofFits(q)'
  <2>1. Untouched(q) /\ in_memory' = in_memory
    BY <1>0, <1>3, RequestFrame
  <2>2. ASSUME Uploading(q)
        PROVE  objects'[input[q].body] = media_of[input[q].body]
    <3>1. phase[q] # "idle" /\ objects[input[q].body] = media_of[input[q].body]
      BY <1>0, <2>2 DEF ProofFits, Uploading
    <3>2. input[q].body \in Bodies
      BY <3>1, InputKnown
    <3> QED
      BY <1>3, <3>1, <3>2, ObjectsStay
  <2>3. Uploading(q)' <=> Uploading(q)
    BY <2>1 DEF Uploading, Untouched
  <2> QED
    BY <1>0, <2>1, <2>2, <2>3 DEF ProofFits, Untouched
<1>4. CASE RequestStep(q)
  <2>0. in_memory' = in_memory
    BY <1>0, <1>4, RequestFrame
  <2> USE DEF RequestTypeOK
  <2>1. \A error : Raise(q, error) => ProofFits(q)'
    <3>1. \A error : Raise(q, error) => row'[q] = None /\ phase'[q] = "raised"
      BY <1>0 DEF Raise, Goto
    <3> QED
      BY <1>2, <3>1
  <2>2. CASE ReadOrder(q)
    <3>1. CASE Raise(q, 403)
      BY <2>1, <3>1
    <3>2. CASE ~Raise(q, 403)
      <4>1. /\ phase[q] = "first" /\ row' = row /\ input' = input
            /\ phase'[q] = CASE input[q].kind = "upload" -> "reading"
                             [] input[q].kind = "get"    -> "returned"
                             [] OTHER                    -> "second"
        BY <1>0, <2>2, <3>2 DEF ReadOrder, Goto
      <4>2. row'[q] = None
        BY <1>1, <4>1
      <4>3. CASE input[q].kind = "upload"
        BY <4>1, <4>2, <4>3 DEF ProofFits, Uploading
      <4>4. CASE input[q].kind # "upload"
        <5>1. phase'[q] \in {"returned", "second"}
          BY <4>1, <4>4
        <5> QED
          BY <1>2, <4>1, <4>2, <4>4, <5>1
      <4> QED
        BY <4>3, <4>4
    <3> QED
      BY <3>1, <3>2
  <2>3. CASE StoreObject(q)
    <3>1. CASE Raise(q, 413) \/ Raise(q, 422)
      BY <2>1, <3>1
    <3>2. CASE ~(Raise(q, 413) \/ Raise(q, 422))
      <4>1. /\ phase[q] = "reading" /\ row' = row /\ input' = input
            /\ phase'[q] = IF in_memory THEN "returned" ELSE "second"
        BY <1>0, <2>3, <3>2 DEF StoreObject, Goto
      <4>2. /\ media_of[input[q].body] # None
            /\ objects' = [objects EXCEPT ![input[q].body] = media_of[input[q].body]]
        BY <2>3, <3>2 DEF StoreObject, inspect_proof, put_private
      <4>3. input[q].body \in Bodies
        BY <4>1, InputKnown
      <4>4. objects'[input[q].body] = media_of[input[q].body]
        BY <4>2, <4>3 DEF IInv, TypeOK, StoreTypeOK
      <4>5. row'[q] = None
        BY <1>1, <4>1
      <4> QED
        BY <2>0, <4>1, <4>2, <4>4, <4>5 DEF ProofFits, Uploading
    <3> QED
      BY <3>1, <3>2
  <2>4. CASE Find(q)
    <3>1. CASE Raise(q, download_status(input[q].body))
      BY <2>1, <3>1
    <3>2. CASE ~Raise(q, download_status(input[q].body))
      <4>1. phase[q] = "second" /\ row' = row /\ phase'[q] = "returned"
        BY <1>0, <2>4, <3>2 DEF Find, Goto
      <4> QED
        BY <1>1, <1>2, <4>1
    <3> QED
      BY <3>1, <3>2
  <2>5. CASE Second(q)
    <3>1. /\ phase[q] = "second" /\ row' = row /\ input' = input /\ objects' = objects
          /\ phase'[q] = IF input[q].kind = "upload" THEN "insert" ELSE "returned"
      BY <1>0, <2>5 DEF Second, Goto, store
    <3>2. CASE input[q].kind = "upload"
      <4>1. ~in_memory
        BY <1>0, <3>1, <3>2 DEF ProofFits, Uploading
      <4>2. "second" \in checked_out'[q]
        BY <1>0, <2>5, <4>1 DEF Second, Connected, Checkout
      <4> QED
        BY <1>0, <1>1, <2>0, <3>1, <3>2, <4>2 DEF ProofFits, Uploading
    <3>3. CASE input[q].kind # "upload"
      BY <1>1, <1>2, <3>1, <3>3
    <3> QED
      BY <3>2, <3>3
  <2>6. CASE Insert(q)
    <3>1. CASE Raise(q, Unexpected)
      BY <2>1, <3>1
    <3>2. CASE ~Raise(q, Unexpected)
      <4>1. /\ phase[q] = "insert" /\ phase'[q] = "returned"
            /\ row'[q] = media_of[input[q].body]
            /\ UNCHANGED <<input, objects, checked_out>>
        BY <1>0, <2>6, <3>2 DEF Insert, Goto, inspect_proof, store
      <4> QED
        BY <1>0, <2>0, <4>1 DEF ProofFits, Uploading
    <3> QED
      BY <3>1, <3>2
  <2>7. CASE PoolTimeout(q) \/ CommitFails(q)
    BY <2>1, <2>7 DEF PoolTimeout, CommitFails
  <2>8. CASE Respond(q) \/ StreamEnds(q)
    <3>1. /\ phase[q] \in {"returned", "streaming"} /\ phase'[q] \in {"streaming", "exit"}
          /\ UNCHANGED <<input, objects, checked_out, row>>
      BY <1>0, <2>8 DEF Respond, StreamEnds, Goto, store
    <3> QED
      BY <1>0, <2>0, <3>1 DEF ProofFits, Uploading
  <2>9. CASE ExitSecond(q)
    <3>1. phase[q] = "exit" /\ phase' = phase /\ row'[q] = None
      BY <1>0, <2>9 DEF ExitSecond
    <3> QED
      BY <1>2, <3>1
  <2>10. CASE ExitFirst(q)
    <3>1. phase'[q] = "ended" /\ row' = row /\ "second" \notin checked_out[q]
      BY <1>0, <2>10 DEF ExitFirst, Goto
    <3>2. row[q] = None
      BY <1>0, <3>1 DEF ProofFits
    <3> QED
      BY <1>2, <3>1, <3>2
  <2>11. CASE \/ (\E i \in Inputs : Arrive(q, i))
              \/ ErrorResponse(q) \/ Complete(q) \/ ServerError(q) \/ Leave(q)
    <3>1. phase[q] \in {"idle", "raised", "ended", "completed"} /\ row' = row
      BY <2>11 DEF Arrive, ErrorResponse, Complete, ServerError, Leave, request
    <3>2. phase'[q] \in {"first", "ended", "completed", "idle"}
      BY <1>0, <2>11 DEF Arrive, ErrorResponse, Complete, ServerError, Leave, Goto, request
    <3> QED
      BY <1>1, <1>2, <3>1, <3>2
  <2> HIDE DEF RequestTypeOK
  <2> QED
    BY <1>4, <2>2, <2>3, <2>4, <2>5, <2>6, <2>7, <2>8, <2>9, <2>10, <2>11 DEF RequestStep, Step
<1>5. CASE Crash
  <2>1. row'[q] = None /\ phase'[q] = "idle"
    BY <1>5 DEF Crash, NoRequest
  <2> QED
    BY <1>2, <2>1
<1>6. CASE Close
  <2>1. phase[q] = "idle" /\ phase' = phase /\ row' = row
    BY <1>6 DEF Close, request, IInv, LifespanFits
  <2> QED
    BY <1>1, <1>2, <2>1
<1>7. CASE UNCHANGED <<in_memory, checked_out, phase, input, row, objects>>
  BY <1>0, <1>7 DEF ProofFits, Uploading
<1> QED
  <2>1. Lifespan =>
           Crash \/ Close \/ UNCHANGED <<in_memory, checked_out, phase, input, row, objects>>
    BY DEF Lifespan, Start, DatabaseAnswers, DatabaseFails, Terminate, Shutdown, request, store
  <2>2. UNCHANGED vars => UNCHANGED <<in_memory, checked_out, phase, input, row, objects>>
    BY DEF vars, request, store
  <2> QED
    BY Steps, <1>3, <1>4, <1>5, <1>6, <1>7, <2>1, <2>2

\* The whole seconds of a tick.
LEMMA QuotientBounds ==
  ASSUME NEW T \in Nat, T > 0, NEW a \in Nat
  PROVE  /\ a \div T \in Nat
         /\ T * (a \div T) <= a /\ a < T * (a \div T) + T
OBVIOUS

\* Products with a number of ticks are ordered as their factors.
LEMMA ProductOrder ==
  ASSUME NEW T \in Nat, T > 0, NEW p \in Nat, NEW q \in Nat, T * p < T * q + T
  PROVE  p <= q
<1> SUFFICES ASSUME p > q
             PROVE  FALSE
  OBVIOUS
<1> DEFINE d == p - q - 1
<1>1. d \in Nat /\ p = q + 1 + d
  OBVIOUS
<1>2. T * d \in Nat
  BY <1>1
<1>3. T * p = T * q + T + T * d
  BY <1>1
<1>4. T * p \in Nat /\ T * q \in Nat
  OBVIOUS
<1> HIDE DEF d
<1> QED
  BY <1>2, <1>3, <1>4

\* The whole seconds of two ticks: a second more is a second later.
LEMMA QuotientOrder ==
  ASSUME NEW T \in Nat, T > 0, NEW a \in Nat, NEW b \in Nat
  PROVE  /\ a <= b => a \div T <= b \div T
         /\ a + T <= b => (a \div T) + 1 <= b \div T
<1> DEFINE p == a \div T
           q == b \div T
<1>1. /\ p \in Nat /\ T * p <= a /\ a < T * p + T
      /\ q \in Nat /\ T * q <= b /\ b < T * q + T
  BY QuotientBounds
<1>2. T * p \in Nat /\ T * q \in Nat /\ T * (p + 1) = T * p + T
  BY <1>1
<1> HIDE DEF p, q
<1>3. ASSUME a <= b
      PROVE  p <= q
  <2>1. T * p < T * q + T
    BY <1>1, <1>2, <1>3
  <2> QED
    BY <1>1, <2>1, ProductOrder
<1>4. ASSUME a + T <= b
      PROVE  p + 1 <= q
  <2>1. T * (p + 1) < T * q + T
    BY <1>1, <1>2, <1>4
  <2>2. p + 1 \in Nat
    BY <1>1
  <2> QED
    BY <1>1, <2>1, <2>2, ProductOrder
<1> QED
  BY <1>3, <1>4 DEF p, q

\* Whole seconds can be added before or after the division.
LEMMA QuotientSum ==
  ASSUME NEW T \in Nat, T > 0, NEW a \in Nat, NEW k \in Nat
  PROVE  (a + k * T) \div T = (a \div T) + k
<1> DEFINE p == a \div T
           q == (a + k * T) \div T
<1>1. a + k * T \in Nat
  OBVIOUS
<1>2. /\ p \in Nat /\ T * p <= a /\ a < T * p + T
      /\ q \in Nat /\ T * q <= a + k * T /\ a + k * T < T * q + T
  BY <1>1, QuotientBounds
<1>3. /\ T * p \in Nat /\ T * q \in Nat /\ k * T \in Nat
      /\ p + k \in Nat /\ T * (p + k) = T * p + k * T
  BY <1>2
<1> HIDE DEF p, q
<1>4. T * (p + k) < T * q + T /\ T * q < T * (p + k) + T
  BY <1>2, <1>3
<1>5. p + k <= q /\ q <= p + k
  BY <1>2, <1>3, <1>4, ProductOrder
<1> QED
  BY <1>2, <1>3, <1>5 DEF p, q

\* Both clocks are cut to whole seconds, so a link lives its time and less than a
\* second more (ProofLinkSigner).
LEMMA LinkLives == LinkLivesItsTtl
<1> SUFFICES ASSUME NEW issued \in 0..MaxTime, NEW now \in 0..MaxTime
             PROVE  LET end == issued + max_ttl_seconds * TicksPerSecond
                        good == verify_get(issue_get(issued, max_ttl_seconds), now)
                    IN  /\ issued <= now /\ now <= end => good
                        /\ now >= end + TicksPerSecond => ~good
                        /\ now + TicksPerSecond <= issued => ~good
  BY DEF LinkLivesItsTtl
<1> DEFINE T == TicksPerSecond
           M == max_ttl_seconds
           end == issued + M * T
           i == issued \div T
           n == now \div T
           e == end \div T
<1>1. /\ T \in Nat /\ T > 0 /\ M \in Nat
      /\ issued \in Nat /\ now \in Nat
  BY LinkAssumption
<1>2. end \in Nat
  BY <1>1
<1>3. i \in Nat /\ n \in Nat
  BY <1>1, QuotientBounds
<1>4. e = i + M
  BY <1>1, QuotientSum
<1>5. /\ issued <= now => i <= n
      /\ now <= end => n <= e
      /\ end + T <= now => e + 1 <= n
      /\ now + T <= issued => n + 1 <= i
  BY <1>1, <1>2, QuotientOrder
<1>6. verify_get(issue_get(issued, M), now) <=> ~(e < n \/ e > n + M)
  BY DEF verify_get, issue_get, timestamp
<1>7. /\ issued <= now /\ now <= end => ~(e < n \/ e > n + M)
      /\ end + T <= now => e < n
      /\ now + T <= issued => e > n + M
  <2> HIDE DEF T, M, end, i, n, e
  <2> QED
    BY ONLY <1>1, <1>2, <1>3, <1>4, <1>5, SMT
<1> QED
  BY <1>1, <1>2, <1>6, <1>7

\* A process that has not been started owes nothing to anybody.
LEMMA InitFits == Init => IInv
<1> SUFFICES ASSUME Init
             PROVE  IInv
  OBVIOUS
<1>1. /\ in_memory \in BOOLEAN /\ process = "down" /\ ready = FALSE /\ resources = <<>>
      /\ phase = [r \in Requests |-> "idle"] /\ in_flight = 0
      /\ checked_out = [r \in Requests |-> {}]
      /\ input = NoRequest /\ row = NoRequest /\ raised = NoRequest
      /\ status = NoRequest /\ sent = NoRequest /\ recorded = NoRequest
      /\ objects = [b \in Bodies |-> None] /\ records = [b \in Bodies |-> None] /\ lost = {}
  BY DEF Init, RequestsInit, PoolInit, StorageInit
<1>2. LifecycleTypeOK
  <2>1. resources \in Seq({"listener", "http", "redis", "engine"})
    BY <1>1
  <2> QED
    BY <1>1, <2>1 DEF LifecycleTypeOK
<1>3. RequestTypeOK
  BY <1>1 DEF RequestTypeOK, NoRequest
<1>4. TelemetryTypeOK
  BY <1>1 DEF TelemetryTypeOK, NoRequest
<1>5. StoreTypeOK
  BY <1>1 DEF StoreTypeOK
<1>6. Used = {} /\ Running = {}
  BY <1>1 DEF Used, Running
<1>7. CountsFit /\ in_flight = Cardinality(Running) /\ InUse = 0
  BY <1>1, <1>6, FS_EmptySet DEF CountsFit, InUse
<1>8. InUse <= Capacity
  BY ONLY <1>7, CapacityAssumption, SMT
<1>9. ConnectionsComeBack
  BY <1>1, <1>8 DEF ConnectionsComeBack
<1>10. LifespanFits
  BY <1>1 DEF LifespanFits
<1>11. HandlersHaveTheirResources
  BY <1>10, HandlersKept
<1>12. RowsHaveTheirObject
  BY <1>1 DEF RowsHaveTheirObject
<1>13. ProofsFit
  BY <1>1 DEF ProofsFit, ProofFits, Uploading, NoRequest
<1>14. TelemetryFits
  BY <1>1 DEF TelemetryFits, MiddlewareKnows, NoRequest
<1>15. MetricsTellTheTruth
  BY <1>7, <1>14, MetricsKept
<1> QED
  BY <1>2, <1>3, <1>4, <1>5, <1>7, <1>9, <1>10, <1>11, <1>12, <1>13, <1>14, <1>15
     DEF IInv, TypeOK

\* Every step keeps the invariant, part by part.
LEMMA StepFits == IInv /\ [Next]_vars => IInv'
<1> SUFFICES ASSUME IInv, [Next]_vars
             PROVE  IInv'
  OBVIOUS
<1>1. TypeOK'
  BY LifecycleTypesKept, RequestTypesKept, TelemetryTypesKept, StoreKept DEF TypeOK, IInv
<1>2. ConnectionsComeBack'
  BY ConnectionsKept
<1>3. LifespanFits'
  BY LifespanKept
<1>4. HandlersHaveTheirResources'
  BY <1>3 DEF LifespanFits, HandlersHaveTheirResources
<1>5. RowsHaveTheirObject'
  BY StoreKept
<1>6. TelemetryFits'
  BY TelemetryKept
<1>7. MetricsTellTheTruth'
  BY <1>6, GaugeKept DEF TelemetryFits, MiddlewareKnows, MetricsTellTheTruth
<1>8. CountsFit'
  BY GaugeKept, PoolKept DEF CountsFit
<1>9. ProofsFit'
  BY ProofsKept
<1> QED
  BY <1>1, <1>2, <1>3, <1>4, <1>5, <1>6, <1>7, <1>8, <1>9 DEF IInv

\* Every request has what it uses and gives back what it took, for any number of
\* requests, connections and bodies, with either adapter, through starts, shutdowns
\* and crashes of the process.
THEOREM ApiFits == Spec => []IInv
BY InitFits, StepFits, PTL DEF Spec

\* No connection of the pool leaks, whichever way a handler ends, and no more are
\* in use than pool_size and max_overflow allow (transactional_session).
THEOREM ApiConnections == Spec => []ConnectionsComeBack
<1>1. IInv => ConnectionsComeBack
  BY DEF IInv
<1> QED
  BY <1>1, ApiFits, PTL

\* A handler never runs without what lifespan opened, and never while readiness
\* says that the process is not ready.
THEOREM ApiResources == Spec => []HandlersHaveTheirResources
<1>1. IInv => HandlersHaveTheirResources
  BY DEF IInv
<1> QED
  BY <1>1, ApiFits, PTL

\* Metadata never speaks of another type than the object, and is without one only
\* after a restart: download_proof does not answer "proof metadata mismatch".
THEOREM ApiRows == Spec => []RowsHaveTheirObject
<1>1. IInv => RowsHaveTheirObject
  BY DEF IInv
<1> QED
  BY <1>1, ApiFits, PTL

\* TelemetryMiddleware counts a request with the status its client gets, and its
\* gauge is the number of running requests, never negative and never stuck.
THEOREM ApiMetrics == Spec => []MetricsTellTheTruth
<1>1. IInv => MetricsTellTheTruth
  BY DEF IInv
<1> QED
  BY <1>1, ApiFits, PTL

\* The link of every 201 lives its ttl and less than a second more, for every ttl, every
\* resolution of the clock and every instant of issue (ProofLinkSigner).
THEOREM ApiLinks == Spec => []LinkLivesItsTtl
BY LinkLives, PTL
=============================================================================
