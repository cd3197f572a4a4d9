------------------------------ MODULE ApiProcess ------------------------------
(***************************************************************************)
(* One API process: its lifespan, TelemetryMiddleware around every         *)
(* request, and handlers that share the connection pool and the proof      *)
(* storage.  upload_proof, download_proof and sse_tracking open two        *)
(* sessions, get_order stands for the handlers that open one.              *)
(*                                                                         *)
(* A handler that returns sends its response and leaves its sessions       *)
(* afterwards, the last opened first; one that raises leaves them before   *)
(* the error response is made.                                             *)
(***************************************************************************)
EXTENDS ConnectionPool, ProofStorage, Sequences

CONSTANT Inputs    \* what clients send: kind, body and file name suffix

ASSUME InputsAssumption ==
    Inputs \subseteq
        [kind : {"upload", "download", "stream", "get"}, body : Bodies, suffix : FileSuffixes]

ASSUME NoneAssumption == None \notin Inputs /\ None \notin Nat

VARIABLES
    in_memory,    \* use_in_memory_repository
    process,      \* "down", "starting", "serving", "draining" or "closing"
    ready,        \* app.state.ready
    resources,    \* what lifespan has opened and not closed yet, in closing order
    phase,        \* where request r stands
    input,        \* what r's client sent
    row,          \* the media type of the row r has inserted and not committed, or None
    raised,       \* the status of the exception r's handler has raised, or None
    status,       \* status_code of the middleware
    sent,         \* the status the client has been sent, or None
    in_flight,    \* the IN_FLIGHT gauge
    recorded,     \* the status REQUESTS was incremented with, or None
    lost          \* the bodies whose object a restart has taken

request == <<phase, input, row, raised>>
telemetry == <<status, sent, in_flight, recorded>>
lifecycle == <<process, ready, resources>>
store == <<objects, records, lost>>
vars == <<in_memory, checked_out, request, telemetry, lifecycle, store>>

\* An exception no handler of main.py is registered for.
Unexpected == 0

NoRequest == [r \in Requests |-> None]

RequestsInit ==
    /\ phase = [r \in Requests |-> "idle"]
    /\ input = NoRequest /\ row = NoRequest /\ raised = NoRequest
    /\ status = NoRequest /\ sent = NoRequest /\ recorded = NoRequest
    /\ in_flight = 0
    /\ PoolInit

Init ==
    /\ in_memory \in BOOLEAN
    /\ process = "down" /\ ready = FALSE /\ resources = <<>>
    /\ RequestsInit
    /\ StorageInit
    /\ lost = {}

Goto(r, p) == phase' = [phase EXCEPT ![r] = p]

-----------------------------------------------------------------------------
(***************************************************************************)
(* lifespan                                                                *)
(***************************************************************************)

\* The listener is started before the database has answered.
Start ==
    /\ process = "down"
    /\ process' = "starting"
    /\ resources' = IF in_memory THEN <<"http", "redis">>
                    ELSE <<"listener", "http", "redis", "engine">>
    /\ UNCHANGED <<in_memory, checked_out, request, telemetry, ready, store>>

\* SELECT 1
DatabaseAnswers ==
    /\ process = "starting"
    /\ process' = "serving"
    /\ ready' = TRUE
    /\ UNCHANGED <<in_memory, checked_out, request, telemetry, resources, store>>

DatabaseFails ==
    /\ process = "starting" /\ ~in_memory
    /\ process' = "closing"
    /\ UNCHANGED <<in_memory, checked_out, request, telemetry, ready, resources, store>>

\* SIGTERM: the server accepts nothing more and waits for what is running.
Terminate ==
    /\ process = "serving"
    /\ process' = "draining"
    /\ UNCHANGED <<in_memory, checked_out, request, telemetry, ready, resources, store>>

Drained == process = "draining" /\ \A r \in Requests : phase[r] = "idle"

\* The finally block begins.
Shutdown ==
    /\ Drained
    /\ process' = "closing"
    /\ ready' = FALSE
    /\ UNCHANGED <<in_memory, checked_out, request, telemetry, resources, store>>

\* The next resource is closed.  When that raises, the rest is left to the exit
\* of the process.
Close ==
    /\ process = "closing"
    /\ \E failed \in BOOLEAN :
          resources' = IF resources = <<>> \/ failed THEN <<>> ELSE Tail(resources)
    /\ IF resources' = <<>>
       THEN /\ process' = "down"
            /\ objects' = [b \in Bodies |-> None]
            /\ records' = IF in_memory THEN [b \in Bodies |-> None] ELSE records
            /\ lost' = lost \cup {b \in Bodies : objects[b] # None}
       ELSE UNCHANGED <<process, store>>
    /\ UNCHANGED <<in_memory, checked_out, request, telemetry, ready>>

\* The process is killed, also after the grace period of a shutdown.
Crash ==
    /\ process # "down"
    /\ process' = "down" /\ ready' = FALSE /\ resources' = <<>>
    /\ phase' = [r \in Requests |-> "idle"]
    /\ input' = NoRequest /\ row' = NoRequest /\ raised' = NoRequest
    /\ status' = NoRequest /\ sent' = NoRequest /\ recorded' = NoRequest
    /\ in_flight' = 0
    /\ checked_out' = [r \in Requests |-> {}]
    /\ objects' = [b \in Bodies |-> None]
    /\ records' = IF in_memory THEN [b \in Bodies |-> None] ELSE records
    /\ lost' = lost \cup {b \in Bodies : objects[b] # None}
    /\ UNCHANGED in_memory

Lifespan ==
    Start \/ DatabaseAnswers \/ DatabaseFails \/ Terminate \/ Shutdown \/ Close \/ Crash

-----------------------------------------------------------------------------
(***************************************************************************)
(* A request                                                               *)
(***************************************************************************)

\* The middleware opens the request; its status is 500 until a response starts.
Arrive(r, i) ==
    /\ process = "serving"
    /\ phase[r] = "idle"
    /\ input' = [input EXCEPT ![r] = i]
    /\ status' = [status EXCEPT ![r] = 500]
    /\ in_flight' = in_flight + 1
    /\ Goto(r, "first")
    /\ UNCHANGED <<in_memory, checked_out, row, raised, sent, recorded, lifecycle, store>>

\* The handler raises: its sessions roll back and give their connections back.
Raise(r, error) ==
    /\ raised' = [raised EXCEPT ![r] = error]
    /\ row' = [row EXCEPT ![r] = None]
    /\ CheckinAll(r)
    /\ Goto(r, "raised")
    /\ UNCHANGED <<in_memory, input, telemetry, lifecycle, store>>

\* The first statement of a session finds a connection.
ConnectionFree == in_memory \/ ~PoolIsFull

Connected(r, session) ==
    IF in_memory THEN UNCHANGED checked_out ELSE Checkout(r, session)

\* service.get and the ownership check; the order may be missing or foreign.
ReadOrder(r) ==
    /\ phase[r] = "first"
    /\ ConnectionFree
    /\ \/ /\ Connected(r, "first")
          /\ Goto(r, CASE input[r].kind = "upload" -> "reading"
                       [] input[r].kind = "get"    -> "returned"
                       [] OTHER                    -> "second")
          /\ UNCHANGED <<in_memory, input, row, raised, telemetry, lifecycle, store>>
       \/ Raise(r, 403)

\* Mutant: a session waits for a connection without limit.
PoolTimeout_never(r) == FALSE /\ UNCHANGED vars

\* pool_timeout has passed.
PoolTimeout(r) ==
    /\ phase[r] \in {"first", "second"}
    /\ ~ConnectionFree
    /\ Raise(r, Unexpected)

\* inspect_proof has read the body and put_private keeps it; in memory the
\* metadata is added without another await.
StoreObject(r) ==
    LET body == input[r].body
        proof == inspect_proof(body, input[r].suffix)
    IN  /\ phase[r] = "reading"
        /\ \/ ~proof.valid /\ Raise(r, IF body \in Oversized THEN 413 ELSE 422)
           \/ /\ proof.valid
              /\ put_private(body, proof.media)
              /\ lost' = lost \ {body}
              /\ records' = IF in_memory THEN [records EXCEPT ![body] = proof.media] ELSE records
              /\ Goto(r, IF in_memory THEN "returned" ELSE "second")
              /\ UNCHANGED <<in_memory, checked_out, input, row, raised, telemetry, lifecycle>>

\* find of the metadata and get_private.
Find(r) ==
    LET answer == download_status(input[r].body) IN
    /\ phase[r] = "second" /\ input[r].kind = "download"
    /\ ConnectionFree
    /\ \/ answer # 200 /\ Raise(r, answer)
       \/ /\ answer = 200
          /\ Connected(r, "second")
          /\ Goto(r, "returned")
          /\ UNCHANGED <<in_memory, input, row, raised, telemetry, lifecycle, store>>

\* The second session of an upload or of a stream.
Second(r) ==
    /\ phase[r] = "second" /\ input[r].kind \in {"upload", "stream"}
    /\ ConnectionFree
    /\ Connected(r, "second")
    /\ Goto(r, IF input[r].kind = "upload" THEN "insert" ELSE "returned")
    /\ UNCHANGED <<in_memory, input, row, raised, telemetry, lifecycle, store>>

\* The flush of add waits for a transaction that has inserted the same digest;
\* a committed row is an IntegrityError.
Insert(r) ==
    LET body == input[r].body
        proof == inspect_proof(body, input[r].suffix)
    IN
    /\ phase[r] = "insert"
    /\ \A q \in Requests : row[q] # None => input[q].body # body
    /\ \/ records[body] # None /\ Raise(r, Unexpected)
       \/ /\ records[body] = None
          /\ row' = [row EXCEPT ![r] = proof.media]
          /\ Goto(r, "returned")
          /\ UNCHANGED <<in_memory, checked_out, input, raised, telemetry, lifecycle, store>>

-----------------------------------------------------------------------------
(***************************************************************************)
(* Responses and the end of a request                                      *)
(***************************************************************************)
ResponseStart(r, code) ==
    /\ status' = [status EXCEPT ![r] = code]
    /\ sent' = [sent EXCEPT ![r] = code]

Respond(r) ==
    /\ phase[r] = "returned"
    /\ ResponseStart(r, IF input[r].kind = "upload" THEN 201 ELSE 200)
    /\ Goto(r, IF input[r].kind = "stream" THEN "streaming" ELSE "exit")
    /\ UNCHANGED <<in_memory, checked_out, input, row, raised, in_flight, recorded,
                   lifecycle, store>>

\* The client closes the stream.
StreamEnds(r) ==
    /\ phase[r] = "streaming"
    /\ Goto(r, "exit")
    /\ UNCHANGED <<in_memory, checked_out, input, row, raised, telemetry, lifecycle, store>>

\* The metadata session commits, then the order session.
ExitSecond(r) ==
    /\ phase[r] = "exit"
    /\ "second" \in checked_out[r]
    /\ Checkin(r, "second")
    /\ records' = IF row[r] = None THEN records
                  ELSE [records EXCEPT ![input[r].body] = row[r]]
    /\ row' = [row EXCEPT ![r] = None]
    /\ UNCHANGED <<in_memory, phase, input, raised, telemetry, lifecycle, objects, lost>>

ExitFirst(r) ==
    /\ phase[r] = "exit"
    /\ "second" \notin checked_out[r]
    /\ Checkin(r, "first")
    /\ Goto(r, "ended")
    /\ UNCHANGED <<in_memory, input, row, raised, telemetry, lifecycle, store>>

\* A COMMIT fails, after the response.
CommitFails(r) ==
    /\ phase[r] = "exit"
    /\ checked_out[r] # {}
    /\ Raise(r, Unexpected)

\* The handler registered for the exception answers inside the middleware; an
\* unexpected one passes it.
ErrorResponse(r) ==
    /\ phase[r] = "raised"
    /\ IF raised[r] = Unexpected THEN UNCHANGED <<status, sent>>
       ELSE ResponseStart(r, raised[r])
    /\ Goto(r, "ended")
    /\ UNCHANGED <<in_memory, checked_out, input, row, raised, in_flight, recorded,
                   lifecycle, store>>

\* Mutant: a status that was never set counts as success.
Record_200(r) == recorded' = [recorded EXCEPT ![r] = IF sent[r] = None THEN 200 ELSE sent[r]]

Record(r) == recorded' = [recorded EXCEPT ![r] = status[r]]

\* The finally block of the middleware.
Complete(r) ==
    /\ phase[r] = "ended"
    /\ Record(r)
    /\ in_flight' = in_flight - 1
    /\ Goto(r, "completed")
    /\ UNCHANGED <<in_memory, checked_out, input, row, raised, status, sent, lifecycle, store>>

\* unexpected_error_handler runs outside of the middleware, and answers unless a
\* response has started.
ServerError(r) ==
    /\ phase[r] = "completed"
    /\ sent[r] = None
    /\ sent' = [sent EXCEPT ![r] = 500]
    /\ UNCHANGED <<in_memory, checked_out, request, status, in_flight, recorded, lifecycle, store>>

Leave(r) ==
    /\ phase[r] = "completed"
    /\ sent[r] # None
    /\ Goto(r, "idle")
    /\ input' = [input EXCEPT ![r] = None]
    /\ raised' = [raised EXCEPT ![r] = None]
    /\ status' = [status EXCEPT ![r] = None]
    /\ sent' = [sent EXCEPT ![r] = None]
    /\ recorded' = [recorded EXCEPT ![r] = None]
    /\ UNCHANGED <<in_memory, checked_out, row, in_flight, lifecycle, store>>

Step(r) ==
    \/ ReadOrder(r) \/ PoolTimeout(r) \/ StoreObject(r) \/ Find(r) \/ Second(r) \/ Insert(r)
    \/ Respond(r) \/ ExitSecond(r) \/ ExitFirst(r) \/ ErrorResponse(r)
    \/ Complete(r) \/ ServerError(r) \/ Leave(r)

Next ==
    \/ Lifespan
    \/ \E r \in Requests :
          (\E i \in Inputs : Arrive(r, i)) \/ Step(r) \/ StreamEnds(r) \/ CommitFails(r)

Spec == Init /\ [][Next]_vars

\* Every task of the event loop gets on; when clients come, streams end and the
\* process is started, stopped or killed is left open.
Fairness == \A r \in Requests : WF_vars(Step(r))

FairSpec == Spec /\ Fairness

-----------------------------------------------------------------------------
Running == {r \in Requests : phase[r] \notin {"idle", "completed"}}

LifecycleTypeOK ==
    /\ in_memory \in BOOLEAN
    /\ process \in {"down", "starting", "serving", "draining", "closing"}
    /\ ready \in BOOLEAN
    /\ resources \in Seq({"listener", "http", "redis", "engine"})

RequestTypeOK ==
    /\ checked_out \in [Requests -> SUBSET Sessions]
    /\ phase \in [Requests -> {"idle", "first", "reading", "second", "insert", "returned",
                               "streaming", "exit", "raised", "ended", "completed"}]
    /\ input \in [Requests -> Inputs \cup {None}]
    /\ row \in [Requests -> Media \cup {None}]
    /\ raised \in [Requests -> Nat \cup {None}]

TelemetryTypeOK ==
    /\ status \in [Requests -> Nat \cup {None}]
    /\ sent \in [Requests -> Nat \cup {None}]
    /\ recorded \in [Requests -> Nat \cup {None}]
    /\ in_flight \in Nat

StoreTypeOK ==
    /\ objects \in [Bodies -> Media \cup {None}]
    /\ records \in [Bodies -> Media \cup {None}]
    /\ lost \subseteq Bodies

\* Every variable holds values of its own shape.
TypeOK == LifecycleTypeOK /\ RequestTypeOK /\ TelemetryTypeOK /\ StoreTypeOK

\* No connection is lost to the pool, whether a request returns, is refused, times
\* out on its second connection or fails to commit: whoever has one is running and
\* still has its transaction open, and the pool never gives more than it has.
ConnectionsComeBack ==
    /\ InUse <= Capacity
    /\ \A r \in Requests :
          checked_out[r] # {} =>
              ~in_memory /\ phase[r] \notin {"idle", "first", "raised", "ended", "completed"}

\* A row has its object, and of the same type, until a restart takes the object:
\* download_proof never answers "proof metadata mismatch", however uploads of the
\* same body fail, race and repeat.
RowsHaveTheirObject ==
    \A b \in Bodies : records[b] # None => objects[b] = records[b] \/ b \in lost

\* The request counter and the gauge tell what clients see: a completed request
\* was counted with the status its client gets, also when the handler failed
\* outside of the middleware's sight or after its response, and in_flight counts
\* the requests that run.
MetricsTellTheTruth ==
    /\ in_flight = Cardinality(Running)
    /\ \A r \in Requests :
          phase[r] = "completed" /\ sent[r] # None => recorded[r] = sent[r]

\* Handlers have what lifespan opened, and readiness says so: nothing is closed
\* before the last of them has ended.
HandlersHaveTheirResources ==
    \A r \in Requests :
        phase[r] # "idle" =>
            ready /\ Len(resources) = IF in_memory THEN 2 ELSE 4

\* Requests run only between the start of the process and its closing, and what
\* lifespan opened is there as long.
LifespanFits ==
    /\ process \in {"serving", "draining"} => ready
    /\ process \in {"starting", "serving", "draining"} =>
          Len(resources) = IF in_memory THEN 2 ELSE 4
    /\ \A r \in Requests :
          phase[r] # "idle" => process \in {"serving", "draining"} /\ input[r] # None

\* The connections in use and the running requests can be counted.
CountsFit == IsFiniteSet(Used) /\ IsFiniteSet(Running)

\* An upload over PostgreSQL that has stored its object and not committed its row.
Uploading(r) ==
    \/ phase[r] = "second" /\ input[r].kind = "upload"
    \/ phase[r] = "insert"
    \/ row[r] # None

\* An upload has stored its object before it gets to its row, and the row is written
\* in the session that is left first.
ProofFits(r) ==
    /\ phase[r] = "reading" => input[r].kind = "upload"
    /\ Uploading(r) =>
          /\ ~in_memory
          /\ objects[input[r].body] = media_of[input[r].body]
          /\ media_of[input[r].body] # None
    /\ phase[r] = "insert" \/ row[r] # None => "second" \in checked_out[r]
    /\ row[r] # None =>
          /\ phase[r] \in {"returned", "streaming", "exit"}
          /\ row[r] = media_of[input[r].body]

\* What is stored has the type its bytes say.
ProofsFit ==
    /\ \A b \in Bodies : {objects[b], records[b]} \subseteq {None, media_of[b]}
    /\ \A r \in Requests : ProofFits(r)

\* The middleware knows what was sent: its status is 500 until a response starts.
MiddlewareKnows(r) ==
    /\ phase[r] = "idle" => sent[r] = None
    /\ phase[r] = "raised" => raised[r] # None
    /\ phase[r] # "idle" /\ sent[r] = None => status[r] = 500
    /\ phase[r] # "completed" /\ sent[r] # None => status[r] = sent[r]
    /\ phase[r] = "completed" => recorded[r] = IF sent[r] = None THEN 500 ELSE sent[r]

TelemetryFits == \A r \in Requests : MiddlewareKnows(r)

\* Every request has what it uses and gives back what it took, at every point of the
\* life of the process.
IInv ==
    /\ TypeOK
    /\ ConnectionsComeBack
    /\ HandlersHaveTheirResources
    /\ RowsHaveTheirObject
    /\ MetricsTellTheTruth
    /\ LifespanFits
    /\ CountsFit
    /\ ProofsFit
    /\ TelemetryFits

\* Every request ends, although sessions wait for connections while they hold
\* connections (pool_timeout); a stream ends when its client says so.
EveryRequestEnds ==
    \A r \in Requests :
        phase[r] # "idle" /\ input[r].kind # "stream" ~> phase[r] = "idle"

\* The link a 201 hands out is good for as long as its download_expires_at says and
\* for less than a second more, at whatever fraction of a second it was issued.
\* upload_proof asks for the longest life there is, so a process whose clock is a
\* second behind refuses a link that is new.
LinkLivesItsTtl ==
    \A r \in Requests : sent[r] = 201 =>
        \A issued, now \in 0..MaxTime :
            LET end == issued + max_ttl_seconds * TicksPerSecond
                good == verify_get(issue_get(issued, max_ttl_seconds), now)
            IN  /\ issued <= now /\ now <= end => good
                /\ now >= end + TicksPerSecond => ~good
                /\ now + TicksPerSecond <= issued => ~good
=============================================================================
