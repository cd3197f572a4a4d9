------------------------ MODULE EventDeliveryProofs ------------------------
(***************************************************************************)
(* IInv is inductive, for every number of relays of both images, workers   *)
(* and events: only confirmed messages are marked, no row is published     *)
(* again after its commit, one job at most is past the claim of an event,  *)
(* and no confirmed message is forgotten.                                  *)
(***************************************************************************)
EXTENDS EventDelivery, TLAPS

\* The provers tried for a leaf, with the seconds each one has.
USE ZenonT(3), SMTT(40), ZenonT(40)

\* The smaller of two numbers.
LEMMA MinOfTwo ==
    ASSUME NEW a \in Int, NEW b \in Int
    PROVE  Min({a, b}) = IF a <= b THEN a ELSE b
<1> DEFINE m == IF a <= b THEN a ELSE b
<1>1. m \in {a, b} /\ \A y \in {a, b} : m <= y
  OBVIOUS
<1>2. \A x \in {a, b} : (\A y \in {a, b} : x <= y) => x = m
  OBVIOUS
<1> HIDE DEF m
<1> QED
  BY <1>1, <1>2 DEF Min, m

\* One more copy of e waits, and at least one does afterwards.
LEMMA EnqueueEffect ==
    ASSUME queue \in [Events -> 0..MaxCopies], NEW e \in Events, Enqueue(e)
    PROVE  /\ queue' \in [Events -> 0..MaxCopies]
           /\ queue'[e] > 0
           /\ \A f \in Events : f # e => queue'[f] = queue[f]
<1>1. MaxCopies \in Nat /\ MaxCopies > 0 /\ queue[e] \in Nat
  BY DeliveryAssumption
<1>2. Min({queue[e] + 1, MaxCopies}) \in 1..MaxCopies
  BY <1>1, MinOfTwo
<1> QED
  BY <1>1, <1>2 DEF Enqueue

-----------------------------------------------------------------------------
(***************************************************************************)
(* The relay's half of the invariant.                                      *)
(***************************************************************************)
RelayInv ==
    /\ rows \subseteq Events /\ published_at \subseteq rows /\ processed_at \subseteq rows
    /\ todo \in [Relays -> SUBSET Events] /\ sent \in [Relays -> SUBSET Events]
    /\ adrift \in [Relays -> SUBSET Events]
    /\ confirmed \subseteq rows
    /\ MarkedWasConfirmed
    /\ RelaysFit

\* A batch holds rows that nobody else holds and nobody has marked.
LEMMA SelectBatchKeeps ==
    ASSUME RelayInv, NEW r \in Relays, SelectBatch(r)
    PROVE  RelayInv'
<1> DEFINE free == {e \in rows \ lockedRows : pending(r, e)}
<1>1. PICK batch \in SUBSET free : todo' = [todo EXCEPT ![r] = batch]
  BY DEF SelectBatch
<1>2. /\ UNCHANGED <<rows, published_at, processed_at, sent, adrift, confirmed>>
      /\ sent[r] = {}
  BY DEF SelectBatch, Locked, outbox
<1>3. batch \subseteq (rows \ processed_at) \ lockedRows
  BY DEF pending, legacy_pending_clause, transitional_outbox_pending_clause
<1> HIDE DEF free
<1>4. Locked(r)' = batch
  BY <1>1, <1>2 DEF Locked, RelayInv
<1>5. \A q \in Relays \ {r} : Locked(q)' = Locked(q) /\ todo'[q] = todo[q]
  BY <1>1, <1>2 DEF Locked, RelayInv
<1>6. \A q \in Relays \ {r} : Locked(q) \cap batch = {}
  BY <1>3 DEF lockedRows
<1>7. todo' \in [Relays -> SUBSET Events]
  BY <1>1, <1>3 DEF RelayInv
<1>8. RelaysFit'
  <2>1. \A q \in Relays : Locked(q)' \subseteq rows' \ processed_at'
    BY <1>2, <1>3, <1>4, <1>5 DEF RelayInv, RelaysFit
  <2>2. \A q \in Relays : sent'[q] \subseteq confirmed' /\ sent'[q] \cap todo'[q] = {}
    BY <1>2, <1>5 DEF RelayInv, RelaysFit
  <2>3. \A p, q \in Relays : p # q => Locked(p)' \cap Locked(q)' = {}
    BY <1>4, <1>5, <1>6 DEF RelayInv, RelaysFit
  <2> QED
    BY <1>2, <2>1, <2>2, <2>3 DEF RelayInv, RelaysFit
<1> QED
  BY <1>2, <1>7, <1>8 DEF RelayInv, MarkedWasConfirmed

\* Publishing the next row moves it from todo to sent.
LEMMA PublishNextKeeps ==
    ASSUME RelayInv, NEW r \in Relays, PublishNext(r)
    PROVE  RelayInv'
<1>1. PICK e \in todo[r] :
         /\ todo' = [todo EXCEPT ![r] = @ \ {e}]
         /\ sent' = [sent EXCEPT ![r] = @ \cup {e}]
         /\ confirmed' = confirmed \cup {e}
  BY DEF PublishNext
<1>2. UNCHANGED <<rows, published_at, processed_at, adrift>>
  BY DEF PublishNext, outbox
<1>3. e \in rows /\ e \in Events
  BY <1>1 DEF RelayInv, RelaysFit, Locked
<1>4. todo'[r] = todo[r] \ {e} /\ sent'[r] = sent[r] \cup {e}
  BY <1>1 DEF RelayInv
<1>5. \A q \in Relays \ {r} : todo'[q] = todo[q] /\ sent'[q] = sent[q]
  BY <1>1 DEF RelayInv
<1>6. \A q \in Relays : Locked(q)' = Locked(q)
  BY <1>1, <1>4, <1>5 DEF Locked
<1>7. todo' \in [Relays -> SUBSET Events] /\ sent' \in [Relays -> SUBSET Events]
  BY <1>1, <1>3 DEF RelayInv
<1>8. RelaysFit'
  <2>1. \A q \in Relays : sent'[q] \subseteq confirmed' /\ sent'[q] \cap todo'[q] = {}
    BY <1>1, <1>4, <1>5 DEF RelayInv, RelaysFit
  <2> QED
    BY <1>2, <1>6, <2>1 DEF RelayInv, RelaysFit
<1> QED
  BY <1>1, <1>2, <1>3, <1>7, <1>8 DEF RelayInv, MarkedWasConfirmed

\* The end of a batch, whatever of it is marked.
LEMMA EndBatchKeeps ==
    ASSUME RelayInv, NEW r \in Relays, EndBatch(r),
           UNCHANGED <<published_at, processed_at>> \/ mark_outbox_published(r)
    PROVE  RelayInv'
<1>1. /\ todo' = [todo EXCEPT ![r] = {}] /\ sent' = [sent EXCEPT ![r] = {}]
      /\ adrift' = [adrift EXCEPT ![r] = {}]
      /\ UNCHANGED <<rows, confirmed>>
  BY DEF EndBatch
<1>2. /\ published_at' \subseteq published_at \cup sent[r]
      /\ published_at' \subseteq processed_at'
      /\ processed_at' \subseteq processed_at \cup sent[r]
  BY DEF mark_outbox_published, RelayInv, RelaysFit
<1>3. Locked(r)' = {} /\ sent'[r] = {}
  BY <1>1 DEF Locked, RelayInv
<1>4. \A q \in Relays \ {r} :
         todo'[q] = todo[q] /\ sent'[q] = sent[q] /\ Locked(q)' = Locked(q)
  BY <1>1 DEF Locked, RelayInv
<1>5. sent[r] \subseteq rows /\ sent[r] \subseteq confirmed
  BY DEF RelayInv, RelaysFit, Locked
<1>6. \A q \in Relays \ {r} : Locked(q) \cap sent[r] = {}
  BY DEF RelayInv, RelaysFit, Locked
<1>7. RelaysFit'
  <2>1. \A q \in Relays : Locked(q)' \subseteq rows' \ processed_at'
    BY <1>1, <1>2, <1>3, <1>4, <1>6 DEF RelayInv, RelaysFit
  <2>2. \A q \in Relays : sent'[q] \subseteq confirmed' /\ sent'[q] \cap todo'[q] = {}
    BY <1>1, <1>3, <1>4 DEF RelayInv, RelaysFit
  <2>3. \A p, q \in Relays : p # q => Locked(p)' \cap Locked(q)' = {}
    BY <1>3, <1>4 DEF RelayInv, RelaysFit
  <2>4. \A q \in Relays : adrift'[q] \subseteq rows'
    BY <1>1 DEF RelayInv, RelaysFit
  <2> QED
    BY <1>2, <2>1, <2>2, <2>3, <2>4 DEF RelaysFit
<1>8. /\ todo' \in [Relays -> SUBSET Events] /\ sent' \in [Relays -> SUBSET Events]
      /\ adrift' \in [Relays -> SUBSET Events]
  BY <1>1 DEF RelayInv
<1> QED
  BY <1>1, <1>2, <1>5, <1>7, <1>8 DEF RelayInv, MarkedWasConfirmed

\* The rows of a lost transaction are free, and the relay still means to publish
\* some of them.
LEMMA RelayLosesConnectionKeeps ==
    ASSUME RelayInv, NEW r \in Relays, RelayLosesConnection(r)
    PROVE  RelayInv'
<1>1. /\ todo' = [todo EXCEPT ![r] = {}] /\ sent' = [sent EXCEPT ![r] = {}]
      /\ adrift' = [adrift EXCEPT ![r] = todo[r]]
      /\ UNCHANGED <<rows, published_at, processed_at, confirmed>>
  BY DEF RelayLosesConnection, outbox
<1>2. /\ Locked(r)' = {} /\ sent'[r] = {} /\ adrift'[r] = todo[r]
      /\ todo[r] \subseteq rows
  BY <1>1 DEF Locked, RelayInv, RelaysFit
<1>3. \A q \in Relays \ {r} :
         /\ todo'[q] = todo[q] /\ sent'[q] = sent[q] /\ adrift'[q] = adrift[q]
         /\ Locked(q)' = Locked(q)
  BY <1>1 DEF Locked, RelayInv
<1>4. /\ todo' \in [Relays -> SUBSET Events] /\ sent' \in [Relays -> SUBSET Events]
      /\ adrift' \in [Relays -> SUBSET Events]
  BY <1>1 DEF RelayInv
<1>5. RelaysFit'
  BY <1>1, <1>2, <1>3 DEF RelayInv, RelaysFit
<1> QED
  BY <1>1, <1>4, <1>5 DEF RelayInv, MarkedWasConfirmed

\* What a relay publishes without a transaction is a committed row.
LEMMA PublishAdriftKeeps ==
    ASSUME RelayInv, NEW r \in Relays, PublishAdrift(r)
    PROVE  RelayInv'
<1>1. PICK e \in adrift[r] :
         /\ adrift' = [adrift EXCEPT ![r] = @ \ {e}]
         /\ confirmed' = confirmed \cup {e}
  BY DEF PublishAdrift
<1>2. UNCHANGED <<rows, published_at, processed_at, todo, sent>>
  BY DEF PublishAdrift, outbox
<1>3. e \in rows
  BY <1>1 DEF RelayInv, RelaysFit
<1>4. /\ adrift' \in [Relays -> SUBSET Events]
      /\ \A q \in Relays : adrift'[q] \subseteq adrift[q]
  BY <1>1 DEF RelayInv
<1>5. RelaysFit'
  BY <1>1, <1>2, <1>4 DEF RelayInv, RelaysFit, Locked
<1> QED
  BY <1>1, <1>2, <1>3, <1>4, <1>5 DEF RelayInv, MarkedWasConfirmed

-----------------------------------------------------------------------------
(***************************************************************************)
(* The workers' half of the invariant.                                     *)
(***************************************************************************)
JobTypeOK ==
    /\ queue \in [Events -> 0..MaxCopies]
    /\ job \in [Workers -> Events \cup {None}]
    /\ stage \in [Workers -> {"idle", "started", "sending", "flushed", "committed",
                             "adrift"}]
    /\ outcome \in [Workers -> {"pending", "skipped", "sent", None}]
    /\ notification \in [Events -> {"skipped", "sent", None}]
    /\ accepted \subseteq Created /\ failed \subseteq Events

JobInv == JobTypeOK /\ OneJobPastClaim /\ JobsFit /\ SentWasAccepted

\* A step that leaves every job alone: only the queue and what is confirmed grow.
LEMMA JobsStill ==
    ASSUME JobInv, UNCHANGED <<worker, effects>>, confirmed \subseteq confirmed',
           queue' \in [Events -> 0..MaxCopies],
           \A e \in Events : queue'[e] > 0 => e \in confirmed'
    PROVE  JobInv'
<1>1. UNCHANGED <<job, stage, outcome, notification, accepted, failed>>
  BY DEF worker, effects
<1>2. JobTypeOK' /\ OneJobPastClaim' /\ SentWasAccepted'
  BY <1>1 DEF JobInv, JobTypeOK, OneJobPastClaim, SentWasAccepted
<1>3. JobsFit'
  BY <1>1 DEF JobInv, JobsFit
<1> QED
  BY <1>2, <1>3 DEF JobInv

\* A job that ends, however it ends, leaves the others alone.
LEMMA EndJobKeeps ==
    ASSUME JobInv, NEW w \in Workers, EndJob(w), accepted \subseteq accepted',
           accepted' \subseteq Created, failed' \subseteq Events,
           queue' \in [Events -> 0..MaxCopies],
           \A e \in Events : queue'[e] > 0 => e \in confirmed
    PROVE  JobInv'
<1>1. /\ UNCHANGED <<confirmed, notification>>
      /\ job'[w] = None /\ outcome'[w] = None /\ stage'[w] = "idle"
      /\ \A v \in Workers \ {w} :
            job'[v] = job[v] /\ outcome'[v] = outcome[v] /\ stage'[v] = stage[v]
  BY DEF EndJob, Goto, JobInv, JobTypeOK
<1>2. JobTypeOK'
  BY DEF EndJob, Goto, JobInv, JobTypeOK
<1>3. OneJobPastClaim'
  BY <1>1 DEF JobInv, OneJobPastClaim
<1>4. JobsFit'
  BY <1>1 DEF JobInv, JobsFit
<1>5. SentWasAccepted'
  BY <1>1, DeliveryAssumption DEF JobInv, SentWasAccepted
<1> QED
  BY <1>2, <1>3, <1>4, <1>5 DEF JobInv

\* A worker takes a message.
LEMMA DeliverKeeps ==
    ASSUME JobInv, NEW w \in Workers, NEW e \in Events, Deliver(w, e)
    PROVE  JobInv'
<1>1. /\ stage[w] = "idle" /\ queue[e] > 0
      /\ queue' = [queue EXCEPT ![e] = @ - 1]
      /\ UNCHANGED <<confirmed, outcome, notification, accepted, failed>>
  BY DEF Deliver, effects
<1>2. /\ job'[w] = e /\ stage'[w] = "started"
      /\ \A v \in Workers \ {w} : job'[v] = job[v] /\ stage'[v] = stage[v]
      /\ job' \in [Workers -> Events \cup {None}]
      /\ stage' \in [Workers -> {"idle", "started", "sending", "flushed", "committed",
                                "adrift"}]
  BY DEF Deliver, Goto, JobInv, JobTypeOK
<1>3. /\ queue' \in [Events -> 0..MaxCopies]
      /\ \A f \in Events : queue'[f] <= queue[f]
  BY <1>1, DeliveryAssumption DEF JobInv, JobTypeOK
<1>4. outcome[w] = None
  BY <1>1 DEF JobInv, JobsFit
<1>5. JobTypeOK'
  BY <1>1, <1>2, <1>3 DEF JobInv, JobTypeOK
<1>6. OneJobPastClaim' /\ SentWasAccepted'
  BY <1>1, <1>2, <1>4, DeliveryAssumption DEF JobInv, OneJobPastClaim, SentWasAccepted
<1>7. JobsFit'
  <2>1. \A f \in Events : queue'[f] > 0 => f \in confirmed
    BY <1>3, DeliveryAssumption DEF JobInv, JobsFit, JobTypeOK
  <2>2. e # None /\ e \in confirmed
    BY <1>1, DeliveryAssumption DEF JobInv, JobsFit
  <2> QED
    BY <1>1, <1>2, <1>4, <2>1, <2>2 DEF JobInv, JobsFit
<1> QED
  BY <1>5, <1>6, <1>7 DEF JobInv

\* The claim of the inbox key, or the sight of another's committed claim.
LEMMA ClaimKeeps ==
    ASSUME JobInv, NEW w \in Workers, Claim(w)
    PROVE  JobInv'
<1> DEFINE e == job[w]
<1>1. /\ stage[w] = "started" /\ e \in Created /\ e \in Events /\ ~ClaimPending(w)
      /\ UNCHANGED <<confirmed, queue, job, notification, accepted, failed>>
  BY DeliveryAssumption DEF Claim, effects
<1>2. outcome[w] = None
  BY <1>1 DEF JobInv, JobsFit
<1>3. CASE Claimed(w)
  <2>1. /\ outcome' = outcome /\ stage' = [stage EXCEPT ![w] = "committed"]
        /\ notification[e] # None
    BY <1>3 DEF Claim, Claimed, Goto
  <2>2. /\ stage'[w] = "committed" /\ \A v \in Workers \ {w} : stage'[v] = stage[v]
        /\ JobTypeOK'
    BY <1>1, <2>1 DEF JobInv, JobTypeOK
  <2>3. OneJobPastClaim' /\ SentWasAccepted'
    BY <1>1, <2>1 DEF JobInv, OneJobPastClaim, SentWasAccepted
  <2>4. JobsFit'
    BY <1>1, <1>2, <2>1, <2>2 DEF JobInv, JobsFit
  <2> QED
    BY <2>2, <2>3, <2>4 DEF JobInv
<1>4. CASE ~Claimed(w)
  <2> DEFINE s == IF e \in muted THEN "flushed" ELSE "sending"
             o == IF e \in muted THEN "skipped" ELSE "pending"
  <2>1. /\ stage' = [stage EXCEPT ![w] = s] /\ outcome' = [outcome EXCEPT ![w] = o]
        /\ notification[e] = None
    BY <1>4 DEF Claim, Claimed, Goto
  <2>2. /\ stage'[w] = s /\ outcome'[w] = o
        /\ \A v \in Workers \ {w} : stage'[v] = stage[v] /\ outcome'[v] = outcome[v]
        /\ JobTypeOK'
    BY <1>1, <2>1 DEF JobInv, JobTypeOK
  <2>3. o # None /\ o # "sent"
    BY DeliveryAssumption
  <2>4. \A v \in Workers \ {w} : outcome[v] # None => job[v] # e
    BY <1>1 DEF ClaimPending
  <2>5. OneJobPastClaim' /\ SentWasAccepted'
    BY <1>1, <2>1, <2>2, <2>3, <2>4 DEF JobInv, OneJobPastClaim, SentWasAccepted
  <2>6. JobsFit'
    BY <1>1, <2>2, <2>3 DEF JobInv, JobsFit
  <2> QED
    BY <2>2, <2>5, <2>6 DEF JobInv
<1> QED
  BY <1>3, <1>4

\* The provider has taken the message.
LEMMA SendKeeps ==
    ASSUME JobInv, NEW w \in Workers, Send(w)
    PROVE  JobInv'
<1>1. /\ stage[w] = "sending" /\ accepted' = accepted \cup {job[w]}
      /\ UNCHANGED <<confirmed, queue, job, notification, failed>>
  BY DEF Send
<1>2. outcome[w] # None /\ job[w] \in Created
  BY <1>1 DEF JobInv, JobsFit
<1>3. /\ outcome'[w] = "sent" /\ stage'[w] = "flushed"
      /\ \A v \in Workers \ {w} : outcome'[v] = outcome[v] /\ stage'[v] = stage[v]
      /\ JobTypeOK'
  BY <1>1, <1>2 DEF Send, Goto, JobInv, JobTypeOK
<1>4. OneJobPastClaim' /\ SentWasAccepted'
  BY <1>1, <1>2, <1>3 DEF JobInv, OneJobPastClaim, SentWasAccepted
<1>5. JobsFit'
  BY <1>1, <1>2, <1>3, DeliveryAssumption DEF JobInv, JobsFit
<1> QED
  BY <1>3, <1>4, <1>5 DEF JobInv

\* The effect of a job is committed.
LEMMA CommitJobKeeps ==
    ASSUME JobInv, NEW w \in Workers, CommitJob(w)
    PROVE  JobInv'
<1> DEFINE e == job[w]
<1>1. /\ stage[w] = "flushed" /\ notification' = [notification EXCEPT ![e] = outcome[w]]
      /\ UNCHANGED <<confirmed, queue, job, accepted, failed>>
  BY DEF CommitJob
<1>2. /\ outcome[w] \in {"skipped", "sent"} /\ outcome[w] # None
      /\ e \in Created /\ e \in Events
  BY <1>1, DeliveryAssumption DEF JobInv, JobsFit, JobTypeOK
<1>3. /\ outcome'[w] = None /\ stage'[w] = "committed"
      /\ \A v \in Workers \ {w} : outcome'[v] = outcome[v] /\ stage'[v] = stage[v]
      /\ JobTypeOK'
  BY <1>1, <1>2 DEF CommitJob, Goto, JobInv, JobTypeOK
<1>4. /\ notification'[e] = outcome[w]
      /\ \A f \in Events : f # e => notification'[f] = notification[f]
  BY <1>1, <1>2 DEF JobInv, JobTypeOK
<1>5. \A v \in Workers \ {w} : outcome[v] # None => job[v] # e
  BY <1>2 DEF JobInv, OneJobPastClaim
<1>6. \A v \in Workers : outcome[v] # None => job[v] \in Events
  BY DeliveryAssumption DEF JobInv, JobsFit
<1>7. OneJobPastClaim' /\ SentWasAccepted'
  <2>1. job' = job /\ accepted' = accepted
    BY <1>1
  <2>2. \A v \in Workers : outcome'[v] # None => v # w /\ outcome[v] = outcome'[v]
    BY <1>3
  <2>3. \A v \in Workers : outcome'[v] # None => notification'[job[v]] = notification[job[v]]
    BY <1>4, <1>5, <1>6, <2>2
  <2>4. OneJobPastClaim'
    BY <2>1, <2>2, <2>3 DEF JobInv, OneJobPastClaim
  <2>5. \A f \in Events : notification'[f] = "sent" => f \in accepted
    BY <1>4 DEF JobInv, SentWasAccepted
  <2>6. \A v \in Workers : outcome'[v] = "sent" => job[v] \in accepted
    BY <1>3, DeliveryAssumption DEF JobInv, SentWasAccepted
  <2> QED
    BY <2>1, <2>4, <2>5, <2>6 DEF SentWasAccepted
<1>8. \A v \in Workers : stage[v] = "committed" => job[v] \in Events
  BY DEF JobInv, JobsFit, JobTypeOK
<1>9. JobsFit'
  <2>1. job' = job /\ confirmed' = confirmed /\ queue' = queue
    BY <1>1
  <2>2. \A v \in Workers : stage'[v] = "committed" => notification'[job[v]] # None
    <3>1. ASSUME NEW v \in Workers \ {w}, stage'[v] = "committed", job[v] # e
          PROVE  notification'[job[v]] # None
      <4>1. stage[v] = "committed" /\ job[v] \in Events
        BY <1>3, <1>8, <3>1
      <4>2. notification[job[v]] # None
        BY <4>1 DEF JobInv, JobsFit
      <4> QED
        BY <1>4, <3>1, <4>1, <4>2
    <3> QED
      BY <1>2, <1>4, <3>1
  <2>3. ASSUME NEW v \in Workers \ {w}
        PROVE  /\ job[v] = None <=> stage'[v] = "idle"
               /\ outcome'[v] # None <=> stage'[v] \in {"sending", "flushed"}
               /\ stage'[v] = "sending" => outcome'[v] = "pending"
               /\ stage'[v] = "flushed" => outcome'[v] # "pending"
               /\ outcome'[v] # None \/ stage'[v] = "adrift" => job[v] \in Created
    BY <1>3 DEF JobInv, JobsFit
  <2>4. job[w] # None
    BY <1>1 DEF JobInv, JobsFit
  <2> QED
    BY <1>3, <2>1, <2>2, <2>3, <2>4 DEF JobInv, JobsFit
<1> QED
  BY <1>3, <1>7, <1>9 DEF JobInv

\* A job that loses its connection loses its claim.
LEMMA JobLosesConnectionKeeps ==
    ASSUME JobInv, NEW w \in Workers, JobLosesConnection(w)
    PROVE  JobInv'
<1>1. /\ stage[w] = "sending"
      /\ UNCHANGED <<confirmed, queue, job, notification, accepted, failed>>
  BY DEF JobLosesConnection, effects
<1>2. job[w] \in Created /\ job[w] # None
  BY <1>1 DEF JobInv, JobsFit
<1>3. /\ outcome'[w] = None /\ stage'[w] = "adrift"
      /\ \A v \in Workers \ {w} : outcome'[v] = outcome[v] /\ stage'[v] = stage[v]
      /\ JobTypeOK'
  BY <1>1 DEF JobLosesConnection, Goto, JobInv, JobTypeOK
<1>4. OneJobPastClaim' /\ SentWasAccepted'
  BY <1>1, <1>3, DeliveryAssumption DEF JobInv, OneJobPastClaim, SentWasAccepted
<1>5. JobsFit'
  BY <1>1, <1>2, <1>3 DEF JobInv, JobsFit
<1> QED
  BY <1>3, <1>4, <1>5 DEF JobInv

-----------------------------------------------------------------------------
(***************************************************************************)
(* The theorems.                                                           *)
(***************************************************************************)

\* The two halves are the invariant.
LEMMA Halves == IInv <=> RelayInv /\ JobInv /\ muted \subseteq Created
BY DEF IInv, TypeOK, RelayInv, JobInv, JobTypeOK

\* A job that is not idle has an event that was confirmed.
LEMMA JobEvent ==
    ASSUME JobInv, NEW w \in Workers, stage[w] # "idle"
    PROVE  job[w] \in Events /\ job[w] \in confirmed
BY DEF JobInv, JobTypeOK, JobsFit

\* Every step of the relays keeps their half and only adds to what is confirmed.
LEMMA RelayHalf ==
    ASSUME IInv, [Next]_vars
    PROVE  RelayInv' /\ confirmed \subseteq confirmed' /\ muted' \subseteq Created
<1>1. RelayInv /\ muted \subseteq Created
  BY Halves
<1>2. ASSUME UNCHANGED <<outbox, relay, confirmed, muted>>
      PROVE  RelayInv' /\ confirmed \subseteq confirmed' /\ muted' \subseteq Created
  BY <1>1, <1>2 DEF RelayInv, MarkedWasConfirmed, RelaysFit, Locked, outbox, relay
<1>3. ASSUME NEW r \in Relays, RelayStep(r) \/ RelayFails(r) \/ RelayLosesConnection(r)
      PROVE  RelayInv' /\ confirmed \subseteq confirmed' /\ muted' \subseteq Created
  <2>1. RelayInv'
    BY <1>1, <1>3, SelectBatchKeeps, PublishNextKeeps, EndBatchKeeps, PublishAdriftKeeps,
       RelayLosesConnectionKeeps
       DEF RelayStep, CommitBatch, RelayFails
  <2> QED
    BY <1>1, <1>3, <2>1
       DEF RelayStep, SelectBatch, PublishNext, CommitBatch, RelayFails, EndBatch,
           PublishAdrift, RelayLosesConnection
<1>4. ASSUME NEW e \in Events, Emit(e)
      PROVE  RelayInv' /\ confirmed \subseteq confirmed' /\ muted' \subseteq Created
  BY <1>1, <1>4 DEF Emit, RelayInv, MarkedWasConfirmed, RelaysFit, Locked, relay
<1>5. ASSUME NEW e \in Events, SetPreference(e)
      PROVE  RelayInv' /\ confirmed \subseteq confirmed' /\ muted' \subseteq Created
  <2>1. UNCHANGED <<outbox, relay, confirmed>> /\ muted' \subseteq Created
    BY <1>1, <1>5 DEF SetPreference
  <2> QED
    BY <1>1, <2>1 DEF RelayInv, MarkedWasConfirmed, RelaysFit, Locked, outbox, relay
<1>6. ASSUME NEW w \in Workers,
             \/ JobStep(w) \/ Fail(w) \/ JobLosesConnection(w) \/ WorkerLost(w) \/ Redeliver(w)
             \/ \E e \in Events : Deliver(w, e)
      PROVE  UNCHANGED <<outbox, relay, confirmed, muted>>
  BY <1>6 DEF JobStep, Claim, Send, CommitJob, Ack, Unsupported, Fail, WorkerLost,
              Redeliver, Deliver, EndJob, SendAdrift, JobLosesConnection
<1> QED
  BY <1>2, <1>3, <1>4, <1>5, <1>6 DEF Next, vars

\* Every step of the workers, and of the relays, keeps the workers' half.
LEMMA JobHalf ==
    ASSUME IInv, [Next]_vars
    PROVE  JobInv'
<1>1. JobInv /\ confirmed \subseteq confirmed' /\ RelayInv
  BY Halves, RelayHalf
<1>2. /\ queue \in [Events -> 0..MaxCopies]
      /\ \A e \in Events : queue[e] > 0 => e \in confirmed
  BY <1>1 DEF JobInv, JobTypeOK, JobsFit
<1>3. ASSUME UNCHANGED <<worker, effects, queue>>
      PROVE  JobInv'
  BY <1>1, <1>2, <1>3, JobsStill
<1>4. ASSUME NEW e \in Events, Enqueue(e), e \in confirmed'
      PROVE  /\ queue' \in [Events -> 0..MaxCopies]
             /\ \A f \in Events : queue'[f] > 0 => f \in confirmed'
  BY <1>1, <1>2, <1>4, EnqueueEffect
<1>5. ASSUME NEW r \in Relays, PublishNext(r) \/ PublishAdrift(r)
      PROVE  JobInv'
  <2>1. PICK e \in todo[r] \cup adrift[r] : Enqueue(e) /\ e \in confirmed'
    BY <1>5 DEF PublishNext, PublishAdrift
  <2>2. e \in Events
    BY <1>1 DEF RelayInv
  <2> QED
    BY <1>1, <1>4, <1>5, <2>1, <2>2, JobsStill DEF PublishNext, PublishAdrift
<1>6. ASSUME NEW w \in Workers, Redeliver(w)
      PROVE  JobInv'
  <2>1. Enqueue(job[w]) /\ job[w] \in Events /\ job[w] \in confirmed'
    BY <1>1, <1>6, JobEvent DEF Redeliver
  <2> QED
    BY <1>1, <1>4, <1>6, <2>1, JobsStill DEF Redeliver
<1>7. ASSUME NEW w \in Workers, WorkerLost(w)
      PROVE  JobInv'
  <2>1. /\ Enqueue(job[w]) /\ job[w] \in Events /\ confirmed' = confirmed
        /\ job[w] \in confirmed
    BY <1>1, <1>7, JobEvent DEF WorkerLost, EndJob
  <2>2. accepted' = accepted /\ failed' = failed /\ EndJob(w)
    BY <1>7 DEF WorkerLost
  <2> QED
    BY <1>1, <1>4, <2>1, <2>2, EndJobKeeps DEF JobInv, JobTypeOK
<1>8. ASSUME NEW w \in Workers, Ack(w) \/ Unsupported(w) \/ Fail(w) \/ SendAdrift(w)
      PROVE  JobInv'
  <2>1. stage[w] # "idle" /\ EndJob(w) /\ queue' = queue
    BY <1>8 DEF Ack, Unsupported, Fail, InJob, SendAdrift
  <2>2. job[w] \in Events /\ (stage[w] \in {"sending", "adrift"} => job[w] \in Created)
    BY <1>1, <2>1, JobEvent DEF JobInv, JobsFit
  <2>3. failed' \subseteq Events /\ accepted \subseteq accepted' /\ accepted' \subseteq Created
    BY <1>1, <1>8, <2>2 DEF Ack, Unsupported, Fail, SendAdrift, JobInv, JobTypeOK
  <2> QED
    BY <1>1, <1>2, <2>1, <2>3, EndJobKeeps
<1>9. ASSUME NEW w \in Workers,
             \/ Claim(w) \/ Send(w) \/ CommitJob(w) \/ JobLosesConnection(w)
             \/ \E e \in Events : Deliver(w, e)
      PROVE  JobInv'
  BY <1>1, <1>9, ClaimKeeps, SendKeeps, CommitJobKeeps, DeliverKeeps, JobLosesConnectionKeeps
<1>10. ASSUME NEW r \in Relays,
              SelectBatch(r) \/ CommitBatch(r) \/ RelayFails(r) \/ RelayLosesConnection(r)
       PROVE  UNCHANGED <<worker, effects, queue>>
  BY <1>10 DEF SelectBatch, CommitBatch, RelayFails, RelayLosesConnection, EndBatch
<1>11. ASSUME NEW e \in Events, Emit(e) \/ SetPreference(e)
       PROVE  UNCHANGED <<worker, effects, queue>>
  BY <1>11 DEF Emit, SetPreference
<1> QED
  BY <1>3, <1>5, <1>6, <1>7, <1>8, <1>9, <1>10, <1>11
     DEF Next, RelayStep, JobStep, vars

\* Whatever batches fail, messages are duplicated and workers are lost: only
\* confirmed messages are marked, the rows of two relays are never the same, one
\* job at most is past the claim of an event, and what is called sent was sent.
THEOREM DeliveryInvariant == Spec => []IInv
<1>1. Init => IInv
  <2> SUFFICES ASSUME Init PROVE IInv
    OBVIOUS
  <2>1. RelayInv
    BY DEF Init, RelayInv, MarkedWasConfirmed, RelaysFit, Locked
  <2>2. JobInv
    BY DeliveryAssumption
       DEF Init, JobInv, JobTypeOK, OneJobPastClaim, JobsFit, SentWasAccepted
  <2> QED
    BY <2>1, <2>2, Halves DEF Init
<1>2. IInv /\ [Next]_vars => IInv'
  BY RelayHalf, JobHalf, Halves DEF IInv, TypeOK, RelayInv, JobInv, JobTypeOK
<1> QED
  BY <1>1, <1>2, PTL DEF Spec

\* Once a batch with a row is committed, no relay of either image publishes the
\* row again in a batch it can commit.
THEOREM DeliveryNeverPublishedAgain == Spec => NeverPublishedAgain
<1>1. ASSUME IInv, [Next]_vars, NEW r \in Relays
      PROVE  (sent'[r] \ sent[r]) \cap (published_at \cup processed_at) = {}
  <2>1. RelayInv
    BY <1>1, Halves
  <2>2. CASE sent'[r] \subseteq sent[r]
    BY <2>2
  <2>3. ASSUME NEW q \in Relays, PublishNext(q)
        PROVE  (sent'[r] \ sent[r]) \cap (published_at \cup processed_at) = {}
    <3>1. PICK e \in todo[q] : sent' = [sent EXCEPT ![q] = @ \cup {e}]
      BY <2>3 DEF PublishNext
    <3>2. e \notin processed_at /\ e \notin published_at
      BY <2>1, <3>1 DEF RelayInv, RelaysFit, Locked
    <3> QED
      BY <2>1, <3>1, <3>2 DEF RelayInv
  <2>4. ASSUME NEW q \in Relays, EndBatch(q)
        PROVE  sent'[r] \subseteq sent[r]
    BY <2>1, <2>4 DEF EndBatch, RelayInv
  <2>5. ASSUME NEW q \in Relays, SelectBatch(q) \/ PublishAdrift(q)
        PROVE  sent' = sent
    BY <2>5 DEF SelectBatch, PublishAdrift
  <2>6. ASSUME NEW w \in Workers,
               \/ JobStep(w) \/ Fail(w) \/ JobLosesConnection(w) \/ WorkerLost(w) \/ Redeliver(w)
               \/ \E e \in Events : Deliver(w, e)
        PROVE  sent' = sent
    BY <2>6 DEF JobStep, Claim, Send, CommitJob, Ack, Unsupported, Fail, WorkerLost,
                Redeliver, Deliver, EndJob, SendAdrift, JobLosesConnection, relay
  <2>7. ASSUME NEW e \in Events, Emit(e) \/ SetPreference(e)
        PROVE  sent' = sent
    BY <2>7 DEF Emit, SetPreference, relay
  <2>8. CASE UNCHANGED vars
    BY <2>8 DEF vars, relay
  <2>9. ASSUME NEW q \in Relays, RelayLosesConnection(q)
        PROVE  sent'[r] \subseteq sent[r]
    BY <2>1, <2>9 DEF RelayLosesConnection, RelayInv
  <2> QED
    BY <1>1, <2>2, <2>3, <2>4, <2>5, <2>6, <2>7, <2>8, <2>9
       DEF Next, RelayStep, CommitBatch, RelayFails
<1>2. IInv /\ [Next]_vars =>
         [\A r \in Relays :
             (sent'[r] \ sent[r]) \cap (published_at \cup processed_at) = {}]_vars
  BY <1>1
<1> QED
  BY <1>2, DeliveryInvariant, PTL DEF Spec, NeverPublishedAgain

\* The stronger invariant: whatever the broker has confirmed is not forgotten,
\* marked or not.
Remembered(e) ==
    \/ queue[e] > 0
    \/ \E w \in Workers : job[w] = e
    \/ notification[e] # None
    \/ e \in failed

ConfirmedIsRemembered == \A e \in confirmed : Remembered(e)

\* An event in hand stays in the queue, in a worker's hands, in the table or
\* among the failed.
LEMMA RememberedStep ==
    ASSUME IInv, [Next]_vars, NEW e \in Events, Remembered(e)
    PROVE  Remembered(e)'
<1>1. JobInv /\ JobInv' /\ RelayInv
  BY JobHalf, Halves
<1>2. JobTypeOK /\ queue[e] \in Nat /\ queue'[e] \in Nat
  BY <1>1, DeliveryAssumption DEF JobInv, JobTypeOK
<1>3. ASSUME NEW f \in Events, Enqueue(f)
      PROVE  queue'[f] > 0 /\ (e # f => queue'[e] = queue[e])
  BY <1>2, <1>3, EnqueueEffect DEF JobTypeOK
<1>4. ASSUME UNCHANGED <<worker, effects>>, queue[e] > 0 => queue'[e] > 0
      PROVE  Remembered(e)'
  BY <1>4 DEF Remembered, worker, effects
<1>5. ASSUME UNCHANGED <<worker, effects, queue>>
      PROVE  Remembered(e)'
  BY <1>4, <1>5
<1>6. ASSUME NEW r \in Relays, PublishNext(r) \/ PublishAdrift(r)
      PROVE  Remembered(e)'
  <2>1. PICK f \in todo[r] \cup adrift[r] : Enqueue(f)
    BY <1>6 DEF PublishNext, PublishAdrift
  <2>2. f \in Events
    BY <1>1 DEF RelayInv
  <2> QED
    BY <1>3, <1>4, <1>6, <2>1, <2>2 DEF PublishNext, PublishAdrift
<1>7. ASSUME NEW w \in Workers, Redeliver(w)
      PROVE  Remembered(e)'
  <2>1. Enqueue(job[w]) /\ job[w] \in Events
    BY <1>1, <1>7, JobEvent DEF Redeliver
  <2> QED
    BY <1>3, <1>4, <1>7, <2>1 DEF Redeliver
<1>8. ASSUME NEW w \in Workers, EndJob(w), failed \subseteq failed',
             queue[e] > 0 => queue'[e] > 0,
             job[w] = e => \/ queue'[e] > 0 \/ notification[e] # None \/ e \in failed'
      PROVE  Remembered(e)'
  BY <1>2, <1>8 DEF EndJob, Remembered, JobTypeOK
<1>9. ASSUME NEW w \in Workers, WorkerLost(w)
      PROVE  Remembered(e)'
  <2>1. Enqueue(job[w]) /\ job[w] \in Events
    BY <1>1, <1>9, JobEvent DEF WorkerLost
  <2> QED
    BY <1>3, <1>8, <1>9, <2>1 DEF WorkerLost
<1>10. ASSUME NEW w \in Workers, Ack(w)
       PROVE  Remembered(e)'
  <2>1. job[w] = e => notification[e] # None
    BY <1>1, <1>10 DEF Ack, JobInv, JobsFit
  <2> QED
    BY <1>8, <1>10, <2>1 DEF Ack
<1>11. ASSUME NEW w \in Workers, Unsupported(w) \/ Fail(w) \/ SendAdrift(w)
       PROVE  Remembered(e)'
  BY <1>8, <1>11 DEF Unsupported, Fail, SendAdrift
<1>12. ASSUME NEW w \in Workers, Claim(w) \/ Send(w) \/ JobLosesConnection(w)
       PROVE  Remembered(e)'
  BY <1>12 DEF Claim, Send, JobLosesConnection, Remembered, effects
<1>13. ASSUME NEW w \in Workers, CommitJob(w)
       PROVE  Remembered(e)'
  <2>1. outcome[w] # None
    BY <1>1, <1>13 DEF CommitJob, JobInv, JobsFit
  <2> QED
    BY <1>2, <1>13, <2>1 DEF CommitJob, Remembered, JobTypeOK
<1>14. ASSUME NEW w \in Workers, NEW f \in Events, Deliver(w, f)
       PROVE  Remembered(e)'
  <2>1. job'[w] = f /\ \A v \in Workers \ {w} : job'[v] = job[v]
    BY <1>2, <1>14 DEF Deliver, JobTypeOK
  <2>2. job[w] = None /\ e # None
    BY <1>1, <1>14, DeliveryAssumption DEF Deliver, JobInv, JobsFit
  <2>3. e # f => queue'[e] = queue[e]
    BY <1>2, <1>14 DEF Deliver, JobTypeOK
  <2>4. UNCHANGED <<notification, failed>>
    BY <1>14 DEF Deliver, effects
  <2> QED
    BY <2>1, <2>2, <2>3, <2>4 DEF Remembered
<1>15. ASSUME NEW r \in Relays,
              SelectBatch(r) \/ CommitBatch(r) \/ RelayFails(r) \/ RelayLosesConnection(r)
       PROVE  UNCHANGED <<worker, effects, queue>>
  BY <1>15 DEF SelectBatch, CommitBatch, RelayFails, RelayLosesConnection, EndBatch
<1>16. ASSUME NEW f \in Events, Emit(f) \/ SetPreference(f)
       PROVE  UNCHANGED <<worker, effects, queue>>
  BY <1>16 DEF Emit, SetPreference
<1> QED
  BY <1>5, <1>6, <1>7, <1>9, <1>10, <1>11, <1>12, <1>13, <1>14, <1>15, <1>16
     DEF Next, RelayStep, JobStep, vars

\* Late acknowledgement: an event the relay has marked waits, is in hand, has its
\* effect, or has ended in an error.
THEOREM DeliveryMarkedIsNotForgotten == Spec => []MarkedIsNotForgotten
<1>1. Init => ConfirmedIsRemembered
  BY DEF Init, ConfirmedIsRemembered
<1>2. IInv /\ ConfirmedIsRemembered /\ [Next]_vars => ConfirmedIsRemembered'
  <2> SUFFICES ASSUME IInv, ConfirmedIsRemembered, [Next]_vars, NEW e \in confirmed'
               PROVE  Remembered(e)'
    BY DEF ConfirmedIsRemembered
  <2>1. e \in Events
    BY RelayHalf DEF RelayInv
  <2>2. CASE e \in confirmed
    BY <2>1, <2>2, RememberedStep DEF ConfirmedIsRemembered
  <2>3. CASE e \notin confirmed
    <3>1. PICK r \in Relays : PublishNext(r) \/ PublishAdrift(r)
      BY <2>3 DEF RelayLosesConnection, SendAdrift, JobLosesConnection,
                  Next, RelayStep, JobStep, Emit, SetPreference, SelectBatch, CommitBatch,
                  RelayFails, EndBatch, Claim, Send, CommitJob, Ack, Unsupported, Fail,
                  WorkerLost, Redeliver, Deliver, EndJob, vars
    <3>2. Enqueue(e)
      BY <2>3, <3>1 DEF PublishNext, PublishAdrift
    <3> QED
      BY <2>1, <3>2, EnqueueEffect DEF IInv, TypeOK, Remembered
  <2> QED
    BY <2>2, <2>3
<1>3. IInv /\ ConfirmedIsRemembered => MarkedIsNotForgotten
  BY DEF IInv, MarkedWasConfirmed, ConfirmedIsRemembered, Remembered, MarkedIsNotForgotten
<1> QED
  BY <1>1, <1>2, <1>3, DeliveryInvariant, PTL DEF Spec
=============================================================================
