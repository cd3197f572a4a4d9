----------------------------- MODULE MCTracking -----------------------------
(***************************************************************************)
(* Small instances of PgTracking.                                          *)
(***************************************************************************)
EXTENDS PgTracking, TLC

\* All but what no guard and no property of these instances reads any more:
\* answered, dropped and leaked; the snapshot read for a stream that has opened, and
\* the last event of a stream that has closed; the sender of the first message on
\* the channel; of what a stream has shown all but the highest number, which is the
\* last one as long as SseOnlyAdvances holds.
View ==
    LET read == [s \in Sse |-> IF stage[s] = "read" THEN first[s] ELSE None]
        last == [s \in Sse |-> IF Subscribed(s) THEN latest[s] ELSE None]
        sent == [i \in DOMAIN bus |-> IF i = 1 THEN bus[i].event ELSE bus[i]]
        top == [s \in Sse |-> IF shown[s] = <<>> THEN None
                              ELSE shown[s][Len(shown[s])].sequence]
    IN  <<active, snapshot, outbox, phase, order, id, pending, sent, listening,
          stage, queue, read, floor, top, last>>

Symmetry == Permutations(Requests) \cup Permutations(Events)
=============================================================================
