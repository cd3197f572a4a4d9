------------------------------ MODULE MCRefresh ------------------------------
(***************************************************************************)
(* Small instances of PgRefresh.  LineSpec begins after a login and two    *)
(* refreshes, so that with five tokens two requests, which draw a fresh    *)
(* token each, can be reuses that lock each other's rows.                  *)
(***************************************************************************)
EXTENDS PgRefresh, TLC

CONSTANTS j1, j2, j3

Symmetry == Permutations(Requests) \cup Permutations(Jtis)

\* A family that has been rotated twice.
Line ==
    [j \in Jtis |->
        CASE j = j1 -> spent(fresh_session(j1), j2)
          [] j = j2 -> spent(fresh_session(j1), j3)
          [] j = j3 -> fresh_session(j1)
          [] OTHER -> None]

LineInit ==
    /\ sessions = Line
    /\ expired = {}
    /\ reused = {}
    /\ phase = [r \in Requests |-> "idle"]
    /\ presented = [r \in Requests |-> None]
    /\ issued = [r \in Requests |-> None]
    /\ write = [r \in Requests |-> NoRows]
    /\ locked = [r \in Requests |-> {}]
    /\ todo = [r \in Requests |-> {}]
    /\ held = {j1, j2, j3}

LineSpec == LineInit /\ [][Next]_vars /\ Fairness
=============================================================================
