---------------------------- MODULE Serializable ----------------------------
(***************************************************************************)
(* run_serializable (transactions.py): the whole operation runs again in a *)
(* fresh SERIALIZABLE transaction when PostgreSQL refuses one.  The        *)
(* operation reads a number and writes it back plus one, the use case that *)
(* goes wrong without the retry.                                           *)
(***************************************************************************)
EXTENDS Integers, FiniteSets

CONSTANTS
    Calls,           \* the calls of run_serializable
    max_attempts     \* the parameter attempts

VARIABLES
    value,           \* the row
    attempt,         \* attempt[c]: counts from 0
    snapshot,        \* snapshot[c]: the value c's transaction has read, or None
    outcome,         \* outcome[c]: "running", "returned" or "raised"
    error,           \* error[c]: the SQLSTATE class c has raised, or None
    applied          \* applied[c]: how often c's operation has taken effect

CONSTANT None

transactions == <<value, attempt, snapshot, outcome, error, applied>>

TransactionsInit ==
    /\ value = 0
    /\ attempt = [c \in Calls |-> 0]
    /\ snapshot = [c \in Calls |-> None]
    /\ outcome = [c \in Calls |-> "running"]
    /\ error = [c \in Calls |-> None]
    /\ applied = [c \in Calls |-> 0]

\* Mutant: every error of the driver is worth another attempt.
Retryable_all(e) == TRUE

\* RETRYABLE_SQLSTATES: serialization_failure and deadlock_detected.
Retryable(e) == e = "conflict"

\* The first statement opens the snapshot; operation(session) reads it.
Read(c) ==
    /\ outcome[c] = "running" /\ snapshot[c] = None
    /\ snapshot' = [snapshot EXCEPT ![c] = value]
    /\ UNCHANGED <<value, attempt, outcome, error, applied>>

Effect(c) ==
    /\ value' = snapshot[c] + 1
    /\ applied' = [applied EXCEPT ![c] = @ + 1]

\* COMMIT, which PostgreSQL grants only if nobody has written the row since.
Commit(c) ==
    /\ snapshot[c] # None /\ snapshot[c] = value
    /\ Effect(c)
    /\ snapshot' = [snapshot EXCEPT ![c] = None]
    /\ outcome' = [outcome EXCEPT ![c] = "returned"]
    /\ UNCHANGED <<attempt, error>>

\* The except clause.  The error leaves both context managers first.
Except(c, e) ==
    /\ snapshot' = [snapshot EXCEPT ![c] = None]
    /\ IF ~Retryable(e) \/ attempt[c] + 1 = max_attempts
       THEN /\ outcome' = [outcome EXCEPT ![c] = "raised"]
            /\ error' = [error EXCEPT ![c] = e]
            /\ UNCHANGED attempt
       ELSE /\ attempt' = [attempt EXCEPT ![c] = @ + 1]
            /\ UNCHANGED <<outcome, error>>

\* 40001 or 40P01 from a statement or from COMMIT.  PostgreSQL must refuse a
\* transaction whose row was written since, and may refuse any other: conflicts are
\* detected conservatively, and deadlocks involve rows not modelled here.
Conflict(c) ==
    /\ snapshot[c] # None
    /\ Except(c, "conflict")
    /\ UNCHANGED <<value, applied>>

\* The connection is lost, or not even opened, before COMMIT has done its work, or
\* it is lost after it.
Disconnect(c) ==
    /\ outcome[c] = "running"
    /\ (snapshot[c] = value /\ Effect(c)) \/ UNCHANGED <<value, applied>>
    /\ Except(c, "connection")

TransactionsNext == \E c \in Calls : Read(c) \/ Commit(c) \/ Conflict(c) \/ Disconnect(c)

-----------------------------------------------------------------------------
(***************************************************************************)
(* A call that returns has taken effect once, one that raises a conflict   *)
(* after its last attempt not at all, and one that raises a lost           *)
(* connection at most once.  The row counts every effect: none is lost to  *)
(* a concurrent call.                                                      *)
(***************************************************************************)
TakesEffectOnce ==
    /\ \A c \in Calls :
        /\ applied[c] <= 1
        /\ outcome[c] = "returned" => applied[c] = 1
        /\ error[c] = "conflict" => applied[c] = 0
    /\ value = Cardinality({c \in Calls : applied[c] = 1})

\* The inductive invariant: only a call that is still running has a transaction,
\* and it has had no effect so far.
CallsFit ==
    /\ value \in Nat
    /\ snapshot \in [Calls -> Nat \cup {None}]
    /\ outcome \in [Calls -> {"running", "returned", "raised"}]
    /\ error \in [Calls -> {None, "conflict", "connection"}]
    /\ applied \in [Calls -> {0, 1}]
    /\ \A c \in Calls :
          /\ snapshot[c] # None => outcome[c] = "running"
          /\ outcome[c] = "running" => applied[c] = 0 /\ error[c] = None
          /\ outcome[c] = "returned" => applied[c] = 1 /\ error[c] = None
=============================================================================
