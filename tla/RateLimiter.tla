----------------------------- MODULE RateLimiter -----------------------------
(***************************************************************************)
(* SlidingWindowRateLimiter (policy.py), which guards both logins.  A      *)
(* check takes one slot of every budget it names or none, under one lock.  *)
(*                                                                         *)
(* A moment is kept as its age in ticks of a fraction of a second, which   *)
(* stops at window: the code asks no more of older moments.                *)
(***************************************************************************)
EXTENDS Integers, Sequences, FiniteSetsExt

CONSTANTS
    Keys,               \* the budgets
    limit,
    window,             \* in ticks
    TicksPerSecond

ASSUME LimiterAssumption ==
    limit \in Nat \ {0} /\ window \in Nat \ {0} /\ TicksPerSecond \in Nat \ {0}

VARIABLES
    requests,           \* requests[k]: the deque of the slots k has in use
    granted,            \* granted[k]: all checks of k allowed within the window
    answer              \* the latest refusal, if no check has followed it

limiter == <<requests, granted, answer>>

Allowed == [allowed |-> TRUE, keys |-> {}, age |-> window, retry_after |-> 0]

LimiterInit ==
    /\ requests = [k \in Keys |-> <<>>]
    /\ granted = [k \in Keys |-> <<>>]
    /\ answer = Allowed

Ceil(ticks) == (ticks + TicksPerSecond - 1) \div TicksPerSecond

\* Mutant: a slot is given back one tick early.
Threshold_early == window - 1

\* A slot of this age is given back.
Threshold == window

\* The while loop pops from the front what has that age.
Popped(q, age) == SubSeq(q, Min({i \in DOMAIN q : q[i] < age} \cup {Len(q) + 1}), Len(q))

Pruned(k) == Popped(requests[k], Threshold)

\* heads are the oldest slots of the blocked budgets.
RetryAfter(heads) == Max({1} \cup {Ceil(window - h) : h \in heads})

Blocked(ks) == {k \in ks : Len(Pruned(k)) >= limit}

\* The RateLimitDecision of check_many(ks).
Decision(ks) ==
    IF Blocked(ks) = {} THEN Allowed
    ELSE [allowed |-> FALSE, keys |-> ks, age |-> 0,
          retry_after |-> RetryAfter({Head(Pruned(k)) : k \in Blocked(ks)})]

check_many(ks) ==
    LET taken == IF Decision(ks).allowed THEN <<0>> ELSE <<>> IN
    /\ answer' = Decision(ks)
    /\ requests' = [k \in Keys |-> IF k \in ks THEN Pruned(k) \o taken ELSE requests[k]]
    /\ granted' = [k \in Keys |-> IF k \in ks THEN granted[k] \o taken ELSE granted[k]]

Older(age) == Min({age + 1, window})

Aged(q) == [i \in DOMAIN q |-> Older(q[i])]

Tick ==
    /\ requests' = [k \in Keys |-> Aged(requests[k])]
    /\ granted' = [k \in Keys |-> Popped(Aged(granted[k]), window)]
    /\ answer' = [answer EXCEPT !.age = Older(@)]

-----------------------------------------------------------------------------
\* The checks of k allowed in the window that ends in so many ticks.
InWindow(k, ticks) == Cardinality({i \in DOMAIN granted[k] : granted[k][i] + ticks < window})

Free(k, ticks) == InWindow(k, ticks) < limit

(***************************************************************************)
(* Whatever keys are combined with it, no budget gives more than limit     *)
(* slots in any window, at whichever moment the window ends.               *)
(***************************************************************************)
WindowHolds == \A k \in Keys : InWindow(k, 0) <= limit

(***************************************************************************)
(* A refusal is justified and Retry-After is what it takes (429 in         *)
(* issue_token): when it is given, some budget asked for has given all its *)
(* slots, and still will have after one second less; a client that waits   *)
(* that long is let in, unless somebody else has asked meanwhile.          *)
(***************************************************************************)
RetryAfterIsExact ==
    ~answer.allowed =>
        /\ answer.age = 0 =>
              \E k \in answer.keys :
                  /\ ~Free(k, 0)
                  /\ answer.retry_after > 1 =>
                        ~Free(k, (answer.retry_after - 1) * TicksPerSecond)
        /\ answer.age >= Min({answer.retry_after * TicksPerSecond, window}) =>
              \A k \in answer.keys : Free(k, 0)

(***************************************************************************)
(* The inductive invariant: a deque ends with the slots granted in the     *)
(* window, oldest first, behind slots that are to be given back; whoever   *)
(* was refused finds no slot younger than the refusal, and the oldest slot *)
(* of a full budget is given back when Retry-After is over.                *)
(***************************************************************************)
BudgetFits(k) ==
    LET old == Len(requests[k]) - Len(granted[k]) IN
    /\ old >= 0 /\ Len(granted[k]) <= limit
    /\ \A i \in DOMAIN requests[k] :
          IF i <= old THEN requests[k][i] = window
          ELSE requests[k][i] < window /\ requests[k][i] = granted[k][i - old]
    /\ \A i, j \in DOMAIN granted[k] : i < j => granted[k][i] >= granted[k][j]

RefusalFits(k) ==
    /\ \A i \in DOMAIN granted[k] : granted[k][i] >= answer.age
    /\ Len(granted[k]) >= limit =>
          granted[k][1] + answer.retry_after * TicksPerSecond >= window + answer.age

LimiterFits ==
    /\ requests \in [Keys -> Seq(0..window)]
    /\ granted \in [Keys -> Seq(0..(window - 1))]
    /\ answer \in [allowed : BOOLEAN, keys : SUBSET Keys, age : 0..window, retry_after : Nat]
    /\ \A k \in Keys : BudgetFits(k)
    /\ ~answer.allowed => \A k \in answer.keys : RefusalFits(k)

(***************************************************************************)
(* A budget gives neither more than it has nor less, and says when.        *)
(***************************************************************************)
BudgetsAreExact == WindowHolds /\ RetryAfterIsExact
=============================================================================
