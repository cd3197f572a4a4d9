----------------------------- MODULE LoginProofs -----------------------------
(***************************************************************************)
(* Logins, rehashes and registrations for any number of handlers at once,  *)
(* any subjects and passwords, and any budgets.                            *)
(***************************************************************************)
EXTENDS Login, FiniteSetTheorems, TLAPS

\* The provers tried for a leaf, with the seconds each one has.
USE ZenonT(3), SMTT(40), ZenonT(40)

(***************************************************************************)
(* What is a hash, and that one under the old parameters is determined by  *)
(* its password (check_password).                                          *)
(***************************************************************************)
LEMMA HashFields ==
    ASSUME NEW p, NEW scheme, NEW salt
    PROVE  /\ Hash(p, scheme, salt).password = p
           /\ Hash(p, scheme, salt).scheme = scheme
BY DEF Hash

\* A hash under the current parameters is one of Hashes, and is not None.
LEMMA CurrentHash ==
    ASSUME NEW p \in Passwords, NEW r \in Requests
    PROVE  Hash(p, "current", r) \in Hashes /\ Hash(p, "current", r) # None
<1>1. Hash(p, "current", r) \in {Hash(x, "current", q) : x \in Passwords, q \in Requests}
  OBVIOUS
<1>2. Hash(p, "current", r) \in Hashes
  BY <1>1 DEF Hashes
<1> QED
  BY <1>2, StoredAssumption

\* Under the old parameters the password is all there is to a hash.
LEMMA LegacyHash ==
    ASSUME NEW h \in Hashes, h.scheme = "legacy"
    PROVE  h = Hash(h.password, "legacy", None)
<1>1. CASE h \in {Hash(p, "legacy", None) : p \in Passwords}
  BY <1>1, HashFields
<1>2. CASE h \in {Hash(p, "current", r) : p \in Passwords, r \in Requests}
  <2>1. PICK p \in Passwords, r \in Requests : h = Hash(p, "current", r)
    BY <1>2
  <2>2. h.scheme = "current"
    BY <2>1, HashFields, Zenon
  <2> QED
    BY <2>2
<1> QED
  BY <1>1, <1>2 DEF Hashes

(***************************************************************************)
(* At the start no handler runs and nobody was told anything.              *)
(***************************************************************************)
LEMMA LoginInit == Init => IInv
<1> SUFFICES ASSUME Init PROVE IInv
  OBVIOUS
<1>1. TypeOK
  BY StoredAssumption DEF Init, TypeOK
<1>2. AnswersStayTrue
  BY DEF Init, AnswersStayTrue
<1>3. \A r \in Requests : HandlerOK(r)
  BY DEF Init, HandlerOK
<1> QED
  BY <1>1, <1>2, <1>3 DEF IInv

-----------------------------------------------------------------------------
(***************************************************************************)
(* Every step but a commit leaves the identities alone, so a handler that  *)
(* does not move keeps its facts as long as nobody locks its subject.      *)
(***************************************************************************)
LEMMA OthersKeep ==
    ASSUME NEW r \in Requests, NEW q \in Requests \ {r}, TypeOK, HandlerOK(q),
           identity' = identity,
           phase'[q] = phase[q], call'[q] = call[q], seen'[q] = seen[q],
           \A p \in Requests \ {r} : written'[p] = written[p] /\ call'[p] = call[p],
           \/ written'[r] = None
           \/ /\ call'[r] = call[r]
              /\ written[r] # None \/ ~Locked(r, call[r].subject)
    PROVE  HandlerOK(q)'
<1>1. ASSUME written[q] # None PROVE ~Locked(q, call[q].subject)'
  <2> DEFINE s == call[q].subject
  <2>1. \A p \in Requests \ {q} : written[p] # None => call[p].subject # s
    BY <1>1 DEF HandlerOK, Locked
  <2>2. written'[r] # None => call'[r].subject # s
    <3>1. CASE written[r] # None /\ call'[r] = call[r]
      BY <2>1, <3>1
    <3>2. CASE ~Locked(r, call[r].subject) /\ call'[r] = call[r]
      BY <1>1, <3>2 DEF Locked
    <3> QED
      BY <3>1, <3>2
  <2>3. \A p \in Requests \ {q} : written'[p] # None => call'[p].subject # s
    BY <2>1, <2>2
  <2> QED
    BY <2>3 DEF Locked
<1> QED
  BY <1>1 DEF HandlerOK, verified, Locked

\* A handler that is over has no facts to keep.
LEMMA OverIsOK ==
    ASSUME NEW r \in Requests, TypeOK, Over(r)
    PROVE  HandlerOK(r)'
BY DEF Over, TypeOK, HandlerOK

(***************************************************************************)
(* Every step of every handler preserves the invariant.                    *)
(***************************************************************************)
LEMMA LoginStep == IInv /\ [Next]_vars => IInv'
<1> SUFFICES ASSUME IInv, [Next]_vars PROVE IInv'
  OBVIOUS
<1> USE DEF IInv
<1>1. CASE UNCHANGED <<identity, handlers, told>>
  <2>1. /\ identity' = identity /\ told' = told /\ phase' = phase
        /\ call' = call /\ seen' = seen /\ written' = written
    BY <1>1 DEF handlers
  <2>2. TypeOK' /\ AnswersStayTrue'
    BY <2>1 DEF TypeOK, AnswersStayTrue, verified
  <2>3. \A r, s : Locked(r, s)' <=> Locked(r, s)
    BY <2>1 DEF Locked
  <2>4. ASSUME NEW r \in Requests PROVE HandlerOK(r)'
    BY <2>1, <2>3 DEF HandlerOK, verified
  <2> QED
    BY <2>2, <2>4
<1>2. ASSUME NEW r \in Requests, Over(r), UNCHANGED <<identity, told>>
      PROVE  IInv'
  <2>1. TypeOK'
    BY <1>2 DEF Over, TypeOK
  <2>2. AnswersStayTrue'
    BY <1>2 DEF AnswersStayTrue, verified
  <2>3. ASSUME NEW q \in Requests \ {r} PROVE HandlerOK(q)'
    BY <1>2, <2>3, OthersKeep DEF Over, TypeOK
  <2> QED
    BY <1>2, <2>1, <2>2, <2>3, OverIsOK
<1>3. ASSUME NEW r \in Requests, NEW c \in Logins, Attempt(r, c) PROVE IInv'
  <2>1. CASE UNCHANGED <<phase, call>>
    BY <1>1, <1>3, <2>1 DEF Attempt, handlers
  <2>2. CASE /\ phase' = [phase EXCEPT ![r] = "lookup"]
             /\ call' = [call EXCEPT ![r] = c]
    <3>1. TypeOK'
      BY <1>3, <2>2 DEF Attempt, TypeOK
    <3>2. AnswersStayTrue'
      BY <1>3 DEF Attempt, AnswersStayTrue, verified
    <3>3. seen[r] = None /\ written[r] = None
      BY <1>3 DEF Attempt, HandlerOK
    <3>4. HandlerOK(r)'
      BY <1>3, <2>2, <3>3 DEF Attempt, HandlerOK, TypeOK
    <3>5. ASSUME NEW q \in Requests \ {r} PROVE HandlerOK(q)'
      BY <1>3, <2>2, <3>3, OthersKeep DEF Attempt, TypeOK
    <3> QED
      BY <3>1, <3>2, <3>4, <3>5
  <2> QED
    BY <1>3, <2>1, <2>2 DEF Attempt
<1>4. ASSUME NEW r \in Requests, NEW c \in Registrations, Register(r, c) PROVE IInv'
  <2>1. TypeOK'
    BY <1>4 DEF Register, TypeOK
  <2>2. AnswersStayTrue'
    BY <1>4 DEF Register, AnswersStayTrue, verified
  <2>3. seen[r] = None /\ written[r] = None
    BY <1>4 DEF Register, HandlerOK
  <2>4. HandlerOK(r)'
    BY <1>4, <2>3 DEF Register, HandlerOK, TypeOK
  <2>5. ASSUME NEW q \in Requests \ {r} PROVE HandlerOK(q)'
    BY <1>4, <2>3, OthersKeep DEF Register, TypeOK
  <2> QED
    BY <2>1, <2>2, <2>4, <2>5
<1>5. ASSUME NEW r \in Requests, Lookup(r) PROVE IInv'
  <2>1. CASE ~verified(call[r].password, identity[call[r].subject])
    BY <1>2, <1>5, <2>1 DEF Lookup
  <2>2. CASE verified(call[r].password, identity[call[r].subject])
    <3> DEFINE hash == identity[call[r].subject]
    <3>1. call[r] \in Logins \cup Registrations /\ hash \in Hashes /\ written[r] = None
      BY <1>5, <2>2, FormsAssumption DEF Lookup, HandlerOK, TypeOK, verified
    <3>2. /\ phase' \in {[phase EXCEPT ![r] = "rehash"], [phase EXCEPT ![r] = "issue"]}
          /\ seen' = [seen EXCEPT ![r] = hash]
          /\ UNCHANGED <<identity, call, written, told>>
          /\ phase'[r] = "rehash" => hash.scheme = "legacy"
      BY <1>5, <2>2 DEF Lookup, replacement_hash, TypeOK
    <3>3. TypeOK'
      BY <3>1, <3>2 DEF TypeOK
    <3>4. AnswersStayTrue'
      BY <3>2 DEF AnswersStayTrue, verified
    <3>5. HandlerOK(r)'
      BY <2>2, <3>1, <3>2 DEF HandlerOK, TypeOK, verified
    <3>6. ASSUME NEW q \in Requests \ {r} PROVE HandlerOK(q)'
      BY <3>1, <3>2, OthersKeep DEF TypeOK
    <3> QED
      BY <3>3, <3>4, <3>5, <3>6
  <2> QED
    BY <2>1, <2>2
<1>6. ASSUME NEW r \in Requests, Rehash(r) PROVE IInv'
  <2>1. /\ phase' = [phase EXCEPT ![r] = "issue"]
        /\ UNCHANGED <<identity, call, seen, told>>
        /\ replace_password_hash(r)
    BY <1>6 DEF Rehash
  <2>2. AnswersStayTrue'
    BY <2>1 DEF AnswersStayTrue, verified
  <2>3. /\ seen[r] \in Hashes /\ seen[r].scheme = "legacy"
        /\ seen[r].password = call[r].password /\ written[r] = None
        /\ call[r] \in Logins \cup Registrations
        /\ verified(call[r].password, seen[r])
        /\ verified(call[r].password, identity[call[r].subject])
    BY <1>6 DEF Rehash, HandlerOK, TypeOK, verified
  <2>4. CASE UNCHANGED written
    <3>1. TypeOK'
      BY <2>1, <2>4 DEF TypeOK
    <3>2. HandlerOK(r)'
      BY <2>1, <2>3, <2>4 DEF HandlerOK, TypeOK, verified
    <3>3. ASSUME NEW q \in Requests \ {r} PROVE HandlerOK(q)'
      BY <2>1, <2>3, <2>4, OthersKeep DEF TypeOK
    <3> QED
      BY <2>2, <3>1, <3>2, <3>3
  <2>5. CASE ~UNCHANGED written
    <3> DEFINE new == Hash(call[r].password, "current", r)
    <3>1. identity[call[r].subject] = seen[r] /\ ~Locked(r, call[r].subject)
      BY <2>1, <2>5 DEF replace_password_hash
    <3>2. written' = [written EXCEPT ![r] = new]
      BY <2>1, <2>3, <2>5, StoredAssumption
         DEF replace_password_hash, replacement_hash, verified
    <3>3. new \in Hashes /\ new # None
      BY <2>3, CurrentHash, FormsAssumption
    <3>4. seen[r] = Hash(call[r].password, "legacy", None)
      BY <2>3, LegacyHash
    <3> HIDE DEF new
    <3>5. TypeOK'
      BY <2>1, <3>2, <3>3 DEF TypeOK
    <3>6. ~Locked(r, call[r].subject)'
      BY <2>1, <3>1, <3>2 DEF Locked, TypeOK
    <3>7. HandlerOK(r)'
      BY <2>1, <2>3, <3>1, <3>2, <3>4, <3>6 DEF HandlerOK, TypeOK, verified, new
    <3>8. ASSUME NEW q \in Requests \ {r} PROVE HandlerOK(q)'
      BY <2>1, <3>1, <3>2, OthersKeep DEF TypeOK
    <3> QED
      BY <2>2, <3>5, <3>7, <3>8
  <2> QED
    BY <2>4, <2>5
<1>7. ASSUME NEW r \in Requests, Issue(r) PROVE IInv'
  <2>1. /\ phase[r] = "issue"
        /\ phase' = [phase EXCEPT ![r] = "answered"]
        /\ told' = told \cup {<<call[r].subject, call[r].password>>}
        /\ UNCHANGED <<identity, call, seen, written>>
    BY <1>7 DEF Issue
  <2>2. /\ call[r] \in Logins \cup Registrations
        /\ verified(call[r].password, identity[call[r].subject])
    BY <2>1 DEF HandlerOK
  <2>3. TypeOK'
    BY <2>1, <2>2, FormsAssumption DEF TypeOK
  <2>4. AnswersStayTrue'
    BY <2>1, <2>2 DEF AnswersStayTrue, verified
  <2>5. HandlerOK(r)'
    BY <2>1, <2>2 DEF HandlerOK, TypeOK, verified, Locked
  <2>6. ASSUME NEW q \in Requests \ {r} PROVE HandlerOK(q)'
    BY <2>1, OthersKeep DEF TypeOK, HandlerOK
  <2> QED
    BY <2>3, <2>4, <2>5, <2>6
<1>8. ASSUME NEW r \in Requests, Insert(r) PROVE IInv'
  <2>1. phase[r] = "insert" /\ add(r) /\ UNCHANGED <<identity, told>>
    BY <1>8 DEF Insert
  <2>2. CASE written'[r] = None
    BY <1>2, <1>8, <2>1, <2>2 DEF Insert
  <2>3. CASE written'[r] # None
    <3> DEFINE new == Hash(call[r].password, "current", r)
    <3>1. phase' = [phase EXCEPT ![r] = "answered"] /\ UNCHANGED <<call, seen>>
      BY <1>8, <2>3 DEF Insert
    <3>2. written[r] = None /\ call[r] \in Logins \cup Registrations
      BY <2>1 DEF HandlerOK
    <3>3. /\ identity[call[r].subject] = None /\ ~Locked(r, call[r].subject)
          /\ written' = [written EXCEPT ![r] = new]
      BY <2>1, <2>3, <3>2 DEF add
    <3>4. new \in Hashes /\ new # None
      BY <3>2, CurrentHash, FormsAssumption
    <3> HIDE DEF new
    <3>5. TypeOK'
      BY <2>1, <3>1, <3>3, <3>4 DEF TypeOK
    <3>6. AnswersStayTrue'
      BY <2>1 DEF AnswersStayTrue, verified
    <3>7. ~Locked(r, call[r].subject)'
      BY <3>1, <3>3 DEF Locked, TypeOK
    <3>8. HandlerOK(r)'
      BY <2>1, <3>1, <3>2, <3>3, <3>7 DEF HandlerOK, TypeOK, verified, new
    <3>9. ASSUME NEW q \in Requests \ {r} PROVE HandlerOK(q)'
      BY <2>1, <3>1, <3>3, OthersKeep DEF TypeOK
    <3> QED
      BY <3>5, <3>6, <3>8, <3>9
  <2> QED
    BY <2>2, <2>3
<1>9. ASSUME NEW r \in Requests, Commit(r) PROVE IInv'
  <2>1. CASE written[r] = None
    BY <1>2, <1>9, <2>1 DEF Commit
  <2>2. CASE written[r] # None
    <3> DEFINE s == call[r].subject
               p == call[r].password
    <3>1. /\ Over(r) /\ identity' = [identity EXCEPT ![s] = written[r]]
          /\ told' = told \cup {<<s, p>>}
      BY <1>9, <2>2 DEF Commit
    <3>2. /\ call[r] \in Logins \cup Registrations
          /\ written[r] = Hash(p, "current", r)
          /\ identity[s] \in {None, Hash(p, "legacy", None)}
          /\ ~Locked(r, s)
      BY <2>2 DEF HandlerOK
    <3>3. s \in Subjects /\ p \in Passwords /\ written[r] \in Hashes
      BY <2>2, <3>2, FormsAssumption DEF TypeOK
    <3>4. written[r].password = p /\ (identity[s] # None => identity[s].password = p)
      <4>1. written[r].password = p
        BY <3>2, HashFields
      <4>2. Hash(p, "legacy", None).password = p
        BY HashFields
      <4> QED
        BY <3>2, <4>1, <4>2
    <3> HIDE DEF s, p
    <3>5. TypeOK'
      BY <3>1, <3>3 DEF TypeOK, Over
    <3>6. /\ \A x \in Passwords, t \in Subjects :
                verified(x, identity[t]) => verified(x, identity'[t])
          /\ verified(p, identity'[s])
      BY <2>2, <3>1, <3>3, <3>4 DEF verified, TypeOK
    <3>7. AnswersStayTrue'
      BY <3>1, <3>3, <3>6 DEF AnswersStayTrue, verified, TypeOK
    <3>8. ASSUME NEW q \in Requests \ {r} PROVE HandlerOK(q)'
      <4>1. /\ phase'[q] = phase[q] /\ call'[q] = call[q] /\ seen'[q] = seen[q]
            /\ written'[q] = written[q]
        BY <3>1 DEF Over, TypeOK
      <4>2. CASE phase[q] = "idle"
        BY <4>1, <4>2 DEF HandlerOK
      <4>3. CASE phase[q] # "idle"
        <5>1. call[q].subject \in Subjects /\ call[q].password \in Passwords
          BY <4>3, FormsAssumption DEF HandlerOK
        <5>2. ASSUME written[q] # None
              PROVE  /\ identity'[call[q].subject] = identity[call[q].subject]
                     /\ ~Locked(q, call[q].subject)'
          <6>1. call[q].subject # s
            BY <3>2, <5>2 DEF Locked
          <6>2. ~Locked(q, call[q].subject)
            BY <5>2 DEF HandlerOK
          <6> QED
            BY <3>1, <5>1, <6>1, <6>2 DEF TypeOK, Locked, Over
        <5>3. seen[q] # None => verified(call[q].password, identity'[call[q].subject])
          BY <3>6, <5>1 DEF HandlerOK
        <5> QED
          BY <4>1, <4>3, <5>2, <5>3 DEF HandlerOK, verified
      <4> QED
        BY <4>2, <4>3
    <3> QED
      BY <3>1, <3>5, <3>7, <3>8, OverIsOK
  <2> QED
    BY <2>1, <2>2
<1>10. ASSUME NEW r \in Requests, Fail(r) PROVE IInv'
  BY <1>2, <1>10 DEF Fail
<1> QED
  BY <1>1, <1>3, <1>4, <1>5, <1>6, <1>7, <1>8, <1>9, <1>10
     DEF Next, Step, vars

(***************************************************************************)
(* IInv holds throughout.                                                  *)
(***************************************************************************)
THEOREM LoginInvariant == Spec => []IInv
BY LoginInit, LoginStep, PTL DEF Spec

(***************************************************************************)
(* A password that a client was told is right stays right (issue_token,    *)
(* create_browser_session, register_identity).                             *)
(***************************************************************************)
THEOREM LoginAnswersStayTrue == Spec => []AnswersStayTrue
BY LoginInvariant, PTL DEF IInv

(***************************************************************************)
(* A stored hash only goes from the old to the current parameters, for the *)
(* same password, whichever rehashes race (replace_password_hash).         *)
(***************************************************************************)
THEOREM LoginHashOnlyImproves == Spec => HashOnlyImproves
<1> DEFINE Improves == \A s \in Subjects :
          identity[s] # None /\ identity'[s] # identity[s] =>
              /\ identity[s].scheme = "legacy"
              /\ identity'[s].scheme = "current"
              /\ identity'[s].password = identity[s].password
<1>1. IInv /\ [Next]_vars => [Improves]_vars
  <2> SUFFICES ASSUME IInv, Next, NEW s \in Subjects,
                      identity[s] # None, identity'[s] # identity[s]
               PROVE  /\ identity[s].scheme = "legacy"
                      /\ identity'[s].scheme = "current"
                      /\ identity'[s].password = identity[s].password
    OBVIOUS
  <2>1. PICK r \in Requests : Commit(r) /\ written[r] # None
    BY DEF Next, Step, Attempt, Register, Lookup, Rehash, Issue, Insert, Commit, Fail
  <2>2. s = call[r].subject /\ identity'[s] = written[r]
    BY <2>1 DEF Commit, IInv, TypeOK
  <2>3. /\ written[r] = Hash(call[r].password, "current", r)
        /\ identity[s] = Hash(call[r].password, "legacy", None)
    <3>1. HandlerOK(r)
      BY DEF IInv
    <3> QED
      BY <2>1, <2>2, <3>1 DEF HandlerOK
  <2> QED
    BY <2>2, <2>3, HashFields
<1> QED
  BY <1>1, LoginInvariant, PTL DEF Spec, HashOnlyImproves

-----------------------------------------------------------------------------
(***************************************************************************)
(* The budgets.  First, what the limiter's operators compute.              *)
(***************************************************************************)

\* A sequence is a function on 1..Len, and its elements are of its set.
LEMMA SeqShape ==
    ASSUME NEW S, NEW q \in Seq(S)
    PROVE  /\ Len(q) \in Nat /\ DOMAIN q = 1..Len(q) /\ q \in [1..Len(q) -> S]
           /\ \A i \in 1..Len(q) : q[i] \in S
OBVIOUS

\* A function on 1..n is a sequence.
LEMMA FunctionIsSeq ==
    ASSUME NEW S, NEW n \in Nat, NEW f \in [1..n -> S]
    PROVE  f \in Seq(S) /\ Len(f) = n
<1>1. f \in Seq(S)
  OBVIOUS
<1>2. DOMAIN f = 1..Len(f) /\ Len(f) \in Nat /\ DOMAIN f = 1..n
  BY <1>1
<1> QED
  BY <1>1, <1>2

\* A sequence over a set is one over a larger set.
LEMMA SeqMonotonic ==
    ASSUME NEW S, NEW T, S \subseteq T
    PROVE  Seq(S) \subseteq Seq(T)
<1>1. SUFFICES ASSUME NEW q \in Seq(S) PROVE q \in Seq(T)
  OBVIOUS
<1>2. Len(q) \in Nat /\ q \in [1..Len(q) -> S]
  BY SeqShape
<1>3. q \in [1..Len(q) -> T]
  BY <1>2
<1> QED
  BY <1>2, <1>3, FunctionIsSeq

\* A set of naturals with an element has a least one.
LEMMA LeastNatural ==
    ASSUME NEW T \in SUBSET Nat, T # {}
    PROVE  \E x \in T : \A y \in T : x <= y
<1> DEFINE R == OpToRel(<, Nat)
<1>1. IsWellFoundedOn(R, Nat)
  BY NatLessThanWellFounded
<1>2. \A x, y \in Nat : x < y => <<x, y>> \in R
  BY DEF OpToRel
<1> HIDE DEF R
<1>3. PICK x \in T : \A y \in T : ~(<<y, x>> \in R)
  BY <1>1, WFMin
<1>4. \A y \in T : ~(y < x)
  BY <1>2, <1>3
<1>5. \A y \in T : x <= y
  BY <1>4
<1> QED
  BY <1>5

\* The least element is Min.
LEMMA MinOfNaturals ==
    ASSUME NEW T \in SUBSET Nat, T # {}
    PROVE  Min(T) \in T /\ \A y \in T : Min(T) <= y
<1>1. PICK x \in T : \A y \in T : x <= y
  BY LeastNatural
<1>2. \E z \in T : \A y \in T : z <= y
  BY <1>1
<1> QED
  BY <1>2, Zenon DEF Min

\* A set of naturals that is bounded has a greatest element, Max.
LEMMA MaxOfNaturals ==
    ASSUME NEW T \in SUBSET Nat, T # {}, NEW n \in Nat, \A y \in T : y <= n
    PROVE  Max(T) \in T /\ \A y \in T : Max(T) >= y
<1> DEFINE U == {n - y : y \in T}
<1>1. \A y \in T : y \in Nat /\ n - y \in Nat
  OBVIOUS
<1>2. U \in SUBSET Nat /\ U # {}
  BY <1>1, Zenon
<1>3. PICK u \in U : \A v \in U : u <= v
  BY <1>2, LeastNatural, Zenon
<1>4. PICK x \in T : u = n - x
  BY <1>3, Zenon
<1>5. \A y \in T : x >= y
  <2>1. ASSUME NEW y \in T PROVE n - x <= n - y
    BY <1>3, <1>4, Zenon
  <2>2. ASSUME NEW y \in T PROVE x >= y
    <3>1. x \in Nat /\ y \in Nat /\ n \in Nat /\ n - x <= n - y
      BY <1>1, <2>1
    <3> QED
      BY ONLY <3>1, SMT
  <2> QED
    BY <2>2
<1>6. \E z \in T : \A y \in T : z >= y
  BY <1>5
<1> QED
  BY <1>6, Zenon DEF Max

\* Ages grow by one and stop at window.
LEMMA OlderIs ==
    ASSUME NEW a \in 0..window
    PROVE  Older(a) = IF a < window THEN a + 1 ELSE window
<1>1. window \in Nat /\ a \in Nat
  BY LimiterAssumption
<1>2. {a + 1, window} \in SUBSET Nat /\ {a + 1, window} # {}
  BY <1>1
<1>3. Min({a + 1, window}) \in {a + 1, window}
      /\ \A y \in {a + 1, window} : Min({a + 1, window}) <= y
  BY <1>2, MinOfNaturals
<1> QED
  BY <1>1, <1>3 DEF Older

\* Rounding a time up to seconds.
LEMMA CeilBounds ==
    ASSUME NEW x \in Nat \ {0}
    PROVE  /\ Ceil(x) \in Nat \ {0}
           /\ Ceil(x) * TicksPerSecond >= x
           /\ (Ceil(x) - 1) * TicksPerSecond < x
           /\ Ceil(x) <= x
<1> DEFINE t == TicksPerSecond
<1>1. t \in Nat \ {0}
  BY LimiterAssumption
<1> HIDE DEF t
<1>2. /\ ((x + t - 1) \div t) \in Int
      /\ ((x + t - 1) \div t) * t >= x
      /\ (((x + t - 1) \div t) - 1) * t < x
  BY <1>1
<1>3. ((x + t - 1) \div t) >= 1
  BY <1>1
<1>4. ((x + t - 1) \div t) <= x
  BY <1>1, <1>2, <1>3
<1> QED
  BY <1>2, <1>3, <1>4 DEF Ceil, t

\* Popping leaves the elements from the first one that is young enough.
LEMMA PoppedEffect ==
    ASSUME NEW q \in Seq(Nat), NEW age \in Nat
    PROVE  \E n \in 0..Len(q) :
              /\ \A i \in 1..n : q[i] >= age
              /\ n < Len(q) => q[n + 1] < age
              /\ Popped(q, age) \in Seq(Nat) /\ Len(Popped(q, age)) = Len(q) - n
              /\ \A i \in 1..(Len(q) - n) : Popped(q, age)[i] = q[n + i]
<1> DEFINE T == {i \in DOMAIN q : q[i] < age} \cup {Len(q) + 1}
           m == Min(T)
<1>1. Len(q) \in Nat /\ DOMAIN q = 1..Len(q) /\ \A i \in 1..Len(q) : q[i] \in Nat
  OBVIOUS
<1>2. T \in SUBSET Nat /\ T # {} /\ \A i \in T : i \in 1..(Len(q) + 1)
  BY <1>1
<1>3. m \in T /\ \A i \in T : m <= i
  BY <1>2, MinOfNaturals
<1>4. m \in 1..(Len(q) + 1) /\ (m <= Len(q) => q[m] < age)
  BY <1>1, <1>2, <1>3
<1>6. Popped(q, age) = SubSeq(q, m, Len(q))
  BY DEF Popped
<1> HIDE DEF m
<1>5. ASSUME NEW i \in 1..(m - 1) PROVE q[i] >= age
  <2>1. i \in 1..Len(q) /\ i < m
    BY <1>1, <1>4
  <2>2. i \notin T
    BY <1>3, <1>4, <2>1
  <2> QED
    BY <1>1, <2>1, <2>2
<1>7. \A i \in m..Len(q) : q[i] \in Nat
  BY <1>1, <1>4
<1>8. /\ SubSeq(q, m, Len(q)) \in Seq(Nat)
      /\ Len(SubSeq(q, m, Len(q))) = IF m <= Len(q) THEN Len(q) - m + 1 ELSE 0
      /\ \A i \in 1..(Len(q) - m + 1) : SubSeq(q, m, Len(q))[i] = q[m + i - 1]
  BY <1>1, <1>4, <1>7
<1>9. Len(Popped(q, age)) = Len(q) - (m - 1)
  BY <1>1, <1>4, <1>6, <1>8
<1>10. \A i \in 1..(Len(q) - (m - 1)) : Popped(q, age)[i] = q[(m - 1) + i]
  BY <1>1, <1>4, <1>6, <1>8
<1>11. m - 1 \in 0..Len(q) /\ (m - 1 < Len(q) => q[(m - 1) + 1] < age)
  BY <1>1, <1>4
<1> QED
  BY <1>5, <1>6, <1>8, <1>9, <1>10, <1>11

-----------------------------------------------------------------------------
(***************************************************************************)
(* The deque and the slots granted in the window.                          *)
(***************************************************************************)

\* The shape of what a budget holds.
LEMMA BudgetShape ==
    ASSUME LimiterFits, NEW k \in Keys
    PROVE  /\ requests[k] \in Seq(Nat) /\ granted[k] \in Seq(Nat)
           /\ Len(requests[k]) \in Nat /\ DOMAIN requests[k] = 1..Len(requests[k])
           /\ Len(granted[k]) \in Nat /\ DOMAIN granted[k] = 1..Len(granted[k])
           /\ \A i \in 1..Len(requests[k]) : requests[k][i] \in 0..window
           /\ \A i \in 1..Len(granted[k]) : granted[k][i] \in 0..(window - 1)
<1>1. requests[k] \in Seq(0..window) /\ granted[k] \in Seq(0..(window - 1))
  BY DEF LimiterFits
<1>2. /\ Len(requests[k]) \in Nat /\ DOMAIN requests[k] = 1..Len(requests[k])
      /\ Len(granted[k]) \in Nat /\ DOMAIN granted[k] = 1..Len(granted[k])
      /\ \A i \in 1..Len(requests[k]) : requests[k][i] \in 0..window
      /\ \A i \in 1..Len(granted[k]) : granted[k][i] \in 0..(window - 1)
  BY <1>1, SeqShape
<1>3. 0..window \subseteq Nat /\ 0..(window - 1) \subseteq Nat
  BY LimiterAssumption
<1> QED
  BY <1>1, <1>2, <1>3, SeqMonotonic

\* What the while loop leaves are the slots granted in the window.
LEMMA PrunedIsGranted ==
    ASSUME LimiterFits, NEW k \in Keys
    PROVE  Pruned(k) = granted[k]
<1> DEFINE q == requests[k]
           g == granted[k]
           old == Len(q) - Len(g)
<1>1. /\ q \in Seq(Nat) /\ Len(q) \in Nat /\ DOMAIN q = 1..Len(q)
      /\ g \in Seq(Nat) /\ Len(g) \in Nat /\ DOMAIN g = 1..Len(g)
  BY BudgetShape
<1>2. window \in Nat
  BY LimiterAssumption
<1>3. /\ old >= 0
      /\ \A i \in 1..Len(q) :
            IF i <= old THEN q[i] = window ELSE q[i] < window /\ q[i] = g[i - old]
  BY <1>1 DEF LimiterFits, BudgetFits
<1>4. Pruned(k) = Popped(q, window)
  BY DEF Pruned, Threshold
<1>5. PICK n \in 0..Len(q) :
         /\ \A i \in 1..n : q[i] >= window
         /\ n < Len(q) => q[n + 1] < window
         /\ Popped(q, window) \in Seq(Nat) /\ Len(Popped(q, window)) = Len(q) - n
         /\ \A i \in 1..(Len(q) - n) : Popped(q, window)[i] = q[n + i]
  BY <1>1, <1>2, PoppedEffect
<1> HIDE DEF q, g
<1>6. n = old
  <2>1. ~(n < old)
    <3>1. n < old => n + 1 \in 1..Len(q) /\ n + 1 <= old /\ n < Len(q)
      BY <1>1, <1>3
    <3> QED
      BY <1>2, <1>3, <1>5, <3>1
  <2>2. ~(n > old)
    <3>1. n > old => old + 1 \in 1..Len(q) /\ ~(old + 1 <= old) /\ old + 1 \in 1..n
      BY <1>1, <1>3
    <3>2. n > old => q[old + 1] < window /\ q[old + 1] >= window
      BY <1>3, <1>5, <3>1
    <3>3. n > old => q[old + 1] \in Nat
      BY <1>1, <3>1
    <3> QED
      BY <1>2, <3>2, <3>3
  <2>3. n \in Int /\ old \in Int
    BY <1>1, <1>5
  <2> HIDE DEF old
  <2> QED
    BY <2>1, <2>2, <2>3
<1>7. Len(Popped(q, window)) = Len(g)
  BY <1>1, <1>5, <1>6
<1>8. ASSUME NEW i \in 1..Len(g) PROVE Popped(q, window)[i] = g[i]
  <2>1. old + i \in 1..Len(q) /\ ~(old + i <= old) /\ (old + i) - old = i
        /\ i \in 1..(Len(q) - n)
    BY <1>1, <1>3, <1>6
  <2>2. q[old + i] = g[(old + i) - old]
    BY <1>3, <2>1
  <2> QED
    BY <1>5, <1>6, <2>1, <2>2
<1>9. Popped(q, window) = g
  BY <1>1, <1>5, <1>7, <1>8
<1> QED
  BY <1>4, <1>9 DEF g

\* Before any slot of a budget is given back, the window holds all of them.
LEMMA InWindowIs ==
    ASSUME LimiterFits, NEW k \in Keys, NEW ticks \in Nat,
           Len(granted[k]) > 0 => granted[k][1] + ticks < window
    PROVE  InWindow(k, ticks) = Len(granted[k])
<1> DEFINE g == granted[k]
<1>1. /\ Len(g) \in Nat /\ DOMAIN g = 1..Len(g) /\ window \in Nat
      /\ \A i \in 1..Len(g) : g[i] \in 0..(window - 1)
  BY BudgetShape, LimiterAssumption
<1>2. \A i, j \in 1..Len(g) : i < j => g[i] >= g[j]
  BY <1>1 DEF LimiterFits, BudgetFits
<1>3. Len(g) > 0 => g[1] + ticks < window
  OBVIOUS
<1> HIDE DEF g
<1>4. ASSUME NEW i \in 1..Len(g) PROVE g[i] + ticks < window
  <2>1. 1 \in 1..Len(g) /\ Len(g) > 0 /\ (i = 1 \/ 1 < i)
    BY <1>1
  <2>2. g[1] >= g[i]
    BY <1>1, <1>2, <2>1
  <2>3. g[1] \in 0..(window - 1) /\ g[i] \in 0..(window - 1)
    BY <1>1, <2>1
  <2> QED
    BY <1>1, <1>3, <2>1, <2>2, <2>3
<1>5. {i \in DOMAIN g : g[i] + ticks < window} = 1..Len(g)
  BY <1>1, <1>4
<1>6. Cardinality(1..Len(g)) = Len(g)
  <2>1. ASSUME NEW n \in Nat PROVE Cardinality(1..n) = n
    <3>1. Cardinality(1..n) = IF 1 > n THEN 0 ELSE n - 1 + 1
      BY FS_Interval
    <3> QED
      BY <3>1
  <2> QED
    BY <1>1, <2>1
<1> QED
  BY <1>5, <1>6 DEF InWindow, g

\* A budget has a slot to give when fewer than limit were granted.
LEMMA FreeIs ==
    ASSUME LimiterFits, NEW k \in Keys
    PROVE  InWindow(k, 0) = Len(granted[k]) /\ (Free(k, 0) <=> Len(granted[k]) < limit)
<1>1. Len(granted[k]) > 0 => granted[k][1] + 0 < window
  <2>1. Len(granted[k]) > 0 => 1 \in 1..Len(granted[k])
    BY BudgetShape
  <2>2. Len(granted[k]) > 0 => granted[k][1] \in 0..(window - 1)
    BY <2>1, BudgetShape
  <2> QED
    BY <2>2, LimiterAssumption
<1>2. InWindow(k, 0) = Len(granted[k])
  BY <1>1, InWindowIs
<1> QED
  BY <1>2 DEF Free

-----------------------------------------------------------------------------
(***************************************************************************)
(* A refusal.                                                              *)
(***************************************************************************)
Justified ==
    ~answer.allowed /\ answer.age = 0 =>
        \E k \in answer.keys :
            /\ ~Free(k, 0)
            /\ answer.retry_after > 1 =>
                  ~Free(k, (answer.retry_after - 1) * TicksPerSecond)

BudgetsInv == LimiterFits /\ Justified

\* Retry-After is the time the latest of the blocked budgets needs.
LEMMA RefusalIs ==
    ASSUME LimiterFits, NEW ks \in SUBSET Keys, Blocked(ks) # {}
    PROVE  LET R == Decision(ks).retry_after IN
           /\ Decision(ks) = [allowed |-> FALSE, keys |-> ks, age |-> 0, retry_after |-> R]
           /\ R \in Nat \ {0}
           /\ \A k \in Blocked(ks) :
                 /\ k \in ks /\ Len(granted[k]) >= limit /\ Len(granted[k]) > 0
                 /\ granted[k][1] \in 0..(window - 1)
                 /\ granted[k][1] + R * TicksPerSecond >= window
           /\ \E k \in Blocked(ks) : R = 1 \/ R = Ceil(window - granted[k][1])
           /\ \A k \in ks \ Blocked(ks) : Len(granted[k]) < limit
<1> DEFINE B == Blocked(ks)
           C == {Ceil(window - h) : h \in {Head(Pruned(k)) : k \in B}}
           R == Max({1} \cup C)
<1>1. window \in Nat \ {0} /\ limit \in Nat \ {0} /\ TicksPerSecond \in Nat \ {0}
  BY LimiterAssumption
<1>2. B = {k \in ks : Len(granted[k]) >= limit}
  BY PrunedIsGranted DEF Blocked
<1>3. \A k \in ks : Len(granted[k]) \in Nat
  BY BudgetShape
<1>4. ASSUME NEW k \in B
      PROVE  /\ k \in ks /\ Len(granted[k]) >= limit /\ Len(granted[k]) > 0
             /\ Head(Pruned(k)) = granted[k][1] /\ granted[k][1] \in 0..(window - 1)
  <2>1. k \in ks /\ Len(granted[k]) >= limit
    BY <1>2
  <2>2. Len(granted[k]) > 0 /\ 1 \in 1..Len(granted[k])
    BY <1>1, <1>3, <2>1
  <2>3. granted[k] # <<>> /\ Head(granted[k]) = granted[k][1]
    BY <2>1, <2>2, BudgetShape
  <2> QED
    BY <2>1, <2>2, <2>3, PrunedIsGranted, BudgetShape
<1>5. C = {Ceil(window - granted[k][1]) : k \in B}
  BY <1>4
<1>6. ASSUME NEW k \in B
      PROVE  /\ window - granted[k][1] \in Nat \ {0} /\ window - granted[k][1] <= window
             /\ Ceil(window - granted[k][1]) \in Nat \ {0}
             /\ Ceil(window - granted[k][1]) <= window
             /\ Ceil(window - granted[k][1]) * TicksPerSecond >= window - granted[k][1]
  <2>1. window - granted[k][1] \in Nat \ {0} /\ window - granted[k][1] <= window
    BY <1>1, <1>4
  <2>2. /\ Ceil(window - granted[k][1]) \in Nat \ {0}
        /\ Ceil(window - granted[k][1]) <= window - granted[k][1]
        /\ Ceil(window - granted[k][1]) * TicksPerSecond >= window - granted[k][1]
    BY <2>1, CeilBounds
  <2> QED
    BY <1>1, <2>1, <2>2
<1> HIDE DEF C, B
<1>7. {1} \cup C \in SUBSET Nat /\ {1} \cup C # {} /\ \A y \in {1} \cup C : y <= window
  BY <1>1, <1>5, <1>6
<1>8. R \in {1} \cup C /\ \A y \in {1} \cup C : R >= y
  BY <1>1, <1>7, MaxOfNaturals
<1>9. Decision(ks) = [allowed |-> FALSE, keys |-> ks, age |-> 0, retry_after |-> R]
  BY DEF Decision, RetryAfter, B, C
<1> HIDE DEF R
<1>10. R \in Nat \ {0}
  BY <1>7, <1>8
<1>11. ASSUME NEW k \in B PROVE granted[k][1] + R * TicksPerSecond >= window
  <2>1. R >= Ceil(window - granted[k][1])
    BY <1>5, <1>8
  <2>2. R * TicksPerSecond >= Ceil(window - granted[k][1]) * TicksPerSecond
    BY <1>1, <1>6, <1>10, <2>1
  <2>3. Ceil(window - granted[k][1]) * TicksPerSecond \in Nat /\ R * TicksPerSecond \in Nat
    BY <1>1, <1>6, <1>10
  <2> QED
    BY <1>1, <1>4, <1>6, <2>2, <2>3
<1>12. \E k \in B : R = 1 \/ R = Ceil(window - granted[k][1])
  BY <1>5, <1>8 DEF B
<1>13. \A k \in ks \ B : Len(granted[k]) < limit
  BY <1>1, <1>2, <1>3
<1>14. Decision(ks).retry_after = R
  BY <1>9
<1> QED
  BY <1>4, <1>9, <1>10, <1>11, <1>12, <1>13, <1>14 DEF B

\* A deque that holds just the slots granted in the window.
LEMMA FreshBudget ==
    ASSUME NEW k \in Keys, NEW g \in Seq(0..(window - 1)), Len(g) <= limit,
           \A i, j \in DOMAIN g : i < j => g[i] >= g[j],
           requests'[k] = g, granted'[k] = g
    PROVE  BudgetFits(k)'
<1>1. Len(g) \in Nat /\ DOMAIN g = 1..Len(g) /\ window \in Nat
  BY LimiterAssumption
<1>2. \A i \in 1..Len(g) : g[i] < window /\ i - 0 = i /\ ~(i <= 0)
  BY <1>1
<1>3. Len(g) - Len(g) = 0
  BY <1>1
<1> QED
  BY <1>1, <1>2, <1>3 DEF BudgetFits

\* A budget that nobody touches fits.
LEMMA SameBudget ==
    ASSUME NEW k \in Keys, BudgetFits(k),
           requests'[k] = requests[k], granted'[k] = granted[k]
    PROVE  BudgetFits(k)'
BY DEF BudgetFits

\* Every budget asked for has a slot, and gives one.
LEMMA AllowKeeps ==
    ASSUME BudgetsInv, NEW ks \in SUBSET Keys, Blocked(ks) = {}, check_many(ks)
    PROVE  BudgetsInv'
<1>1. /\ answer' = Allowed
      /\ requests' = [k \in Keys |-> IF k \in ks THEN Pruned(k) \o <<0>> ELSE requests[k]]
      /\ granted' = [k \in Keys |-> IF k \in ks THEN granted[k] \o <<0>> ELSE granted[k]]
  <2>1. Decision(ks) = Allowed /\ Allowed.allowed
    BY DEF Decision, Allowed
  <2> QED
    BY <2>1 DEF check_many
<1>2. LimiterFits /\ window \in Nat \ {0} /\ limit \in Nat \ {0}
  BY LimiterAssumption DEF BudgetsInv
<1>3. ASSUME NEW k \in ks
      PROVE  LET g == granted[k] \o <<0>> IN
             /\ k \in Keys /\ requests'[k] = g /\ granted'[k] = g
             /\ g \in Seq(0..(window - 1)) /\ Len(g) <= limit
             /\ \A i, j \in DOMAIN g : i < j => g[i] >= g[j]
  <2> DEFINE old == granted[k]
             g == old \o <<0>>
  <2>1. k \in Keys /\ requests'[k] = g /\ granted'[k] = g
    BY <1>1, <1>2, PrunedIsGranted
  <2>2. /\ old \in Seq(0..(window - 1)) /\ Len(old) \in Nat
        /\ \A i \in 1..Len(old) : old[i] \in 0..(window - 1)
    BY <1>2, <2>1, BudgetShape DEF LimiterFits
  <2>3. Len(old) < limit
    BY <1>2, <2>1, <2>2, PrunedIsGranted DEF Blocked
  <2>4. \A i, j \in 1..Len(old) : i < j => old[i] >= old[j]
    BY <1>2, <2>1, BudgetShape DEF LimiterFits, BudgetFits
  <2> HIDE DEF old
  <2>5. <<0>> \in Seq(0..(window - 1)) /\ Len(<<0>>) = 1 /\ <<0>>[1] = 0
    BY <1>2
  <2>6. /\ g \in Seq(0..(window - 1)) /\ Len(g) = Len(old) + 1
        /\ \A i \in 1..(Len(old) + 1) :
              g[i] = IF i <= Len(old) THEN old[i] ELSE <<0>>[i - Len(old)]
    BY <2>2, <2>5
  <2>7. \A i \in 1..Len(old) : g[i] = old[i]
    BY <2>2, <2>6
  <2>8. g[Len(old) + 1] = 0
    <3>1. Len(old) + 1 \in 1..(Len(old) + 1) /\ ~(Len(old) + 1 <= Len(old))
          /\ (Len(old) + 1) - Len(old) = 1
      BY <2>2
    <3> QED
      BY <2>5, <2>6, <3>1
  <2>9. DOMAIN g = 1..(Len(old) + 1)
    BY <2>6
  <2> HIDE DEF g
  <2>10. ASSUME NEW i \in DOMAIN g, NEW j \in DOMAIN g, i < j PROVE g[i] >= g[j]
    <3>1. i \in 1..Len(old) /\ g[i] = old[i] /\ old[i] >= 0
      BY <1>2, <2>2, <2>7, <2>9, <2>10
    <3>2. CASE j \in 1..Len(old)
      BY <2>4, <2>7, <2>10, <3>1, <3>2
    <3>3. CASE j = Len(old) + 1
      BY <2>8, <3>1, <3>3
    <3> QED
      BY <2>2, <2>9, <3>2, <3>3
  <2>11. Len(g) <= limit
    BY <1>2, <2>2, <2>3, <2>6
  <2> QED
    BY <2>1, <2>6, <2>10, <2>11 DEF g, old
<1>4. \A k \in Keys \ ks : requests'[k] = requests[k] /\ granted'[k] = granted[k]
  BY <1>1
<1>5. requests' \in [Keys -> Seq(0..window)] /\ granted' \in [Keys -> Seq(0..(window - 1))]
  <2>1. Seq(0..(window - 1)) \subseteq Seq(0..window)
    <3>1. 0..(window - 1) \subseteq 0..window
      BY <1>2
    <3> QED
      BY <3>1, SeqMonotonic
  <2>2. \A k \in Keys : requests'[k] \in Seq(0..window) /\ granted'[k] \in Seq(0..(window - 1))
    BY <1>2, <1>3, <1>4, <2>1 DEF LimiterFits
  <2> QED
    BY <1>1, <2>2
<1>6. \A k \in Keys : BudgetFits(k)'
  <2>1. \A k \in ks : BudgetFits(k)'
    BY <1>3, FreshBudget
  <2>2. \A k \in Keys \ ks : BudgetFits(k)'
    BY <1>2, <1>4 DEF LimiterFits, BudgetFits
  <2> QED
    BY <2>1, <2>2
<1>7. answer'.allowed /\ answer' \in [allowed : BOOLEAN, keys : SUBSET Keys,
                                      age : 0..window, retry_after : Nat]
  BY <1>1, <1>2 DEF Allowed
<1> QED
  BY <1>5, <1>6, <1>7 DEF BudgetsInv, LimiterFits, Justified

\* Some budget asked for is used up: nothing is taken.
LEMMA RefuseKeeps ==
    ASSUME BudgetsInv, NEW ks \in SUBSET Keys, Blocked(ks) # {}, check_many(ks)
    PROVE  BudgetsInv'
<1> DEFINE B == Blocked(ks)
<1>1. LimiterFits /\ window \in Nat \ {0} /\ limit \in Nat \ {0} /\ TicksPerSecond \in Nat \ {0}
  BY LimiterAssumption DEF BudgetsInv
<1>2. PICK R \in Nat \ {0} :
         /\ Decision(ks) = [allowed |-> FALSE, keys |-> ks, age |-> 0, retry_after |-> R]
         /\ \A k \in B :
               /\ k \in ks /\ Len(granted[k]) >= limit /\ Len(granted[k]) > 0
               /\ granted[k][1] \in 0..(window - 1)
               /\ granted[k][1] + R * TicksPerSecond >= window
         /\ \E k \in B : R = 1 \/ R = Ceil(window - granted[k][1])
         /\ \A k \in ks \ B : Len(granted[k]) < limit
  BY <1>1, RefusalIs
<1> HIDE DEF B
<1>3. /\ answer' = [allowed |-> FALSE, keys |-> ks, age |-> 0, retry_after |-> R]
      /\ requests' = [k \in Keys |-> IF k \in ks THEN Pruned(k) \o <<>> ELSE requests[k]]
      /\ granted' = [k \in Keys |-> IF k \in ks THEN granted[k] \o <<>> ELSE granted[k]]
  <2>1. ~Decision(ks).allowed
    BY <1>2
  <2> QED
    BY <1>2, <2>1 DEF check_many
<1>4. \A k \in Keys : granted[k] \in Seq(Nat) /\ granted[k] \o <<>> = granted[k]
  <2>1. \A k \in Keys : granted[k] \in Seq(Nat)
    BY <1>1, BudgetShape
  <2> QED
    BY <2>1
<1>5. granted' = granted
  BY <1>1, <1>3, <1>4 DEF LimiterFits
<1>6. \A k \in Keys : requests'[k] = IF k \in ks THEN granted[k] ELSE requests[k]
  BY <1>1, <1>3, <1>4, PrunedIsGranted
<1>7. requests' \in [Keys -> Seq(0..window)]
  <2>1. Seq(0..(window - 1)) \subseteq Seq(0..window)
    <3>1. 0..(window - 1) \subseteq 0..window
      BY <1>1
    <3> QED
      BY <3>1, SeqMonotonic
  <2>2. \A k \in Keys : requests'[k] \in Seq(0..window)
    BY <1>1, <1>6, <2>1 DEF LimiterFits
  <2> QED
    BY <1>3, <2>2
<1>8. \A k \in Keys : BudgetFits(k)'
  <2>1. ASSUME NEW k \in ks PROVE BudgetFits(k)'
    <3>1. /\ k \in Keys /\ granted[k] \in Seq(0..(window - 1)) /\ Len(granted[k]) <= limit
          /\ \A i, j \in DOMAIN granted[k] : i < j => granted[k][i] >= granted[k][j]
      BY <1>1 DEF LimiterFits, BudgetFits
    <3>2. requests'[k] = granted[k] /\ granted'[k] = granted[k]
      BY <1>5, <1>6, <3>1
    <3> QED
      BY <3>1, <3>2, FreshBudget
  <2>2. ASSUME NEW k \in Keys \ ks PROVE BudgetFits(k)'
    <3>1. requests'[k] = requests[k] /\ granted'[k] = granted[k] /\ BudgetFits(k)
      BY <1>1, <1>5, <1>6 DEF LimiterFits
    <3> QED
      BY <3>1, SameBudget
  <2> QED
    BY <2>1, <2>2
<1>9. /\ answer' \in [allowed : BOOLEAN, keys : SUBSET Keys, age : 0..window, retry_after : Nat]
      /\ ~answer'.allowed /\ answer'.keys = ks /\ answer'.age = 0 /\ answer'.retry_after = R
  BY <1>1, <1>2, <1>3
<1>10. ASSUME NEW k \in ks PROVE RefusalFits(k)'
  <2>1. \A i \in DOMAIN granted[k] : granted[k][i] >= 0
    BY <1>1, BudgetShape
  <2>2. Len(granted[k]) >= limit => k \in B
    <3>1. k \in Keys /\ Len(granted[k]) \in Nat
      BY <1>1, BudgetShape
    <3>2. Len(granted[k]) < limit => ~(Len(granted[k]) >= limit)
      BY <1>1, <3>1
    <3> QED
      BY <1>2, <3>2
  <2>3. window + 0 = window
    BY <1>1
  <2>4. granted'[k] = granted[k] /\ answer'.age = 0 /\ answer'.retry_after = R
    BY <1>5, <1>9
  <2>5. Len(granted[k]) >= limit =>
           granted[k][1] + R * TicksPerSecond >= window + 0
    BY <1>2, <2>2, <2>3
  <2> QED
    BY <2>1, <2>4, <2>5, Zenon DEF RefusalFits
<1>11. LimiterFits'
  BY <1>1, <1>5, <1>7, <1>8, <1>9, <1>10 DEF LimiterFits
<1>12. Justified'
  <2>1. PICK k \in B : R = 1 \/ R = Ceil(window - granted[k][1])
    BY <1>2
  <2>2. /\ k \in ks /\ k \in Keys /\ Len(granted[k]) >= limit
        /\ granted[k][1] \in 0..(window - 1)
    BY <1>2
  <2>3. ~Free(k, 0)
    BY <1>1, <2>2, FreeIs, BudgetShape
  <2>4. R > 1 => ~Free(k, (R - 1) * TicksPerSecond)
    <3>1. SUFFICES ASSUME R > 1 PROVE ~Free(k, (R - 1) * TicksPerSecond)
      OBVIOUS
    <3>2. R = Ceil(window - granted[k][1])
      BY <2>1, <3>1
    <3>3. window - granted[k][1] \in Nat \ {0}
      BY <1>1, <2>2
    <3>4. (R - 1) * TicksPerSecond < window - granted[k][1]
      BY <3>2, <3>3, CeilBounds
    <3>5. (R - 1) * TicksPerSecond \in Nat
      <4>1. R \in Nat \ {0} /\ TicksPerSecond \in Nat \ {0}
        BY <1>1
      <4> QED
        BY ONLY <4>1, SMT
    <3>6. granted[k][1] + (R - 1) * TicksPerSecond < window
      BY <1>1, <2>2, <3>4, <3>5
    <3>7. InWindow(k, (R - 1) * TicksPerSecond) = Len(granted[k])
      BY <1>1, <2>2, <3>5, <3>6, InWindowIs
    <3> QED
      BY <1>1, <2>2, <3>7, BudgetShape DEF Free
  <2>5. ~Free(k, 0)' /\ (R > 1 => ~Free(k, (R - 1) * TicksPerSecond)')
    BY <1>5, <2>3, <2>4 DEF Free, InWindow
  <2>6. Free(k, (R - 1) * TicksPerSecond)'
           <=> Free(k, (answer.retry_after - 1) * TicksPerSecond)'
    <3>1. (R - 1) * TicksPerSecond = (answer'.retry_after - 1) * TicksPerSecond
      BY <1>9
    <3>2. {i \in DOMAIN granted'[k] : granted'[k][i] + (R - 1) * TicksPerSecond < window}
           = {i \in DOMAIN granted'[k] :
                granted'[k][i] + (answer'.retry_after - 1) * TicksPerSecond < window}
      BY <3>1
    <3> QED
      BY <3>2 DEF Free, InWindow
  <2>7. k \in answer'.keys /\ (answer'.retry_after > 1 => R > 1)
    BY <1>9, <2>2
  <2>8. (~Free(k, 0) /\ (answer.retry_after > 1 =>
                             ~Free(k, (answer.retry_after - 1) * TicksPerSecond)))'
    BY <2>5, <2>6, <2>7
  <2> QED
    BY <2>7, <2>8, Zenon DEF Justified
<1> QED
  BY <1>11, <1>12 DEF BudgetsInv

\* Arithmetic of a tick: a slot no older than one that stays in the window stays, and
\* a refusal ages no faster than the slot it waits for.
LEMMA TickArithmetic ==
    /\ \A w \in Nat : \A x, y \in 0..(w - 1) : x >= y /\ x + 1 < w => y + 1 \in 0..(w - 1)
    /\ \A x, t, w, a, b \in Nat : x + t >= w + a /\ b <= a + 1 => (x + 1) + t >= w + b
OBVIOUS

\* A tick makes every slot older and gives the oldest ones back.
LEMMA TickBudget ==
    ASSUME LimiterFits, Tick, NEW k \in Keys
    PROVE  /\ requests'[k] \in Seq(0..window) /\ granted'[k] \in Seq(0..(window - 1))
           /\ BudgetFits(k)'
           /\ \E n \in 0..Len(granted[k]) :
                 /\ Len(granted'[k]) = Len(granted[k]) - n
                 /\ \A i \in 1..(Len(granted[k]) - n) :
                       granted'[k][i] = granted[k][n + i] + 1
<1> DEFINE q == requests[k]
           g == granted[k]
           a == Aged(g)
           p == Popped(a, window)
           old == Len(q) - Len(g)
<1>1. /\ Len(q) \in Nat /\ DOMAIN q = 1..Len(q) /\ Len(g) \in Nat /\ DOMAIN g = 1..Len(g)
      /\ \A i \in 1..Len(q) : q[i] \in 0..window
      /\ \A i \in 1..Len(g) : g[i] \in 0..(window - 1)
      /\ window \in Nat \ {0}
  BY BudgetShape, LimiterAssumption
<1>2. requests'[k] = Aged(q) /\ granted'[k] = p
  BY DEF Tick
<1>3. /\ old >= 0 /\ Len(g) <= limit
      /\ \A i \in 1..Len(q) :
            IF i <= old THEN q[i] = window ELSE q[i] < window /\ q[i] = g[i - old]
      /\ \A i, j \in 1..Len(g) : i < j => g[i] >= g[j]
  BY <1>1 DEF LimiterFits, BudgetFits
<1>4. /\ Aged(q) \in [1..Len(q) -> 0..window]
      /\ \A i \in 1..Len(q) : Aged(q)[i] = IF q[i] < window THEN q[i] + 1 ELSE window
  <2>1. \A i \in 1..Len(q) : Older(q[i]) = IF q[i] < window THEN q[i] + 1 ELSE window
    BY <1>1, OlderIs
  <2>2. \A i \in 1..Len(q) : Older(q[i]) \in 0..window
    BY <1>1, <2>1
  <2>3. Aged(q) = [i \in 1..Len(q) |-> Older(q[i])]
    BY <1>1 DEF Aged
  <2> QED
    BY <2>1, <2>2, <2>3
<1>5. a \in [1..Len(g) -> Nat] /\ \A i \in 1..Len(g) : a[i] = g[i] + 1 /\ a[i] <= window
  <2>1. \A i \in 1..Len(g) : g[i] \in 0..window /\ g[i] < window
    BY <1>1
  <2>2. \A i \in 1..Len(g) : Older(g[i]) = g[i] + 1
    BY <2>1, OlderIs
  <2>3. a = [i \in 1..Len(g) |-> Older(g[i])]
    BY <1>1 DEF Aged
  <2>4. ASSUME NEW i \in 1..Len(g) PROVE g[i] + 1 \in Nat /\ g[i] + 1 <= window
    <3>1. g[i] \in 0..window /\ g[i] < window /\ window \in Nat
      BY <1>1, <2>1
    <3> QED
      BY ONLY <3>1, SMT
  <2>5. \A i \in 1..Len(g) : a[i] = g[i] + 1
    BY <2>2, <2>3
  <2>6. a \in [1..Len(g) -> Nat]
    BY <2>2, <2>3, <2>4
  <2> QED
    BY <2>4, <2>5, <2>6
<1>6. a \in Seq(Nat) /\ Len(a) = Len(g) /\ Aged(q) \in Seq(0..window) /\ Len(Aged(q)) = Len(q)
  BY <1>1, <1>4, <1>5, FunctionIsSeq
<1>7. PICK n \in 0..Len(a) :
         /\ \A i \in 1..n : a[i] >= window
         /\ n < Len(a) => a[n + 1] < window
         /\ p \in Seq(Nat) /\ Len(p) = Len(a) - n
         /\ \A i \in 1..(Len(a) - n) : p[i] = a[n + i]
  BY <1>1, <1>6, PoppedEffect
<1> HIDE DEF q, g, a, p
<1>8. Len(p) \in Nat /\ DOMAIN p = 1..Len(p)
  BY <1>7
<1>9. ASSUME NEW i \in 1..Len(p)
      PROVE  n + i \in 1..Len(g) /\ p[i] = g[n + i] + 1 /\ p[i] \in 0..(window - 1)
  <2>1. n + i \in 1..Len(g) /\ i \in 1..(Len(a) - n) /\ n + 1 \in 1..Len(g) /\ n < Len(a)
        /\ (n + 1 = n + i \/ n + 1 < n + i)
    <3>1. Len(p) = Len(g) - n /\ n \in 0..Len(g) /\ Len(g) \in Nat /\ Len(a) = Len(g)
          /\ i \in 1..Len(p)
      BY <1>1, <1>6, <1>7
    <3> QED
      BY ONLY <3>1, SMT
  <2>2. p[i] = g[n + i] + 1
    BY <1>5, <1>7, <2>1
  <2>3. g[n + 1] >= g[n + i] /\ g[n + 1] + 1 < window
    <3>1. a[n + 1] = g[n + 1] + 1 /\ a[n + 1] < window
      BY <1>5, <1>7, <2>1
    <3>2. g[n + 1] \in Nat
      <4>1. g[n + 1] \in 0..(window - 1)
        BY <1>1, <2>1
      <4> QED
        BY <4>1
    <3>3. CASE n + 1 = n + i
      BY <3>1, <3>2, <3>3
    <3>4. CASE n + 1 < n + i
      BY <1>3, <2>1, <3>1, <3>4
    <3> QED
      BY <2>1, <3>3, <3>4
  <2>4. g[n + 1] \in 0..(window - 1) /\ g[n + i] \in 0..(window - 1)
    BY <1>1, <2>1
  <2>5. p[i] \in 0..(window - 1)
    <3>1. window \in Nat \ {0}
      BY <1>1
    <3> QED
      BY <2>2, <2>3, <2>4, <3>1, TickArithmetic
  <2> QED
    BY <2>1, <2>2, <2>5
<1>10. p \in Seq(0..(window - 1))
  <2>1. p \in [1..Len(p) -> Nat]
    BY <1>7
  <2>2. p \in [1..Len(p) -> 0..(window - 1)]
    BY <1>9, <2>1
  <2> QED
    BY <1>8, <2>2, FunctionIsSeq
<1>11. BudgetFits(k)'
  <2> DEFINE now == Len(q) - Len(p)
  <2>1. now = old + n /\ now >= 0 /\ Len(p) <= limit /\ n \in Nat /\ n <= Len(g)
    BY <1>1, <1>3, <1>6, <1>7, LimiterAssumption
  <2>2. ASSUME NEW i \in 1..Len(q)
        PROVE  IF i <= now THEN Aged(q)[i] = window
               ELSE Aged(q)[i] < window /\ Aged(q)[i] = p[i - now]
    <3>1. CASE i <= old
      <4>1. Aged(q)[i] = IF q[i] < window THEN q[i] + 1 ELSE window
        BY <1>4
      <4>2. q[i] = window /\ window \in Nat
        BY <1>1, <1>3, <3>1
      <4>3. i <= now
        <5>1. i \in Int /\ old \in Int /\ n \in Nat /\ now = old + n
          BY <1>1, <2>1
        <5> QED
          BY ONLY <3>1, <5>1, SMT
      <4> QED
        BY ONLY <4>1, <4>2, <4>3, SMT
    <3>2. CASE ~(i <= old)
      <4>1. q[i] < window /\ q[i] = g[i - old] /\ i - old \in 1..Len(g)
            /\ Aged(q)[i] = g[i - old] + 1
        BY <1>1, <1>3, <1>4, <3>2
      <4>2. CASE i <= now
        <5>1. i - old \in 1..n
          <6>1. i \in Int /\ old \in Int /\ n \in Nat /\ now = old + n
            BY <1>1, <2>1
          <6> QED
            BY ONLY <3>2, <4>2, <6>1, SMT
        <5>2. a[i - old] >= window /\ a[i - old] = g[i - old] + 1 /\ a[i - old] <= window
          BY <1>5, <1>7, <4>1, <5>1
        <5>3. g[i - old] \in Nat
          BY <1>1, <4>1
        <5> QED
          BY <1>1, <4>1, <4>2, <5>2, <5>3
      <4>3. CASE ~(i <= now)
        <5>1. i - now \in 1..Len(p) /\ n + (i - now) = i - old
          <6>1. /\ Len(q) \in Int /\ Len(p) \in Nat /\ Len(g) \in Int /\ n \in Int /\ i \in Int
                /\ now = old + n /\ i <= Len(q)
            BY <1>1, <1>8, <2>1
          <6> QED
            BY <4>3, <6>1
        <5>2. p[i - now] = g[i - old] + 1 /\ p[i - now] \in 0..(window - 1)
          BY <1>9, <5>1
        <5> QED
          <6>1. p[i - now] < window
            <7>1. window \in Nat
              BY <1>1
            <7> QED
              BY ONLY <5>2, <7>1, SMT
          <6>2. Aged(q)[i] = p[i - now]
            BY <4>1, <5>2
          <6> QED
            BY <4>3, <6>1, <6>2
      <4> QED
        BY <4>2, <4>3
    <3> QED
      BY <3>1, <3>2
  <2>3. ASSUME NEW i \in 1..Len(p), NEW j \in 1..Len(p), i < j PROVE p[i] >= p[j]
    <3>1. n + i < n + j
      BY <1>7, <1>8, <2>1, <2>3
    <3>2. g[n + i] >= g[n + j] /\ g[n + i] \in Nat /\ g[n + j] \in Nat
      <4>1. n + i \in 1..Len(g) /\ n + j \in 1..Len(g)
        BY <1>9
      <4>2. g[n + i] \in 0..(window - 1) /\ g[n + j] \in 0..(window - 1)
        BY <1>1, <4>1
      <4>3. g[n + i] >= g[n + j]
        BY <1>3, <3>1, <4>1
      <4> QED
        BY ONLY <4>2, <4>3, SMT
    <3>3. p[i] = g[n + i] + 1 /\ p[j] = g[n + j] + 1
      BY <1>9
    <3> QED
      BY ONLY <3>2, <3>3, SMT
  <2> QED
    BY <1>1, <1>2, <1>4, <1>6, <1>8, <2>1, <2>2, <2>3 DEF BudgetFits
<1>12. n \in 0..Len(g) /\ Len(p) = Len(g) - n
       /\ \A i \in 1..(Len(g) - n) : p[i] = g[n + i] + 1
  BY <1>6, <1>7, <1>9
<1> QED
  BY <1>2, <1>6, <1>10, <1>11, <1>12 DEF g

\* A tick keeps the budgets, and a refusal one tick older.
LEMMA TickKeeps ==
    ASSUME BudgetsInv, Tick
    PROVE  BudgetsInv'
<1>1. /\ LimiterFits /\ window \in Nat \ {0} /\ limit \in Nat \ {0}
      /\ TicksPerSecond \in Nat \ {0}
      /\ answer \in [allowed : BOOLEAN, keys : SUBSET Keys, age : 0..window, retry_after : Nat]
  BY LimiterAssumption DEF BudgetsInv, LimiterFits
<1>2. /\ answer'.allowed = answer.allowed /\ answer'.keys = answer.keys
      /\ answer'.retry_after = answer.retry_after
      /\ answer'.age = IF answer.age < window THEN answer.age + 1 ELSE window
      /\ answer' \in [allowed : BOOLEAN, keys : SUBSET Keys, age : 0..window, retry_after : Nat]
  <2>1. answer' = [answer EXCEPT !.age = Older(answer.age)]
    BY DEF Tick
  <2>2. answer.age \in 0..window
    BY <1>1
  <2>3. Older(answer.age) = IF answer.age < window THEN answer.age + 1 ELSE window
    BY <2>2, OlderIs
  <2>4. Older(answer.age) \in 0..window
    BY <1>1, <2>2, <2>3
  <2> QED
    BY <1>1, <2>1, <2>3, <2>4
<1>3. answer.age \in Nat /\ answer'.age \in Nat \ {0} /\ answer'.age <= answer.age + 1
      /\ answer.retry_after \in Nat
  BY <1>1, <1>2
<1>4. requests' \in [Keys -> Seq(0..window)] /\ granted' \in [Keys -> Seq(0..(window - 1))]
  <2>1. \A k \in Keys : requests'[k] \in Seq(0..window) /\ granted'[k] \in Seq(0..(window - 1))
    BY <1>1, TickBudget
  <2>2. /\ requests' = [k \in Keys |-> Aged(requests[k])]
        /\ granted' = [k \in Keys |-> Popped(Aged(granted[k]), window)]
    BY DEF Tick
  <2> QED
    BY <2>1, <2>2
<1>5. \A k \in Keys : BudgetFits(k)'
  BY <1>1, TickBudget
<1>6. ASSUME ~answer.allowed, NEW k \in answer.keys PROVE RefusalFits(k)'
  <2> DEFINE g == granted[k]
             h == granted'[k]
             R == answer.retry_after * TicksPerSecond
  <2>1. /\ k \in Keys /\ Len(g) \in Nat /\ DOMAIN g = 1..Len(g) /\ Len(g) <= limit
        /\ \A i \in 1..Len(g) : g[i] \in 0..(window - 1)
    <3>1. k \in Keys
      BY <1>1
    <3> QED
      BY <1>1, <3>1, BudgetShape DEF LimiterFits, BudgetFits
  <2>2. /\ \A i \in 1..Len(g) : g[i] >= answer.age
        /\ Len(g) >= limit => g[1] + R >= window + answer.age
    BY <1>1, <1>6, <2>1 DEF LimiterFits, RefusalFits
  <2>3. PICK n \in 0..Len(g) :
           Len(h) = Len(g) - n /\ \A i \in 1..(Len(g) - n) : h[i] = g[n + i] + 1
    BY <1>1, <2>1, TickBudget
  <2>4. DOMAIN h = 1..Len(h)
    BY <1>4, <2>1
  <2>5. R \in Nat
    BY <1>1, <1>3
  <2> HIDE DEF g, h, R
  <2>6. ASSUME NEW i \in 1..Len(h) PROVE h[i] >= answer'.age
    <3>1. n + i \in 1..Len(g) /\ h[i] = g[n + i] + 1
      BY <2>1, <2>3
    <3>2. g[n + i] >= answer.age /\ g[n + i] \in Nat
      BY <1>1, <2>1, <2>2, <3>1
    <3> QED
      BY <1>3, <3>1, <3>2
  <2>7. ASSUME Len(h) >= limit PROVE h[1] + R >= window + answer'.age
    <3>1. n = 0 /\ Len(g) >= limit /\ 1 \in 1..(Len(g) - n) /\ n + 1 = 1
      BY <1>1, <2>1, <2>3, <2>7
    <3>2. h[1] = g[1] + 1
      BY <2>3, <3>1
    <3>3. g[1] \in Nat
      BY <1>1, <2>1, <3>1
    <3> QED
      <4>1. g[1] + R >= window + answer.age
        BY <2>2, <3>1
      <4>2. /\ window \in Nat /\ answer.age \in Nat /\ answer'.age \in Nat
            /\ answer'.age <= answer.age + 1
        BY <1>1, <1>3
      <4> QED
        BY <2>5, <3>2, <3>3, <4>1, <4>2, TickArithmetic
  <2> QED
    BY <1>2, <2>4, <2>6, <2>7 DEF RefusalFits, h, R
<1>7. LimiterFits'
  BY <1>2, <1>4, <1>5, <1>6 DEF LimiterFits
<1> QED
  BY <1>3, <1>7 DEF BudgetsInv, Justified

-----------------------------------------------------------------------------
\* A handler asks for the budgets of its login, time passes, or nothing happens.
LEMMA BudgetsStep ==
    ASSUME BudgetsInv, [Next]_vars
    PROVE  BudgetsInv'
<1>1. CASE UNCHANGED limiter
  <2>1. requests' = requests /\ granted' = granted /\ answer' = answer
    BY <1>1 DEF limiter
  <2>2. ASSUME NEW k \in Keys, BudgetFits(k) PROVE BudgetFits(k)'
    BY <2>1, <2>2, SameBudget
  <2>3. ASSUME NEW k \in Keys, RefusalFits(k) PROVE RefusalFits(k)'
    BY <2>1, <2>3 DEF RefusalFits
  <2>4. answer.keys \subseteq Keys
    BY DEF BudgetsInv, LimiterFits
  <2>5. LimiterFits'
    BY <2>1, <2>2, <2>3, <2>4 DEF BudgetsInv, LimiterFits
  <2>6. \A k, ticks : Free(k, ticks)' <=> Free(k, ticks)
    BY <2>1 DEF Free, InWindow
  <2>7. Justified'
    BY <2>1, <2>6 DEF BudgetsInv, Justified
  <2> QED
    BY <2>5, <2>7 DEF BudgetsInv
<1>2. CASE Tick
  BY <1>2, TickKeeps
<1>3. ASSUME NEW r \in Requests, NEW c \in Logins, Attempt(r, c) PROVE BudgetsInv'
  <2>1. login_limit_keys(c) \in SUBSET Keys /\ check_many(login_limit_keys(c))
    BY <1>3, KeysAssumption DEF Attempt
  <2> QED
    BY <2>1, AllowKeeps, RefuseKeeps
<1>4. ASSUME NEW r \in Requests, NEW c \in Registrations, Register(r, c)
      PROVE  UNCHANGED limiter
  BY <1>4 DEF Register
<1>5. ASSUME NEW r \in Requests, Step(r) \/ Fail(r) PROVE UNCHANGED limiter
  BY <1>5 DEF Step, Fail, Lookup, Rehash, Issue, Insert, Commit
<1> QED
  BY <1>1, <1>2, <1>3, <1>4, <1>5 DEF Next, vars

\* What is refused is refused rightly, and let in when it was told.
LEMMA ExactBudgets ==
    ASSUME BudgetsInv
    PROVE  BudgetsAreExact
<1>1. /\ LimiterFits /\ window \in Nat \ {0} /\ limit \in Nat \ {0}
      /\ TicksPerSecond \in Nat \ {0}
      /\ answer \in [allowed : BOOLEAN, keys : SUBSET Keys, age : 0..window, retry_after : Nat]
  BY LimiterAssumption DEF BudgetsInv, LimiterFits
<1>2. WindowHolds
  <2>1. \A k \in Keys : Len(granted[k]) <= limit
    BY <1>1 DEF LimiterFits, BudgetFits
  <2> QED
    BY <1>1, <2>1, FreeIs DEF WindowHolds
<1> DEFINE R == answer.retry_after * TicksPerSecond
<1>3. ASSUME ~answer.allowed, answer.age >= Min({R, window}), NEW k \in answer.keys
      PROVE  Free(k, 0)
  <2>1. R \in Nat /\ answer.age \in 0..window /\ k \in Keys
    BY <1>1
  <2> HIDE DEF R
  <2>2. Min({R, window}) \in {R, window}
    <3>1. {R, window} \in SUBSET Nat /\ {R, window} # {}
      BY <1>1, <2>1
    <3> QED
      BY <3>1, MinOfNaturals
  <2>3. /\ Len(granted[k]) \in Nat /\ DOMAIN granted[k] = 1..Len(granted[k])
        /\ \A i \in 1..Len(granted[k]) : granted[k][i] \in 0..(window - 1)
    BY <1>1, <2>1, BudgetShape
  <2>4. /\ \A i \in 1..Len(granted[k]) : granted[k][i] >= answer.age
        /\ Len(granted[k]) >= limit => granted[k][1] + R >= window + answer.age
    BY <1>1, <1>3, <2>3 DEF LimiterFits, RefusalFits, R
  <2>5. ASSUME Len(granted[k]) >= limit PROVE FALSE
    <3>1. 1 \in 1..Len(granted[k])
      BY <1>1, <2>3, <2>5
    <3>2. granted[k][1] \in 0..(window - 1) /\ granted[k][1] >= answer.age
          /\ granted[k][1] + R >= window + answer.age
      BY <2>3, <2>4, <2>5, <3>1
    <3>3. CASE answer.age >= R
      BY <1>1, <2>1, <3>2, <3>3
    <3>4. CASE answer.age >= window
      BY <1>1, <2>1, <3>2, <3>4
    <3> QED
      BY <1>3, <2>2, <3>3, <3>4
  <2> QED
    BY <1>1, <2>1, <2>3, <2>5, FreeIs
<1>4. RetryAfterIsExact
  BY <1>3 DEF RetryAfterIsExact, BudgetsInv, Justified
<1> QED
  BY <1>2, <1>4 DEF BudgetsAreExact

(***************************************************************************)
(* No budget gives more than limit slots in any window, a refusal is       *)
(* justified and its Retry-After exact (check_many), for every limit,      *)
(* window and resolution of the clock and whatever logins combine keys.    *)
(***************************************************************************)
THEOREM LoginBudgetsAreExact == Spec => []BudgetsAreExact
<1>1. Init => BudgetsInv
  <2> SUFFICES ASSUME Init PROVE BudgetsInv
    OBVIOUS
  <2>1. /\ requests = [k \in Keys |-> <<>>] /\ granted = [k \in Keys |-> <<>>]
        /\ answer = Allowed /\ window \in Nat \ {0} /\ limit \in Nat \ {0}
    BY LimiterAssumption DEF Init, LimiterInit
  <2>2. \A S : <<>> \in Seq(S)
    OBVIOUS
  <2>3. Len(<<>>) = 0 /\ DOMAIN <<>> = {}
    OBVIOUS
  <2>4. \A k \in Keys : BudgetFits(k)
    BY <2>1, <2>3 DEF BudgetFits
  <2>5. answer.allowed
        /\ answer \in [allowed : BOOLEAN, keys : SUBSET Keys, age : 0..window, retry_after : Nat]
    BY <2>1 DEF Allowed
  <2> QED
    BY <2>1, <2>2, <2>4, <2>5 DEF BudgetsInv, LimiterFits, Justified
<1>2. BudgetsInv /\ [Next]_vars => BudgetsInv'
  BY BudgetsStep
<1>3. BudgetsInv => BudgetsAreExact
  BY ExactBudgets
<1> QED
  BY <1>1, <1>2, <1>3, PTL DEF Spec
=============================================================================
