--------------------------- MODULE PgRefreshProofs ---------------------------
(***************************************************************************)
(* Logins and refreshes over PostgreSQL, for any number of requests at     *)
(* once and any tokens: what an open transaction holds and writes, and     *)
(* that the sessions of a family are one unbroken line.                    *)
(***************************************************************************)
EXTENDS PgRefresh, TLAPS

\* The provers tried for a leaf, with the seconds each one has.
USE ZenonT(3), SMTT(40), ZenonT(40)

(***************************************************************************)
(* The rows register and rotate make are rows.                             *)
(***************************************************************************)
LEMMA RowShapes ==
    /\ \A f \in Jtis : fresh_session(f) \in RefreshSession
    /\ \A s \in RefreshSession, k \in Jtis : spent(s, k) \in RefreshSession
    /\ \A s \in RefreshSession : revoked(s) \in RefreshSession
    /\ None \notin RefreshSession /\ None \notin Jtis
    /\ NoRows \in [Jtis -> RefreshSession \cup {None}]
    /\ \A j \in Jtis : NoRows[j] = None
BY JtisAssumption, NoSessionAssumption
   DEF RefreshSession, fresh_session, spent, revoked, NoRows

\* At the start no request runs and there is no row.
LEMMA RefreshInit == Init => IInv
<1> SUFFICES ASSUME Init PROVE IInv
  OBVIOUS
<1>1. TypeOK
  BY RowShapes DEF Init, StoreInit, TypeOK, StoreTypeOK, Phases
<1>2. Exclusive
  BY DEF Init, StoreInit, Exclusive, Registered
<1>3. \A r \in Requests : RequestOK(r)
  BY DEF Init, RequestOK
<1> QED
  BY <1>1, <1>2, <1>3 DEF IInv

-----------------------------------------------------------------------------
(***************************************************************************)
(* A request that does not move keeps its facts as long as rows stay and   *)
(* nobody changes those it has locked.                                     *)
(***************************************************************************)
LEMMA OthersKeep ==
    ASSUME NEW q \in Requests, TypeOK, RequestOK(q),
           phase'[q] = phase[q], presented'[q] = presented[q], issued'[q] = issued[q],
           write'[q] = write[q], locked'[q] = locked[q], todo'[q] = todo[q],
           \A j \in Jtis : Registered(j) => sessions'[j] # None,
           \A j \in locked[q] : sessions'[j] = sessions[j]
    PROVE  RequestOK(q)'
<1>1. ASSUME PairWritten(q) PROVE PairWritten(q)'
  BY <1>1 DEF PairWritten, Registered
<1>2. ASSUME RevocationsWritten(q) PROVE RevocationsWritten(q)'
  BY <1>2 DEF RevocationsWritten, Registered, TypeOK
<1> QED
  BY <1>1, <1>2 DEF RequestOK, Registered, TypeOK

(***************************************************************************)
(* A transaction that ends without a commit, whatever it has written       *)
(* (Rollback, DeadlockDetected, Abort).                                    *)
(***************************************************************************)
LEMMA EndKeeps ==
    ASSUME NEW r \in Requests, IInv, EndSession(r), UNCHANGED sessions, reused' \subseteq Jtis
    PROVE  IInv'
<1> USE DEF IInv
<1>1. TypeOK'
  BY RowShapes DEF EndSession, Goto, TypeOK, StoreTypeOK, Phases
<1>2. Exclusive'
  BY DEF EndSession, Goto, TypeOK, Exclusive, Registered
<1>3. RequestOK(r)'
  BY DEF EndSession, Goto, TypeOK, RequestOK
<1>4. ASSUME NEW q \in Requests \ {r} PROVE RequestOK(q)'
  BY OthersKeep DEF EndSession, Goto, TypeOK, Registered
<1> QED
  BY <1>1, <1>2, <1>3, <1>4

(***************************************************************************)
(* A token that is drawn is nobody else's (Login, Present).                *)
(***************************************************************************)
LEMMA StartKeeps ==
    ASSUME NEW r \in Requests, NEW k \in Jtis, IInv, phase[r] = "idle", Fresh(k),
           issued' = [issued EXCEPT ![r] = k],
           UNCHANGED <<store, locked, todo, held>>,
           \/ /\ phase' = [phase EXCEPT ![r] = "returned"]
              /\ write' = [write EXCEPT ![r][k] = fresh_session(k)]
              /\ UNCHANGED presented
              /\ presented[r] = None
           \/ /\ phase' = [phase EXCEPT ![r] = "lock"]
              /\ \E j \in Jtis : presented' = [presented EXCEPT ![r] = j]
              /\ UNCHANGED write
    PROVE  IInv'
<1> USE DEF IInv
<1>1. TypeOK'
  <2>1. write' \in [Requests -> [Jtis -> RefreshSession \cup {None}]]
    <3>1. CASE UNCHANGED write
      BY <3>1 DEF TypeOK
    <3>2. CASE write' = [write EXCEPT ![r][k] = fresh_session(k)]
      <4>1. fresh_session(k) \in RefreshSession
        BY RowShapes
      <4> QED
        BY <3>2, <4>1 DEF TypeOK
    <3> QED
      BY <3>1, <3>2
  <2>2. phase' \in [Requests -> Phases]
    <3>1. "returned" \in Phases /\ "lock" \in Phases
      BY DEF Phases
    <3> QED
      BY <3>1 DEF TypeOK
  <2>3. presented' \in [Requests -> Jtis \cup {None}]
    <3>1. CASE UNCHANGED presented
      BY <3>1 DEF TypeOK
    <3>2. CASE \E j \in Jtis : presented' = [presented EXCEPT ![r] = j]
      BY <3>2 DEF TypeOK
    <3> QED
      BY <3>1, <3>2
  <2> QED
    BY <2>1, <2>2, <2>3 DEF store, TypeOK, StoreTypeOK
<1>2. Exclusive'
  BY DEF store, TypeOK, Exclusive, Registered, Fresh, RequestOK
<1>3. RequestOK(r)'
  <2>1. write[r] = NoRows /\ locked[r] = {}
    BY DEF RequestOK
  <2>2. CASE phase'[r] = "returned"
    BY <2>1, <2>2 DEF TypeOK, RequestOK, PairWritten
  <2>3. CASE phase'[r] = "lock"
    BY <2>1, <2>3 DEF TypeOK, RequestOK
  <2> QED
    BY <2>2, <2>3 DEF TypeOK
<1>4. ASSUME NEW q \in Requests \ {r} PROVE RequestOK(q)'
  BY OthersKeep DEF store, TypeOK, Registered
<1> QED
  BY <1>1, <1>2, <1>3, <1>4

\* SELECT ... FOR UPDATE takes a row nobody has locked, and rotate writes a pair only
\* over a good one.
LEMMA SelectKeeps ==
    ASSUME NEW r \in Requests, IInv, SelectForUpdate(r)
    PROVE  IInv'
<1> USE DEF IInv
<1> DEFINE j == presented[r]
           k == issued[r]
<1>1. /\ phase[r] = "lock" /\ j \in Jtis /\ write[r] = NoRows
      /\ k \in Jtis /\ ~Registered(k) /\ ~LockedByOther(r, j)
      /\ locked' = [locked EXCEPT ![r] = IF Registered(j) THEN {j} ELSE {}]
      /\ UNCHANGED <<store, presented, issued, todo, held>>
  BY DEF SelectForUpdate, Rotate, RequestOK, Exclusive
<1>2. \/ /\ Registered(j) /\ ~IsReuse(sessions[j])
         /\ phase' = [phase EXCEPT ![r] = "returned"]
         /\ write' = [write EXCEPT ![r][j] = spent(sessions[j], k),
                                   ![r][k] = fresh_session(sessions[j].family)]
      \/ /\ phase' = [phase EXCEPT ![r] = "reuse"]
         /\ Registered(j)
         /\ UNCHANGED write
      \/ /\ phase' = [phase EXCEPT ![r] = "denied"]
         /\ UNCHANGED write
  BY DEF SelectForUpdate, Rotate, Goto
<1>3. Registered(j) => sessions[j] \in RefreshSession /\ sessions[j].family \in Jtis
  BY <1>1 DEF TypeOK, StoreTypeOK, Registered, RefreshSession
<1>4. TypeOK'
  <2>1. write' \in [Requests -> [Jtis -> RefreshSession \cup {None}]]
    <3>1. CASE UNCHANGED write
      BY <3>1 DEF TypeOK
    <3>2. CASE Registered(j) /\ write' = [write EXCEPT ![r][j] = spent(sessions[j], k),
                                   ![r][k] = fresh_session(sessions[j].family)]
      <4>1. spent(sessions[j], k) \in RefreshSession
            /\ fresh_session(sessions[j].family) \in RefreshSession
        BY <1>1, <1>3, <3>2, RowShapes
      <4> QED
        BY <1>1, <3>2, <4>1 DEF TypeOK
    <3> QED
      BY <1>2, <3>1, <3>2
  <2>2. phase' \in [Requests -> Phases]
    BY <1>2 DEF TypeOK, Phases
  <2>3. locked' \in [Requests -> SUBSET Jtis]
    BY <1>1 DEF TypeOK
  <2> QED
    BY <1>1, <2>1, <2>2, <2>3 DEF store, TypeOK, StoreTypeOK
<1>5. Exclusive'
  <2>1. /\ locked'[r] \subseteq {j} /\ phase'[r] # "idle" /\ phase[r] # "idle"
        /\ \A q \in Requests \ {r} : locked'[q] = locked[q] /\ phase'[q] = phase[q]
    BY <1>1, <1>2 DEF TypeOK
  <2>2. sessions' = sessions /\ issued' = issued
    BY <1>1 DEF store
  <2>3. \A q \in Requests \ {r} : j \notin locked[q]
    BY <1>1 DEF LockedByOther
  <2>4. \A q, t \in Requests :
           q # t /\ phase'[q] # "idle" /\ phase'[t] # "idle" =>
               issued[q] # issued[t] /\ locked'[q] \cap locked'[t] = {}
    BY <2>1, <2>3 DEF Exclusive
  <2> QED
    BY <2>1, <2>2, <2>4 DEF Exclusive, Registered
<1>6. RequestOK(r)'
  <2>1. CASE phase'[r] = "returned"
    <3>1. /\ Registered(j) /\ ~IsReuse(sessions[j])
          /\ write' = [write EXCEPT ![r][j] = spent(sessions[j], k),
                                    ![r][k] = fresh_session(sessions[j].family)]
      BY <1>1, <1>2, <2>1 DEF TypeOK
    <3>2. write'[r] = [NoRows EXCEPT ![j] = spent(sessions[j], k),
                                     ![k] = fresh_session(sessions[j].family)]
      BY <1>1, <3>1 DEF TypeOK
    <3>3. locked'[r] = {j} /\ presented'[r] = j /\ issued'[r] = k /\ UNCHANGED sessions
      BY <1>1, <3>1 DEF store, TypeOK
    <3>4. PairWritten(r)'
      BY <1>1, <3>1, <3>2, <3>3, RowShapes DEF PairWritten, Registered
    <3> QED
      BY <2>1, <3>1, <3>3, <3>4 DEF RequestOK, Registered
  <2>2. CASE phase'[r] \in {"reuse", "denied"}
    BY <1>1, <1>2, <2>2 DEF store, TypeOK, RequestOK, Registered
  <2> QED
    BY <1>2, <2>1, <2>2 DEF TypeOK
<1>7. ASSUME NEW q \in Requests \ {r} PROVE RequestOK(q)'
  BY <1>1, <1>2, OthersKeep DEF store, TypeOK, Registered
<1> QED
  BY <1>4, <1>5, <1>6, <1>7

\* The UPDATE of a family visits rows that exist and changes only those it has locked.
LEMMA RevokeKeeps ==
    ASSUME NEW r \in Requests, IInv,
           \/ StartRevoking(r)
           \/ \E j \in Jtis : RevokeRow(r, j)
           \/ EndRevoking(r)
    PROVE  IInv'
<1> USE DEF IInv
<1>1. CASE StartRevoking(r)
  <2>1. TypeOK' /\ Exclusive'
    BY <1>1 DEF StartRevoking, Goto, Family, store, TypeOK, StoreTypeOK, Phases,
                Exclusive, Registered
  <2>2. RequestOK(r)'
    BY <1>1, RowShapes DEF StartRevoking, Goto, Family, store, TypeOK, RequestOK,
                RevocationsWritten, Registered
  <2>3. ASSUME NEW q \in Requests \ {r} PROVE RequestOK(q)'
    BY <1>1, OthersKeep DEF StartRevoking, Goto, store, TypeOK, Registered
  <2> QED
    BY <2>1, <2>2, <2>3
<1>2. ASSUME NEW j \in Jtis, RevokeRow(r, j) PROVE IInv'
  <2>1. Registered(j) /\ sessions[j] \in RefreshSession
    BY <1>2 DEF RevokeRow, RequestOK, RevocationsWritten, TypeOK, StoreTypeOK, Registered
  <2>2. TypeOK'
    BY <1>2, <2>1, RowShapes DEF RevokeRow, store, TypeOK, StoreTypeOK
  <2>3. Exclusive'
    <3>1. /\ locked'[r] = locked[r] \cup {j}
          /\ \A q \in Requests \ {r} : locked'[q] = locked[q] /\ j \notin locked[q]
      BY <1>2 DEF RevokeRow, LockedByOther, TypeOK
    <3>2. sessions' = sessions /\ issued' = issued /\ phase' = phase
      BY <1>2 DEF RevokeRow, store
    <3>3. \A q, t \in Requests :
             q # t /\ phase[q] # "idle" /\ phase[t] # "idle" =>
                 issued[q] # issued[t] /\ locked'[q] \cap locked'[t] = {}
      BY <3>1 DEF Exclusive
    <3> QED
      BY <3>2, <3>3 DEF Exclusive, Registered
  <2>4. RevocationsWritten(r)'
    <3>1. /\ RevocationsWritten(r) /\ sessions' = sessions
          /\ todo'[r] \subseteq todo[r] /\ locked'[r] = locked[r] \cup {j}
      BY <1>2 DEF RevokeRow, store, TypeOK, RequestOK
    <3>2. \A i \in Jtis : \/ write'[r][i] = write[r][i]
                          \/ i = j /\ write'[r][i] = revoked(sessions[j])
      BY <1>2 DEF RevokeRow, TypeOK
    <3> QED
      BY <2>1, <3>1, <3>2 DEF RevocationsWritten, Registered
  <2>5. RequestOK(r)'
    BY <1>2, <2>1, <2>4 DEF RevokeRow, store, TypeOK, RequestOK, Registered
  <2>6. ASSUME NEW q \in Requests \ {r} PROVE RequestOK(q)'
    BY <1>2, OthersKeep DEF RevokeRow, store, TypeOK, Registered
  <2> QED
    BY <2>2, <2>3, <2>5, <2>6
<1>3. CASE EndRevoking(r)
  <2>1. TypeOK' /\ Exclusive'
    BY <1>3 DEF EndRevoking, Goto, store, TypeOK, StoreTypeOK, Phases, Exclusive, Registered
  <2>2. RequestOK(r)'
    BY <1>3 DEF EndRevoking, Goto, store, TypeOK, RequestOK, RevocationsWritten, Registered
  <2>3. ASSUME NEW q \in Requests \ {r} PROVE RequestOK(q)'
    BY <1>3, OthersKeep DEF EndRevoking, Goto, store, TypeOK, Registered
  <2> QED
    BY <2>1, <2>2, <2>3
<1> QED
  BY <1>1, <1>2, <1>3

(***************************************************************************)
(* What a commit does to the rows: one new row, and at a refresh the spent *)
(* row that was good.  No other row changes.                               *)
(***************************************************************************)
LEMMA CommitRows ==
    ASSUME NEW r \in Requests, IInv, Commit(r)
    PROVE  LET j == presented[r]
               k == issued[r]
           IN  /\ k \in Jtis /\ sessions[k] = None /\ phase[r] # "idle"
               /\ sessions' \in [Jtis -> RefreshSession \cup {None}]
               /\ \A i \in Jtis \ {j, k} : sessions'[i] = sessions[i]
               /\ \/ j = None /\ sessions'[k] = fresh_session(k)
                  \/ /\ j \in Jtis \ {k} /\ j \in locked[r]
                     /\ sessions[j] \in RefreshSession /\ ~IsReuse(sessions[j])
                     /\ sessions'[j] = spent(sessions[j], k)
                     /\ sessions'[k] = fresh_session(sessions[j].family)
<1> DEFINE j == presented[r]
           k == issued[r]
<1>1. /\ phase[r] = "responded" /\ k \in Jtis /\ sessions[k] = None /\ PairWritten(r)
      /\ sessions' = [i \in Jtis |-> IF write[r][i] = None THEN sessions[i] ELSE write[r][i]]
      /\ j \in Jtis \cup {None}
  BY DEF Commit, IInv, Exclusive, RequestOK, Registered, TypeOK
<1>2. sessions' \in [Jtis -> RefreshSession \cup {None}]
  BY <1>1 DEF IInv, TypeOK, StoreTypeOK
<1>3. CASE j = None
  <2>1. write[r] = [NoRows EXCEPT ![k] = fresh_session(k)] /\ fresh_session(k) # None
    BY <1>1, <1>3, RowShapes DEF PairWritten
  <2>2. /\ sessions'[k] = fresh_session(k)
        /\ \A i \in Jtis \ {j, k} : sessions'[i] = sessions[i]
    BY <1>1, <2>1, RowShapes
  <2> QED
    BY <1>1, <1>2, <1>3, <2>2
<1>4. CASE j # None
  <2>1. /\ j \in locked[r] /\ Registered(j) /\ ~IsReuse(sessions[j])
        /\ write[r] = [NoRows EXCEPT ![j] = spent(sessions[j], k),
                                    ![k] = fresh_session(sessions[j].family)]
    BY <1>1, <1>4 DEF PairWritten
  <2>2. j \in Jtis \ {k} /\ sessions[j] \in RefreshSession
    BY <1>1, <1>4, <2>1 DEF IInv, TypeOK, StoreTypeOK, Registered
  <2>3. sessions[j].family \in Jtis
    BY <2>2 DEF RefreshSession
  <2>4. spent(sessions[j], k) # None /\ fresh_session(sessions[j].family) # None
    BY <1>1, <2>2, <2>3, RowShapes
  <2>5. /\ sessions'[j] = spent(sessions[j], k)
        /\ sessions'[k] = fresh_session(sessions[j].family)
        /\ \A i \in Jtis \ {j, k} : sessions'[i] = sessions[i]
    BY <1>1, <2>1, <2>2, <2>4, RowShapes
  <2> QED
    BY <1>1, <1>2, <2>1, <2>2, <2>5
<1> QED
  BY <1>3, <1>4

\* A row keeps its family for good, and a new one joins a family that is there or
\* begins its own.
LEMMA CommitFamilies ==
    ASSUME NEW r \in Requests, IInv, Commit(r)
    PROVE  /\ \A i \in Jtis : Registered(i) =>
                  sessions'[i] # None /\ sessions'[i].family = sessions[i].family
           /\ sessions'[issued[r]] # None
           /\ \/ sessions'[issued[r]].family = issued[r]
              \/ /\ sessions'[issued[r]].family \in Jtis
                 /\ Registered(sessions'[issued[r]].family)
           /\ \A i \in Jtis \ {issued[r]} : sessions'[i] # None => Registered(i)
<1> DEFINE j == presented[r]
           k == issued[r]
<1>1. /\ k \in Jtis /\ sessions[k] = None
      /\ \A i \in Jtis \ {j, k} : sessions'[i] = sessions[i]
      /\ \/ j = None /\ sessions'[k] = fresh_session(k)
         \/ /\ j \in Jtis \ {k} /\ sessions[j] \in RefreshSession
            /\ sessions'[j] = spent(sessions[j], k)
            /\ sessions'[k] = fresh_session(sessions[j].family)
  BY CommitRows
<1>2. CASE j = None /\ sessions'[k] = fresh_session(k)
  <2>1. fresh_session(k) # None /\ fresh_session(k).family = k
    BY <1>1, RowShapes DEF fresh_session
  <2> QED
    BY <1>1, <1>2, <2>1, JtisAssumption DEF Registered
<1>3. CASE /\ j \in Jtis \ {k} /\ sessions[j] \in RefreshSession
           /\ sessions'[j] = spent(sessions[j], k)
           /\ sessions'[k] = fresh_session(sessions[j].family)
  <2>1. sessions[j].family \in Jtis /\ sessions[j] # None
    BY <1>3, RowShapes DEF RefreshSession
  <2>2. spent(sessions[j], k) # None /\ fresh_session(sessions[j].family) # None
    BY <1>1, <1>3, <2>1, RowShapes
  <2>3. /\ spent(sessions[j], k).family = sessions[j].family
        /\ fresh_session(sessions[j].family).family = sessions[j].family
    BY <1>3 DEF spent, fresh_session, RefreshSession
  <2>4. sessions[sessions[j].family] # None
    BY <1>3, <2>1 DEF IInv, Exclusive, Registered
  <2> QED
    BY <1>1, <1>3, <2>1, <2>2, <2>3, <2>4 DEF Registered
<1> QED
  BY <1>1, <1>2, <1>3

\* A commit changes no row another request has locked, and takes no token from one.
LEMMA CommitKeeps ==
    ASSUME NEW r \in Requests, IInv, Commit(r)
    PROVE  IInv'
<1> USE DEF IInv
<1> DEFINE j == presented[r]
           k == issued[r]
<1>1. /\ k \in Jtis /\ sessions[k] = None /\ phase[r] # "idle"
      /\ sessions' \in [Jtis -> RefreshSession \cup {None}]
      /\ \A i \in Jtis \ {j, k} : sessions'[i] = sessions[i]
      /\ j = None \/ j \in locked[r]
  BY CommitRows
<1>2. EndSession(r) /\ UNCHANGED reused
  BY DEF Commit
<1>3. TypeOK'
  BY <1>1, <1>2, RowShapes DEF EndSession, Goto, TypeOK, StoreTypeOK, Phases
<1>4. ASSUME NEW i \in Jtis, sessions'[i] # None PROVE sessions'[sessions'[i].family] # None
  <2>1. CASE i = k
    BY <1>1, <2>1, CommitFamilies
  <2>2. CASE i # k
    <3>1. Registered(i) /\ sessions'[i].family = sessions[i].family
      BY <1>4, <2>2, CommitFamilies
    <3>2. sessions[i].family \in Jtis /\ Registered(sessions[i].family)
      BY <3>1 DEF Exclusive, TypeOK, StoreTypeOK, Registered, RefreshSession
    <3> QED
      BY <3>1, <3>2, CommitFamilies
  <2> QED
    BY <2>1, <2>2
<1>5. ASSUME NEW q \in Requests \ {r}, phase[q] # "idle"
      PROVE  /\ issued[q] \in Jtis /\ sessions'[issued[q]] = None
             /\ locked[q] \cap locked[r] = {}
  <2>1. /\ issued[q] \in Jtis /\ sessions[issued[q]] = None
        /\ issued[q] # issued[r] /\ locked[q] \cap locked[r] = {}
    BY <1>1, <1>5 DEF Exclusive, Registered
  <2>2. sessions'[issued[q]] # None => Registered(issued[q])
    BY <2>1, CommitFamilies
  <2> QED
    BY <2>1, <2>2 DEF Registered
<1>6. Exclusive'
  BY <1>2, <1>4, <1>5 DEF EndSession, Goto, TypeOK, Exclusive, Registered
<1>7. RequestOK(r)'
  BY <1>2 DEF EndSession, Goto, TypeOK, RequestOK
<1>8. ASSUME NEW q \in Requests \ {r} PROVE RequestOK(q)'
  <2>1. \A i \in locked[q] : i \in Jtis /\ i # k /\ i \notin locked[r]
    BY <1>1, <1>5 DEF RequestOK, Registered, TypeOK
  <2>2. \A i \in locked[q] : sessions'[i] = sessions[i]
    BY <1>1, <2>1, JtisAssumption
  <2>3. \A i \in Jtis : Registered(i) => sessions'[i] # None
    BY CommitFamilies
  <2> QED
    BY <1>2, <2>2, <2>3, OthersKeep DEF EndSession, Goto, TypeOK
<1> QED
  BY <1>3, <1>6, <1>7, <1>8

(***************************************************************************)
(* Every step of every request preserves the invariant.                    *)
(***************************************************************************)
LEMMA RefreshStep == IInv /\ [Next]_vars => IInv'
<1> SUFFICES ASSUME IInv, [Next]_vars PROVE IInv'
  OBVIOUS
<1>1. CASE UNCHANGED vars
  <2>1. TypeOK'
    BY <1>1 DEF vars, store, session, IInv, TypeOK, StoreTypeOK
  <2>2. Exclusive'
    BY <1>1 DEF vars, store, session, IInv, Exclusive, Registered
  <2>3. ASSUME NEW q \in Requests PROVE RequestOK(q)'
    <3>1. TypeOK /\ RequestOK(q)
      BY DEF IInv
    <3> QED
      BY <1>1, <3>1, OthersKeep DEF vars, store, session, Registered
  <2> QED
    BY <2>1, <2>2, <2>3 DEF IInv
<1>2. ASSUME NEW r \in Requests, NEW k \in Jtis, Login(r, k) PROVE IInv'
  <2>1. presented[r] = None
    BY <1>2 DEF Login, IInv, RequestOK
  <2> QED
    BY <1>2, <2>1, StartKeeps DEF Login, Goto
<1>3. ASSUME NEW r \in Requests, NEW j \in Jtis, NEW k \in Jtis, Present(r, j, k) PROVE IInv'
  BY <1>3, StartKeeps DEF Present, Goto
<1>4. ASSUME NEW r \in Requests, SelectForUpdate(r) PROVE IInv'
  BY <1>4, SelectKeeps
<1>5. ASSUME NEW r \in Requests,
             StartRevoking(r) \/ (\E j \in Jtis : RevokeRow(r, j)) \/ EndRevoking(r)
      PROVE  IInv'
  BY <1>5, RevokeKeeps
<1>6. ASSUME NEW r \in Requests, Respond(r) PROVE IInv'
  <2>1. TypeOK' /\ Exclusive'
    BY <1>6 DEF Respond, Goto, store, IInv, TypeOK, StoreTypeOK, Phases, Exclusive, Registered
  <2>2. RequestOK(r)'
    BY <1>6 DEF Respond, Goto, store, IInv, TypeOK, RequestOK, PairWritten, Registered
  <2>3. ASSUME NEW q \in Requests \ {r} PROVE RequestOK(q)'
    BY <1>6, OthersKeep DEF Respond, Goto, store, IInv, TypeOK, Registered
  <2> QED
    BY <2>1, <2>2, <2>3 DEF IInv
<1>7. ASSUME NEW r \in Requests, Commit(r) PROVE IInv'
  BY <1>7, CommitKeeps
<1>8. ASSUME NEW r \in Requests, Rollback(r) PROVE IInv'
  <2>1. reused' \subseteq Jtis
    BY <1>8 DEF Rollback, IInv, TypeOK, StoreTypeOK, RequestOK, Registered, RefreshSession
  <2> QED
    BY <1>8, <2>1, EndKeeps DEF Rollback
<1>9. ASSUME NEW r \in Requests, DeadlockDetected(r) \/ Abort(r) PROVE IInv'
  BY <1>9, EndKeeps DEF DeadlockDetected, Abort, IInv, TypeOK, StoreTypeOK
<1>10. ASSUME NEW j \in Jtis, Expire(j), UNCHANGED <<sessions, reused, session, held>>
       PROVE  IInv'
  <2>1. TypeOK'
    BY <1>10 DEF Expire, session, IInv, TypeOK, StoreTypeOK
  <2>2. Exclusive'
    BY <1>10 DEF session, IInv, Exclusive, Registered
  <2>3. ASSUME NEW q \in Requests PROVE RequestOK(q)'
    <3>1. TypeOK /\ RequestOK(q)
      BY DEF IInv
    <3> QED
      BY <1>10, <3>1, OthersKeep DEF session, Registered
  <2> QED
    BY <2>1, <2>2, <2>3 DEF IInv
<1> QED
  BY <1>1, <1>2, <1>3, <1>4, <1>5, <1>6, <1>7, <1>8, <1>9, <1>10 DEF Next, Step

-----------------------------------------------------------------------------
(***************************************************************************)
(* A commit begins a line or puts the new session behind the good one,     *)
(* which is the end of its line.                                           *)
(***************************************************************************)
LEMMA CommitKeepsLine ==
    ASSUME NEW r \in Requests, IInv, LineIsUnbroken, Commit(r)
    PROVE  LineIsUnbroken'
<1> DEFINE j == presented[r]
           k == issued[r]
<1>1. /\ k \in Jtis /\ sessions[k] = None
      /\ sessions' \in [Jtis -> RefreshSession \cup {None}]
      /\ \A i \in Jtis \ {j, k} : sessions'[i] = sessions[i]
      /\ \/ j = None /\ sessions'[k] = fresh_session(k)
         \/ /\ j \in Jtis \ {k} /\ sessions[j] \in RefreshSession /\ ~IsReuse(sessions[j])
            /\ sessions'[j] = spent(sessions[j], k)
            /\ sessions'[k] = fresh_session(sessions[j].family)
  BY CommitRows
<1>2. /\ sessions \in [Jtis -> RefreshSession \cup {None}]
      /\ \A i \in Jtis : sessions[i] # None =>
            /\ sessions[i].family \in Jtis \ {k}
            /\ sessions[i].replacement # k
  <2>1. sessions \in [Jtis -> RefreshSession \cup {None}]
    BY DEF IInv, TypeOK, StoreTypeOK
  <2>2. ASSUME NEW i \in Jtis, sessions[i] # None
        PROVE  sessions[i].family \in Jtis \ {k} /\ sessions[i].replacement # k
    <3>1. sessions[i].family \in Jtis
      BY <2>1, <2>2 DEF RefreshSession
    <3>2. sessions[sessions[i].family] # None
      BY <2>2 DEF IInv, Exclusive, Registered
    <3>3. sessions[i].replacement # None => sessions[sessions[i].replacement] # None
      BY <2>2 DEF LineIsUnbroken, Registered, Family
    <3> QED
      BY <1>1, <3>1, <3>2, <3>3, JtisAssumption
  <2> QED
    BY <2>1, <2>2
<1>3. \A h, i \in Jtis :
         /\ sessions[h] # None /\ ~IsReuse(sessions[h])
         /\ sessions[i] # None /\ ~IsReuse(sessions[i])
         /\ sessions[h].family = sessions[i].family
         => h = i
  BY Zenon DEF LineIsUnbroken, OneActivePerFamily, Registered
<1>4. \A i \in Jtis : sessions[i] # None =>
         /\ sessions[i].used <=> sessions[i].replacement # None
         /\ sessions[i].used =>
               /\ sessions[i].replacement \in Jtis
               /\ sessions[sessions[i].replacement] # None
               /\ sessions[sessions[i].replacement].family = sessions[i].family
  BY DEF LineIsUnbroken, Registered, Family
<1>5. \A i \in Jtis : sessions[i] # None /\ i # sessions[i].family =>
         \E h \in Jtis : /\ sessions[h] # None /\ sessions[h].family = sessions[i].family
                        /\ sessions[h].replacement = i
  BY DEF LineIsUnbroken, Registered, Family
<1>6. \A h, i \in Jtis :
         /\ sessions[h] # None /\ sessions[i] # None
         /\ sessions[h].used /\ sessions[h].replacement = sessions[i].replacement
         => h = i
  BY Zenon DEF LineIsUnbroken, Registered
<1> DEFINE InFamily(i, g) == i \in Jtis /\ sessions'[i] # None /\ sessions'[i].family = g
<1>7. CASE j = None /\ sessions'[k] = fresh_session(k)
  <2>1. \A i \in Jtis \ {k} : sessions'[i] = sessions[i]
    BY <1>1, <1>7, JtisAssumption
  <2>2. /\ sessions'[k] # None /\ sessions'[k].family = k /\ ~sessions'[k].used
        /\ sessions'[k].replacement = None
    <3>1. fresh_session(k) # None
      BY <1>1, RowShapes
    <3> QED
      BY <1>7, <3>1 DEF fresh_session
  <2>3. OneActivePerFamily'
    <3> SUFFICES ASSUME NEW h \in Jtis, NEW i \in Jtis,
                        sessions'[h] # None, ~IsReuse(sessions'[h]),
                        sessions'[i] # None, ~IsReuse(sessions'[i]),
                        sessions'[h].family = sessions'[i].family
                 PROVE  h = i
      BY DEF OneActivePerFamily, Registered
    <3>1. \A m \in Jtis \ {k} : sessions'[m] # None => sessions'[m].family # k
      BY <1>2, <2>1
    <3>2. CASE h # k /\ i # k
      <4>1. sessions'[h] = sessions[h] /\ sessions'[i] = sessions[i]
        BY <2>1, <3>2
      <4> QED
        BY <1>3, <4>1
    <3> QED
      BY <2>2, <3>1, <3>2
  <2>4. \A i \in Jtis : sessions'[i] # None =>
           /\ sessions'[i].used <=> sessions'[i].replacement # None
           /\ sessions'[i].used => InFamily(sessions'[i].replacement, sessions'[i].family)
           /\ i # sessions'[i].family =>
                 \E h \in Jtis : InFamily(h, sessions'[i].family) /\ sessions'[h].replacement = i
    <3> SUFFICES ASSUME NEW i \in Jtis, sessions'[i] # None
                 PROVE  /\ sessions'[i].used <=> sessions'[i].replacement # None
                        /\ sessions'[i].used => InFamily(sessions'[i].replacement, sessions'[i].family)
                        /\ i # sessions'[i].family =>
                              \E h \in Jtis : /\ InFamily(h, sessions'[i].family)
                                             /\ sessions'[h].replacement = i
      OBVIOUS
    <3>1. CASE i = k
      BY <2>2, <3>1
    <3>2. CASE i # k
      <4>1. sessions'[i] = sessions[i] /\ sessions[i] # None
        BY <2>1, <3>2
      <4>2. \A m \in Jtis : sessions[m] # None => m # k /\ sessions'[m] = sessions[m]
        BY <1>1, <2>1
      <4>3. /\ sessions[i].used <=> sessions[i].replacement # None
            /\ sessions[i].used => InFamily(sessions[i].replacement, sessions[i].family)
        BY <1>4, <4>1, <4>2
      <4>4. i # sessions[i].family =>
               \E h \in Jtis : InFamily(h, sessions[i].family) /\ sessions'[h].replacement = i
        BY <1>5, <4>1, <4>2
      <4> QED
        BY <4>1, <4>3, <4>4
    <3> QED
      BY <3>1, <3>2
  <2>5. \A h, i \in Jtis :
           /\ sessions'[h] # None /\ sessions'[i] # None
           /\ sessions'[h].used /\ sessions'[h].replacement = sessions'[i].replacement
           => h = i
    <3> SUFFICES ASSUME NEW h \in Jtis, NEW i \in Jtis,
                        sessions'[h] # None, sessions'[i] # None, sessions'[h].used,
                        sessions'[h].replacement = sessions'[i].replacement
                 PROVE  h = i
      OBVIOUS
    <3>1. h # k /\ sessions'[h] = sessions[h]
      BY <2>1, <2>2
    <3>2. sessions[h].replacement # None
      BY <1>4, <3>1
    <3>3. i # k /\ sessions'[i] = sessions[i]
      BY <2>1, <2>2, <3>1, <3>2
    <3> QED
      BY <1>6, <3>1, <3>3
  <2>6. \A i \in Jtis : Registered(i)' =>
           /\ sessions'[i].used <=> sessions'[i].replacement # None
           /\ sessions'[i].used => sessions'[i].replacement \in Family(sessions[i].family)'
           /\ i # sessions'[i].family =>
                 \E h \in Family(sessions[i].family)' : sessions'[h].replacement = i
    <3>1. \A h, g : InFamily(h, g) <=> h \in {m \in Jtis : sessions'[m] # None
                                                       /\ sessions'[m].family = g}
      OBVIOUS
    <3> HIDE DEF InFamily
    <3> QED
      BY <2>4, <3>1 DEF Registered, Family
  <2> QED
    BY <2>3, <2>5, <2>6 DEF LineIsUnbroken, Registered
<1>8. CASE /\ j \in Jtis \ {k} /\ sessions[j] \in RefreshSession /\ ~IsReuse(sessions[j])
           /\ sessions'[j] = spent(sessions[j], k)
           /\ sessions'[k] = fresh_session(sessions[j].family)
  <2> DEFINE f == sessions[j].family
  <2>1. /\ \A i \in Jtis \ {j, k} : sessions'[i] = sessions[i]
        /\ f \in Jtis \ {k} /\ sessions[j] # None /\ sessions[j].replacement = None
        /\ ~sessions[j].used
    BY <1>1, <1>2, <1>4, <1>8, NoSessionAssumption DEF IsReuse
  <2>2. /\ sessions'[k] # None /\ sessions'[k].family = f /\ ~sessions'[k].used
        /\ sessions'[k].replacement = None
    <3>1. fresh_session(f) # None
      BY <2>1, RowShapes
    <3> QED
      BY <1>8, <3>1 DEF fresh_session
  <2>3. /\ sessions'[j] # None /\ sessions'[j].family = f /\ sessions'[j].used
        /\ sessions'[j].replacement = k
    <3>1. spent(sessions[j], k) # None
      <4>1. k \in Jtis /\ sessions[j] \in RefreshSession
        BY <1>1, <1>8
      <4>2. spent(sessions[j], k) \in RefreshSession
        BY <4>1, RowShapes, Zenon
      <4> QED
        BY <4>2, NoSessionAssumption, Zenon
    <3> QED
      BY <1>8, <3>1 DEF spent, RefreshSession
  <2>4. OneActivePerFamily'
    <3> SUFFICES ASSUME NEW h \in Jtis, NEW i \in Jtis,
                        sessions'[h] # None, ~IsReuse(sessions'[h]),
                        sessions'[i] # None, ~IsReuse(sessions'[i]),
                        sessions'[h].family = sessions'[i].family
                 PROVE  h = i
      BY DEF OneActivePerFamily, Registered
    <3>1. h # j /\ i # j
      BY <2>3 DEF IsReuse
    <3>2. \A m \in Jtis : /\ sessions[m] # None /\ ~IsReuse(sessions[m])
                          /\ sessions[m].family = f
                          => m = j
      BY <1>3, <1>8, <2>1
    <3>3. h = k => i = k
      BY <2>1, <2>2, <3>1, <3>2
    <3>4. i = k => h = k
      BY <2>1, <2>2, <3>1, <3>2
    <3>5. CASE h # k /\ i # k
      <4>1. sessions'[h] = sessions[h] /\ sessions'[i] = sessions[i]
        BY <2>1, <3>1, <3>5
      <4> QED
        BY <1>3, <4>1
    <3> QED
      BY <3>3, <3>4, <3>5
  <2> HIDE DEF f
  <2>5. ASSUME NEW i \in Jtis, sessions'[i] # None
        PROVE  /\ sessions'[i].used <=> sessions'[i].replacement # None
               /\ sessions'[i].used => InFamily(sessions'[i].replacement, sessions'[i].family)
               /\ i # sessions'[i].family =>
                     \E h \in Jtis : InFamily(h, sessions'[i].family) /\ sessions'[h].replacement = i
    <3>1. CASE i = k
      BY <1>1, <1>8, <2>2, <2>3, <3>1
    <3>2. CASE i = j
      <4>1. ASSUME j # f
            PROVE  \E h \in Jtis : InFamily(h, f) /\ sessions'[h].replacement = j
        <5>1. PICK h \in Jtis : sessions[h] # None /\ sessions[h].family = f
                                /\ sessions[h].replacement = j
          BY <1>5, <1>8, <2>1, <4>1 DEF f
        <5>2. h # j /\ h # k
          BY <1>1, <1>8, <2>1, <5>1, JtisAssumption
        <5> QED
          BY <2>1, <5>1, <5>2
      <4> QED
        BY <1>1, <2>3, <2>2, <3>2, <4>1, JtisAssumption
    <3>3. CASE i \notin {j, k}
      <4>1. sessions'[i] = sessions[i] /\ sessions[i] # None
        BY <2>1, <2>5, <3>3
      <4>2. sessions[i].used <=> sessions[i].replacement # None
        BY <1>4, <4>1
      <4>3. ASSUME sessions[i].used
            PROVE  InFamily(sessions[i].replacement, sessions[i].family)
        <5> DEFINE m == sessions[i].replacement
        <5>1. m \in Jtis /\ sessions[m] # None /\ sessions[m].family = sessions[i].family
          BY <1>4, <4>1, <4>3
        <5>2. m # k
          BY <1>1, <5>1
        <5>3. CASE m = j
          BY <2>3, <5>1, <5>3 DEF f
        <5>4. CASE m # j
          BY <2>1, <5>1, <5>2, <5>4
        <5> QED
          BY <5>3, <5>4
      <4>4. ASSUME i # sessions[i].family
            PROVE  \E h \in Jtis : InFamily(h, sessions[i].family) /\ sessions'[h].replacement = i
        <5>1. PICK h \in Jtis : /\ sessions[h] # None /\ sessions[h].family = sessions[i].family
                                /\ sessions[h].replacement = i
          BY <1>5, <4>1, <4>4
        <5>2. h # j /\ h # k
          BY <1>1, <2>1, <5>1, RowShapes
        <5> QED
          BY <2>1, <5>1, <5>2
      <4> QED
        BY <4>1, <4>2, <4>3, <4>4
    <3> QED
      BY <3>1, <3>2, <3>3
  <2>6. \A h, i \in Jtis :
           /\ sessions'[h] # None /\ sessions'[i] # None
           /\ sessions'[h].used /\ sessions'[h].replacement = sessions'[i].replacement
           => h = i
    <3> SUFFICES ASSUME NEW h \in Jtis, NEW i \in Jtis,
                        sessions'[h] # None, sessions'[i] # None, sessions'[h].used,
                        sessions'[h].replacement = sessions'[i].replacement
                 PROVE  h = i
      OBVIOUS
    <3>1. h # k
      BY <2>2
    <3>2. CASE h = j
      <4>1. sessions'[i].replacement = k
        BY <2>3, <3>2
      <4>2. i # k
        BY <1>1, <2>2, <4>1, JtisAssumption
      <4> QED
        BY <1>2, <2>1, <3>2, <4>1, <4>2
    <3>3. CASE h # j
      <4>1. sessions'[h] = sessions[h] /\ sessions[h].replacement # None
            /\ sessions[h].replacement # k
        BY <1>2, <1>4, <2>1, <3>1, <3>3
      <4>2. i # k /\ i # j
        BY <2>2, <2>3, <4>1
      <4>3. sessions'[i] = sessions[i]
        BY <2>1, <4>2
      <4> QED
        BY <1>6, <4>1, <4>3
    <3> QED
      BY <3>2, <3>3
  <2>7. \A i \in Jtis : Registered(i)' =>
           /\ sessions'[i].used <=> sessions'[i].replacement # None
           /\ sessions'[i].used => sessions'[i].replacement \in Family(sessions[i].family)'
           /\ i # sessions'[i].family =>
                 \E h \in Family(sessions[i].family)' : sessions'[h].replacement = i
    <3>1. \A h, g : InFamily(h, g) <=> h \in {m \in Jtis : sessions'[m] # None
                                                       /\ sessions'[m].family = g}
      OBVIOUS
    <3> HIDE DEF InFamily
    <3> QED
      BY <2>5, <3>1 DEF Registered, Family
  <2> QED
    BY <2>4, <2>6, <2>7 DEF LineIsUnbroken, Registered
<1> QED
  BY <1>1, <1>7, <1>8

-----------------------------------------------------------------------------
(***************************************************************************)
(* The inductive invariant of logins and refreshes holds for ever: what    *)
(* an open transaction has locked and written fits the rows as they are.   *)
(***************************************************************************)
THEOREM RefreshInvariant == Spec => []IInv
BY RefreshInit, RefreshStep, PTL DEF Spec

(***************************************************************************)
(* The sessions of a family are one unbroken line of which only the end    *)
(* can be good, however many presentations of its tokens race, time out,   *)
(* abort or deadlock (SqlAlchemyRefreshSessionRepository.rotate).          *)
(***************************************************************************)
THEOREM RefreshLineIsUnbroken == Spec => []LineIsUnbroken
<1>1. Init => LineIsUnbroken
  BY DEF Init, StoreInit, LineIsUnbroken, OneActivePerFamily, Registered
<1>2. IInv /\ LineIsUnbroken /\ [Next]_vars => LineIsUnbroken'
  <2> SUFFICES ASSUME IInv, LineIsUnbroken, [Next]_vars PROVE LineIsUnbroken'
    OBVIOUS
  <2>1. CASE UNCHANGED sessions
    <3>1. OneActivePerFamily'
      BY <2>1 DEF LineIsUnbroken, OneActivePerFamily, Registered
    <3>2. \A g \in Jtis : Family(g)' = Family(g)
      BY <2>1 DEF Family, Registered
    <3>3. \A j \in Jtis : Registered(j)' <=> Registered(j)
      BY <2>1 DEF Registered
    <3>4. \A i \in Jtis : Registered(i) => sessions[i].family \in Jtis
      BY DEF IInv, TypeOK, StoreTypeOK, Registered, RefreshSession
    <3> QED
      BY <2>1, <3>1, <3>2, <3>3, <3>4 DEF LineIsUnbroken
  <2>2. CASE \E r \in Requests : Commit(r)
    BY <2>2, CommitKeepsLine
  <2>3. UNCHANGED sessions \/ \E r \in Requests : Commit(r)
    <3>1. ASSUME NEW r \in Requests, Step(r) PROVE UNCHANGED sessions \/ Commit(r)
      <4>1. CASE DeadlockDetected(r)
        BY <4>1, Zenon DEF DeadlockDetected
      <4>2. CASE SelectForUpdate(r)
        BY <4>2 DEF SelectForUpdate, Rotate, store
      <4>3. CASE StartRevoking(r) \/ (\E j \in Jtis : RevokeRow(r, j)) \/ EndRevoking(r)
        BY <4>3 DEF StartRevoking, RevokeRow, EndRevoking, store
      <4>4. CASE Respond(r) \/ Rollback(r)
        BY <4>4 DEF Respond, Rollback, store
      <4> QED
        BY <3>1, <4>1, <4>2, <4>3, <4>4, Zenon DEF Step
    <3>2. ASSUME NEW r \in Requests, NEW k \in Jtis,
                 Login(r, k) \/ \E j \in Jtis : Present(r, j, k)
          PROVE  UNCHANGED sessions
      BY <3>2 DEF Login, Present, store
    <3>3. ASSUME NEW r \in Requests, Abort(r) PROVE UNCHANGED sessions
      BY <3>3 DEF Abort
    <3> QED
      BY <3>1, <3>2, <3>3 DEF Next, vars, store
  <2> QED
    BY <2>1, <2>2, <2>3
<1> QED
  BY <1>1, <1>2, RefreshInvariant, PTL DEF Spec

(***************************************************************************)
(* No row is written from a stale read: whoever is about to write a row    *)
(* has it locked, and what it writes is made of the row as it is (the FOR  *)
(* UPDATE of rotate and the UPDATE of a family).                           *)
(***************************************************************************)
THEOREM RefreshWrittenRowsAreCurrent == Spec => []WrittenRowsAreCurrent
<1>1. IInv => WrittenRowsAreCurrent
  <2> SUFFICES ASSUME IInv, NEW r \in Requests, NEW j \in Jtis,
                      write[r][j] # None, Registered(j)
               PROVE  /\ j \in locked[r]
                      /\ write[r][j] \in {spent(sessions[j], issued[r]), revoked(sessions[j])}
    BY DEF WrittenRowsAreCurrent
  <2>1. CASE phase[r] \in {"idle", "lock", "reuse", "denied"}
    BY <2>1, RowShapes DEF IInv, RequestOK
  <2>2. CASE phase[r] \in {"returned", "responded"}
    <3>1. PairWritten(r) /\ ~Registered(issued[r])
      BY <2>2 DEF IInv, RequestOK, Exclusive
    <3>2. j = presented[r] /\ presented[r] # None
      <4>1. j # issued[r] /\ NoRows[j] = None
        BY <3>1, RowShapes
      <4>2. CASE presented[r] = None
        <5>1. write[r] = [NoRows EXCEPT ![issued[r]] = fresh_session(issued[r])]
          BY <3>1, <4>2 DEF PairWritten
        <5> QED
          BY <4>1, <5>1, RowShapes
      <4>3. CASE presented[r] # None
        <5>1. write[r] = [NoRows EXCEPT ![presented[r]] = spent(sessions[presented[r]], issued[r]),
                                        ![issued[r]] = fresh_session(sessions[presented[r]].family)]
          BY <3>1, <4>3 DEF PairWritten
        <5> QED
          BY <4>1, <4>3, <5>1, RowShapes
      <4> QED
        BY <4>2, <4>3
    <3>3. /\ j \in locked[r] /\ j # issued[r]
          /\ write[r] = [NoRows EXCEPT ![j] = spent(sessions[j], issued[r]),
                                       ![issued[r]] = fresh_session(sessions[j].family)]
      BY <3>1, <3>2 DEF PairWritten
    <3> QED
      BY <3>3, RowShapes
  <2>3. CASE phase[r] \in {"revoking", "reused"}
    BY <2>3 DEF IInv, RequestOK, RevocationsWritten
  <2> QED
    BY <2>1, <2>2, <2>3 DEF IInv, TypeOK, Phases
<1> QED
  BY <1>1, RefreshInvariant, PTL
=============================================================================
