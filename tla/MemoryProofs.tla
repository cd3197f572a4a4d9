---------------------------- MODULE MemoryProofs ----------------------------
(***************************************************************************)
(* The in-memory adapters, for any tokens, orders, clients and requests    *)
(* and every queue size: the families of refresh tokens, the orders with   *)
(* their outbox and idempotency records, and the positions of an order     *)
(* from record to the clients that follow it.                              *)
(***************************************************************************)
EXTENDS MCMemory, TLAPS

\* The provers tried for a leaf, with the seconds each one has.
USE ZenonT(3), SMTT(40), ZenonT(40)

(***************************************************************************)
(* A step is a step of one adapter; the state of the others stands still.  *)
(***************************************************************************)
LEMMA OneAdapter ==
    ASSUME [MCNext]_all
    PROVE  /\ R!Next \/ UNCHANGED store
           /\ M!MemoryNext \/ UNCHANGED memory
           /\ Next \/ UNCHANGED vars
BY DEF MCNext, all, store, memory

-----------------------------------------------------------------------------
(***************************************************************************)
(* Refresh sessions.  A family is named by its first token, whose row is   *)
(* never removed: that is why a new login starts an empty family.          *)
(***************************************************************************)
FamiliesFit ==
    /\ R!StoreTypeOK
    /\ FamiliesAreSafe
    /\ \A j \in Jtis : R!Registered(j) => R!Registered(sessions[j].family)
    /\ \A f \in reused : R!Registered(f)

\* The rows register and rotate make are rows.
LEMMA RowShapes ==
    /\ \A f \in Jtis : R!fresh_session(f) \in R!RefreshSession
    /\ \A s \in R!RefreshSession, k \in Jtis : R!spent(s, k) \in R!RefreshSession
    /\ \A s \in R!RefreshSession : R!revoked(s) \in R!RefreshSession
    /\ None \notin R!RefreshSession /\ None \notin Jtis
BY MemoryAssumption, NoRowAssumption
   DEF R!RefreshSession, R!fresh_session, R!spent, R!revoked

\* At the start there is no row.
LEMMA FamiliesInit == MCInit => FamiliesFit
BY DEF MCInit, R!StoreInit, FamiliesFit, R!StoreTypeOK, FamiliesAreSafe, R!LineIsUnbroken,
       R!OneActivePerFamily, R!ReuseRevokesFamily, R!Registered, R!Family

\* A login starts a family of its own (register).
LEMMA RegisterKeeps ==
    ASSUME FamiliesFit, NEW j \in Jtis, R!register(j)
    PROVE  FamiliesFit'
<1>1. /\ ~R!Registered(j) /\ reused' = reused /\ expired' = expired
      /\ sessions' = [sessions EXCEPT ![j] = R!fresh_session(j)]
      /\ sessions \in [Jtis -> R!RefreshSession \cup {None}]
  BY DEF R!register, FamiliesFit, R!StoreTypeOK
<1>2. /\ sessions'[j].family = j /\ ~sessions'[j].used /\ ~sessions'[j].revoked
      /\ sessions'[j].replacement = None /\ sessions'[j] # None
      /\ \A i \in Jtis \ {j} : sessions'[i] = sessions[i]
  BY <1>1, RowShapes DEF R!fresh_session
<1>3. \A i \in Jtis \ {j} : R!Registered(i)' => R!Registered(i) /\ sessions[i].family # j
  BY <1>1, <1>2 DEF FamiliesFit, R!Registered
<1>4. R!StoreTypeOK'
  BY <1>1, RowShapes DEF FamiliesFit, R!StoreTypeOK
<1>5. \A i \in Jtis \ {j} : R!Registered(i) /\ sessions[i].used => sessions[i].replacement \in Jtis
  BY DEF FamiliesFit, FamiliesAreSafe, R!LineIsUnbroken, R!Family
<1>6. ASSUME NEW f \in Jtis, f # j PROVE R!Family(f)' = R!Family(f)
  <2>1. \A i \in Jtis :
           sessions'[i] # None /\ sessions'[i].family = f
               <=> sessions[i] # None /\ sessions[i].family = f
    BY <1>1, <1>2, <1>6 DEF R!Registered
  <2> QED
    BY <2>1 DEF R!Family, R!Registered
<1>7. R!OneActivePerFamily'
  BY <1>2, <1>3 DEF FamiliesFit, FamiliesAreSafe, R!LineIsUnbroken, R!OneActivePerFamily,
                    R!Registered, R!IsReuse
<1>8. ASSUME NEW i \in Jtis, R!Registered(i)'
      PROVE  /\ sessions'[i].used <=> sessions'[i].replacement # None
             /\ sessions'[i].used => sessions'[i].replacement \in R!Family(sessions[i].family)'
             /\ i # sessions'[i].family =>
                   \E h \in R!Family(sessions[i].family)' : sessions'[h].replacement = i
  <2>1. CASE i = j
    BY <1>2, <2>1
  <2>2. CASE i # j
    <3>1. /\ R!Registered(i) /\ sessions'[i] = sessions[i] /\ sessions[i].family # j
          /\ sessions[i].family \in Jtis
      BY <1>1, <1>2, <1>3, <1>8, <2>2 DEF R!RefreshSession, R!Registered
    <3>2. R!Family(sessions[i].family)' = R!Family(sessions[i].family)
      <4>1. ASSUME NEW f \in Jtis, f # j, sessions'[i].family = f
            PROVE  R!Family(sessions[i].family)' = R!Family(f)
        <5>1. R!Family(f)' = R!Family(f)
          BY <1>6, <4>1
        <5> QED
          BY <4>1, <5>1 DEF R!Family
      <4> QED
        BY <3>1, <4>1
    <3>3. \A h \in R!Family(sessions[i].family) : sessions'[h] = sessions[h]
      BY <1>1, <1>2 DEF R!Family
    <3> QED
      BY <3>1, <3>2, <3>3 DEF FamiliesFit, FamiliesAreSafe, R!LineIsUnbroken
  <2> QED
    BY <2>1, <2>2
<1>9. ASSUME NEW h \in Jtis, NEW i \in Jtis, R!Registered(h)', R!Registered(i)',
             sessions'[h].used, sessions'[h].replacement = sessions'[i].replacement
      PROVE  h = i
  <2>1. h # j /\ R!Registered(h) /\ sessions'[h] = sessions[h]
    BY <1>2, <1>3, <1>9
  <2>2. sessions[h].replacement \in Jtis
    BY <1>5, <1>9, <2>1
  <2>3. i # j
    BY <1>2, <1>9, <2>1, <2>2, RowShapes
  <2> QED
    BY <1>2, <1>3, <1>9, <2>1, <2>3 DEF FamiliesFit, FamiliesAreSafe, R!LineIsUnbroken
<1>10. R!LineIsUnbroken'
  BY <1>7, <1>8, <1>9 DEF R!LineIsUnbroken
<1>11. R!ReuseRevokesFamily'
  <2>1. ASSUME NEW f \in reused, NEW i \in R!Family(f)' PROVE sessions'[i].revoked
    <3>1. f \in Jtis /\ f # j
      BY <1>1 DEF FamiliesFit, R!StoreTypeOK
    <3>2. i \in R!Family(f) /\ i # j
      BY <1>1, <1>6, <3>1 DEF R!Family
    <3>3. i \in Jtis
      BY <3>2 DEF R!Family
    <3> QED
      BY <1>2, <3>2, <3>3 DEF FamiliesFit, FamiliesAreSafe, R!ReuseRevokesFamily
  <2> QED
    BY <1>1, <2>1 DEF R!ReuseRevokesFamily
<1> QED
  <2>1. \A i \in Jtis : R!Registered(i)' => R!Registered(sessions[i].family)'
    BY <1>1, <1>2, <1>3 DEF FamiliesFit, R!Registered, R!RefreshSession
  <2>2. \A f \in reused' : R!Registered(f)'
    BY <1>1, <1>2 DEF FamiliesFit, R!Registered, R!StoreTypeOK
  <2> QED
    BY <1>4, <1>10, <1>11, <2>1, <2>2 DEF FamiliesFit, FamiliesAreSafe

\* Revoking rows leaves the lines of the families as they are (rotate, REUSED and
\* expired).
LEMMA RevokingKeeps ==
    ASSUME FamiliesFit, NEW S \in SUBSET Jtis, \A i \in S : R!Registered(i),
           sessions' = [i \in Jtis |-> IF i \in S THEN R!revoked(sessions[i]) ELSE sessions[i]],
           reused' \subseteq Jtis, expired' = expired,
           \A f \in reused' : f \in reused \/ (R!Registered(f) /\ R!Family(f) \subseteq S)
    PROVE  FamiliesFit'
<1>1. sessions \in [Jtis -> R!RefreshSession \cup {None}]
  BY DEF FamiliesFit, R!StoreTypeOK
<1>2. ASSUME NEW i \in Jtis
      PROVE  /\ R!Registered(i)' <=> R!Registered(i)
             /\ sessions'[i] \in R!RefreshSession \cup {None}
             /\ R!Registered(i) =>
                  /\ sessions'[i].family = sessions[i].family
                  /\ sessions'[i].used = sessions[i].used
                  /\ sessions'[i].replacement = sessions[i].replacement
                  /\ sessions[i].revoked => sessions'[i].revoked
                  /\ i \in S => sessions'[i].revoked
  <2>1. CASE i \in S
    <3>1. sessions'[i] = R!revoked(sessions[i]) /\ sessions[i] \in R!RefreshSession
      BY <1>1, <2>1 DEF R!Registered
    <3>2. sessions'[i] \in R!RefreshSession /\ sessions'[i] # None
      BY <3>1, RowShapes
    <3> QED
      BY <2>1, <3>1, <3>2 DEF R!revoked, R!Registered, R!RefreshSession
  <2>2. CASE i \notin S
    BY <1>1, <2>2 DEF R!Registered
  <2> QED
    BY <2>1, <2>2
<1>3. \A f : R!Family(f)' = R!Family(f)
  BY <1>2 DEF R!Family
<1>4. R!StoreTypeOK'
  BY <1>1, <1>2 DEF FamiliesFit, R!StoreTypeOK
<1>5. R!OneActivePerFamily'
  BY <1>2 DEF FamiliesFit, FamiliesAreSafe, R!LineIsUnbroken, R!OneActivePerFamily, R!IsReuse
<1>6. ASSUME NEW i \in Jtis, R!Registered(i)'
      PROVE  /\ sessions'[i].used <=> sessions'[i].replacement # None
             /\ sessions'[i].used => sessions'[i].replacement \in R!Family(sessions[i].family)'
             /\ i # sessions'[i].family =>
                   \E h \in R!Family(sessions[i].family)' : sessions'[h].replacement = i
  <2>1. R!Registered(i) /\ sessions'[i].family = sessions[i].family
        /\ sessions'[i].used = sessions[i].used
        /\ sessions'[i].replacement = sessions[i].replacement
    BY <1>2, <1>6
  <2>2. \A h \in R!Family(sessions[i].family) : sessions'[h].replacement = sessions[h].replacement
    BY <1>2 DEF R!Family
  <2>3. \A h \in Jtis :
           sessions'[h] # None /\ sessions'[h].family = sessions'[i].family
               <=> sessions[h] # None /\ sessions[h].family = sessions[i].family
    BY <1>2, <2>1 DEF R!Registered
  <2>4. R!Family(sessions[i].family)' = R!Family(sessions[i].family)
    BY <2>3 DEF R!Family, R!Registered
  <2>5. /\ sessions[i].used <=> sessions[i].replacement # None
        /\ sessions[i].used => sessions[i].replacement \in R!Family(sessions[i].family)
        /\ i # sessions[i].family =>
              \E h \in R!Family(sessions[i].family) : sessions[h].replacement = i
    BY <2>1 DEF FamiliesFit, FamiliesAreSafe, R!LineIsUnbroken
  <2> QED
    BY <2>1, <2>2, <2>4, <2>5
<1>7. \A h, i \in Jtis :
         /\ R!Registered(h)' /\ R!Registered(i)'
         /\ sessions'[h].used /\ sessions'[h].replacement = sessions'[i].replacement
         => h = i
  BY <1>2 DEF FamiliesFit, FamiliesAreSafe, R!LineIsUnbroken
<1>8. R!LineIsUnbroken'
  BY <1>5, <1>6, <1>7 DEF R!LineIsUnbroken
<1>9. R!ReuseRevokesFamily'
  BY <1>2, <1>3 DEF FamiliesFit, FamiliesAreSafe, R!ReuseRevokesFamily, R!Family
<1>10. \A i \in Jtis : R!Registered(i)' => R!Registered(sessions[i].family)'
  <2>1. \A i \in Jtis : R!Registered(i) => sessions[i].family \in Jtis
    BY <1>1 DEF R!Registered, R!RefreshSession
  <2> QED
    BY <1>2, <2>1 DEF FamiliesFit
<1>11. \A f \in reused' : R!Registered(f)'
  BY <1>2 DEF FamiliesFit
<1> QED
  BY <1>4, <1>8, <1>9, <1>10, <1>11 DEF FamiliesFit, FamiliesAreSafe

\* The successor becomes the end of the line (rotate, ROTATED).
LEMMA RotatedKeeps ==
    ASSUME FamiliesFit, NEW j \in Jtis, NEW k \in Jtis, R!Registered(j), ~R!IsReuse(sessions[j]),
           ~R!Registered(k), R!Rotated(j, k)
    PROVE  FamiliesFit'
<1> DEFINE f == sessions[j].family
<1>1. /\ sessions \in [Jtis -> R!RefreshSession \cup {None}] /\ j # k
      /\ sessions[j] \in R!RefreshSession /\ reused' = reused /\ expired' = expired
      /\ sessions' = [sessions EXCEPT ![j] = R!spent(@, k), ![k] = R!fresh_session(f)]
  BY DEF R!Rotated, FamiliesFit, R!StoreTypeOK, R!Registered
<1>2. /\ f \in Jtis /\ ~sessions[j].used /\ ~sessions[j].revoked
      /\ sessions[j].replacement = None
      /\ R!Registered(f)
  BY <1>1 DEF R!IsReuse, R!RefreshSession, FamiliesFit, FamiliesAreSafe, R!LineIsUnbroken
<1>3. /\ sessions'[j] = R!spent(sessions[j], k) /\ sessions'[k] = R!fresh_session(f)
      /\ \A i \in Jtis \ {j, k} : sessions'[i] = sessions[i]
  BY <1>1
<1>4. sessions'[j] \in R!RefreshSession /\ sessions'[k] \in R!RefreshSession
  BY <1>1, <1>2, <1>3, RowShapes
<1>5. /\ sessions'[j].family = f /\ sessions'[j].used /\ sessions'[j].replacement = k
      /\ sessions'[k].family = f /\ ~sessions'[k].used /\ ~sessions'[k].revoked
      /\ sessions'[k].replacement = None
      /\ sessions'[j] # None /\ sessions'[k] # None
  <2>1. sessions'[j].family = f /\ sessions'[j].used /\ sessions'[j].replacement = k
    BY <1>1, <1>3 DEF R!spent, R!RefreshSession
  <2>2. /\ sessions'[k].family = f /\ ~sessions'[k].used /\ ~sessions'[k].revoked
        /\ sessions'[k].replacement = None
    BY <1>3 DEF R!fresh_session
  <2> QED
    BY <1>4, <2>1, <2>2, RowShapes
<1> HIDE DEF f
<1>6. \A i \in Jtis \ {j, k} : R!Registered(i)' <=> R!Registered(i)
  BY <1>3 DEF R!Registered
<1>7. \A i \in Jtis : R!Registered(i) => i # k /\ sessions[i].replacement # k
  BY RowShapes DEF FamiliesFit, FamiliesAreSafe, R!LineIsUnbroken, R!Family
<1>8. R!StoreTypeOK'
  BY <1>1, <1>2, RowShapes DEF FamiliesFit, R!StoreTypeOK, f
<1>9. R!OneActivePerFamily'
  <2>1. ASSUME NEW i \in Jtis, R!Registered(i)', ~R!IsReuse(sessions'[i]),
               sessions'[i].family = f
        PROVE  i = k
    <3>1. i # j
      BY <1>5, <2>1 DEF R!IsReuse
    <3>2. CASE i # k
      <4>1. R!Registered(i) /\ sessions'[i] = sessions[i]
        BY <1>3, <1>6, <2>1, <3>1, <3>2
      <4>2. i = j
        BY <2>1, <4>1 DEF FamiliesFit, FamiliesAreSafe, R!LineIsUnbroken, R!OneActivePerFamily, f
      <4> QED
        BY <3>1, <4>2
    <3> QED
      BY <3>2
  <2>2. ASSUME NEW h \in Jtis, NEW i \in Jtis, R!Registered(h)', R!Registered(i)',
               ~R!IsReuse(sessions'[h]), ~R!IsReuse(sessions'[i]),
               sessions'[h].family = sessions'[i].family
        PROVE  h = i
    <3>1. CASE sessions'[h].family = f
      BY <2>1, <2>2, <3>1
    <3>2. CASE sessions'[h].family # f
      <4>1. h \notin {j, k} /\ i \notin {j, k}
        BY <1>5, <2>2, <3>2
      <4> QED
        BY <1>3, <1>6, <2>2, <4>1
           DEF FamiliesFit, FamiliesAreSafe, R!LineIsUnbroken, R!OneActivePerFamily
    <3> QED
      BY <3>1, <3>2
  <2> QED
    BY <2>2 DEF R!OneActivePerFamily, R!IsReuse
<1>10. ASSUME NEW i \in Jtis, R!Registered(i)'
       PROVE  /\ sessions'[i].used <=> sessions'[i].replacement # None
              /\ sessions'[i].used => sessions'[i].replacement \in R!Family(sessions[i].family)'
              /\ i # sessions'[i].family =>
                    \E h \in R!Family(sessions[i].family)' : sessions'[h].replacement = i
  <2>1. \A h \in Jtis : h \in R!Family(sessions[i].family)'
                           <=> sessions'[h] # None /\ sessions'[h].family = sessions'[i].family
    BY DEF R!Family, R!Registered
  <2>2. CASE i = k
    BY <1>5, <2>1, <2>2
  <2>3. ASSUME i # k, sessions[i] # None, sessions'[i].family = sessions[i].family
        PROVE  i # sessions'[i].family =>
                  \E h \in R!Family(sessions[i].family)' : sessions'[h].replacement = i
    <3>1. SUFFICES ASSUME i # sessions[i].family
                   PROVE  \E h \in R!Family(sessions[i].family)' : sessions'[h].replacement = i
      BY <2>3
    <3>2. PICK h \in R!Family(sessions[i].family) : sessions[h].replacement = i
      BY <2>3, <3>1 DEF FamiliesFit, FamiliesAreSafe, R!LineIsUnbroken, R!Registered
    <3>3. h \in Jtis /\ sessions[h] # None /\ sessions[h].family = sessions[i].family
      BY <3>2 DEF R!Family, R!Registered
    <3>4. h # j /\ h # k
      BY <1>2, <1>7, <3>2, <3>3, RowShapes DEF R!Registered
    <3>5. sessions'[h] = sessions[h]
      BY <1>3, <3>3, <3>4
    <3> QED
      BY <2>1, <2>3, <3>2, <3>3, <3>5
  <2>4. CASE i = j
    <3>1. sessions[i] # None /\ sessions'[i].family = sessions[i].family /\ i # k
      BY <1>1, <1>5, <2>4 DEF R!Registered, f
    <3>2. sessions'[i].used /\ sessions'[i].replacement = k /\ k # None
      BY <1>5, <2>4, RowShapes
    <3>3. k \in R!Family(sessions[i].family)'
      BY <1>5, <2>1, <2>4
    <3> QED
      BY <2>3, <3>1, <3>2, <3>3
  <2>5. CASE i \notin {j, k}
    <3>1. sessions'[i] = sessions[i] /\ sessions[i] # None
      BY <1>3, <1>10, <2>5 DEF R!Registered
    <3>2. /\ sessions[i].used <=> sessions[i].replacement # None
          /\ sessions[i].used => sessions[i].replacement \in R!Family(sessions[i].family)
      BY <3>1 DEF FamiliesFit, FamiliesAreSafe, R!LineIsUnbroken, R!Registered
    <3>3. \A h \in R!Family(sessions[i].family) : h \in R!Family(sessions[i].family)'
      <4>1. ASSUME NEW h \in R!Family(sessions[i].family)
            PROVE  h \in R!Family(sessions[i].family)'
        <5>1. h \in Jtis /\ sessions[h] # None /\ sessions[h].family = sessions[i].family
          BY DEF R!Family, R!Registered
        <5>2. h # k /\ (h = j => sessions'[h].family = sessions[h].family /\ sessions'[h] # None)
          BY <1>5, <1>7, <5>1 DEF R!Registered, f
        <5> QED
          BY <1>3, <2>1, <3>1, <5>1, <5>2
      <4> QED
        BY <4>1
    <3> QED
      BY <2>3, <2>5, <3>1, <3>2, <3>3
  <2> QED
    BY <2>2, <2>4, <2>5
<1>11. ASSUME NEW h \in Jtis, NEW i \in Jtis, R!Registered(h)', R!Registered(i)',
              sessions'[h].used, sessions'[h].replacement = sessions'[i].replacement
       PROVE  h = i
  <2>1. CASE h = j
    <3>1. i = j \/ i = k
      BY <1>3, <1>5, <1>6, <1>7, <1>11, <2>1
    <3> QED
      BY <1>5, <1>11, <2>1, <3>1, RowShapes
  <2>2. CASE h # j
    <3>1. h # k /\ sessions'[h] = sessions[h] /\ R!Registered(h)
      BY <1>3, <1>5, <1>6, <1>11, <2>2
    <3>2. sessions[h].replacement \notin {k, None}
      BY <1>7, <1>11, <3>1 DEF FamiliesFit, FamiliesAreSafe, R!LineIsUnbroken
    <3>3. i \notin {j, k}
      BY <1>5, <1>11, <3>1, <3>2
    <3> QED
      BY <1>3, <1>6, <1>11, <3>1, <3>3 DEF FamiliesFit, FamiliesAreSafe, R!LineIsUnbroken
  <2> QED
    BY <2>1, <2>2
<1>12. R!LineIsUnbroken'
  BY <1>9, <1>10, <1>11 DEF R!LineIsUnbroken
<1>13. f \notin reused
  BY <1>2 DEF FamiliesFit, FamiliesAreSafe, R!ReuseRevokesFamily, R!Family, f
<1>14. R!ReuseRevokesFamily'
  <2>1. ASSUME NEW g \in reused, NEW i \in Jtis, sessions'[i] # None, sessions'[i].family = g
        PROVE  sessions'[i].revoked
    <3>1. i \notin {j, k}
      BY <1>5, <1>13, <2>1
    <3> QED
      BY <1>3, <2>1, <3>1
         DEF FamiliesFit, FamiliesAreSafe, R!ReuseRevokesFamily, R!Family, R!Registered
  <2> QED
    BY <1>1, <2>1 DEF R!ReuseRevokesFamily, R!Family, R!Registered
<1>15. \A i \in Jtis : R!Registered(i) => R!Registered(i)'
  BY <1>3, <1>5 DEF R!Registered
<1>16. \A i \in Jtis : R!Registered(i)' => R!Registered(sessions[i].family)'
  <2>1. ASSUME NEW i \in Jtis, R!Registered(i)'
        PROVE  sessions'[i].family \in Jtis /\ R!Registered(sessions'[i].family)
    <3>1. CASE i \in {j, k}
      BY <1>2, <1>5, <3>1
    <3>2. CASE i \notin {j, k}
      BY <1>1, <1>3, <1>6, <2>1, <3>2 DEF FamiliesFit, R!RefreshSession, R!Registered
    <3> QED
      BY <3>1, <3>2
  <2> QED
    BY <1>15, <2>1 DEF R!Registered
<1> QED
  <2>1. \A g \in reused' : R!Registered(g)'
    BY <1>1, <1>15 DEF FamiliesFit, R!StoreTypeOK
  <2> QED
    BY <1>8, <1>12, <1>14, <1>16, <2>1 DEF FamiliesFit, FamiliesAreSafe

\* Every step of the adapter keeps the families.
LEMMA FamiliesStep == FamiliesFit /\ [MCNext]_all => FamiliesFit'
<1> SUFFICES ASSUME FamiliesFit, [MCNext]_all PROVE FamiliesFit'
  OBVIOUS
<1>1. R!Next \/ UNCHANGED store
  BY OneAdapter
<1>2. CASE UNCHANGED store
  BY <1>2 DEF store, FamiliesFit, R!StoreTypeOK, FamiliesAreSafe, R!LineIsUnbroken,
              R!OneActivePerFamily, R!ReuseRevokesFamily, R!Registered, R!Family
<1>3. ASSUME NEW j \in Jtis, R!register(j) PROVE FamiliesFit'
  BY <1>3, RegisterKeeps
<1>4. ASSUME NEW j \in Jtis, R!Expire(j) /\ UNCHANGED <<sessions, reused>> PROVE FamiliesFit'
  BY <1>4 DEF R!Expire, FamiliesFit, R!StoreTypeOK, FamiliesAreSafe, R!LineIsUnbroken,
              R!OneActivePerFamily, R!ReuseRevokesFamily, R!Registered, R!Family
<1>5. ASSUME NEW j \in Jtis, NEW k \in Jtis, R!rotate(j, k) PROVE FamiliesFit'
  <2>1. R!Registered(j) /\ sessions[j] \in R!RefreshSession
        /\ reused \subseteq Jtis /\ sessions \in [Jtis -> R!RefreshSession \cup {None}]
    BY <1>5 DEF R!rotate, FamiliesFit, R!StoreTypeOK, R!Registered
  <2>2. CASE R!IsReuse(sessions[j])
    <3> DEFINE S == R!Family(sessions[j].family)
    <3>1. /\ sessions' = [i \in Jtis |-> IF i \in S THEN R!revoked(sessions[i]) ELSE sessions[i]]
          /\ reused' = reused \cup {sessions[j].family} /\ expired' = expired
      BY <1>5, <2>2 DEF R!rotate, R!Reuse
    <3>2. S \in SUBSET Jtis /\ \A i \in S : R!Registered(i)
      BY DEF R!Family
    <3>3. sessions[j].family \in Jtis /\ R!Registered(sessions[j].family)
      BY <2>1 DEF R!RefreshSession, FamiliesFit
    <3>4. \A f \in reused' : f \in reused \/ (R!Registered(f) /\ R!Family(f) \subseteq S)
      BY <3>1, <3>3
    <3>5. reused' \subseteq Jtis
      BY <2>1, <3>1, <3>3
    <3> HIDE DEF S
    <3> QED
      BY <3>1, <3>2, <3>4, <3>5, RevokingKeeps
  <2>3. CASE ~R!IsReuse(sessions[j]) /\ j \in expired
    <3>1. /\ sessions' = [sessions EXCEPT ![j] = R!revoked(@)]
          /\ reused' = reused /\ expired' = expired
      BY <1>5, <2>3 DEF R!rotate
    <3> DEFINE S == {j}
    <3>2. sessions' = [i \in Jtis |-> IF i \in S THEN R!revoked(sessions[i]) ELSE sessions[i]]
      BY <2>1, <3>1
    <3>3. S \in SUBSET Jtis /\ \A i \in S : R!Registered(i)
      BY <2>1
    <3>4. reused' \subseteq Jtis /\ \A f \in reused' : f \in reused
      BY <2>1, <3>1
    <3> HIDE DEF S
    <3> QED
      BY <3>1, <3>2, <3>3, <3>4, RevokingKeeps
  <2>4. CASE ~R!IsReuse(sessions[j]) /\ j \notin expired
    BY <1>5, <2>1, <2>4, RotatedKeeps DEF R!rotate
  <2> QED
    BY <2>2, <2>3, <2>4
<1> QED
  BY <1>1, <1>2, <1>3, <1>4, <1>5 DEF R!Next

\* Of every chain of rotations one token is live at most, and presenting a used one
\* again ends the whole family, for any number of tokens
\* (InMemoryRefreshSessionRepository).
THEOREM MemoryFamiliesAreSafe == MCSpec => []FamiliesAreSafe
<1>1. FamiliesFit => FamiliesAreSafe
  BY DEF FamiliesFit
<1> QED
  BY <1>1, FamiliesInit, FamiliesStep, PTL DEF MCSpec

-----------------------------------------------------------------------------
(***************************************************************************)
(* Orders.  What a step does to the rows and to the outbox is one of four  *)
(* effects; the idempotency records are a matter of their own.             *)
(***************************************************************************)
EventRecord ==
    [type : {"order.created", "order.status_changed"}, order : OrderIds, version : Nat,
     status : M!OrderStatus]

IdempotencyRecord == [fingerprint : M!Details, response : M!DeliveryOrder]

OrdersTypeOK ==
    /\ orders \in [OrderIds -> M!DeliveryOrder \cup {None}]
    /\ order_outbox \in Seq(EventRecord)

\* An order without a courier is the only one that can be claimed, and the outbox is
\* never ahead of the row.
RowsFit ==
    /\ \A o \in OrderIds : M!Exists(o) =>
          /\ orders[o].id = o
          /\ orders[o].status = "created" => orders[o].courier = None
    /\ \A i \in DOMAIN order_outbox :
          /\ M!Exists(order_outbox[i].order)
          /\ order_outbox[i].version <= orders[order_outbox[i].order].version

OrdersFit == OrdersTypeOK /\ RowsFit /\ OrdersAgree

InProgress == {"assigned", "picked_up"}

\* The order o is created.
Creates(o, new) ==
    /\ ~M!Exists(o)
    /\ new.status = "created" /\ new.courier = None
    /\ order_outbox' = Append(order_outbox, M!Event("order.created", new))

\* The details of o change.
Edits(o, new) ==
    /\ M!Exists(o)
    /\ new.status = orders[o].status /\ new.courier = orders[o].courier
    /\ new.version = orders[o].version + 1
    /\ order_outbox' = order_outbox

\* The status of o changes, and with it the courier when a courier without an order
\* claims it.
Moves(o, new) ==
    /\ M!Exists(o)
    /\ M!allows(orders[o].status, new.status)
    /\ new.version = orders[o].version + 1
    /\ new.courier = orders[o].courier \/ (orders[o].status = "created" /\ ~M!Busy(new.courier))
    /\ order_outbox' = Append(order_outbox, M!Event("order.status_changed", new))

RowStep(o, new) ==
    /\ new.id = o
    /\ orders' = [orders EXCEPT ![o] = new]
    /\ Creates(o, new) \/ Edits(o, new) \/ Moves(o, new)

\* The values the domain makes of orders.
LEMMA OrderShapes ==
    /\ \A o \in OrderIds, c \in Customers, d \in M!Details :
          M!create(o, c, d) \in M!DeliveryOrder
    /\ \A x \in M!DeliveryOrder, t \in M!OrderStatus : M!transition(x, t) \in M!DeliveryOrder
    /\ \A x \in M!DeliveryOrder, c \in Couriers : M!assign(x, c) \in M!DeliveryOrder
    /\ \A x \in M!DeliveryOrder, d \in M!DetailChanges :
          M!update_details(x, d) \in M!DeliveryOrder
    /\ None \notin M!DeliveryOrder
<1> DEFINE Fields(x, d, s, c, v) ==
        [id |-> x.id, customer |-> x.customer, details |-> d, status |-> s,
         courier |-> c, version |-> v]
<1>1. \A o \in OrderIds, c \in Customers, d \in M!Details :
         M!create(o, c, d) \in M!DeliveryOrder
  BY DEF M!create, M!DeliveryOrder, M!OrderStatus
<1>2. ASSUME NEW x \in M!DeliveryOrder
      PROVE  x = Fields(x, x.details, x.status, x.courier, x.version)
  BY DEF M!DeliveryOrder
<1>3. ASSUME NEW x \in M!DeliveryOrder, NEW t \in M!OrderStatus
      PROVE  /\ M!transition(x, t) = Fields(x, x.details, t, x.courier, x.version + 1)
             /\ M!transition(x, t) \in M!DeliveryOrder
  <2>1. M!transition(x, t) = [Fields(x, x.details, x.status, x.courier, x.version)
                                 EXCEPT !.status = t, !.version = x.version + 1]
    BY <1>2, Zenon DEF M!transition
  <2>2. M!transition(x, t) = Fields(x, x.details, t, x.courier, x.version + 1)
    BY <2>1, Zenon
  <2> QED
    BY <2>2 DEF M!DeliveryOrder
<1>4. ASSUME NEW x \in M!DeliveryOrder, NEW c \in Couriers
      PROVE  M!assign(x, c) \in M!DeliveryOrder
  <2>1. M!transition(x, "assigned") = Fields(x, x.details, "assigned", x.courier, x.version + 1)
    BY <1>3 DEF M!OrderStatus
  <2>2. M!assign(x, c) = Fields(x, x.details, "assigned", c, x.version + 1)
    BY <2>1 DEF M!assign
  <2> QED
    BY <2>2 DEF M!DeliveryOrder, M!OrderStatus
<1>5. ASSUME NEW x \in M!DeliveryOrder, NEW d \in M!DetailChanges
      PROVE  M!update_details(x, d) \in M!DeliveryOrder
  <2> DEFINE e == [pickup |-> M!replaced(x.details.pickup, d.pickup),
                   destination |-> M!replaced(x.details.destination, d.destination)]
  <2>1. e \in M!Details
    BY DEF M!replaced, M!DeliveryOrder, M!Details, M!DetailChanges
  <2>2. M!update_details(x, d) = [Fields(x, x.details, x.status, x.courier, x.version)
                                     EXCEPT !.details = e, !.version = x.version + 1]
    BY <1>2, Zenon DEF M!update_details
  <2> HIDE DEF e
  <2>3. M!update_details(x, d) = Fields(x, e, x.status, x.courier, x.version + 1)
    BY <2>2, Zenon
  <2> QED
    BY <2>1, <2>3 DEF M!DeliveryOrder
<1> QED
  BY <1>1, <1>3, <1>4, <1>5, NoRowAssumption

\* A step leaves rows and outbox alone or does one of three things to one row.
LEMMA OrdersEffect ==
    ASSUME OrdersFit, [MCNext]_all
    PROVE  \/ UNCHANGED <<orders, order_outbox>>
           \/ \E o \in OrderIds, new \in M!DeliveryOrder : RowStep(o, new)
<1>1. M!MemoryNext \/ UNCHANGED memory
  BY OneAdapter
<1>2. ASSUME NEW o \in OrderIds, M!Exists(o)
      PROVE  orders[o] \in M!DeliveryOrder /\ orders[o].id = o
  BY <1>2 DEF OrdersFit, OrdersTypeOK, RowsFit, M!Exists
<1>3. CASE UNCHANGED memory
  BY <1>3 DEF memory
<1>4. CASE \E scope \in M!Scopes : M!Replay(scope)
  BY <1>4 DEF M!Replay
<1>5. ASSUME NEW courier \in Couriers, M!Claim(courier)
      PROVE  \E o \in OrderIds, new \in M!DeliveryOrder : RowStep(o, new)
  <2>1. PICK o \in M!Waiting : M!save_transition(M!assign(orders[o], courier))
    BY <1>5 DEF M!Claim
  <2>2. o \in OrderIds /\ M!Exists(o) /\ orders[o].status = "created" /\ ~M!Busy(courier)
    BY <1>5, <2>1 DEF M!Waiting, M!Claim
  <2> DEFINE new == M!assign(orders[o], courier)
  <2>3. new \in M!DeliveryOrder
    BY <1>2, <2>2, OrderShapes
  <2>4. /\ new.id = o /\ new.status = "assigned" /\ new.courier = courier
        /\ new.version = orders[o].version + 1
    BY <1>2, <2>2 DEF M!assign, M!transition, M!DeliveryOrder
  <2> HIDE DEF new
  <2>5. M!allows(orders[o].status, new.status)
    BY <2>2, <2>4 DEF M!allows, M!ALLOWED_TRANSITIONS, M!OrderStatus
  <2>6. /\ orders' = [orders EXCEPT ![o] = new]
        /\ order_outbox' = Append(order_outbox, M!Event("order.status_changed", new))
    BY <2>1, <2>4 DEF M!save_transition, new
  <2> QED
    BY <2>2, <2>3, <2>4, <2>5, <2>6 DEF RowStep, Moves
<1>6. ASSUME NEW o \in OrderIds, NEW scope \in M!Scopes, NEW details \in M!Details,
             M!Create(o, scope, details)
      PROVE  \E new \in M!DeliveryOrder : RowStep(o, new)
  <2> DEFINE new == M!create(o, scope[1], details)
  <2>1. new \in M!DeliveryOrder
    BY OrderShapes DEF M!Scopes
  <2>2. new.id = o /\ new.status = "created" /\ new.courier = None
    BY DEF M!create
  <2>3. /\ ~M!Exists(o) /\ orders' = [orders EXCEPT ![o] = new]
        /\ order_outbox' = Append(order_outbox, M!Event("order.created", new))
    <3>1. ~(o < o)
      BY MemoryAssumption
    <3> QED
      BY <1>6, <3>1 DEF M!Create
  <2> HIDE DEF new
  <2> QED
    BY <2>1, <2>2, <2>3 DEF RowStep, Creates
<1>7. ASSUME NEW o \in OrderIds, NEW actor \in M!Actor, NEW changes \in M!DetailChanges,
             M!Update(actor, o, changes)
      PROVE  \E new \in M!DeliveryOrder : RowStep(o, new)
  <2> DEFINE new == M!update_details(orders[o], changes)
  <2>1. M!Exists(o) /\ orders' = [orders EXCEPT ![o] = new] /\ order_outbox' = order_outbox
    BY <1>7 DEF M!Update
  <2>2. new \in M!DeliveryOrder
    BY <1>2, <2>1, OrderShapes
  <2>3. /\ new.id = o /\ new.status = orders[o].status /\ new.courier = orders[o].courier
        /\ new.version = orders[o].version + 1
    BY <1>2, <2>1 DEF M!update_details, M!DeliveryOrder
  <2> HIDE DEF new
  <2> QED
    BY <2>1, <2>2, <2>3 DEF RowStep, Edits
<1>8. ASSUME NEW o \in OrderIds, NEW actor \in M!Actor, NEW target \in M!OrderStatus,
             M!Transition(actor, o, target)
      PROVE  \E new \in M!DeliveryOrder : RowStep(o, new)
  <2> DEFINE new == M!transition(orders[o], target)
  <2>1. M!Exists(o) /\ M!allows(orders[o].status, target) /\ M!save_transition(new)
    BY <1>8 DEF M!Transition
  <2>2. new \in M!DeliveryOrder
    BY <1>2, <2>1, OrderShapes
  <2>3. /\ new.id = o /\ new.status = target /\ new.courier = orders[o].courier
        /\ new.version = orders[o].version + 1
    BY <1>2, <2>1 DEF M!transition, M!DeliveryOrder
  <2> HIDE DEF new
  <2> QED
    BY <2>1, <2>2, <2>3 DEF RowStep, Moves, M!save_transition
<1> QED
  BY <1>1, <1>3, <1>4, <1>5, <1>6, <1>7, <1>8 DEF M!MemoryNext

\* The row of one order is replaced.
LEMMA RowChange ==
    ASSUME OrdersFit, NEW o \in OrderIds, NEW new \in M!DeliveryOrder, RowStep(o, new)
    PROVE  /\ orders' \in [OrderIds -> M!DeliveryOrder \cup {None}]
           /\ orders'[o] = new /\ new # None /\ new.id = o
           /\ \A p \in OrderIds \ {o} : orders'[p] = orders[p]
           /\ orders \in [OrderIds -> M!DeliveryOrder \cup {None}]
           /\ new.version \in Nat /\ new.status \in M!OrderStatus
           /\ M!Exists(o) => orders[o].version \in Nat
<1>1. orders \in [OrderIds -> M!DeliveryOrder \cup {None}]
  BY DEF OrdersFit, OrdersTypeOK
<1>2. orders' = [orders EXCEPT ![o] = new] /\ new.id = o
  BY DEF RowStep
<1>3. new # None
  BY NoRowAssumption
<1>4. new.version \in Nat /\ new.status \in M!OrderStatus
  BY DEF M!DeliveryOrder
<1>5. M!Exists(o) => orders[o].version \in Nat
  BY <1>1 DEF M!DeliveryOrder, M!Exists
<1> QED
  BY <1>1, <1>2, <1>3, <1>4, <1>5

\* Appending to a list.
LEMMA AppendEffect ==
    ASSUME NEW S, NEW q \in Seq(S), NEW e \in S
    PROVE  /\ Append(q, e) \in Seq(S) /\ Len(q) \in Nat
           /\ DOMAIN q = 1..Len(q) /\ DOMAIN Append(q, e) = 1..(Len(q) + 1)
           /\ \A i \in DOMAIN q : Append(q, e)[i] = q[i]
           /\ Append(q, e)[Len(q) + 1] = e
<1>1. Len(q) \in Nat /\ DOMAIN q = 1..Len(q)
  OBVIOUS
<1>2. /\ Append(q, e) \in Seq(S)
      /\ Len(Append(q, e)) = Len(q) + 1
      /\ \A i \in 1..Len(q) : Append(q, e)[i] = q[i]
      /\ Append(q, e)[Len(q) + 1] = e
  OBVIOUS
<1>3. DOMAIN Append(q, e) = 1..(Len(q) + 1)
  BY <1>2
<1> QED
  BY <1>1, <1>2, <1>3

\* An event about the new row joins the outbox.
LEMMA Announced ==
    ASSUME OrdersFit, NEW o \in OrderIds, NEW new \in M!DeliveryOrder, new.id = o,
           NEW type \in {"order.created", "order.status_changed"},
           order_outbox' = Append(order_outbox, M!Event(type, new))
    PROVE  \E n \in Nat :
              /\ order_outbox' \in Seq(EventRecord)
              /\ DOMAIN order_outbox = 1..n /\ DOMAIN order_outbox' = 1..(n + 1)
              /\ \A i \in 1..n : order_outbox'[i] = order_outbox[i]
              /\ order_outbox'[n + 1].order = o /\ order_outbox'[n + 1].type = type
              /\ order_outbox'[n + 1].version = new.version
              /\ order_outbox'[n + 1].status = new.status
<1> DEFINE e == M!Event(type, new)
<1>1. e \in EventRecord
  BY DEF M!Event, EventRecord, M!DeliveryOrder
<1>2. e.order = o /\ e.type = type /\ e.version = new.version /\ e.status = new.status
  BY DEF M!Event
<1>3. order_outbox \in Seq(EventRecord)
  BY DEF OrdersFit, OrdersTypeOK
<1>4. order_outbox' = Append(order_outbox, e)
  OBVIOUS
<1> HIDE DEF e
<1>5. /\ order_outbox' \in Seq(EventRecord) /\ Len(order_outbox) \in Nat
      /\ DOMAIN order_outbox = 1..Len(order_outbox)
      /\ DOMAIN order_outbox' = 1..(Len(order_outbox) + 1)
      /\ \A i \in 1..Len(order_outbox) : order_outbox'[i] = order_outbox[i]
      /\ order_outbox'[Len(order_outbox) + 1] = e
  BY <1>1, <1>3, <1>4, AppendEffect
<1> QED
  BY <1>2, <1>5

\* The events of the outbox.
LEMMA OutboxEvents ==
    ASSUME OrdersTypeOK
    PROVE  \A i \in DOMAIN order_outbox :
              /\ order_outbox[i].order \in OrderIds
              /\ order_outbox[i].version \in Nat
<1>1. \A i \in DOMAIN order_outbox : order_outbox[i] \in EventRecord
  BY DEF OrdersTypeOK
<1> QED
  BY <1>1 DEF EventRecord

\* Rows stay in their shape, and the outbox behind them.
LEMMA RowsKept ==
    ASSUME OrdersFit, NEW o \in OrderIds, NEW new \in M!DeliveryOrder, RowStep(o, new)
    PROVE  OrdersTypeOK' /\ RowsFit'
<1>1. /\ orders' \in [OrderIds -> M!DeliveryOrder \cup {None}]
      /\ orders'[o] = new /\ new # None /\ new.id = o
      /\ \A p \in OrderIds \ {o} : orders'[p] = orders[p]
      /\ new.version \in Nat
      /\ M!Exists(o) => orders[o].version \in Nat
  BY RowChange
<1>2. \A p \in OrderIds : M!Exists(p) => M!Exists(p)'
  BY <1>1 DEF M!Exists
<1>3. new.status = "created" => new.courier = None
  <2>1. Edits(o, new) => new.status = orders[o].status /\ new.courier = orders[o].courier /\ M!Exists(o)
    BY DEF Edits
  <2>2. Moves(o, new) => new.status # "created"
    BY DEF Moves, M!allows, M!ALLOWED_TRANSITIONS, M!OrderStatus, M!Exists, M!DeliveryOrder,
           OrdersFit, OrdersTypeOK
  <2> QED
    BY <2>1, <2>2 DEF RowStep, Creates, OrdersFit, RowsFit
<1>4. \A p \in OrderIds : M!Exists(p)' =>
         /\ orders'[p].id = p
         /\ orders'[p].status = "created" => orders'[p].courier = None
  BY <1>1, <1>3 DEF OrdersFit, RowsFit, M!Exists
<1>5. \A i \in DOMAIN order_outbox :
         /\ order_outbox[i].order \in OrderIds
         /\ order_outbox[i].version \in Nat
  BY OutboxEvents DEF OrdersFit
<1>6. ASSUME NEW i \in DOMAIN order_outbox
      PROVE  /\ orders'[order_outbox[i].order] # None
             /\ order_outbox[i].version <= orders'[order_outbox[i].order].version
  <2> DEFINE p == order_outbox[i].order
             v == order_outbox[i].version
  <2>1. /\ p \in OrderIds /\ v \in Nat /\ orders[p] # None /\ v <= orders[p].version
    BY <1>5 DEF OrdersFit, RowsFit, M!Exists
  <2> HIDE DEF p, v
  <2>2. orders'[p] # None /\ v <= orders'[p].version
    <3>1. CASE p = o
      <4>1. new.version = orders[o].version + 1 /\ orders[o].version \in Nat
        BY <1>1, <2>1, <3>1 DEF RowStep, Creates, Edits, Moves, M!Exists
      <4> QED
        BY <1>1, <2>1, <3>1, <4>1
    <3>2. CASE p # o
      BY <1>1, <2>1, <3>2
    <3> QED
      BY <3>1, <3>2
  <2> QED
    BY <2>2 DEF p, v
<1>7. CASE order_outbox' = order_outbox
  BY <1>1, <1>4, <1>6, <1>7 DEF OrdersFit, OrdersTypeOK, RowsFit, M!Exists
<1>8. CASE \E type \in {"order.created", "order.status_changed"} :
              order_outbox' = Append(order_outbox, M!Event(type, new))
  <2> PICK type \in {"order.created", "order.status_changed"} :
               order_outbox' = Append(order_outbox, M!Event(type, new))
    BY <1>8
  <2>1. PICK n \in Nat :
           /\ order_outbox' \in Seq(EventRecord)
           /\ DOMAIN order_outbox = 1..n /\ DOMAIN order_outbox' = 1..(n + 1)
           /\ \A i \in 1..n : order_outbox'[i] = order_outbox[i]
           /\ order_outbox'[n + 1].order = o /\ order_outbox'[n + 1].type = type
           /\ order_outbox'[n + 1].version = new.version
           /\ order_outbox'[n + 1].status = new.status
    <3>1. new.id = o
      BY <1>1
    <3> QED
      BY <3>1, Announced
  <2>2. ASSUME NEW i \in 1..(n + 1)
        PROVE  /\ orders'[order_outbox'[i].order] # None
               /\ order_outbox'[i].version <= orders'[order_outbox'[i].order].version
    <3>1. CASE i \in 1..n
      <4>1. i \in DOMAIN order_outbox /\ order_outbox'[i] = order_outbox[i]
        BY <2>1, <3>1
      <4> QED
        BY <1>6, <4>1
    <3>2. CASE i = n + 1
      BY <1>1, <2>1, <3>2
    <3>3. i \in 1..n \/ i = n + 1
      OBVIOUS
    <3> QED
      BY <3>1, <3>2, <3>3
  <2> QED
    BY <1>1, <1>4, <2>1, <2>2 DEF OrdersTypeOK, RowsFit, M!Exists
<1> QED
  BY <1>7, <1>8 DEF RowStep, Creates, Edits, Moves

\* A courier gets an order only when no other is in progress.
LEMMA ProgressKept ==
    ASSUME OrdersFit, NEW o \in OrderIds, NEW new \in M!DeliveryOrder, RowStep(o, new)
    PROVE  M!OneOrderInProgress'
<1>1. /\ orders'[o] = new /\ new # None
      /\ \A p \in OrderIds \ {o} : orders'[p] = orders[p]
  BY RowChange
<1>2. ASSUME NEW p \in OrderIds, p # o, orders[p] # None, orders[p].status \in InProgress,
             new.status \in InProgress, new.courier # None
      PROVE  new.courier # orders[p].courier
  <2>1. CASE Creates(o, new)
    BY <1>2, <2>1 DEF Creates, InProgress
  <2>2. CASE Edits(o, new)
    BY <1>2, <2>2 DEF Edits, InProgress, OrdersFit, OrdersAgree, M!OneOrderInProgress, M!Exists
  <2>3. CASE Moves(o, new) /\ ~M!Busy(new.courier)
    BY <1>2, <2>3 DEF M!Busy, M!Exists, InProgress
  <2>4. CASE Moves(o, new) /\ new.courier = orders[o].courier
    <3>1. orders[o] # None /\ orders[o].status \in M!OrderStatus
          /\ new.status \in M!ALLOWED_TRANSITIONS[orders[o].status]
      BY <2>4 DEF Moves, M!Exists, M!allows, OrdersFit, OrdersTypeOK, M!DeliveryOrder
    <3>2. orders[o].status # "created"
      BY <1>2, <2>4, <3>1 DEF OrdersFit, RowsFit, M!Exists
    <3>3. orders[o].status \in InProgress
      BY <1>2, <3>1, <3>2 DEF M!ALLOWED_TRANSITIONS, M!OrderStatus, InProgress
    <3> QED
      BY <1>2, <2>4, <3>1, <3>3
         DEF InProgress, OrdersFit, OrdersAgree, M!OneOrderInProgress, M!Exists
  <2> QED
    BY <2>1, <2>2, <2>3, <2>4 DEF RowStep, Moves
<1>3. \A p, q \in OrderIds :
         /\ orders'[p] # None /\ orders'[p].status \in InProgress
         /\ orders'[q] # None /\ orders'[q].status \in InProgress
         /\ orders'[p].courier = orders'[q].courier /\ orders'[p].courier # None
         => p = q
  BY <1>1, <1>2 DEF InProgress, OrdersFit, OrdersAgree, M!OneOrderInProgress, M!Exists
<1> QED
  BY <1>3 DEF InProgress, M!OneOrderInProgress, M!Exists

\* The events of an order go on telling its status.
LEMMA EventsKept ==
    ASSUME OrdersFit, NEW o \in OrderIds, NEW new \in M!DeliveryOrder, RowStep(o, new)
    PROVE  M!EventsTellTheStatus'
<1> DEFINE Story(p) ==
        IF M!Exists(p)
        THEN /\ \E i \in M!Told(p) :
                   /\ order_outbox[i].type = "order.created"
                   /\ \A j \in M!Told(p) : i <= j
             /\ \E i \in M!Told(p) :
                   /\ order_outbox[i].status = orders[p].status
                   /\ \A j \in M!Told(p) : j <= i
             /\ \A i, j \in M!Told(p) :
                   i < j /\ (\A k \in M!Told(p) : k <= i \/ j <= k) =>
                       /\ order_outbox[i].version < order_outbox[j].version
                       /\ M!allows(order_outbox[i].status, order_outbox[j].status)
        ELSE M!Told(p) = {}
<1>1. /\ orders'[o] = new /\ new # None /\ new.id = o /\ new.version \in Nat
      /\ \A p \in OrderIds \ {o} : orders'[p] = orders[p]
      /\ M!Exists(o) => orders[o].version \in Nat
  BY RowChange
<1>2. \A p \in OrderIds : Story(p)
  BY DEF OrdersFit, OrdersAgree, M!EventsTellTheStatus
<1>3. M!Exists(o)' /\ \A p \in OrderIds \ {o} : M!Exists(p)' <=> M!Exists(p)
  BY <1>1 DEF M!Exists
<1>4. CASE Edits(o, new)
  <2>1. /\ order_outbox' = order_outbox /\ M!Exists(o)
        /\ \A p \in OrderIds : M!Told(p)' = M!Told(p)
        /\ \A p \in OrderIds : M!Exists(p) => orders'[p].status = orders[p].status
    BY <1>1, <1>4 DEF Edits, M!Told
  <2>2. \A p \in OrderIds : Story(p)'
    BY <1>2, <1>3, <2>1 DEF M!allows, M!ALLOWED_TRANSITIONS, M!OrderStatus
  <2> QED
    BY <2>2 DEF M!EventsTellTheStatus
<1>5. CASE Creates(o, new) \/ Moves(o, new)
  <2>1. PICK type \in {"order.created", "order.status_changed"} :
           /\ order_outbox' = Append(order_outbox, M!Event(type, new))
           /\ Creates(o, new) => type = "order.created"
    BY <1>5 DEF Creates, Moves, M!Exists
  <2>2. PICK n \in Nat :
           /\ order_outbox' \in Seq(EventRecord)
           /\ DOMAIN order_outbox = 1..n /\ DOMAIN order_outbox' = 1..(n + 1)
           /\ \A i \in 1..n : order_outbox'[i] = order_outbox[i]
           /\ order_outbox'[n + 1].order = o /\ order_outbox'[n + 1].type = type
           /\ order_outbox'[n + 1].version = new.version
           /\ order_outbox'[n + 1].status = new.status
    <3>1. new.id = o /\ order_outbox' = Append(order_outbox, M!Event(type, new))
      BY <1>1, <2>1
    <3> QED
      BY <3>1, Announced
  <2>3. /\ \A p \in OrderIds \ {o} : M!Told(p)' = M!Told(p)
        /\ M!Told(o)' = M!Told(o) \cup {n + 1}
        /\ \A p \in OrderIds : M!Told(p) \subseteq 1..n
    BY <2>2 DEF M!Told
  <2>4. ASSUME NEW p \in OrderIds, p # o PROVE Story(p)'
    <3>1. /\ M!Told(p)' = M!Told(p) /\ orders'[p] = orders[p]
          /\ M!Exists(p)' <=> M!Exists(p)
          /\ \A i \in M!Told(p) : order_outbox'[i] = order_outbox[i]
      BY <1>1, <1>3, <2>2, <2>3, <2>4
    <3> QED
      BY <1>2, <3>1 DEF M!allows, M!ALLOWED_TRANSITIONS, M!OrderStatus
  <2>5. CASE Creates(o, new)
    <3>1. M!Told(o)' = {n + 1} /\ type = "order.created"
      BY <1>2, <2>1, <2>3, <2>5 DEF Creates
    <3>2. Story(o)'
      BY <1>1, <1>3, <2>2, <3>1
    <3> QED
      BY <2>4, <3>2 DEF M!EventsTellTheStatus
  <2>6. CASE Moves(o, new)
    <3>1. /\ M!Exists(o) /\ M!allows(orders[o].status, new.status)
          /\ new.version = orders[o].version + 1 /\ orders[o].version \in Nat
      BY <1>1, <2>6 DEF Moves
    <3>2. PICK a \in M!Told(o) : order_outbox[a].type = "order.created" /\ \A j \in M!Told(o) : a <= j
      BY <1>2, <3>1
    <3>3. PICK z \in M!Told(o) : order_outbox[z].status = orders[o].status /\ \A j \in M!Told(o) : j <= z
      BY <1>2, <3>1
    <3>4. \A i \in M!Told(o) :
             /\ i \in 1..n /\ order_outbox'[i] = order_outbox[i]
             /\ order_outbox[i].version \in Nat
             /\ order_outbox[i].version <= orders[o].version
      <4>1. \A i \in M!Told(o) : i \in DOMAIN order_outbox /\ order_outbox[i].order = o
        BY DEF M!Told
      <4>2. \A i \in M!Told(o) : order_outbox[i].version \in Nat
        BY <4>1, OutboxEvents DEF OrdersFit
      <4>3. \A i \in M!Told(o) : order_outbox[i].version <= orders[o].version
        BY <4>1 DEF OrdersFit, RowsFit
      <4> QED
        BY <2>2, <2>3, <4>2, <4>3
    <3>5. \E i \in M!Told(o)' : /\ order_outbox'[i].type = "order.created"
                                /\ \A j \in M!Told(o)' : i <= j
      BY <2>3, <3>2, <3>4
    <3>6. \E i \in M!Told(o)' : /\ order_outbox'[i].status = orders'[o].status
                                /\ \A j \in M!Told(o)' : j <= i
      BY <1>1, <2>2, <2>3, <3>4
    <3>7. ASSUME NEW i \in M!Told(o)', NEW j \in M!Told(o)', i < j,
                 \A k \in M!Told(o)' : k <= i \/ j <= k
          PROVE  /\ order_outbox'[i].version < order_outbox'[j].version
                 /\ order_outbox'[j].status \in M!ALLOWED_TRANSITIONS[order_outbox'[i].status]
      <4>1. i \in M!Told(o)
        BY <2>3, <3>4, <3>7
      <4>2. CASE j = n + 1
        <5>1. i = z
          BY <2>3, <3>3, <3>4, <3>7, <4>1, <4>2
        <5>2. /\ order_outbox'[i].status = orders[o].status
              /\ order_outbox'[i].version \in Nat
              /\ order_outbox'[i].version <= orders[o].version
          BY <3>3, <3>4, <5>1
        <5> QED
          BY <2>2, <3>1, <4>2, <5>2 DEF M!allows
      <4>3. CASE j # n + 1
        <5>1. j \in M!Told(o)
          BY <2>3, <4>3
        <5>2. \A k \in M!Told(o) : k <= i \/ j <= k
          BY <2>3, <3>7
        <5> QED
          BY <1>2, <3>1, <3>4, <3>7, <4>1, <5>1, <5>2 DEF M!allows
      <4> QED
        BY <4>2, <4>3
    <3>8. Story(o)'
      BY <1>3, <3>5, <3>6, <3>7 DEF M!allows, M!ALLOWED_TRANSITIONS, M!OrderStatus
    <3> QED
      BY <2>4, <3>8 DEF M!EventsTellTheStatus
  <2> QED
    BY <1>5, <2>5, <2>6
<1> QED
  BY <1>4, <1>5 DEF RowStep

\* At the start there is no order and no event.
LEMMA OrdersInit == MCInit => OrdersFit
<1> SUFFICES ASSUME MCInit PROVE OrdersFit
  OBVIOUS
<1>1. orders = [o \in OrderIds |-> None] /\ order_outbox = <<>>
  BY DEF MCInit, M!MemoryInit
<1>2. order_outbox \in Seq(EventRecord) /\ DOMAIN order_outbox = {}
  BY <1>1
<1>3. \A o \in OrderIds : ~M!Exists(o) /\ M!Told(o) = {}
  BY <1>1, <1>2 DEF M!Exists, M!Told
<1>4. OrdersTypeOK /\ RowsFit
  BY <1>1, <1>2, <1>3 DEF OrdersTypeOK, RowsFit
<1>5. M!EventsTellTheStatus /\ M!OneOrderInProgress
  BY <1>3 DEF M!EventsTellTheStatus, M!OneOrderInProgress
<1> QED
  BY <1>4, <1>5 DEF OrdersFit, OrdersAgree

\* Every step keeps rows and outbox in agreement.
LEMMA OrdersStep == OrdersFit /\ [MCNext]_all => OrdersFit'
<1> SUFFICES ASSUME OrdersFit, [MCNext]_all PROVE OrdersFit'
  OBVIOUS
<1>1. CASE UNCHANGED <<orders, order_outbox>>
  <2>1. OrdersTypeOK' /\ RowsFit'
    BY <1>1 DEF OrdersFit, OrdersTypeOK, RowsFit, M!Exists
  <2>2. M!EventsTellTheStatus'
    BY <1>1 DEF OrdersFit, OrdersAgree, M!EventsTellTheStatus, M!Exists, M!Told
  <2>3. M!OneOrderInProgress'
    BY <1>1 DEF OrdersFit, OrdersAgree, M!OneOrderInProgress, M!Exists
  <2> QED
    BY <2>1, <2>2, <2>3 DEF OrdersFit, OrdersAgree
<1>2. ASSUME NEW o \in OrderIds, NEW new \in M!DeliveryOrder, RowStep(o, new)
      PROVE  OrdersFit'
  BY <1>2, RowsKept, ProgressKept, EventsKept DEF OrdersFit, OrdersAgree
<1> QED
  BY <1>1, <1>2, OrdersEffect

\* The outbox tells of every order its creation and then allowed changes with rising
\* versions up to the status that is stored, and no courier is on two orders at once,
\* for any number of orders, couriers and commands (InMemoryOrderRepository).
THEOREM MemoryOrdersAgree == MCSpec => []OrdersAgree
<1>1. OrdersFit => OrdersAgree
  BY DEF OrdersFit
<1> QED
  BY <1>1, OrdersInit, OrdersStep, PTL DEF MCSpec

\* Every answer to a key is the response its record keeps.
AnswersFit ==
    /\ idempotency \in [M!Scopes -> IdempotencyRecord \cup {None}]
    /\ answers \in [M!Scopes -> SUBSET M!DeliveryOrder]
    /\ \A s \in M!Scopes : \A a \in answers[s] :
          idempotency[s] # None /\ a = idempotency[s].response

\* A record is written once, with the first answer, and every later answer reads it
\* (create_order).
LEMMA AnswersStep == AnswersFit /\ [MCNext]_all => AnswersFit'
<1> SUFFICES ASSUME AnswersFit, [MCNext]_all PROVE AnswersFit'
  OBVIOUS
<1>1. M!MemoryNext \/ UNCHANGED memory
  BY OneAdapter
<1>2. CASE UNCHANGED <<idempotency, answers>>
  BY <1>2 DEF AnswersFit
<1>3. ASSUME NEW scope \in M!Scopes, M!Replay(scope) PROVE AnswersFit'
  <2> DEFINE kept == idempotency[scope].response
  <2>1. /\ idempotency' = idempotency /\ idempotency[scope] # None
        /\ answers' = [answers EXCEPT ![scope] = @ \cup {kept}]
    BY <1>3 DEF M!Replay, M!Answer, M!ReplayOf
  <2>2. kept \in M!DeliveryOrder
    BY <2>1 DEF AnswersFit, IdempotencyRecord
  <2>3. answers' \in [M!Scopes -> SUBSET M!DeliveryOrder]
    BY <2>1, <2>2 DEF AnswersFit
  <2>4. \A s \in M!Scopes : answers'[s] = IF s = scope THEN answers[s] \cup {kept} ELSE answers[s]
    BY <2>1 DEF AnswersFit
  <2> QED
    BY <2>1, <2>3, <2>4 DEF AnswersFit
<1>4. ASSUME NEW o \in OrderIds, NEW scope \in M!Scopes, NEW details \in M!Details,
             M!Create(o, scope, details)
      PROVE  AnswersFit'
  <2> DEFINE order == M!create(o, scope[1], details)
             record_ == [fingerprint |-> details, response |-> order]
  <2>1. /\ idempotency[scope] = None
        /\ idempotency' = [idempotency EXCEPT ![scope] = record_]
        /\ answers' = [answers EXCEPT ![scope] = @ \cup {order}]
    BY <1>4 DEF M!Create, M!Answer
  <2>2. order \in M!DeliveryOrder
    BY OrderShapes DEF M!Scopes
  <2> HIDE DEF order
  <2>3. record_ \in IdempotencyRecord /\ record_ # None /\ record_.response = order
    BY <2>2, NoRowAssumption DEF IdempotencyRecord
  <2> HIDE DEF record_
  <2>4. answers[scope] = {}
    BY <2>1 DEF AnswersFit
  <2>5. /\ answers' \in [M!Scopes -> SUBSET M!DeliveryOrder]
        /\ idempotency' \in [M!Scopes -> IdempotencyRecord \cup {None}]
    BY <2>1, <2>2, <2>3 DEF AnswersFit
  <2>6. \A s \in M!Scopes :
           /\ answers'[s] = IF s = scope THEN {order} ELSE answers[s]
           /\ idempotency'[s] = IF s = scope THEN record_ ELSE idempotency[s]
    BY <2>1, <2>4 DEF AnswersFit
  <2> QED
    BY <2>3, <2>5, <2>6 DEF AnswersFit
<1>5. ASSUME NEW courier \in Couriers, M!Claim(courier) PROVE UNCHANGED <<idempotency, answers>>
  BY <1>5 DEF M!Claim, M!save_transition
<1>6. ASSUME NEW o \in OrderIds, NEW actor, NEW changes, M!Update(actor, o, changes)
      PROVE  UNCHANGED <<idempotency, answers>>
  BY <1>6 DEF M!Update
<1>7. ASSUME NEW o \in OrderIds, NEW actor, NEW target, M!Transition(actor, o, target)
      PROVE  UNCHANGED <<idempotency, answers>>
  BY <1>7 DEF M!Transition, M!save_transition
<1>8. UNCHANGED memory => UNCHANGED <<idempotency, answers>>
  BY DEF memory
<1> QED
  BY <1>1, <1>2, <1>3, <1>4, <1>5, <1>6, <1>7, <1>8 DEF M!MemoryNext

\* All answers to one idempotency key are one answer, whatever has happened to the
\* order between the repetitions, for any customers, keys and orders (create_order).
THEOREM MemoryOneAnswerPerKey == MCSpec => []OneAnswerPerKey
<1>1. MCInit => AnswersFit
  BY DEF MCInit, M!MemoryInit, AnswersFit
<1>2. AnswersFit => OneAnswerPerKey
  BY DEF AnswersFit, OneAnswerPerKey, M!OneAnswerPerKey
<1> QED
  BY <1>1, <1>2, AnswersStep, PTL DEF MCSpec

-----------------------------------------------------------------------------
(***************************************************************************)
(* Positions.  The outbox and the snapshot are written together.           *)
(***************************************************************************)
PositionsTypeOK ==
    /\ snapshot \in [Orders -> TrackingEvent]
    /\ outbox \in Seq(Trail)
    /\ unpublished \in [Requests -> Trail \cup {None}]

TrailFit == PositionsTypeOK /\ OutboxIsTheTrail

\* A position gets the next number of its order.
LEMMA RecordEffect ==
    ASSUME PositionsTypeOK, NEW r \in Requests, NEW o \in Orders, NEW e \in Events,
           record(r, o, e)
    PROVE  \E x \in TrackingEvent, n \in Nat :
              /\ x.sequence = snapshot[o].sequence + 1 /\ snapshot[o].sequence \in Nat
              /\ snapshot' = [snapshot EXCEPT ![o] = x]
              /\ unpublished' = [unpublished EXCEPT ![r] = [order |-> o, event |-> x]]
              /\ unpublished[r] = None /\ UNCHANGED streams
              /\ PositionsTypeOK'
              /\ DOMAIN outbox = 1..n /\ DOMAIN outbox' = 1..(n + 1)
              /\ \A i \in 1..n : outbox'[i] = outbox[i]
              /\ outbox'[n + 1] = [order |-> o, event |-> x]
<1> DEFINE x == Numbered(o, e)
           t == [order |-> o, event |-> x]
<1>1. snapshot[o] \in TrackingEvent /\ snapshot[o].sequence \in Nat
  BY DEF PositionsTypeOK, TrackingEvent
<1>2. x \in TrackingEvent /\ x.sequence = snapshot[o].sequence + 1
  BY <1>1 DEF Numbered, TrackingEvent
<1>3. /\ snapshot' = [snapshot EXCEPT ![o] = x]
      /\ unpublished' = [unpublished EXCEPT ![r] = t]
      /\ unpublished[r] = None /\ UNCHANGED streams
      /\ outbox' = Append(outbox, t)
  BY DEF record
<1> HIDE DEF x
<1>4. t \in Trail
  BY <1>2 DEF Trail
<1>5. outbox \in Seq(Trail)
  BY DEF PositionsTypeOK
<1>6. /\ outbox' \in Seq(Trail) /\ Len(outbox) \in Nat
      /\ DOMAIN outbox = 1..Len(outbox) /\ DOMAIN outbox' = 1..(Len(outbox) + 1)
      /\ \A i \in 1..Len(outbox) : outbox'[i] = outbox[i]
      /\ outbox'[Len(outbox) + 1] = t
  BY <1>3, <1>4, <1>5, AppendEffect
<1>7. PositionsTypeOK'
  <2>1. snapshot' \in [Orders -> TrackingEvent]
    BY <1>2, <1>3 DEF PositionsTypeOK
  <2>2. unpublished' \in [Requests -> Trail \cup {None}]
    BY <1>3, <1>4 DEF PositionsTypeOK
  <2> QED
    BY <1>6, <2>1, <2>2 DEF PositionsTypeOK
<1> QED
  BY <1>1, <1>2, <1>3, <1>6, <1>7

\* record writes the snapshot and the event that tells of it.
LEMMA RecordKeepsTrail ==
    ASSUME TrailFit, NEW r \in Requests, NEW o \in Orders, NEW e \in Events, record(r, o, e)
    PROVE  TrailFit'
<1> DEFINE NewTrail(I, p) ==
        /\ \A k \in 1..snapshot'[p].sequence :
              \E i \in I : outbox'[i].order = p /\ outbox'[i].event.sequence = k
        /\ \A i \in I : outbox'[i].order = p =>
              /\ outbox'[i].event.sequence \in 1..snapshot'[p].sequence
              /\ outbox'[i].event.sequence = snapshot'[p].sequence =>
                    outbox'[i].event = snapshot'[p]
              /\ \A j \in I : i < j /\ outbox'[j].order = p =>
                    outbox'[i].event.sequence < outbox'[j].event.sequence
<1>1. PICK x \in TrackingEvent, n \in Nat :
         /\ x.sequence = snapshot[o].sequence + 1 /\ snapshot[o].sequence \in Nat
         /\ snapshot' = [snapshot EXCEPT ![o] = x]
         /\ unpublished' = [unpublished EXCEPT ![r] = [order |-> o, event |-> x]]
         /\ unpublished[r] = None /\ UNCHANGED streams
         /\ PositionsTypeOK'
         /\ DOMAIN outbox = 1..n /\ DOMAIN outbox' = 1..(n + 1)
         /\ \A i \in 1..n : outbox'[i] = outbox[i]
         /\ outbox'[n + 1] = [order |-> o, event |-> x]
  <2>1. PositionsTypeOK
    BY DEF TrailFit
  <2> QED
    BY <2>1, RecordEffect
<1>2. snapshot'[o] = x /\ \A p \in Orders \ {o} : snapshot'[p] = snapshot[p]
  BY <1>1 DEF TrailFit, PositionsTypeOK
<1>3. outbox'[n + 1].order = o /\ outbox'[n + 1].event = x
  BY <1>1
<1> HIDE DEF NewTrail
<1>4. DOMAIN outbox = 1..n /\ \A i \in 1..n : outbox'[i] = outbox[i]
  BY <1>1
<1>5. ASSUME NEW p \in Orders, p # o PROVE NewTrail(1..(n + 1), p)
  <2>1. snapshot'[p] = snapshot[p]
    BY <1>2, <1>5
  <2>2. \A i \in 1..(n + 1) : outbox'[i].order = p => i \in 1..n
    BY <1>3, <1>5
  <2>3. \A k \in 1..snapshot[p].sequence :
           \E i \in 1..n : outbox[i].order = p /\ outbox[i].event.sequence = k
    BY <1>4 DEF TrailFit, OutboxIsTheTrail
  <2>4. \A i \in 1..n : outbox[i].order = p =>
           /\ outbox[i].event.sequence \in 1..snapshot[p].sequence
           /\ outbox[i].event.sequence = snapshot[p].sequence => outbox[i].event = snapshot[p]
           /\ \A j \in 1..n : i < j /\ outbox[j].order = p =>
                 outbox[i].event.sequence < outbox[j].event.sequence
    BY <1>4 DEF TrailFit, OutboxIsTheTrail
  <2>5. \A k \in 1..snapshot[p].sequence :
           \E i \in 1..(n + 1) : outbox'[i].order = p /\ outbox'[i].event.sequence = k
    BY <1>4, <2>3
  <2>6. \A i \in 1..(n + 1) : outbox'[i].order = p =>
           /\ outbox'[i].event.sequence \in 1..snapshot[p].sequence
           /\ outbox'[i].event.sequence = snapshot[p].sequence => outbox'[i].event = snapshot[p]
           /\ \A j \in 1..(n + 1) : i < j /\ outbox'[j].order = p =>
                 outbox'[i].event.sequence < outbox'[j].event.sequence
    BY <1>4, <2>2, <2>4
  <2> QED
    BY <2>1, <2>5, <2>6 DEF NewTrail
<1>6. NewTrail(1..(n + 1), o)
  <2> DEFINE m == snapshot[o].sequence
  <2>1. m \in Nat /\ x.sequence = m + 1
    BY <1>1
  <2>2. \A k \in 1..m : \E i \in 1..n : outbox[i].order = o /\ outbox[i].event.sequence = k
    BY <1>4 DEF TrailFit, OutboxIsTheTrail
  <2>3. \A i \in 1..n : outbox[i].order = o =>
           /\ outbox[i].event.sequence \in 1..m
           /\ \A j \in 1..n : i < j /\ outbox[j].order = o =>
                 outbox[i].event.sequence < outbox[j].event.sequence
    BY <1>4 DEF TrailFit, OutboxIsTheTrail
  <2> HIDE DEF m
  <2>4. ASSUME NEW k \in 1..x.sequence
        PROVE  \E i \in 1..(n + 1) : outbox'[i].order = o /\ outbox'[i].event.sequence = k
    <3>1. CASE k = m + 1
      BY <1>3, <2>1, <3>1
    <3>2. CASE k # m + 1
      <4>1. k \in 1..m
        BY <2>1, <3>2
      <4>2. PICK i \in 1..n : outbox[i].order = o /\ outbox[i].event.sequence = k
        BY <2>2, <4>1
      <4> QED
        BY <1>4, <4>2
    <3> QED
      BY <3>1, <3>2
  <2>5. ASSUME NEW i \in 1..(n + 1), outbox'[i].order = o
        PROVE  /\ outbox'[i].event.sequence \in 1..x.sequence
               /\ outbox'[i].event.sequence = x.sequence => outbox'[i].event = x
               /\ \A j \in 1..(n + 1) : i < j /\ outbox'[j].order = o =>
                     outbox'[i].event.sequence < outbox'[j].event.sequence
    <3>1. CASE i = n + 1
      BY <1>3, <2>1, <3>1
    <3>2. CASE i # n + 1
      <4>1. i \in 1..n /\ outbox'[i] = outbox[i] /\ outbox[i].order = o
        BY <1>4, <2>5, <3>2
      <4>2. outbox[i].event.sequence \in 1..m
        BY <2>3, <4>1
      <4>3. ASSUME NEW j \in 1..(n + 1), i < j, outbox'[j].order = o
            PROVE  outbox'[i].event.sequence < outbox'[j].event.sequence
        <5>1. CASE j = n + 1
          BY <1>3, <2>1, <4>1, <4>2, <5>1
        <5>2. CASE j # n + 1
          BY <1>4, <2>3, <4>1, <4>3, <5>2
        <5> QED
          BY <5>1, <5>2
      <4> QED
        BY <2>1, <4>1, <4>2, <4>3
    <3> QED
      BY <3>1, <3>2
  <2> QED
    BY <1>2, <2>4, <2>5 DEF NewTrail
<1>7. OutboxIsTheTrail'
  <2>1. DOMAIN outbox' = 1..(n + 1)
    BY <1>1
  <2>2. ASSUME NEW p \in Orders PROVE NewTrail(DOMAIN outbox', p)
    BY <1>5, <1>6, <2>1
  <2> QED
    BY ONLY <2>2, Zenon DEF OutboxIsTheTrail, NewTrail
<1> QED
  BY <1>1, <1>7 DEF TrailFit

\* At the start there is no position.
LEMMA TrailInit == MCInit => TrailFit
<1> SUFFICES ASSUME MCInit PROVE TrailFit
  OBVIOUS
<1>1. /\ snapshot = [o \in Orders |-> NoPosition] /\ outbox = <<>>
      /\ unpublished = [r \in Requests |-> None]
  BY DEF MCInit, Init
<1>2. NoPosition \in TrackingEvent /\ NoPosition.sequence = 0
  BY DEF NoPosition, TrackingEvent
<1>3. outbox \in Seq(Trail) /\ DOMAIN outbox = {}
  BY <1>1
<1>4. PositionsTypeOK
  BY <1>1, <1>2, <1>3 DEF PositionsTypeOK
<1>5. OutboxIsTheTrail
  BY <1>1, <1>2, <1>3 DEF OutboxIsTheTrail
<1> QED
  BY <1>4, <1>5 DEF TrailFit

\* Only record writes positions.
LEMMA TrailStep == TrailFit /\ [MCNext]_all => TrailFit'
<1> SUFFICES ASSUME TrailFit, [MCNext]_all PROVE TrailFit'
  OBVIOUS
<1>1. Next \/ UNCHANGED vars
  BY OneAdapter
<1>2. ASSUME UNCHANGED <<snapshot, outbox>>, unpublished' \in [Requests -> Trail \cup {None}]
      PROVE  TrailFit'
  BY <1>2 DEF TrailFit, PositionsTypeOK, OutboxIsTheTrail
<1>3. unpublished \in [Requests -> Trail \cup {None}]
  BY DEF TrailFit, PositionsTypeOK
<1>4. CASE UNCHANGED vars
  BY <1>2, <1>3, <1>4 DEF vars
<1>5. ASSUME NEW r \in Requests, Publish(r) PROVE TrailFit'
  BY <1>2, <1>3, <1>5 DEF Publish
<1>6. CASE Stream \/ \E o \in Orders : Finish(o)
  BY <1>2, <1>3, <1>6 DEF Stream, Finish
<1> QED
  BY <1>1, <1>4, <1>5, <1>6, RecordKeepsTrail DEF Next

\* The outbox tells every position of an order in the order of its sequence numbers,
\* without a gap, and ends with the stored one, for any number of orders, event ids
\* and requests (InMemoryTrackingRepository.record).
THEOREM MemoryOutboxIsTheTrail == MCSpec => []OutboxIsTheTrail
<1>1. TrailFit => OutboxIsTheTrail
  BY DEF TrailFit
<1> QED
  BY <1>1, TrailInit, TrailStep, PTL DEF MCSpec

-----------------------------------------------------------------------------
(***************************************************************************)
(* Streams.  A WebSocket subscribes before it loads the snapshot, so from  *)
(* the load on the stored position is the loaded one, or in the queue, or  *)
(* still in the hands of a background task.                                *)
(***************************************************************************)
Stages == {"closed", "read", "loading", "loaded", "following"}

HubTypeOK ==
    /\ stage \in [Streams -> Stages]
    /\ queue \in [Streams -> Seq(TrackingEvent) \cup {None}]
    /\ first \in [Streams -> TrackingEvent]
    /\ shown \in [Streams -> Seq(TrackingEvent)]
    /\ dropped \in [Streams -> BOOLEAN]

Pending(x) == \E r \in Requests : unpublished[r] = [order |-> Watched, event |-> x]

Among(x, q) == \E i \in DOMAIN q : q[i] = x

\* What a WebSocket has of the position x.
Has(s, x) ==
    /\ stage[s] = "loaded" => first[s] = x \/ Among(x, queue[s])
    /\ stage[s] = "following" => Among(x, shown[s]) \/ Among(x, queue[s])

HubFit ==
    /\ HubTypeOK
    /\ \A s \in Streams : Subscribed(s) <=> stage[s] \in {"loading", "loaded", "following"}
    /\ \A s \in WebSockets :
          dropped[s] \/ Has(s, snapshot[Watched]) \/ Pending(snapshot[Watched])

\* The variables of the stream s after a step of s.
Puts(s, st, q, f, sh, d) ==
    /\ stage' = [stage EXCEPT ![s] = st]
    /\ queue' = [queue EXCEPT ![s] = q]
    /\ first' = [first EXCEPT ![s] = f]
    /\ shown' = [shown EXCEPT ![s] = sh]
    /\ dropped' = [dropped EXCEPT ![s] = d]

\* What a step of a WebSocket does with the position.
WsMove(s, st, q, f, sh, d) ==
    \/ st \in {"closed", "loading"}
    \/ st = "loaded" /\ f = snapshot[Watched]
    \/ /\ st = "following" /\ stage[s] = "loaded" /\ d = dropped[s]
       /\ q = queue[s] /\ sh = <<first[s]>>
    \/ /\ st = "following" /\ stage[s] = "following" /\ d = dropped[s]
       /\ queue[s] # None /\ queue[s] # <<>>
       /\ q = Tail(queue[s]) /\ sh = Append(shown[s], Head(queue[s]))

\* A stream keeps the values that a step of it does not write.
LEMMA Kept ==
    ASSUME HubTypeOK, NEW s \in Streams
    PROVE  /\ stage = [stage EXCEPT ![s] = stage[s]]
           /\ queue = [queue EXCEPT ![s] = queue[s]]
           /\ first = [first EXCEPT ![s] = first[s]]
           /\ shown = [shown EXCEPT ![s] = shown[s]]
           /\ dropped = [dropped EXCEPT ![s] = dropped[s]]
           /\ stage[s] \in Stages /\ queue[s] \in Seq(TrackingEvent) \cup {None}
           /\ first[s] \in TrackingEvent /\ shown[s] \in Seq(TrackingEvent)
           /\ dropped[s] \in BOOLEAN
<1>1. /\ stage = [stage EXCEPT ![s] = stage[s]] /\ stage[s] \in Stages
  BY DEF HubTypeOK
<1>2. /\ queue = [queue EXCEPT ![s] = queue[s]]
      /\ queue[s] \in Seq(TrackingEvent) \cup {None}
  BY DEF HubTypeOK
<1>3. first = [first EXCEPT ![s] = first[s]] /\ first[s] \in TrackingEvent
  BY DEF HubTypeOK
<1>4. shown = [shown EXCEPT ![s] = shown[s]] /\ shown[s] \in Seq(TrackingEvent)
  BY DEF HubTypeOK
<1>5. dropped = [dropped EXCEPT ![s] = dropped[s]] /\ dropped[s] \in BOOLEAN
  BY DEF HubTypeOK
<1> QED
  BY <1>1, <1>2, <1>3, <1>4, <1>5

\* Short lists, and the two ends of a queue.
LEMMA Lists ==
    ASSUME NEW S
    PROVE  /\ <<>> \in Seq(S)
           /\ \A x \in S : <<x>> \in Seq(S) /\ Among(x, <<x>>)
           /\ \A q \in Seq(S) : q # <<>> =>
                 /\ Tail(q) \in Seq(S) /\ Head(q) \in S
                 /\ \A x : Among(x, q) => x = Head(q) \/ Among(x, Tail(q))
           /\ \A q \in Seq(S) : \A x \in S :
                 /\ Append(q, x) \in Seq(S) /\ Among(x, Append(q, x))
                 /\ \A y : Among(y, q) => Among(y, Append(q, x))
<1>1. <<>> \in Seq(S)
  OBVIOUS
<1>2. ASSUME NEW x \in S PROVE <<x>> \in Seq(S) /\ Among(x, <<x>>)
  <2>1. <<x>> \in Seq(S) /\ 1 \in DOMAIN <<x>> /\ <<x>>[1] = x
    OBVIOUS
  <2> QED
    BY <2>1 DEF Among
<1>3. ASSUME NEW q \in Seq(S), q # <<>>
      PROVE  /\ Tail(q) \in Seq(S) /\ Head(q) \in S
             /\ \A x : Among(x, q) => x = Head(q) \/ Among(x, Tail(q))
  <2>1. Len(q) \in Nat /\ Len(q) > 0 /\ DOMAIN q = 1..Len(q) /\ q \in [1..Len(q) -> S]
    BY <1>3
  <2>2. /\ Tail(q) \in Seq(S) /\ Len(Tail(q)) = Len(q) - 1 /\ Head(q) \in S
        /\ Head(q) = q[1]
        /\ \A i \in 1..Len(Tail(q)) : Tail(q)[i] = q[i + 1]
    BY <1>3, <2>1
  <2>3. DOMAIN Tail(q) = 1..(Len(q) - 1)
    BY <2>1, <2>2
  <2>4. ASSUME NEW i \in DOMAIN q PROVE q[i] = Head(q) \/ Among(q[i], Tail(q))
    <3>1. CASE i = 1
      BY <2>2, <3>1
    <3>2. CASE i # 1
      <4>1. i - 1 \in DOMAIN Tail(q) /\ Tail(q)[i - 1] = q[i]
        BY <2>1, <2>2, <2>3, <3>2
      <4> QED
        BY <4>1 DEF Among
    <3> QED
      BY <3>1, <3>2
  <2> QED
    BY <2>2, <2>4 DEF Among
<1>4. ASSUME NEW q \in Seq(S), NEW x \in S
      PROVE  /\ Append(q, x) \in Seq(S) /\ Among(x, Append(q, x))
             /\ \A y : Among(y, q) => Among(y, Append(q, x))
  <2>1. /\ Append(q, x) \in Seq(S) /\ Len(q) \in Nat
        /\ DOMAIN q = 1..Len(q) /\ DOMAIN Append(q, x) = 1..(Len(q) + 1)
        /\ \A i \in DOMAIN q : Append(q, x)[i] = q[i]
        /\ Append(q, x)[Len(q) + 1] = x
    BY AppendEffect
  <2>2. Len(q) + 1 \in DOMAIN Append(q, x)
    BY <2>1
  <2>3. \A i \in DOMAIN q : i \in DOMAIN Append(q, x)
    BY <2>1
  <2> QED
    BY <2>1, <2>2, <2>3 DEF Among
<1> QED
  BY <1>1, <1>2, <1>3, <1>4

\* Every step of a stream writes the variables of that stream.
LEMMA StreamMoves ==
    ASSUME HubFit, PositionsTypeOK, Stream
    PROVE  \E s \in Streams, st \in Stages, q \in Seq(TrackingEvent) \cup {None},
              f \in TrackingEvent, sh \in Seq(TrackingEvent), d \in BOOLEAN :
              /\ Puts(s, st, q, f, sh, d)
              /\ q # None <=> st \in {"loading", "loaded", "following"}
              /\ s \in WebSockets => WsMove(s, st, q, f, sh, d)
<1> DEFINE Goal(s, st, q, f, sh, d) ==
        /\ Puts(s, st, q, f, sh, d)
        /\ q # None <=> st \in {"loading", "loaded", "following"}
        /\ s \in WebSockets => WsMove(s, st, q, f, sh, d)
<1>1. HubTypeOK /\ snapshot[Watched] \in TrackingEvent
  BY WatchedAssumption DEF HubFit, PositionsTypeOK
<1>2. ASSUME NEW s \in Streams
      PROVE  queue[s] # None <=> stage[s] \in {"loading", "loaded", "following"}
  BY DEF HubFit, Subscribed
<1>3. Sse \subseteq Streams /\ WebSockets \subseteq Streams /\ Sse \cap WebSockets = {}
  BY WatchedAssumption DEF Streams
<1>4. <<>> \in Seq(TrackingEvent) /\ <<>> # None
  BY Lists, NoEventAssumption
<1>5. {"closed", "read", "loading", "loaded", "following"} = Stages
  BY DEF Stages
<1>6. ASSUME NEW s \in Sse, SseRead(s, snapshot[Watched])
      PROVE  Goal(s, "read", queue[s], snapshot[Watched], shown[s], dropped[s])
  <2>1. Puts(s, "read", queue[s], snapshot[Watched], shown[s], dropped[s])
    BY <1>1, <1>3, <1>6, Kept DEF SseRead, Puts
  <2>2. queue[s] = None
    BY <1>2, <1>3, <1>6 DEF SseRead
  <2> QED
    BY <1>3, <2>1, <2>2
<1>7. ASSUME NEW s \in Sse, SseOpen(s)
      PROVE  Goal(s, "following", <<>>, first[s], <<first[s]>>, FALSE)
  <2>1. Puts(s, "following", <<>>, first[s], <<first[s]>>, FALSE)
    BY <1>1, <1>3, <1>7, Kept DEF SseOpen, Subscribe, Puts
  <2> QED
    BY <1>3, <1>4, <2>1
<1>8. ASSUME NEW s \in Sse, SseNext(s)
      PROVE  \E sh \in {shown[s], Append(shown[s], Head(queue[s]))} :
                /\ Goal(s, "following", Tail(queue[s]), first[s], sh, dropped[s])
                /\ queue[s] # <<>> /\ queue[s] # None
  <2>1. stage[s] = "following" /\ queue[s] # <<>> /\ queue[s] # None
    BY <1>2, <1>3, <1>8 DEF SseNext
  <2>2. PICK sh \in {shown[s], Append(shown[s], Head(queue[s]))} :
           shown' = [shown EXCEPT ![s] = sh]
    BY <1>1, <1>3, <1>8, Kept DEF SseNext
  <2>3. Puts(s, "following", Tail(queue[s]), first[s], sh, dropped[s])
    BY <1>1, <1>3, <1>8, <2>1, <2>2, Kept DEF SseNext, Puts
  <2>4. Tail(queue[s]) # None
    <3>1. queue[s] \in Seq(TrackingEvent)
      BY <1>1, <1>3, <2>1, Kept
    <3>2. Tail(queue[s]) \in Seq(TrackingEvent)
      BY <2>1, <3>1, Lists
    <3> QED
      BY <3>2, NoEventAssumption
  <2> QED
    BY <1>3, <2>1, <2>3, <2>4
<1>9. ASSUME NEW s \in WebSockets, WsSubscribe(s)
      PROVE  Goal(s, "loading", <<>>, first[s], shown[s], FALSE)
  <2>1. Puts(s, "loading", <<>>, first[s], shown[s], FALSE)
    BY <1>1, <1>3, <1>9, Kept DEF WsSubscribe, Subscribe, Puts
  <2> QED
    BY <1>4, <2>1 DEF WsMove
<1>10. ASSUME NEW s \in WebSockets, WsLoad(s, snapshot[Watched])
       PROVE  Goal(s, "loaded", queue[s], snapshot[Watched], shown[s], dropped[s])
  <2>1. Puts(s, "loaded", queue[s], snapshot[Watched], shown[s], dropped[s])
    BY <1>1, <1>3, <1>10, Kept DEF WsLoad, Puts
  <2>2. queue[s] # None
    BY <1>2, <1>3, <1>10 DEF WsLoad
  <2> QED
    BY <2>1, <2>2 DEF WsMove
<1>11. ASSUME NEW s \in WebSockets, WsAccept(s)
       PROVE  Goal(s, "following", queue[s], first[s], <<first[s]>>, dropped[s])
  <2>1. Puts(s, "following", queue[s], first[s], <<first[s]>>, dropped[s])
    BY <1>1, <1>3, <1>11, Kept DEF WsAccept, Puts
  <2>2. queue[s] # None /\ stage[s] = "loaded"
    BY <1>2, <1>3, <1>11 DEF WsAccept
  <2> QED
    BY <2>1, <2>2 DEF WsMove
<1>12. ASSUME NEW s \in WebSockets, WsNext(s)
       PROVE  /\ Goal(s, "following", Tail(queue[s]), first[s],
                      Append(shown[s], Head(queue[s])), dropped[s])
              /\ queue[s] # <<>> /\ queue[s] # None
  <2>1. stage[s] = "following" /\ queue[s] # <<>> /\ queue[s] # None
    BY <1>2, <1>3, <1>12 DEF WsNext
  <2>2. Puts(s, "following", Tail(queue[s]), first[s], Append(shown[s], Head(queue[s])), dropped[s])
    BY <1>1, <1>3, <1>12, <2>1, Kept DEF WsNext, Puts
  <2>3. Tail(queue[s]) # None
    <3>1. queue[s] \in Seq(TrackingEvent)
      BY <1>1, <1>3, <2>1, Kept
    <3>2. Tail(queue[s]) \in Seq(TrackingEvent)
      BY <2>1, <3>1, Lists
    <3> QED
      BY <3>2, NoEventAssumption
  <2> QED
    BY <2>1, <2>2, <2>3 DEF WsMove
<1>13. ASSUME NEW s \in WebSockets, WsLost(s)
       PROVE  Goal(s, "closed", None, first[s], shown[s], dropped[s])
  <2>1. Puts(s, "closed", None, first[s], shown[s], dropped[s])
    BY <1>1, <1>3, <1>13, Kept DEF WsLost, Puts
  <2> QED
    BY <2>1 DEF WsMove
<1>14. ASSUME NEW s \in Streams, Close(s)
       PROVE  Goal(s, "closed", None, first[s], <<>>, dropped[s])
  <2>1. Puts(s, "closed", None, first[s], <<>>, dropped[s])
    BY <1>1, <1>14, Kept DEF Close, Puts
  <2> QED
    BY <2>1 DEF WsMove
<1>15. ASSUME NEW s \in Streams
       PROVE  /\ first[s] \in TrackingEvent /\ shown[s] \in Seq(TrackingEvent)
              /\ <<first[s]>> \in Seq(TrackingEvent) /\ dropped[s] \in BOOLEAN
              /\ queue[s] \in Seq(TrackingEvent) \cup {None}
              /\ queue[s] # None /\ queue[s] # <<>> =>
                    /\ Tail(queue[s]) \in Seq(TrackingEvent)
                    /\ Append(shown[s], Head(queue[s])) \in Seq(TrackingEvent)
  <2>1. /\ first[s] \in TrackingEvent /\ shown[s] \in Seq(TrackingEvent)
        /\ dropped[s] \in BOOLEAN /\ queue[s] \in Seq(TrackingEvent) \cup {None}
    BY <1>1, Kept
  <2>2. <<first[s]>> \in Seq(TrackingEvent)
    BY <2>1, Lists
  <2>3. ASSUME queue[s] # None, queue[s] # <<>>
        PROVE  /\ Tail(queue[s]) \in Seq(TrackingEvent)
               /\ Append(shown[s], Head(queue[s])) \in Seq(TrackingEvent)
    BY <2>1, <2>3, Lists
  <2> QED
    BY <2>1, <2>2, <2>3
<1> HIDE DEF Goal
<1>16. PICK s \in Streams :
          \/ s \in Sse /\ (SseRead(s, snapshot[Watched]) \/ SseOpen(s) \/ SseNext(s))
          \/ s \in WebSockets /\ (\/ WsSubscribe(s) \/ WsLoad(s, snapshot[Watched])
                                  \/ WsAccept(s) \/ WsNext(s) \/ WsLost(s))
          \/ Close(s)
  BY <1>3 DEF Stream
<1>17. \E st \in Stages, q \in Seq(TrackingEvent) \cup {None}, f \in TrackingEvent,
          sh \in Seq(TrackingEvent), d \in BOOLEAN : Goal(s, st, q, f, sh, d)
  <2>1. CASE s \in Sse /\ SseRead(s, snapshot[Watched])
    BY <1>1, <1>5, <1>6, <1>15, <2>1
  <2>2. CASE s \in Sse /\ SseOpen(s)
    BY <1>4, <1>5, <1>7, <1>15, <2>2
  <2>3. CASE s \in Sse /\ SseNext(s)
    <3>1. PICK sh \in {shown[s], Append(shown[s], Head(queue[s]))} :
             /\ Goal(s, "following", Tail(queue[s]), first[s], sh, dropped[s])
             /\ queue[s] # <<>> /\ queue[s] # None
      BY <1>8, <2>3
    <3>2. sh \in Seq(TrackingEvent) /\ Tail(queue[s]) \in Seq(TrackingEvent)
      BY <1>15, <3>1
    <3> QED
      BY <1>5, <1>15, <3>1, <3>2
  <2>4. CASE s \in WebSockets /\ WsSubscribe(s)
    BY <1>4, <1>5, <1>9, <1>15, <2>4
  <2>5. CASE s \in WebSockets /\ WsLoad(s, snapshot[Watched])
    BY <1>1, <1>5, <1>10, <1>15, <2>5
  <2>6. CASE s \in WebSockets /\ WsAccept(s)
    BY <1>5, <1>11, <1>15, <2>6
  <2>7. CASE s \in WebSockets /\ WsNext(s)
    <3>1. /\ Goal(s, "following", Tail(queue[s]), first[s],
                  Append(shown[s], Head(queue[s])), dropped[s])
          /\ queue[s] # <<>> /\ queue[s] # None
      BY <1>12, <2>7
    <3> QED
      BY <1>5, <1>15, <3>1
  <2>8. CASE s \in WebSockets /\ WsLost(s)
    BY <1>5, <1>13, <1>15, <2>8
  <2>9. CASE Close(s)
    BY <1>4, <1>5, <1>14, <1>15, <2>9
  <2> QED
    BY <1>16, <2>1, <2>2, <2>3, <2>4, <2>5, <2>6, <2>7, <2>8, <2>9
<1> QED
  BY <1>17 DEF Goal

\* What a WebSocket has after a step.
LEMMA HasNext ==
    ASSUME NEW s, NEW x
    PROVE  Has(s, x)' <=>
              /\ stage'[s] = "loaded" => first'[s] = x \/ Among(x, queue'[s])
              /\ stage'[s] = "following" => Among(x, shown'[s]) \/ Among(x, queue'[s])
BY DEF Has, Among

\* A stream that moves takes nothing of the position away from a WebSocket.
LEMMA StreamKeepsHub ==
    ASSUME HubFit, PositionsTypeOK, Stream
    PROVE  HubFit'
<1>1. PICK s \in Streams, st \in Stages, q \in Seq(TrackingEvent) \cup {None},
           f \in TrackingEvent, sh \in Seq(TrackingEvent), d \in BOOLEAN :
         /\ Puts(s, st, q, f, sh, d)
         /\ q # None <=> st \in {"loading", "loaded", "following"}
         /\ s \in WebSockets => WsMove(s, st, q, f, sh, d)
  BY StreamMoves
<1>2. HubTypeOK /\ UNCHANGED <<snapshot, unpublished>>
  BY DEF HubFit, Stream
<1>3. HubTypeOK'
  <2>1. stage' \in [Streams -> Stages]
    BY <1>1, <1>2 DEF Puts, HubTypeOK
  <2>2. queue' \in [Streams -> Seq(TrackingEvent) \cup {None}]
    BY <1>1, <1>2 DEF Puts, HubTypeOK
  <2>3. first' \in [Streams -> TrackingEvent]
    BY <1>1, <1>2 DEF Puts, HubTypeOK
  <2>4. shown' \in [Streams -> Seq(TrackingEvent)]
    BY <1>1, <1>2 DEF Puts, HubTypeOK
  <2>5. dropped' \in [Streams -> BOOLEAN]
    BY <1>1, <1>2 DEF Puts, HubTypeOK
  <2> QED
    BY <2>1, <2>2, <2>3, <2>4, <2>5 DEF HubTypeOK
<1>4. stage'[s] = st /\ queue'[s] = q /\ first'[s] = f /\ shown'[s] = sh /\ dropped'[s] = d
  <2>1. stage'[s] = st /\ queue'[s] = q
    BY <1>1, <1>2 DEF Puts, HubTypeOK
  <2>2. first'[s] = f /\ shown'[s] = sh
    BY <1>1, <1>2 DEF Puts, HubTypeOK
  <2>3. dropped'[s] = d
    BY <1>1, <1>2 DEF Puts, HubTypeOK
  <2> QED
    BY <2>1, <2>2, <2>3
<1>5. ASSUME NEW t \in Streams, t # s
      PROVE  /\ stage'[t] = stage[t] /\ queue'[t] = queue[t] /\ first'[t] = first[t]
             /\ shown'[t] = shown[t] /\ dropped'[t] = dropped[t]
  <2>1. stage'[t] = stage[t] /\ queue'[t] = queue[t]
    BY <1>1, <1>2, <1>5 DEF Puts, HubTypeOK
  <2>2. first'[t] = first[t] /\ shown'[t] = shown[t]
    BY <1>1, <1>2, <1>5 DEF Puts, HubTypeOK
  <2>3. dropped'[t] = dropped[t]
    BY <1>1, <1>2, <1>5 DEF Puts, HubTypeOK
  <2> QED
    BY <2>1, <2>2, <2>3
<1>6. \A t \in Streams : Subscribed(t)' <=> stage'[t] \in {"loading", "loaded", "following"}
  BY <1>1, <1>4, <1>5 DEF Subscribed, HubFit
<1> PICK x : x = snapshot[Watched]
  OBVIOUS
<1>7. x = snapshot'[Watched] /\ (Pending(x)' <=> Pending(x))
  BY <1>2 DEF Pending
<1>8. ASSUME NEW t \in WebSockets, Has(t, x) PROVE Has(t, x)'
  <2>1. t \in Streams
    BY DEF Streams
  <2>2. CASE t # s
    BY <1>5, <1>8, <2>1, <2>2, HasNext DEF Has
  <2>3. CASE t = s
    <3>1. WsMove(s, st, q, f, sh, d)
      BY <1>1, <2>3
    <3>2. CASE st \in {"closed", "loading"}
      BY <1>4, <2>3, <3>2, HasNext
    <3>3. CASE st = "loaded" /\ f = x
      BY <1>4, <2>3, <3>3, HasNext
    <3>4. CASE /\ st = "following" /\ stage[s] = "loaded" /\ d = dropped[s]
               /\ q = queue[s] /\ sh = <<first[s]>>
      <4>1. Among(first[s], <<first[s]>>)
        BY <1>2, Kept, Lists
      <4>2. Among(x, sh) \/ Among(x, q)
        BY <1>8, <2>3, <3>4, <4>1 DEF Has
      <4> QED
        BY <1>4, <2>3, <3>4, <4>2, HasNext
    <3>5. CASE /\ st = "following" /\ stage[s] = "following"
               /\ queue[s] # None /\ queue[s] # <<>>
               /\ q = Tail(queue[s]) /\ sh = Append(shown[s], Head(queue[s]))
      <4>1. queue[s] \in Seq(TrackingEvent) /\ shown[s] \in Seq(TrackingEvent)
        BY <1>2, <3>5, Kept
      <4>2. /\ Head(queue[s]) \in TrackingEvent
            /\ Among(x, queue[s]) => x = Head(queue[s]) \/ Among(x, q)
        BY <3>5, <4>1, Lists
      <4>3. /\ Among(Head(queue[s]), sh)
            /\ Among(x, shown[s]) => Among(x, sh)
        BY <3>5, <4>1, <4>2, Lists
      <4>4. Among(x, shown[s]) \/ Among(x, queue[s])
        BY <1>8, <2>3, <3>5 DEF Has
      <4>5. Among(x, sh) \/ Among(x, q)
        BY <4>2, <4>3, <4>4
      <4> QED
        BY <1>4, <2>3, <3>5, <4>5, HasNext
    <3> QED
      BY <3>1, <3>2, <3>3, <3>4, <3>5 DEF WsMove
  <2> QED
    BY <2>2, <2>3
<1>9. ASSUME NEW t \in WebSockets
      PROVE  dropped'[t] \/ Has(t, x)' \/ Pending(x)'
  <2>1. dropped[t] \/ Has(t, x) \/ Pending(x)
    BY DEF HubFit
  <2>2. t \in Streams
    BY DEF Streams
  <2>3. ASSUME dropped[t] PROVE dropped'[t] \/ Has(t, x)'
    <3>1. CASE t # s
      BY <1>5, <2>2, <2>3, <3>1
    <3>2. CASE t = s
      <4>1. \/ st \in {"closed", "loading"} \/ (st = "loaded" /\ f = x) \/ d = dropped[s]
        BY <1>1, <3>2 DEF WsMove
      <4>2. CASE st \in {"closed", "loading"} \/ (st = "loaded" /\ f = x)
        BY <1>4, <3>2, <4>2, HasNext
      <4>3. CASE d = dropped[s]
        BY <1>4, <2>3, <3>2, <4>3
      <4> QED
        BY <4>1, <4>2, <4>3
    <3> QED
      BY <3>1, <3>2
  <2> QED
    BY <1>7, <1>8, <2>1, <2>3
<1>10. ASSUME NEW t \in WebSockets
       PROVE  (dropped[t] \/ Has(t, snapshot[Watched]) \/ Pending(snapshot[Watched]))'
  BY <1>7, <1>9 DEF Has, Pending, Among
<1> QED
  BY <1>3, <1>6, <1>10 DEF HubFit

\* The background task puts its event in the queue of every subscriber; a full queue
\* counts as overflown.
LEMMA PublishKeepsHub ==
    ASSUME HubFit, PositionsTypeOK, NEW r \in Requests, Publish(r)
    PROVE  HubFit'
<1> PICK x : x = snapshot[Watched]
  OBVIOUS
<1> PICK e : e = unpublished[r].event
  OBVIOUS
<1>1. /\ unpublished[r] # None /\ UNCHANGED snapshot
      /\ unpublished' = [unpublished EXCEPT ![r] = None]
      /\ unpublished \in [Requests -> Trail \cup {None}]
      /\ HubTypeOK
  BY DEF Publish, HubFit, PositionsTypeOK
<1>2. ASSUME NEW y, [order |-> Watched, event |-> y] # unpublished[r], Pending(y) PROVE Pending(y)'
  BY <1>1, <1>2 DEF Pending
<1>3. CASE UNCHANGED streams /\ unpublished[r].order # Watched
  <2>1. [order |-> Watched, event |-> x] # unpublished[r]
    BY <1>3
  <2>2. Pending(x) => Pending(x)'
    BY <1>2, <2>1
  <2>3. \A s \in Streams : Has(s, x)' <=> Has(s, x)
    BY <1>1, <1>3, HasNext DEF streams, Has
  <2>4. UNCHANGED <<stage, queue, first, shown, dropped>>
    BY <1>3 DEF streams
  <2>5. HubTypeOK' /\ \A s \in Streams : Subscribed(s)' <=> stage'[s] \in {"loading", "loaded", "following"}
    BY <2>4 DEF HubTypeOK, HubFit, Subscribed
  <2>6. ASSUME NEW s \in WebSockets PROVE dropped'[s] \/ Has(s, x)' \/ Pending(x)'
    BY <2>2, <2>3, <2>4 DEF HubFit, Streams
  <2>7. ASSUME NEW s \in WebSockets
        PROVE  (dropped[s] \/ Has(s, snapshot[Watched]) \/ Pending(snapshot[Watched]))'
    <3>1. x = snapshot'[Watched]
      BY <1>1
    <3> QED
      BY <2>6, <3>1 DEF Has, Pending, Among
  <2> QED
    BY <2>5, <2>7 DEF HubFit
<1>4. CASE publish(e) /\ unpublished[r].order = Watched
  <2>1. unpublished[r] = [order |-> Watched, event |-> e] /\ e \in TrackingEvent
    BY <1>1, <1>4 DEF Trail
  <2>2. /\ UNCHANGED <<stage, first, shown>>
        /\ queue' = [s \in Streams |-> IF queue[s] # None THEN put(queue[s], e) ELSE None]
    BY <1>4 DEF publish, Subscribed
  <2>3. dropped' = [s \in Streams |->
                       dropped[s] \/ (queue[s] # None /\ Len(queue[s]) = queue_size)]
    BY <1>4 DEF publish, Subscribed
  <2>4. ASSUME NEW s \in Streams, queue[s] # None
        PROVE  /\ queue'[s] \in Seq(TrackingEvent) /\ queue'[s] # None
               /\ Len(queue[s]) # queue_size =>
                     /\ Among(e, queue'[s])
                     /\ \A y : Among(y, queue[s]) => Among(y, queue'[s])
    <3>1. queue[s] \in Seq(TrackingEvent) /\ queue'[s] = put(queue[s], e)
      BY <1>1, <2>2, <2>4 DEF HubTypeOK
    <3>2. CASE Len(queue[s]) = queue_size
      <4>1. queue[s] # <<>>
        BY <3>1, <3>2, QueueSizeAssumption
      <4>2. Tail(queue[s]) \in Seq(TrackingEvent)
        BY <3>1, <4>1, Lists
      <4>3. put(queue[s], e) \in Seq(TrackingEvent)
        BY <2>1, <3>2, <4>2, Lists DEF put
      <4> QED
        BY <3>1, <3>2, <4>3, NoEventAssumption
    <3>3. CASE Len(queue[s]) # queue_size
      <4>1. queue'[s] = Append(queue[s], e)
        BY <3>1, <3>3 DEF put
      <4>2. /\ Append(queue[s], e) \in Seq(TrackingEvent) /\ Among(e, Append(queue[s], e))
            /\ \A y : Among(y, queue[s]) => Among(y, Append(queue[s], e))
        BY <2>1, <3>1, Lists, ZenonT(20)
      <4> QED
        BY <4>1, <4>2, NoEventAssumption
    <3> QED
      BY <3>2, <3>3
  <2>5. HubTypeOK'
    <3>1. \A s \in Streams : queue'[s] \in Seq(TrackingEvent) \cup {None}
      BY <2>2, <2>4
    <3>2. queue' \in [Streams -> Seq(TrackingEvent) \cup {None}]
      BY <2>2, <3>1
    <3>3. dropped' \in [Streams -> BOOLEAN]
      BY <1>1, <2>3 DEF HubTypeOK
    <3> QED
      BY <1>1, <2>2, <3>2, <3>3 DEF HubTypeOK
  <2>6. \A s \in Streams : Subscribed(s)' <=> stage'[s] \in {"loading", "loaded", "following"}
    BY <2>2, <2>4 DEF HubFit, Subscribed
  <2>7. ASSUME NEW s \in WebSockets
        PROVE  dropped'[s] \/ Has(s, x)' \/ Pending(x)'
    <3>1. s \in Streams
      BY DEF Streams
    <3>2. dropped[s] \/ (queue[s] # None /\ Len(queue[s]) = queue_size) => dropped'[s]
      BY <2>3, <3>1
    <3>3. SUFFICES ASSUME ~dropped[s], queue[s] # None => Len(queue[s]) # queue_size
                   PROVE  Has(s, x)' \/ Pending(x)'
      BY <3>2
    <3>4. Has(s, x) \/ Pending(x)
      BY <3>3 DEF HubFit
    <3>5. stage[s] \in {"loaded", "following"} => queue[s] # None
      BY <3>1 DEF HubFit, Subscribed
    <3>6. stage[s] \in {"loaded", "following"} =>
             /\ Among(e, queue'[s])
             /\ Among(x, queue[s]) => Among(x, queue'[s])
      BY <2>4, <3>1, <3>3, <3>5
    <3>7. Has(s, x) => Has(s, x)'
      BY <2>2, <3>6, HasNext DEF Has
    <3>8. CASE x = e
      BY <2>2, <3>6, <3>8, HasNext
    <3>9. CASE x # e
      <4>1. [order |-> Watched, event |-> x] # unpublished[r]
        BY <2>1, <3>9
      <4> QED
        BY <1>2, <3>4, <3>7, <4>1
    <3> QED
      BY <3>8, <3>9
  <2>8. x = snapshot'[Watched]
    BY <1>1
  <2>9. ASSUME NEW s \in WebSockets
        PROVE  (dropped[s] \/ Has(s, snapshot[Watched]) \/ Pending(snapshot[Watched]))'
    BY <2>7, <2>8 DEF Has, Pending, Among
  <2> QED
    BY <2>5, <2>6, <2>9 DEF HubFit
<1> QED
  BY <1>3, <1>4 DEF Publish

\* A new position is in the hands of its background task.
LEMMA RecordKeepsHub ==
    ASSUME HubFit, PositionsTypeOK, NEW r \in Requests, NEW o \in Orders, NEW e \in Events,
           record(r, o, e)
    PROVE  HubFit'
<1>1. PICK y \in TrackingEvent, n \in Nat :
         /\ y.sequence = snapshot[o].sequence + 1 /\ snapshot[o].sequence \in Nat
         /\ snapshot' = [snapshot EXCEPT ![o] = y]
         /\ unpublished' = [unpublished EXCEPT ![r] = [order |-> o, event |-> y]]
         /\ unpublished[r] = None /\ UNCHANGED streams
         /\ PositionsTypeOK'
         /\ DOMAIN outbox = 1..n /\ DOMAIN outbox' = 1..(n + 1)
         /\ \A i \in 1..n : outbox'[i] = outbox[i]
         /\ outbox'[n + 1] = [order |-> o, event |-> y]
  BY RecordEffect
<1>2. /\ UNCHANGED <<stage, queue, first, shown, dropped>>
      /\ snapshot \in [Orders -> TrackingEvent] /\ Watched \in Orders
      /\ unpublished \in [Requests -> Trail \cup {None}]
  BY <1>1, WatchedAssumption DEF streams, PositionsTypeOK
<1>3. /\ HubTypeOK'
      /\ \A s \in Streams : Subscribed(s)' <=> stage'[s] \in {"loading", "loaded", "following"}
  BY <1>2 DEF HubTypeOK, HubFit, Subscribed
<1> PICK x : x = snapshot'[Watched]
  OBVIOUS
<1>4. ASSUME NEW s \in WebSockets PROVE dropped'[s] \/ Has(s, x)' \/ Pending(x)'
  <2>1. CASE o = Watched
    <3>1. x = y /\ unpublished'[r] = [order |-> Watched, event |-> y]
      BY <1>1, <1>2, <2>1
    <3> QED
      BY <3>1 DEF Pending
  <2>2. CASE o # Watched
    <3>1. x = snapshot[Watched] /\ x \in TrackingEvent
      BY <1>1, <1>2, <2>2
    <3>2. ASSUME Pending(x) PROVE Pending(x)'
      <4>1. PICK t \in Requests : unpublished[t] = [order |-> Watched, event |-> x]
        BY <3>2 DEF Pending
      <4>2. [order |-> Watched, event |-> x] \in Trail
        BY <1>2, <3>1 DEF Trail
      <4>3. t # r
        BY <1>1, <4>1, <4>2, NoTrailAssumption
      <4>4. unpublished'[t] = unpublished[t]
        BY <1>1, <1>2, <4>3
      <4> QED
        BY <4>1, <4>4 DEF Pending
    <3>3. Has(s, x) => Has(s, x)'
      BY <1>2, HasNext DEF Has
    <3> QED
      BY <1>2, <3>1, <3>2, <3>3 DEF HubFit
  <2> QED
    BY <2>1, <2>2
<1>5. ASSUME NEW s \in WebSockets
      PROVE  (dropped[s] \/ Has(s, snapshot[Watched]) \/ Pending(snapshot[Watched]))'
  BY <1>4 DEF Has, Pending, Among
<1> QED
  BY <1>3, <1>5 DEF HubFit

\* At the start no client is connected.
LEMMA HubInit == MCInit => HubFit
<1> SUFFICES ASSUME MCInit PROVE HubFit
  OBVIOUS
<1>1. StreamsInit
  BY DEF MCInit, Init
<1>2. NoPosition \in TrackingEvent /\ <<>> \in Seq(TrackingEvent)
  BY Lists DEF NoPosition, TrackingEvent
<1>3. stage \in [Streams -> Stages] /\ \A s \in Streams : stage[s] = "closed"
  BY <1>1 DEF StreamsInit, Stages
<1>4. queue \in [Streams -> Seq(TrackingEvent) \cup {None}] /\ \A s \in Streams : queue[s] = None
  BY <1>1 DEF StreamsInit
<1>5. first \in [Streams -> TrackingEvent] /\ shown \in [Streams -> Seq(TrackingEvent)]
  BY <1>1, <1>2 DEF StreamsInit
<1>6. dropped \in [Streams -> BOOLEAN]
  BY <1>1 DEF StreamsInit
<1>7. \A s \in WebSockets : Has(s, snapshot[Watched])
  BY <1>3 DEF Has, Streams
<1> QED
  BY <1>3, <1>4, <1>5, <1>6, <1>7 DEF HubFit, HubTypeOK, Subscribed

\* Every step keeps the position with every WebSocket.
LEMMA HubStep == TrailFit /\ HubFit /\ [MCNext]_all => HubFit'
<1> SUFFICES ASSUME TrailFit, HubFit, [MCNext]_all PROVE HubFit'
  OBVIOUS
<1>1. Next \/ UNCHANGED vars
  BY OneAdapter
<1>2. PositionsTypeOK
  BY DEF TrailFit
<1>3. CASE UNCHANGED <<snapshot, unpublished, streams>>
  <2>1. UNCHANGED <<snapshot, unpublished, stage, queue, first, shown, dropped>>
    BY <1>3 DEF streams
  <2>2. /\ HubTypeOK'
        /\ \A s \in Streams : Subscribed(s)' <=> stage'[s] \in {"loading", "loaded", "following"}
    BY <2>1 DEF HubTypeOK, HubFit, Subscribed
  <2>3. ASSUME NEW s \in WebSockets
        PROVE  (dropped[s] \/ Has(s, snapshot[Watched]) \/ Pending(snapshot[Watched]))'
    BY <2>1 DEF HubFit, Has, Pending, Among
  <2> QED
    BY <2>2, <2>3 DEF HubFit
<1>4. ASSUME UNCHANGED vars \/ \E o \in Orders : Finish(o)
      PROVE  UNCHANGED <<snapshot, unpublished, streams>>
  BY <1>4 DEF vars, Finish
<1> QED
  BY <1>1, <1>2, <1>3, <1>4, RecordKeepsHub, PublishKeepsHub, StreamKeepsHub DEF Next

\* No position falls between the snapshot and the queue of a WebSocket: without an
\* overflow and once the background tasks are done, the stored position has been sent
\* or is in the queue, for any number of clients, requests and positions and every
\* queue size (the WebSocket handler of main.py and TrackingHub).
THEOREM MemoryWsMissesNothing == MCSpec => []WsMissesNothing
<1>1. TrailFit /\ HubFit => WsMissesNothing
  <2> SUFFICES ASSUME TrailFit, HubFit, NEW s \in WebSockets, stage[s] = "following", ~dropped[s],
                      \A r \in Requests : unpublished[r] = None
               PROVE  \/ \E i \in DOMAIN shown[s] : shown[s][i] = snapshot[Watched]
                      \/ \E i \in DOMAIN queue[s] : queue[s][i] = snapshot[Watched]
    BY DEF WsMissesNothing
  <2>1. ~Pending(snapshot[Watched])
    <3>1. [order |-> Watched, event |-> snapshot[Watched]] \in Trail
      BY WatchedAssumption DEF TrailFit, PositionsTypeOK, Trail
    <3> QED
      BY <3>1, NoTrailAssumption DEF Pending
  <2> QED
    BY <2>1 DEF HubFit, Has, Among
<1>2. MCInit => TrailFit /\ HubFit
  BY TrailInit, HubInit
<1>3. TrailFit /\ HubFit /\ [MCNext]_all => TrailFit' /\ HubFit'
  BY TrailStep, HubStep
<1> QED
  BY <1>1, <1>2, <1>3, PTL DEF MCSpec
=============================================================================
