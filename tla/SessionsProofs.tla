--------------------------- MODULE SessionsProofs ---------------------------
(***************************************************************************)
(* Proofs about Sessions for any number of users, sessions, families and   *)
(* concurrent handlers.                                                    *)
(***************************************************************************)
EXTENDS Sessions, TLAPS

\* The inductive invariant.
IInv ==
  /\ TypeOK /\ HandlersAreIsolated /\ FamilyIsChain
  /\ ResetsAreIsolated /\ RequestsAreSerial /\ OneActiveReset

\* The idle handler has the type of a handler's locals.
LEMMA IdleType == Idle \in Local
BY DEF Idle, Local, Pcs

\* The type invariant holds initially and every step of Next preserves it.
LEMMA TypeInit == Init => TypeOK
BY ConstantsAssumption, IdleType DEF Init, TypeOK

\* The clock is a number.
LEMMA NowIsNat == TypeOK => now \in Nat
BY ConstantsAssumption DEF TypeOK

\* A step that changes only the locals of t keeps the types.
LEMMA TypeTaskStep ==
  ASSUME TypeOK, NEW t \in Tasks, NEW l \in Local, Become(t, l),
         UNCHANGED <<now, password, sessions, resets>>
  PROVE  TypeOK'
BY DEF TypeOK, Become

\* The locals of a handler after each of its steps have their type.
LEMMA LocalNext ==
  ASSUME NEW l \in Local
  PROVE  /\ [Idle EXCEPT !.pc = "revoke_many", !.user = l.user] \in Local
         /\ \A s \in SessionIds :
              /\ [Idle EXCEPT !.pc = "revoke_one", !.user = l.user, !.sid = s] \in Local
              /\ [l EXCEPT !.pc = "rotated", !.locked = {s}] \in Local
         /\ \A p \in Passwords :
              [Idle EXCEPT !.pc = "set_password", !.user = l.user, !.pwd = p] \in Local
         /\ \A r \in ResetIds, p \in Passwords :
              [l EXCEPT !.pc = "mark_used", !.reset = r, !.pwd = p] \in Local
         /\ \A r \in ResetIds : [l EXCEPT !.pc = "count_wrong", !.reset = r] \in Local
         /\ \A S \in SUBSET SessionIds :
              [l EXCEPT !.pc = "revoking", !.todo = S, !.seen = S] \in Local
         /\ \A pc \in Pcs : [l EXCEPT !.pc = pc] \in Local
         /\ \A pc \in Pcs, r \in ResetIds \cup {None} :
              [l EXCEPT !.pc = pc, !.reset = r] \in Local
<1>1. [Idle EXCEPT !.pc = "revoke_many", !.user = l.user] \in Local
  BY Zenon DEF Idle, Local, Pcs
<1>2. ASSUME NEW s \in SessionIds
      PROVE  [Idle EXCEPT !.pc = "revoke_one", !.user = l.user, !.sid = s] \in Local
  BY Zenon DEF Idle, Local, Pcs
<1>3. ASSUME NEW s \in SessionIds
      PROVE  [l EXCEPT !.pc = "rotated", !.locked = {s}] \in Local
  BY Zenon DEF Local, Pcs
<1>4. ASSUME NEW p \in Passwords
      PROVE  [Idle EXCEPT !.pc = "set_password", !.user = l.user, !.pwd = p] \in Local
  BY Zenon DEF Idle, Local, Pcs
<1>5. ASSUME NEW r \in ResetIds, NEW p \in Passwords
      PROVE  [l EXCEPT !.pc = "mark_used", !.reset = r, !.pwd = p] \in Local
  BY Zenon DEF Local, Pcs
<1>6. ASSUME NEW S \in SUBSET SessionIds
      PROVE  [l EXCEPT !.pc = "revoking", !.todo = S, !.seen = S] \in Local
  BY Zenon DEF Local, Pcs
<1>7. ASSUME NEW pc \in Pcs PROVE [l EXCEPT !.pc = pc] \in Local
  BY DEF Local
<1>8. ASSUME NEW r \in ResetIds
      PROVE  [l EXCEPT !.pc = "count_wrong", !.reset = r] \in Local
  BY Zenon DEF Local, Pcs
<1>9. ASSUME NEW pc \in Pcs, NEW r \in ResetIds \cup {None}
      PROVE  [l EXCEPT !.pc = pc, !.reset = r] \in Local
  BY Zenon DEF Local
<1>. QED
  BY <1>1, <1>2, <1>3, <1>4, <1>5, <1>6, <1>7, <1>8, <1>9, Zenon

\* Handlers that start keep the types.
LEMMA TypeArrive ==
  ASSUME TypeOK, HandlersAreIsolated, NEW t \in Tasks, Arrive(t)
  PROVE  TypeOK'
<1>1. ASSUME NEW u \in Users, SignInVerify(t, u) PROVE TypeOK'
  <2>1. PICK s \in SessionIds, f \in Families :
          Become(t, [Idle EXCEPT !.pc = "sign_in", !.user = u, !.new = s,
                                 !.family = f, !.pwd = password[u]])
    BY <1>1, Zenon DEF SignInVerify
  <2>2. [Idle EXCEPT !.pc = "sign_in", !.user = u, !.new = s,
                     !.family = f, !.pwd = password[u]] \in Local
    BY Zenon DEF TypeOK, Idle, Local, Pcs
  <2>. QED  BY <1>1, <2>1, <2>2, TypeTaskStep DEF SignInVerify
<1>2. ASSUME NEW u \in Users, ConfirmReset(t, u) PROVE TypeOK'
  <2>1. [Idle EXCEPT !.pc = "attempt", !.user = u, !.pwd = password[u],
                     !.at = now] \in Local
    BY NowIsNat, Zenon DEF TypeOK, Idle, Local, Pcs
  <2>. QED  BY <1>2, <2>1, TypeTaskStep DEF ConfirmReset
<1>3. ASSUME NEW s \in SessionIds, RefreshReuse(t, s) PROVE TypeOK'
  <2>1. sessions[s].user \in Users /\ sessions[s].family \in Families
    BY <1>3 DEF RefreshReuse, TypeOK, Stored, Row
  <2>2. [Idle EXCEPT !.pc = "revoke_many", !.user = sessions[s].user,
                     !.family = sessions[s].family] \in Local
    BY <2>1, Zenon DEF Idle, Local, Pcs
  <2>. QED  BY <1>3, <2>2, TypeTaskStep DEF RefreshReuse
<1>4. ASSUME NEW s \in SessionIds, RefreshRotate(t, s) PROVE TypeOK'
  <2>1. PICK n \in SessionIds :
          Become(t, [Idle EXCEPT !.pc = "rotate", !.sid = s, !.new = n, !.at = now])
    BY <1>4, Zenon DEF RefreshRotate
  <2>2. [Idle EXCEPT !.pc = "rotate", !.sid = s, !.new = n, !.at = now] \in Local
    BY NowIsNat, Zenon DEF Idle, Local, Pcs
  <2>. QED  BY <1>4, <2>1, <2>2, TypeTaskStep DEF RefreshRotate
<1>5. ASSUME NEW s \in SessionIds, Authenticate(t, s) PROVE TypeOK'
  <2>1. PICK pc \in {"touch", "authenticated"} :
          Become(t, [Idle EXCEPT !.pc = pc, !.user = sessions[s].user,
                                 !.sid = s, !.at = now])
    BY <1>5, Zenon DEF Authenticate
  <2>2. sessions[s].user \in Users
    BY <1>5 DEF Authenticate, TypeOK, Live, Stored, Row
  <2>3. [Idle EXCEPT !.pc = pc, !.user = sessions[s].user,
                     !.sid = s, !.at = now] \in Local
    BY <2>2, NowIsNat, Zenon DEF Idle, Local, Pcs
  <2>. QED  BY <1>5, <2>1, <2>3, TypeTaskStep DEF Authenticate
<1>6. ASSUME NEW u \in Users, RequestReset(t, u) PROVE TypeOK'
  <2>1. [Idle EXCEPT !.pc = "request", !.user = u, !.at = now] \in Local
    BY NowIsNat, ZenonT(60) DEF Idle, Local, Pcs
  <2>. QED  BY <1>6, <2>1, TypeTaskStep DEF RequestReset
<1>. QED
  BY <1>1, <1>2, <1>3, <1>4, <1>5, <1>6 DEF Arrive

\* The token in the snapshot of a request for another one.
LEMMA SnapshotType ==
  ASSUME NEW t \in Tasks, SupersedeStart(t)
  PROVE  \E r \in ResetIds \cup {None} :
           /\ Become(t, [task[t] EXCEPT !.pc = "superseding", !.reset = r])
           /\ r = None => ActiveOfUser(task[t].user) = {}
           /\ r # None => r \in ActiveOfUser(task[t].user)
<1>. DEFINE active == ActiveOfUser(task[t].user)
<1>1. PICK r \in IF active = {} THEN {None} ELSE active :
        Become(t, [task[t] EXCEPT !.pc = "superseding", !.reset = r])
  BY Zenon DEF SupersedeStart
<1>2. active \subseteq ResetIds
  BY DEF ActiveOfUser
<1>3. r \in ResetIds \cup {None} /\ (r = None => active = {}) /\ (r # None => r \in active)
  BY <1>1, <1>2, ConstantsAssumption
<1>. QED
  BY <1>1, <1>3, ZenonT(60)

\* The tokens once a request for another one has committed.
LEMMA RequestWrites ==
  ASSUME TypeOK, ResetsAreIsolated, NEW t \in Tasks, RequestCommit(t)
  PROVE  \E n \in ResetIds :
           /\ resets[n] = None /\ resets'[n] = NewReset(task[t].user, task[t].at)
           /\ n # task[t].reset
           /\ \A r \in ResetIds \ {n} :
                IF r = task[t].reset
                  THEN /\ resets[r] \in ResetRow
                       /\ resets'[r] = [resets[r] EXCEPT !.used = TRUE]
                  ELSE resets'[r] = resets[r]
<1>1. PICK n \in ResetIds :
        /\ resets[n] = None
        /\ resets' = [r \in ResetIds |->
             IF r = n THEN NewReset(task[t].user, task[t].at)
             ELSE IF r = task[t].reset THEN [resets[r] EXCEPT !.used = TRUE]
             ELSE resets[r]]
  BY DEF RequestCommit
<1>2. \A r \in ResetIds : r = task[t].reset => resets[r] \in ResetRow
  BY DEF RequestCommit, At, ResetsAreIsolated, HoldsReset, Active, TypeOK
<1>3. n # task[t].reset
  BY <1>1, <1>2, ConstantsAssumption
<1>4. resets'[n] = NewReset(task[t].user, task[t].at)
  BY <1>1
<1>5. ASSUME NEW r \in ResetIds \ {n}
      PROVE  IF r = task[t].reset
               THEN /\ resets[r] \in ResetRow
                    /\ resets'[r] = [resets[r] EXCEPT !.used = TRUE]
               ELSE resets'[r] = resets[r]
  BY <1>1, <1>2
<1>. QED
  BY <1>1, <1>3, <1>4, <1>5

\* A row that is there has the type of a row.
LEMMA StoredIsRow ==
  ASSUME TypeOK, NEW s \in SessionIds, Stored(s)
  PROVE  sessions[s] \in Row
BY DEF TypeOK, Stored

\* Steps that wait for nothing keep the types.
LEMMA TypeAdvance ==
  ASSUME TypeOK, HandlersAreIsolated, ResetsAreIsolated,
         NEW t \in Tasks, Advance(t)
  PROVE  TypeOK'
<1>. task[t] \in Local /\ HandlerOK(task[t])
  BY DEF TypeOK, HandlersAreIsolated
<1>1. CASE SignInCommit(t)
  <2>1. CreateForSignIn(task[t].user, task[t].family, task[t].pwd) \in Row
    BY <1>1, NowIsNat, ConstantsAssumption
    DEF SignInCommit, At, HandlerOK, Local, CreateForSignIn, Row
  <2>. QED  BY <1>1, <2>1, IdleType, Zenon DEF SignInCommit, TypeOK, Become
<1>2. CASE RefreshCommit(t)
  <2>. DEFINE old == task[t].sid
              new == task[t].new
  <2>1. old \in SessionIds /\ new \in SessionIds /\ sessions[old] \in Row
    BY <1>2, StoredIsRow DEF RefreshCommit, At, HandlerOK, Local
  <2>2. [sessions[old] EXCEPT !.revoked = TRUE, !.replacedBy = new] \in Row
    BY <2>1, Zenon DEF Row
  <2>3. CreateForRefreshRotation(old, task[t].at) \in Row
    BY <2>1, ConstantsAssumption DEF CreateForRefreshRotation, Row, Local
  <2>. QED  BY <1>2, <2>1, <2>2, <2>3, IdleType DEF RefreshCommit, TypeOK, Become
<1>3. CASE RevokeStart(t)
  <2>1. RevokeMatching(t) \subseteq SessionIds
    BY DEF RevokeMatching, LiveOfUser, LiveOfFamily
  <2>2. [task[t] EXCEPT !.pc = "revoking", !.todo = RevokeMatching(t),
                        !.seen = RevokeMatching(t)] \in Local
    BY <2>1, Zenon DEF Local, Pcs
  <2>. QED  BY <1>3, <2>2, TypeTaskStep DEF RevokeStart
<1>4. CASE RevokeCommit(t)
  <2>1. \A s \in task[t].locked : s \in SessionIds /\ sessions[s] \in Row
    BY StoredIsRow DEF HandlerOK, Live, Local
  <2>2. \A s \in task[t].locked : [sessions[s] EXCEPT !.revoked = TRUE] \in Row
    BY <2>1, Zenon DEF Row
  <2>3. sessions' \in [SessionIds -> Row \cup {None}]
    BY <1>4, <2>2 DEF RevokeCommit, TypeOK
  <2>4. password' \in [Users -> Passwords]
    BY <1>4 DEF RevokeCommit, At, TypeOK, HandlerOK, Local
  <2>5. resets' \in [ResetIds -> ResetRow \cup {None}]
    <3>1. CASE task[t].reset = None
      BY <1>4, <3>1 DEF RevokeCommit, TypeOK
    <3>2. CASE task[t].reset # None
      <4>1. task[t].reset \in ResetIds /\ resets[task[t].reset] \in ResetRow
        BY <1>4, <3>2
        DEF RevokeCommit, At, ResetsAreIsolated, HoldsReset, Usable, Active, TypeOK, Local
      <4>. QED  BY <1>4, <3>2, <4>1, Zenon DEF RevokeCommit, TypeOK, ResetRow
    <3>. QED  BY <3>1, <3>2
  <2>. QED  BY <1>4, <2>3, <2>4, <2>5, IdleType DEF RevokeCommit, TypeOK, Become
<1>5. CASE AnswerRead(t) \/ ConfirmResetRefuse(t)
  BY <1>5, IdleType, TypeTaskStep DEF AnswerRead, ConfirmResetRefuse
<1>6. CASE RevokeAllSessions(t)
  BY <1>6, LocalNext, TypeTaskStep, Zenon DEF RevokeAllSessions
<1>7. ASSUME NEW s \in SessionIds, RevokeSession(t, s) PROVE TypeOK'
  BY <1>7, LocalNext, TypeTaskStep, Zenon DEF RevokeSession
<1>8. ASSUME NEW p \in Passwords, ChangePassword(t, p) PROVE TypeOK'
  BY <1>8, LocalNext, TypeTaskStep, Zenon DEF ChangePassword
<1>9. ASSUME NEW r \in ResetIds, NEW p \in Passwords, ConfirmResetVerify(t, r, p)
      PROVE  TypeOK'
  BY <1>9, LocalNext, TypeTaskStep, Zenon DEF ConfirmResetVerify
<1>10. ASSUME NEW r \in ResetIds, ConfirmResetWrong(t, r) PROVE TypeOK'
  BY <1>10, LocalNext, TypeTaskStep, Zenon DEF ConfirmResetWrong
<1>11. CASE SupersedeStart(t)
  <2>1. PICK r \in ResetIds \cup {None} :
          Become(t, [task[t] EXCEPT !.pc = "superseding", !.reset = r])
    BY <1>11, SnapshotType, ZenonT(60)
  <2>2. [task[t] EXCEPT !.pc = "superseding", !.reset = r] \in Local
    BY LocalNext, Zenon DEF Pcs
  <2>. QED  BY <1>11, <2>1, <2>2, TypeTaskStep, SMTT(60) DEF SupersedeStart
<1>12. CASE RequestCommit(t)
  <2>1. PICK n \in ResetIds :
          /\ resets'[n] = NewReset(task[t].user, task[t].at)
          /\ \A r \in ResetIds \ {n} :
               IF r = task[t].reset
                 THEN /\ resets[r] \in ResetRow
                      /\ resets'[r] = [resets[r] EXCEPT !.used = TRUE]
                 ELSE resets'[r] = resets[r]
    BY <1>12, RequestWrites
  <2>2. task[t].user \in Users /\ task[t].at \in Nat
    BY <1>12 DEF RequestCommit, At, HandlerOK, Local
  <2>3. NewReset(task[t].user, task[t].at) \in ResetRow
    BY <2>2, ConstantsAssumption DEF NewReset, ResetRow
  <2>4. ASSUME NEW r \in ResetIds PROVE resets'[r] \in ResetRow \cup {None}
    <3>1. CASE r # n /\ r = task[t].reset
      BY <2>1, <3>1, Zenon DEF ResetRow
    <3>. QED  BY <2>1, <2>3, <3>1, ZenonT(60) DEF TypeOK
  <2>5. resets' = [r \in ResetIds |-> resets'[r]]
    BY <1>12 DEF RequestCommit
  <2>6. resets' \in [ResetIds -> ResetRow \cup {None}]
    BY <2>4, <2>5
  <2>. QED  BY <1>12, <2>6, IdleType DEF RequestCommit, TypeOK, Become
<1>. QED
  BY <1>1, <1>2, <1>3, <1>4, <1>5, <1>6, <1>7, <1>8, <1>9, <1>10, <1>11, <1>12 DEF Advance

\* Steps that wait for a row keep the types.
LEMMA TypeAcquire ==
  ASSUME TypeOK, HandlersAreIsolated, NEW t \in Tasks, Acquire(t)
  PROVE  TypeOK'
<1>. task[t] \in Local /\ HandlerOK(task[t])
  BY DEF TypeOK, HandlersAreIsolated
<1>1. CASE RevokeAndReplace(t)
  <2>1. [task[t] EXCEPT !.pc = "rotated", !.locked = {task[t].sid}] \in Local
    BY <1>1, ZenonT(60) DEF RevokeAndReplace, At, HandlerOK, Local, Pcs
  <2>. QED  BY <1>1, <2>1, IdleType, TypeTaskStep DEF RevokeAndReplace
<1>2. CASE UpdateLastUsed(t)
  <2>. DEFINE s == task[t].sid
  <2>1. s \in SessionIds /\ sessions[s] \in Row
    BY <1>2, StoredIsRow DEF UpdateLastUsed, At, HandlerOK, Local
  <2>2. [sessions[s] EXCEPT !.lastUsed = Later(sessions[s].lastUsed, task[t].at)]
          \in Row
    BY <2>1 DEF Row, Later, Local
  <2>3. [task[t] EXCEPT !.pc = "authenticated"] \in Local
    BY DEF Local, Pcs
  <2>. QED  BY <1>2, <2>1, <2>2, <2>3 DEF UpdateLastUsed, TypeOK, Become
<1>3. CASE RevokeByUserId(t)
  <2>. DEFINE s == task[t].sid
  <2>1. s \in SessionIds /\ sessions[s] \in Row
    BY <1>3, StoredIsRow DEF RevokeByUserId, At, HandlerOK, Local
  <2>2. [sessions[s] EXCEPT !.revoked = TRUE] \in Row
    BY <2>1, Zenon DEF Row
  <2>. QED  BY <1>3, <2>1, <2>2, IdleType DEF RevokeByUserId, TypeOK, Become
<1>4. CASE MarkUsed(t)
  <2>1. [task[t] EXCEPT !.pc = "set_password"] \in Local
    BY DEF Local, Pcs
  <2>. QED  BY <1>4, <2>1, IdleType, TypeTaskStep DEF MarkUsed
<1>5. CASE UpdatePasswordHash(t)
  <2>1. [task[t] EXCEPT !.pc = "revoke_many"] \in Local
    BY DEF Local, Pcs
  <2>. QED  BY <1>5, <2>1, TypeTaskStep DEF UpdatePasswordHash
<1>6. ASSUME NEW s \in SessionIds, RevokeRow(t, s) PROVE TypeOK'
  <2>1. \A L \in SUBSET SessionIds :
          [task[t] EXCEPT !.todo = task[t].todo \ {s}, !.locked = L] \in Local
    BY Zenon DEF Local
  <2>2. task[t].locked \cup {s} \in SUBSET SessionIds
        /\ task[t].locked \in SUBSET SessionIds
    BY DEF Local
  <2>. QED  BY <1>6, <2>1, <2>2, TypeTaskStep, Zenon DEF RevokeRow
<1>7. CASE IncrementAttempts(t)
  <2>. DEFINE r == task[t].reset
  <2>1. CASE Usable(r, task[t].at)
    <3>1. r \in ResetIds /\ resets[r] \in ResetRow
      BY <1>7, <2>1 DEF IncrementAttempts, At, HandlerOK, Usable, Active, TypeOK, Local
    <3>2. [resets[r] EXCEPT !.attempts = resets[r].attempts + 1] \in ResetRow
      BY <2>1, <3>1, ConstantsAssumption DEF ResetRow, Usable
    <3>3. resets' = [resets EXCEPT ![r] =
                       [resets[r] EXCEPT !.attempts = resets[r].attempts + 1]]
      BY <1>7, <2>1 DEF IncrementAttempts
    <3>. QED  BY <1>7, <3>1, <3>2, <3>3, IdleType DEF IncrementAttempts, TypeOK, Become
  <2>2. CASE ~Usable(r, task[t].at)
    BY <1>7, <2>2, IdleType, TypeTaskStep DEF IncrementAttempts
  <2>. QED  BY <2>1, <2>2
<1>8. CASE RequestLock(t) \/ ConfirmAttempt(t)
  <2>1. \A pc \in {"locked", "confirm"} : [task[t] EXCEPT !.pc = pc] \in Local
    BY DEF Local, Pcs
  <2>. QED  BY <1>8, <2>1, TypeTaskStep DEF RequestLock, ConfirmAttempt
<1>9. CASE Supersede(t)
  <2>1. /\ [task[t] EXCEPT !.pc = "superseded"] \in Local
        /\ [task[t] EXCEPT !.pc = "superseded", !.reset = None] \in Local
    BY LocalNext, Zenon DEF Pcs
  <2>. QED  BY <1>9, <2>1, TypeTaskStep DEF Supersede
<1>. QED
  BY <1>1, <1>2, <1>3, <1>4, <1>5, <1>6, <1>7, <1>8, <1>9 DEF Acquire
-----------------------------------------------------------------------------
(* HandlersAreIsolated.                                                    *)

\* A handler at rest relies on nothing.
LEMMA IdleOK ==
  HandlerOK(Idle) /\ HandlerOK(Idle)' /\ \A m \in Local : Apart(Idle, m)
BY Zenon DEF HandlerOK, Apart, Idle

\* Apart is symmetric.
LEMMA ApartSymmetric ==
  ASSUME NEW l, NEW m, Apart(l, m)
  PROVE  Apart(m, l)
BY DEF Apart

\* A step that changes only the locals of t.
LEMMA HandlersTaskStep ==
  ASSUME TypeOK, HandlersAreIsolated, UNCHANGED sessions,
         NEW t \in Tasks, NEW l \in Local, Become(t, l),
         HandlerOK(l), \A o \in Tasks \ {t} : Apart(l, task[o])
  PROVE  HandlersAreIsolated'
<1>1. \A m : HandlerOK(m) => HandlerOK(m)'
  BY DEF HandlerOK, Live, Stored
<1>2. task' = [task EXCEPT ![t] = l] /\ task \in [Tasks -> Local]
  BY DEF Become, TypeOK
<1>3. ASSUME NEW o \in Tasks PROVE HandlerOK(task[o])'
  <2>1. PICK m : m = task'[o]
    OBVIOUS
  <2>2. HandlerOK(m)
    BY <1>2, <2>1 DEF HandlersAreIsolated
  <2>. QED  BY <1>1, <2>1, <2>2 DEF HandlerOK, Live, Stored
<1>4. ASSUME NEW o \in Tasks, NEW q \in Tasks \ {o}
      PROVE  Apart(task'[o], task'[q])
  BY <1>2, ApartSymmetric DEF HandlersAreIsolated
<1>. QED
  BY <1>3, <1>4 DEF HandlersAreIsolated, Apart

\* A step that touches neither sessions nor a handler.
LEMMA HandlersOutside ==
  ASSUME TypeOK, HandlersAreIsolated, UNCHANGED <<sessions, task>>
  PROVE  HandlersAreIsolated'
<1>1. ASSUME NEW t \in Tasks PROVE HandlerOK(task[t])'
  <2>1. PICK l : l = task[t]
    OBVIOUS
  <2>2. HandlerOK(l)
    BY <2>1 DEF HandlersAreIsolated
  <2>. QED  BY <2>1, <2>2 DEF HandlerOK, Live, Stored
<1>2. ASSUME NEW t \in Tasks, NEW o \in Tasks \ {t} PROVE Apart(task[t], task[o])'
  BY <1>2 DEF HandlersAreIsolated, Apart
<1>. QED
  BY <1>1, <1>2 DEF HandlersAreIsolated

\* A step that ends t's request or moves it on, and writes to sessions without
\* touching what the others rely on.
LEMMA HandlersWriteStep ==
  ASSUME TypeOK, HandlersAreIsolated,
         NEW t \in Tasks, NEW l \in Local, Become(t, l),
         HandlerOK(l)', \A o \in Tasks \ {t} : Apart(l, task[o]),
         \A s \in SessionIds : Stored(s) =>
           /\ sessions'[s] # None /\ sessions'[s].family = sessions[s].family
           /\ sessions[s].revoked => sessions'[s].revoked,
         \A o \in Tasks \ {t}, s \in SessionIds :
           /\ s \in task[o].locked => sessions'[s] # None /\ ~sessions'[s].revoked
           /\ task[o].new = s => sessions'[s] = None
           /\ task[o].pc = "sign_in" /\ sessions'[s] # None
                => Stored(s) \/ sessions'[s].family # task[o].family
  PROVE  HandlersAreIsolated'
<1>1. task' = [task EXCEPT ![t] = l] /\ task \in [Tasks -> Local]
  BY SMTT(60) DEF Become, TypeOK
<1>2. ASSUME NEW o \in Tasks \ {t} PROVE HandlerOK(task[o])'
  <2>1. PICK m \in Local : m = task[o] /\ m = task'[o]
    BY <1>1
  <2>2. HandlerOK(m)
    <3>1. HandlerOK(task[o])
      BY DEF HandlersAreIsolated
    <3>. QED  BY <2>1, <3>1
  <2>3. m.locked \subseteq SessionIds /\ m.seen \subseteq SessionIds
        /\ m.new \in SessionIds \cup {None} /\ m.sid \in SessionIds \cup {None}
    BY DEF Local
  <2>a. \A s \in SessionIds :
           /\ s \in m.locked => sessions'[s] # None /\ ~sessions'[s].revoked
           /\ m.new = s => sessions'[s] = None
           /\ m.pc = "sign_in" /\ sessions'[s] # None
                => Stored(s) \/ sessions'[s].family # m.family
    <3>1. \A s \in SessionIds :
           /\ s \in task[o].locked => sessions'[s] # None /\ ~sessions'[s].revoked
           /\ task[o].new = s => sessions'[s] = None
           /\ task[o].pc = "sign_in" /\ sessions'[s] # None
                => Stored(s) \/ sessions'[s].family # task[o].family
      BY Zenon
    <3>2. task[o] = m
      BY <2>1
    <3>. QED  BY <3>1, <3>2, Zenon
  <2>b. /\ \A s \in m.locked : Live(s)'
        /\ m.new # None => ~Stored(m.new)'
    BY <2>2, <2>3, <2>a DEF Live, Stored
  <2>c. m.pc \in {"rotate", "rotated", "touch", "authenticated", "revoke_one"}
          => m.sid # None /\ Stored(m.sid)'
    BY <2>2, <2>3 DEF HandlerOK, Stored
  <2>d. m.pc = "sign_in" =>
          \A s \in SessionIds : Stored(s)' => sessions'[s].family # m.family
    BY <2>2, <2>a DEF HandlerOK, Stored
  <2>e. m.pc = "revoking" => \A s \in m.seen :
          Stored(s)' /\ (s \notin m.todo \cup m.locked => sessions'[s].revoked)
    BY <2>2, <2>3 DEF HandlerOK, Stored
  <2>4. HandlerOK(m)'
    BY <2>2, <2>b, <2>c, <2>d, <2>e DEF HandlerOK
  <2>. QED  BY <2>1, <2>4 DEF HandlerOK, Live, Stored
<1>3. HandlerOK(task[t])'
  BY <1>1 DEF HandlerOK, Live, Stored
<1>4. ASSUME NEW o \in Tasks, NEW q \in Tasks \ {o}
      PROVE  Apart(task'[o], task'[q])
  BY <1>1, ApartSymmetric DEF HandlersAreIsolated
<1>. QED
  BY <1>2, <1>3, <1>4 DEF HandlersAreIsolated, Apart

\* A handler that starts disturbs no other.
LEMMA HandlersArrive ==
  ASSUME TypeOK, HandlersAreIsolated, NEW t \in Tasks, Arrive(t)
  PROVE  HandlersAreIsolated'
<1>1. ASSUME NEW u \in Users, SignInVerify(t, u) PROVE HandlersAreIsolated'
  <2>1. PICK s \in SessionIds, f \in Families :
          /\ FreshId(s) /\ FreshFamily(f)
          /\ Become(t, [Idle EXCEPT !.pc = "sign_in", !.user = u, !.new = s,
                                    !.family = f, !.pwd = password[u]])
    BY <1>1, Zenon DEF SignInVerify
  <2>2. PICK l \in Local :
          l = [Idle EXCEPT !.pc = "sign_in", !.user = u, !.new = s,
                           !.family = f, !.pwd = password[u]]
    BY Zenon DEF TypeOK, Idle, Local, Pcs
  <2>3. HandlerOK(l)
    BY <2>1, <2>2, ConstantsAssumption
    DEF HandlerOK, FreshId, FreshFamily, Idle, TypeOK
  <2>4. \A o \in Tasks \ {t} : Apart(l, task[o])
    BY <2>1, <2>2 DEF Apart, FreshId, FreshFamily, Idle
  <2>. QED  BY <1>1, <2>1, <2>2, <2>3, <2>4, HandlersTaskStep DEF SignInVerify
<1>2. ASSUME NEW u \in Users, ConfirmReset(t, u) PROVE HandlersAreIsolated'
  <2>1. PICK l \in Local :
          l = [Idle EXCEPT !.pc = "attempt", !.user = u, !.pwd = password[u], !.at = now]
    BY NowIsNat, Zenon DEF TypeOK, Idle, Local, Pcs
  <2>2. HandlerOK(l) /\ \A o \in Tasks \ {t} : Apart(l, task[o])
    BY <2>1, ConstantsAssumption DEF HandlerOK, Apart, Idle, TypeOK
  <2>. QED  BY <1>2, <2>1, <2>2, HandlersTaskStep DEF ConfirmReset
<1>3. ASSUME NEW s \in SessionIds, RefreshReuse(t, s) PROVE HandlersAreIsolated'
  <2>0. Stored(s) /\ sessions[s].user \in Users /\ sessions[s].family \in Families
    BY <1>3, StoredIsRow DEF RefreshReuse, Row
  <2>1. PICK l \in Local :
          l = [Idle EXCEPT !.pc = "revoke_many", !.user = sessions[s].user,
                           !.family = sessions[s].family]
    BY <2>0, Zenon DEF Idle, Local, Pcs
  <2>2. HandlerOK(l)
    BY <2>0, <2>1, ConstantsAssumption DEF HandlerOK, Idle
  <2>3. \A o \in Tasks \ {t} : Apart(l, task[o])
    BY <2>0, <2>1 DEF HandlersAreIsolated, HandlerOK, Apart, Idle
  <2>. QED  BY <1>3, <2>1, <2>2, <2>3, HandlersTaskStep DEF RefreshReuse
<1>4. ASSUME NEW s \in SessionIds, RefreshRotate(t, s) PROVE HandlersAreIsolated'
  <2>1. PICK n \in SessionIds :
          /\ FreshId(n)
          /\ Become(t, [Idle EXCEPT !.pc = "rotate", !.sid = s, !.new = n, !.at = now])
    BY <1>4, Zenon DEF RefreshRotate
  <2>2. PICK l \in Local :
          l = [Idle EXCEPT !.pc = "rotate", !.sid = s, !.new = n, !.at = now]
    BY NowIsNat, Zenon DEF Idle, Local, Pcs
  <2>3. HandlerOK(l) /\ \A o \in Tasks \ {t} : Apart(l, task[o])
    BY <1>4, <2>1, <2>2, ConstantsAssumption
    DEF RefreshRotate, Live, HandlerOK, Apart, FreshId, Idle
  <2>. QED  BY <1>4, <2>1, <2>2, <2>3, HandlersTaskStep DEF RefreshRotate
<1>5. ASSUME NEW s \in SessionIds, Authenticate(t, s) PROVE HandlersAreIsolated'
  <2>1. PICK pc \in {"touch", "authenticated"} :
          Become(t, [Idle EXCEPT !.pc = pc, !.user = sessions[s].user,
                                 !.sid = s, !.at = now])
    BY <1>5, Zenon DEF Authenticate
  <2>2. Stored(s) /\ sessions[s].user \in Users
    BY <1>5, StoredIsRow DEF Authenticate, Live, Row
  <2>3. PICK l \in Local :
          l = [Idle EXCEPT !.pc = pc, !.user = sessions[s].user,
                           !.sid = s, !.at = now]
    BY <2>2, NowIsNat, Zenon DEF Idle, Local, Pcs
  <2>4. HandlerOK(l) /\ \A o \in Tasks \ {t} : Apart(l, task[o])
    BY <2>2, <2>3, ConstantsAssumption DEF HandlerOK, Apart, Idle
  <2>. QED  BY <1>5, <2>1, <2>3, <2>4, HandlersTaskStep DEF Authenticate
<1>6. ASSUME NEW u \in Users, RequestReset(t, u) PROVE HandlersAreIsolated'
  <2>1. PICK l \in Local : l = [Idle EXCEPT !.pc = "request", !.user = u, !.at = now]
    BY NowIsNat, Zenon DEF Idle, Local, Pcs
  <2>2. HandlerOK(l) /\ \A o \in Tasks \ {t} : Apart(l, task[o])
    BY <2>1, ConstantsAssumption DEF HandlerOK, Apart, Idle
  <2>. QED  BY <1>6, <2>1, <2>2, HandlersTaskStep DEF RequestReset
<1>. QED
  BY <1>1, <1>2, <1>3, <1>4, <1>5, <1>6 DEF Arrive

\* A request that ends without writing to sessions.
LEMMA HandlersEnd ==
  ASSUME TypeOK, HandlersAreIsolated, UNCHANGED sessions,
         NEW t \in Tasks, Become(t, Idle)
  PROVE  HandlersAreIsolated'
<1>1. PICK l \in Local : l = Idle
  BY IdleType
<1>2. \A o \in Tasks : task[o] \in Local
  BY DEF TypeOK
<1>. QED
  BY <1>1, <1>2, IdleOK, HandlersTaskStep

\* A step that waits for nothing disturbs no other handler.
LEMMA HandlersAdvance ==
  ASSUME TypeOK, HandlersAreIsolated, NEW t \in Tasks, Advance(t)
  PROVE  HandlersAreIsolated'
<1>. /\ task[t] \in Local /\ HandlerOK(task[t])
     /\ \A o \in Tasks : task[o] \in Local
     /\ \A o \in Tasks \ {t} : Apart(task[t], task[o])
  BY DEF TypeOK, HandlersAreIsolated
<1>i. PICK idle \in Local : idle = Idle
  BY IdleType
<1>j. HandlerOK(idle)' /\ \A o \in Tasks \ {t} : Apart(idle, task[o])
  BY <1>i, IdleOK, SMTT(60)
<1>1. CASE SignInCommit(t)
  <2>. DEFINE n == task[t].new
  <2>1. n \in SessionIds /\ ~Stored(n)
    BY <1>1 DEF SignInCommit, At, HandlerOK, Local
  <2>2. /\ sessions' = [sessions EXCEPT ![n] =
              CreateForSignIn(task[t].user, task[t].family, task[t].pwd)]
        /\ Become(t, idle)
    BY <1>1, <1>i DEF SignInCommit
  <2>3. \A s \in SessionIds : s # n => sessions'[s] = sessions[s]
    BY <2>1, <2>2 DEF TypeOK
  <2>4. sessions'[n].family = task[t].family
    BY <2>1, <2>2, ZenonT(60) DEF TypeOK, CreateForSignIn
  <2>5. \A o \in Tasks \ {t} :
          /\ task[o].locked \subseteq SessionIds \ {n}
          /\ task[o].new # n
          /\ task[o].pc = "sign_in" => task[o].family # task[t].family
    BY <1>1, <2>1, ConstantsAssumption, SMTT(60)
    DEF SignInCommit, At, HandlersAreIsolated, HandlerOK, Apart, Live, Local
  <2>6. \A s \in SessionIds : Stored(s) => sessions'[s] = sessions[s]
    BY <2>1, <2>3, SMTT(60)
  <2>7. \A o \in Tasks \ {t}, s \in SessionIds :
          /\ s \in task[o].locked => Stored(s) /\ ~sessions[s].revoked
          /\ task[o].new = s => sessions[s] = None
    BY ConstantsAssumption DEF HandlersAreIsolated, HandlerOK, Live, Stored
  <2>8. \A s \in SessionIds : Stored(s) =>
           /\ sessions'[s] # None /\ sessions'[s].family = sessions[s].family
           /\ sessions[s].revoked => sessions'[s].revoked
    BY <2>6 DEF Stored
  <2>9. \A o \in Tasks \ {t}, s \in SessionIds :
           /\ s \in task[o].locked => sessions'[s] # None /\ ~sessions'[s].revoked
           /\ task[o].new = s => sessions'[s] = None
           /\ task[o].pc = "sign_in" /\ sessions'[s] # None
                => Stored(s) \/ sessions'[s].family # task[o].family
    BY <2>3, <2>4, <2>5, <2>6, <2>7 DEF Stored
  <2>. QED  BY <1>j, <2>2, <2>8, <2>9, HandlersWriteStep, SMTT(60)
<1>3. CASE RevokeStart(t)
  <2>1. PICK l \in Local :
          l = [task[t] EXCEPT !.pc = "revoking", !.todo = RevokeMatching(t),
                              !.seen = RevokeMatching(t)]
    <3>1. RevokeMatching(t) \subseteq SessionIds
      BY DEF RevokeMatching, LiveOfUser, LiveOfFamily
    <3>. QED  BY <3>1, LocalNext, Zenon
  <2>2. \A s \in RevokeMatching(t) : Stored(s)
    BY DEF RevokeMatching, LiveOfUser, LiveOfFamily, Live
  <2>3. HandlerOK(l)
    BY <1>3, <2>1, <2>2 DEF RevokeStart, At, HandlerOK, Local
  <2>4. \A o \in Tasks \ {t} : Apart(l, task[o])
    BY <1>3, <2>1 DEF RevokeStart, At, Apart, Local
  <2>. QED  BY <1>3, <2>1, <2>3, <2>4, HandlersTaskStep DEF RevokeStart
<1>5. CASE AnswerRead(t) \/ ConfirmResetRefuse(t)
  BY <1>5, HandlersEnd DEF AnswerRead, ConfirmResetRefuse
<1>2. CASE RefreshCommit(t)
  <2>. DEFINE old == task[t].sid
              new == task[t].new
  <2>1. /\ old \in SessionIds /\ Stored(old) /\ old \in task[t].locked
        /\ new \in SessionIds /\ ~Stored(new)
    BY <1>2 DEF RefreshCommit, At, HandlerOK, Local
  <2>2. /\ sessions' = [sessions EXCEPT
              ![old] = [sessions[old] EXCEPT !.revoked = TRUE, !.replacedBy = new],
              ![new] = CreateForRefreshRotation(old, task[t].at)]
        /\ Become(t, idle)
    BY <1>2, <1>i DEF RefreshCommit
  <2>3. /\ \A s \in SessionIds \ {old, new} : sessions'[s] = sessions[s]
        /\ sessions'[old] =
              [sessions[old] EXCEPT !.revoked = TRUE, !.replacedBy = new]
        /\ sessions'[new].family = sessions[old].family
    BY <2>1, <2>2, Zenon DEF TypeOK, CreateForRefreshRotation
  <2>4. sessions[old] \in Row /\ sessions'[old] \in Row
    BY <2>1, <2>3, StoredIsRow, ZenonT(60) DEF Row
  <2>5. /\ sessions'[old] # None /\ sessions'[old].family = sessions[old].family
        /\ sessions'[old].revoked
    BY <2>3, <2>4, ConstantsAssumption, ZenonT(60) DEF Row
  <2>6. \A o \in Tasks \ {t} :
          /\ task[o].locked \subseteq SessionIds \ {old, new}
          /\ task[o].new # new /\ task[o].new # old
          /\ task[o].pc = "sign_in" => task[o].family # sessions[old].family
    <3>. SUFFICES ASSUME NEW o \in Tasks \ {t}
                  PROVE  /\ task[o].locked \subseteq SessionIds \ {old, new}
                         /\ task[o].new # new /\ task[o].new # old
                         /\ task[o].pc = "sign_in"
                              => task[o].family # sessions[old].family
      OBVIOUS
    <3>1. HandlerOK(task[o]) /\ Apart(task[t], task[o]) /\ task[o] \in Local
      BY DEF HandlersAreIsolated
    <3>2. /\ task[o].locked \subseteq SessionIds
          /\ task[t].locked \cap task[o].locked = {} /\ \A s \in task[o].locked : Live(s)
      BY <3>1, Zenon DEF HandlerOK, Apart, Local
    <3>3. task[o].locked \subseteq SessionIds \ {old, new}
      BY <2>1, <3>1, <3>2, ConstantsAssumption, SMTT(60) DEF Live
    <3>. QED  BY <2>1, <3>1, <3>3, ConstantsAssumption, ZenonT(60)
              DEF HandlerOK, Apart, Live, Local
  <2>7. \A o \in Tasks \ {t}, s \in SessionIds :
          /\ s \in task[o].locked => Stored(s) /\ ~sessions[s].revoked
          /\ task[o].new = s => sessions[s] = None
    BY ConstantsAssumption DEF HandlersAreIsolated, HandlerOK, Live, Stored
  <2>8. \A s \in SessionIds : Stored(s) =>
           /\ sessions'[s] # None /\ sessions'[s].family = sessions[s].family
           /\ sessions[s].revoked => sessions'[s].revoked
    BY <2>1, <2>3, <2>5, Zenon DEF Stored
  <2>9. \A o \in Tasks \ {t}, s \in SessionIds :
           /\ s \in task[o].locked => sessions'[s] # None /\ ~sessions'[s].revoked
           /\ task[o].new = s => sessions'[s] = None
           /\ task[o].pc = "sign_in" /\ sessions'[s] # None
                => Stored(s) \/ sessions'[s].family # task[o].family
    BY <2>1, <2>3, <2>6, <2>7 DEF Stored
  <2>. QED  BY <1>j, <2>2, <2>8, <2>9, HandlersWriteStep, Zenon
<1>4. CASE RevokeCommit(t)
  <2>1. /\ sessions' = [s \in SessionIds |-> IF s \in task[t].locked
                          THEN [sessions[s] EXCEPT !.revoked = TRUE]
                          ELSE sessions[s]]
        /\ Become(t, idle)
    BY <1>4, <1>i DEF RevokeCommit
  <2>2. \A s \in task[t].locked :
          /\ s \in SessionIds /\ sessions'[s] # None
          /\ sessions'[s].family = sessions[s].family /\ sessions'[s].revoked
    <3>. SUFFICES ASSUME NEW s \in task[t].locked
                  PROVE  /\ s \in SessionIds /\ sessions'[s] # None
                         /\ sessions'[s].family = sessions[s].family
                         /\ sessions'[s].revoked
      OBVIOUS
    <3>1. s \in SessionIds /\ sessions[s] \in Row
      BY StoredIsRow DEF HandlerOK, Live, Local
    <3>2. sessions'[s] = [sessions[s] EXCEPT !.revoked = TRUE] /\ sessions'[s] \in Row
      BY <2>1, <3>1, Zenon DEF Row
    <3>. QED  BY <3>1, <3>2, ConstantsAssumption, Zenon DEF Row
  <2>3. \A s \in SessionIds \ task[t].locked : sessions'[s] = sessions[s]
    BY <2>1, SMTT(60)
  <2>4. \A o \in Tasks \ {t}, s \in SessionIds :
          /\ s \in task[o].locked =>
               s \notin task[t].locked /\ Stored(s) /\ ~sessions[s].revoked
          /\ task[o].new = s => sessions[s] = None /\ s \notin task[t].locked
    BY ConstantsAssumption, SMTT(60) DEF HandlersAreIsolated, HandlerOK, Apart, Live, Stored
  <2>5. \A s \in SessionIds : Stored(s) =>
           /\ sessions'[s] # None /\ sessions'[s].family = sessions[s].family
           /\ sessions[s].revoked => sessions'[s].revoked
    BY <2>2, <2>3 DEF Stored
  <2>6. \A o \in Tasks \ {t}, s \in SessionIds :
           /\ s \in task[o].locked => sessions'[s] # None /\ ~sessions'[s].revoked
           /\ task[o].new = s => sessions'[s] = None
           /\ task[o].pc = "sign_in" /\ sessions'[s] # None
                => Stored(s) \/ sessions'[s].family # task[o].family
    BY <2>2, <2>3, <2>4 DEF Stored, HandlerOK, Live
  <2>. QED  BY <1>j, <2>1, <2>5, <2>6, HandlersWriteStep
<1>6. CASE RevokeAllSessions(t)
  <2>1. PICK l \in Local :
          l = [Idle EXCEPT !.pc = "revoke_many", !.user = task[t].user]
    BY LocalNext, Zenon
  <2>2. HandlerOK(l) /\ \A o \in Tasks \ {t} : Apart(l, task[o])
    BY <1>6, <2>1 DEF RevokeAllSessions, At, HandlerOK, Apart, Idle
  <2>. QED  BY <1>6, <2>1, <2>2, HandlersTaskStep DEF RevokeAllSessions
<1>7. ASSUME NEW s \in SessionIds, RevokeSession(t, s) PROVE HandlersAreIsolated'
  <2>1. PICK l \in Local :
          l = [Idle EXCEPT !.pc = "revoke_one", !.user = task[t].user, !.sid = s]
    BY LocalNext, Zenon
  <2>2. HandlerOK(l) /\ \A o \in Tasks \ {t} : Apart(l, task[o])
    BY <1>7, <2>1, ConstantsAssumption
    DEF RevokeSession, At, Live, HandlerOK, Apart, Idle
  <2>. QED  BY <1>7, <2>1, <2>2, HandlersTaskStep DEF RevokeSession
<1>8. ASSUME NEW p \in Passwords, ChangePassword(t, p) PROVE HandlersAreIsolated'
  <2>1. PICK l \in Local :
          l = [Idle EXCEPT !.pc = "set_password", !.user = task[t].user, !.pwd = p]
    BY LocalNext, Zenon
  <2>2. HandlerOK(l) /\ \A o \in Tasks \ {t} : Apart(l, task[o])
    BY <1>8, <2>1, ConstantsAssumption
    DEF ChangePassword, At, HandlerOK, Apart, Idle
  <2>. QED  BY <1>8, <2>1, <2>2, HandlersTaskStep DEF ChangePassword
<1>9. ASSUME NEW r \in ResetIds, NEW p \in Passwords, ConfirmResetVerify(t, r, p)
      PROVE  HandlersAreIsolated'
  <2>1. PICK l \in Local :
          l = [task[t] EXCEPT !.pc = "mark_used", !.reset = r, !.pwd = p]
    BY LocalNext, Zenon
  <2>2. HandlerOK(l) /\ \A o \in Tasks \ {t} : Apart(l, task[o])
    BY <1>9, <2>1, ConstantsAssumption
    DEF ConfirmResetVerify, At, HandlerOK, Apart, Local
  <2>. QED  BY <1>9, <2>1, <2>2, HandlersTaskStep DEF ConfirmResetVerify
<1>10. ASSUME NEW r \in ResetIds, ConfirmResetWrong(t, r) PROVE HandlersAreIsolated'
  <2>1. PICK l \in Local : l = [task[t] EXCEPT !.pc = "count_wrong", !.reset = r]
    BY LocalNext, Zenon
  <2>2. HandlerOK(l) /\ \A o \in Tasks \ {t} : Apart(l, task[o])
    BY <1>10, <2>1, ConstantsAssumption
    DEF ConfirmResetWrong, At, HandlerOK, Apart, Local
  <2>. QED  BY <1>10, <2>1, <2>2, HandlersTaskStep DEF ConfirmResetWrong
<1>11. CASE SupersedeStart(t)
  <2>1. PICK r \in ResetIds \cup {None} :
          Become(t, [task[t] EXCEPT !.pc = "superseding", !.reset = r])
    BY <1>11, SnapshotType, ZenonT(60)
  <2>2. PICK l \in Local : l = [task[t] EXCEPT !.pc = "superseding", !.reset = r]
    BY LocalNext, Zenon DEF Pcs
  <2>3. HandlerOK(l) /\ \A o \in Tasks \ {t} : Apart(l, task[o])
    BY <1>11, <2>2 DEF SupersedeStart, At, HandlerOK, Apart, Local
  <2>. QED  BY <1>11, <2>1, <2>2, <2>3, HandlersTaskStep, SMTT(60) DEF SupersedeStart
<1>12. CASE RequestCommit(t)
  BY <1>12, HandlersEnd DEF RequestCommit
<1>. QED
  BY <1>1, <1>2, <1>3, <1>4, <1>5, <1>6, <1>7, <1>8, <1>9, <1>10, <1>11, <1>12 DEF Advance

\* A step that waited for a row disturbs no other handler.
LEMMA HandlersAcquire ==
  ASSUME TypeOK, HandlersAreIsolated, NEW t \in Tasks, Acquire(t)
  PROVE  HandlersAreIsolated'
<1>. /\ task[t] \in Local /\ HandlerOK(task[t])
     /\ \A o \in Tasks : task[o] \in Local
     /\ \A o \in Tasks \ {t} : Apart(task[t], task[o])
  BY DEF TypeOK, HandlersAreIsolated
<1>1. CASE RevokeAndReplace(t)
  <2>1. CASE Live(task[t].sid)
    <3>1. PICK l \in Local :
            l = [task[t] EXCEPT !.pc = "rotated", !.locked = {task[t].sid}]
      <4>1. task[t].sid \in SessionIds
        BY <1>1 DEF RevokeAndReplace, At, HandlerOK, Local
      <4>. QED  BY <4>1, LocalNext, Zenon
    <3>2. HandlerOK(l)
      BY <1>1, <2>1, <3>1 DEF RevokeAndReplace, At, HandlerOK, Local
    <3>3. \A o \in Tasks \ {t} : Apart(l, task[o])
      BY <1>1, <3>1 DEF RevokeAndReplace, At, RowFree, Apart, Local
    <3>. QED  BY <1>1, <2>1, <3>1, <3>2, <3>3, HandlersTaskStep DEF RevokeAndReplace
  <2>2. CASE ~Live(task[t].sid)
    BY <1>1, <2>2, HandlersEnd DEF RevokeAndReplace
  <2>. QED  BY <2>1, <2>2
<1>2. CASE UpdateLastUsed(t)
  <2>. DEFINE s == task[t].sid
  <2>1. s \in SessionIds /\ sessions[s] \in Row
    BY <1>2, StoredIsRow DEF UpdateLastUsed, At, HandlerOK, Local
  <2>2. PICK l \in Local : l = [task[t] EXCEPT !.pc = "authenticated"]
    BY LocalNext, Zenon DEF Pcs
  <2>3. \A q \in SessionIds :
          /\ Stored(q) <=> sessions'[q] # None
          /\ Stored(q) => /\ sessions'[q].family = sessions[q].family
                          /\ sessions'[q].revoked = sessions[q].revoked
    <3>1. \A q \in SessionIds \ {s} : sessions'[q] = sessions[q]
      BY <1>2, <2>1 DEF UpdateLastUsed, TypeOK
    <3>2. \/ sessions'[s] = sessions[s]
          \/ sessions'[s] = [sessions[s] EXCEPT !.lastUsed =
                                Later(sessions[s].lastUsed, task[t].at)]
      BY <1>2, <2>1 DEF UpdateLastUsed, TypeOK
    <3>3. /\ sessions'[s] \in Row
          /\ sessions'[s].family = sessions[s].family
          /\ sessions'[s].revoked = sessions[s].revoked
      BY <2>1, <3>2, ZenonT(60) DEF Row, Later, Local
    <3>. QED  BY <2>1, <3>1, <3>3, ConstantsAssumption DEF Stored
  <2>4. HandlerOK(l)'
    BY <1>2, <2>1, <2>2, <2>3, ConstantsAssumption
    DEF UpdateLastUsed, At, HandlerOK, Live, Stored, Local
  <2>5. \A o \in Tasks \ {t} : Apart(l, task[o])
    BY <1>2, <2>2, ZenonT(60) DEF UpdateLastUsed, At, Apart, Local
  <2>6. \A o \in Tasks \ {t}, q \in SessionIds :
           /\ q \in task[o].locked => sessions'[q] # None /\ ~sessions'[q].revoked
           /\ task[o].new = q => sessions'[q] = None
           /\ task[o].pc = "sign_in" /\ sessions'[q] # None
                => Stored(q) \/ sessions'[q].family # task[o].family
    BY <2>3, ConstantsAssumption DEF HandlersAreIsolated, HandlerOK, Live
  <2>7. Become(t, l)
    BY <1>2, <2>2, ZenonT(60) DEF UpdateLastUsed
  <2>8. \A q \in SessionIds : Stored(q) =>
           /\ sessions'[q] # None /\ sessions'[q].family = sessions[q].family
           /\ sessions[q].revoked => sessions'[q].revoked
    BY <2>3, ZenonT(60)
  <2>. QED  BY <2>4, <2>5, <2>6, <2>7, <2>8, HandlersWriteStep
<1>3. CASE RevokeByUserId(t)
  <2>. DEFINE s == task[t].sid
  <2>1. s \in SessionIds /\ sessions[s] \in Row
    BY <1>3, StoredIsRow DEF RevokeByUserId, At, HandlerOK, Local
  <2>2. PICK idle \in Local : idle = Idle
    BY IdleType
  <2>3. /\ \A q \in SessionIds \ {s} : sessions'[q] = sessions[q]
        /\ sessions'[s] # None /\ sessions'[s].family = sessions[s].family
        /\ sessions[s].revoked => sessions'[s].revoked
    BY <1>3, <2>1, ConstantsAssumption, ZenonT(60) DEF RevokeByUserId, TypeOK, Row
  <2>4. HandlerOK(idle)' /\ \A o \in Tasks \ {t} : Apart(idle, task[o])
    BY <2>2, IdleOK
  <2>5. \A o \in Tasks \ {t}, q \in SessionIds :
          /\ q \in task[o].locked => q # s /\ Stored(q) /\ ~sessions[q].revoked
          /\ task[o].new = q => q # s /\ sessions[q] = None
    BY <1>3, <2>1, ConstantsAssumption
    DEF RevokeByUserId, RowFree, HandlersAreIsolated, HandlerOK, At, Live, Stored
  <2>6. \A o \in Tasks \ {t}, q \in SessionIds :
           /\ q \in task[o].locked => sessions'[q] # None /\ ~sessions'[q].revoked
           /\ task[o].new = q => sessions'[q] = None
           /\ task[o].pc = "sign_in" /\ sessions'[q] # None
                => Stored(q) \/ sessions'[q].family # task[o].family
    BY <1>3, <2>3, <2>5 DEF RevokeByUserId, At, HandlerOK, Stored
  <2>7. \A q \in SessionIds : Stored(q) =>
           /\ sessions'[q] # None /\ sessions'[q].family = sessions[q].family
           /\ sessions[q].revoked => sessions'[q].revoked
    BY <2>3 DEF Stored
  <2>. QED  BY <1>3, <2>2, <2>4, <2>6, <2>7, HandlersWriteStep, ZenonT(60) DEF RevokeByUserId
<1>4. CASE MarkUsed(t)
  <2>1. PICK l \in Local : l = [task[t] EXCEPT !.pc = "set_password"]
    <3>1. [task[t] EXCEPT !.pc = "set_password"] \in Local
      BY DEF Local, Pcs
    <3>. QED  BY <3>1
  <2>2. HandlerOK(l) /\ \A o \in Tasks \ {t} : Apart(l, task[o])
    BY <1>4, <2>1 DEF MarkUsed, At, HandlerOK, Apart, Local
  <2>. QED  BY <1>4, <2>1, <2>2, HandlersTaskStep, HandlersEnd DEF MarkUsed
<1>5. CASE UpdatePasswordHash(t)
  <2>1. PICK l \in Local : l = [task[t] EXCEPT !.pc = "revoke_many"]
    BY LocalNext, Zenon DEF Pcs
  <2>2. HandlerOK(l) /\ \A o \in Tasks \ {t} : Apart(l, task[o])
    BY <1>5, <2>1 DEF UpdatePasswordHash, At, HandlerOK, Apart, Local
  <2>. QED  BY <1>5, <2>1, <2>2, HandlersTaskStep DEF UpdatePasswordHash
<1>6. ASSUME NEW s \in SessionIds, RevokeRow(t, s) PROVE HandlersAreIsolated'
  <2>1. PICK l \in Local :
          l = [task[t] EXCEPT !.todo = task[t].todo \ {s},
                 !.locked = IF Live(s) THEN task[t].locked \cup {s}
                                       ELSE task[t].locked]
    <3>1. [task[t] EXCEPT !.todo = task[t].todo \ {s},
             !.locked = IF Live(s) THEN task[t].locked \cup {s}
                                   ELSE task[t].locked] \in Local
      BY ZenonT(60) DEF Local
    <3>. QED  BY <3>1
  <2>2. HandlerOK(l)
    BY <1>6, <2>1 DEF RevokeRow, At, HandlerOK, Live, Local
  <2>3. \A o \in Tasks \ {t} : Apart(l, task[o])
    BY <1>6, <2>1 DEF RevokeRow, At, RowFree, Apart, Local
  <2>. QED  BY <1>6, <2>1, <2>2, <2>3, HandlersTaskStep DEF RevokeRow
<1>7. CASE IncrementAttempts(t)
  BY <1>7, HandlersEnd DEF IncrementAttempts
<1>8. CASE RequestLock(t) \/ ConfirmAttempt(t)
  <2>1. PICK l \in Local :
          /\ \/ RequestLock(t) /\ l = [task[t] EXCEPT !.pc = "locked"]
             \/ ConfirmAttempt(t) /\ l = [task[t] EXCEPT !.pc = "confirm"]
          /\ Become(t, l)
    <3>1. \A pc \in {"locked", "confirm"} : [task[t] EXCEPT !.pc = pc] \in Local
      BY DEF Local, Pcs
    <3>. QED  BY <1>8, <3>1, Zenon DEF RequestLock, ConfirmAttempt
  <2>2. HandlerOK(l) /\ \A o \in Tasks \ {t} : Apart(l, task[o])
    BY <1>8, <2>1 DEF RequestLock, ConfirmAttempt, At, HandlerOK, Apart, Local
  <2>. QED  BY <1>8, <2>1, <2>2, HandlersTaskStep DEF RequestLock, ConfirmAttempt
<1>9. CASE Supersede(t)
  <2>1. PICK l \in Local :
          /\ \/ l = [task[t] EXCEPT !.pc = "superseded"]
             \/ l = [task[t] EXCEPT !.pc = "superseded", !.reset = None]
          /\ Become(t, l)
    <3>1. /\ [task[t] EXCEPT !.pc = "superseded"] \in Local
          /\ [task[t] EXCEPT !.pc = "superseded", !.reset = None] \in Local
      BY LocalNext, Zenon DEF Pcs
    <3>. QED  BY <1>9, <3>1, Zenon DEF Supersede
  <2>2. /\ l.pc = "superseded" /\ l.user = task[t].user /\ l.new = task[t].new
        /\ l.family = task[t].family /\ l.pwd = task[t].pwd /\ l.sid = task[t].sid
        /\ l.locked = task[t].locked /\ l.todo = task[t].todo /\ l.seen = task[t].seen
    BY <2>1, ZenonT(60) DEF Local
  <2>3. task[t].pc = "superseding"
    BY <1>9 DEF Supersede, At
  <2>4. HandlerOK(l) /\ \A o \in Tasks \ {t} : Apart(l, task[o])
    BY <2>2, <2>3 DEF HandlerOK, Apart
  <2>. QED  BY <1>9, <2>1, <2>4, HandlersTaskStep DEF Supersede
<1>. QED
  BY <1>1, <1>2, <1>3, <1>4, <1>5, <1>6, <1>7, <1>8, <1>9 DEF Acquire
-----------------------------------------------------------------------------
(* FamilyIsChain.                                                          *)

\* A step that inserts no row and changes only revoked, upwards, and lastUsed.
LEMMA ChainKept ==
  ASSUME TypeOK, FamilyIsChain,
         \A s \in SessionIds :
           /\ Stored(s) <=> sessions'[s] # None
           /\ Stored(s) => /\ sessions'[s].user = sessions[s].user
                           /\ sessions'[s].family = sessions[s].family
                           /\ sessions'[s].replacedBy = sessions[s].replacedBy
                           /\ sessions[s].revoked => sessions'[s].revoked
  PROVE  FamilyIsChain'
<1>1. \A s \in SessionIds : Stored(s) => sessions[s].replacedBy \in SessionIds \cup {None}
  BY StoredIsRow DEF Row
<1>2. ASSUME NEW s \in SessionIds, Stored(s), sessions[s].replacedBy # None
      PROVE  LET n == sessions[s].replacedBy IN
             /\ sessions'[s].revoked /\ sessions'[n] # None
             /\ sessions'[n].user = sessions'[s].user
             /\ sessions'[n].family = sessions'[s].family
  BY <1>1, <1>2 DEF FamilyIsChain
<1>3. ASSUME NEW s \in SessionIds, NEW o \in SessionIds, Stored(s), Stored(o), s # o
      PROVE  /\ sessions'[s].replacedBy = sessions'[o].replacedBy
                   => sessions'[s].replacedBy = None
             /\ sessions'[s].family = sessions'[o].family
                   => sessions'[s].replacedBy # None \/ sessions'[o].replacedBy # None
  BY <1>3 DEF FamilyIsChain
<1>. QED
  BY <1>2, <1>3 DEF FamilyIsChain, Stored

\* A new family starts as a chain of one session.
LEMMA ChainSignIn ==
  ASSUME TypeOK, HandlersAreIsolated, FamilyIsChain, NEW t \in Tasks, SignInCommit(t)
  PROVE  FamilyIsChain'
<1>. DEFINE n == task[t].new
<1>1. task[t] \in Local /\ HandlerOK(task[t]) /\ At(t, "sign_in")
  BY DEF TypeOK, HandlersAreIsolated, SignInCommit
<1>2. /\ n \in SessionIds /\ ~Stored(n)
      /\ \A s \in SessionIds : Stored(s) => sessions[s].family # task[t].family
  BY <1>1, ZenonT(60) DEF At, HandlerOK, Local
<1>3. /\ \A s \in SessionIds \ {n} : sessions'[s] = sessions[s]
      /\ sessions'[n].family = task[t].family /\ sessions'[n].replacedBy = None
  BY <1>2 DEF SignInCommit, TypeOK, CreateForSignIn
<1>4. \A s \in SessionIds : Stored(s) =>
        sessions[s].replacedBy \in SessionIds \cup {None} /\ sessions[s].replacedBy # n
  BY <1>2, StoredIsRow, ConstantsAssumption, SMTT(60) DEF Row, FamilyIsChain
<1>. QED
  BY <1>2, <1>3, <1>4 DEF FamilyIsChain, Stored

\* Rotation extends its family's chain at the tip.
LEMMA ChainRefresh ==
  ASSUME TypeOK, HandlersAreIsolated, FamilyIsChain, NEW t \in Tasks, RefreshCommit(t)
  PROVE  FamilyIsChain'
<1>. DEFINE old == task[t].sid
            new == task[t].new
<1>1. task[t] \in Local /\ HandlerOK(task[t]) /\ At(t, "rotated")
  BY ZenonT(60) DEF TypeOK, HandlersAreIsolated, RefreshCommit
<1>2. /\ old \in SessionIds /\ Live(old) /\ sessions[old] \in Row
      /\ new \in SessionIds /\ ~Stored(new) /\ old # new
  BY <1>1, StoredIsRow DEF At, HandlerOK, Local, Live
<1>3. /\ \A s \in SessionIds \ {old, new} : sessions'[s] = sessions[s]
      /\ sessions'[old] =
            [sessions[old] EXCEPT !.revoked = TRUE, !.replacedBy = new]
      /\ sessions'[new] = CreateForRefreshRotation(old, task[t].at)
  BY <1>2, Zenon DEF RefreshCommit, TypeOK
<1>4. /\ sessions'[old].user = sessions[old].user
      /\ sessions'[old].family = sessions[old].family
      /\ sessions'[old].revoked /\ sessions'[old].replacedBy = new
      /\ sessions'[new].user = sessions[old].user
      /\ sessions'[new].family = sessions[old].family
      /\ sessions'[new].replacedBy = None
      /\ sessions'[new] # None
  <2>1. CreateForRefreshRotation(old, task[t].at) \in Row
    <3>1. task[t].at \in Nat /\ task[t].at + RefreshTokenTtl \in Nat
      BY <1>1, ConstantsAssumption DEF Local
    <3>. QED  BY <1>1, <1>2, <3>1, Zenon DEF CreateForRefreshRotation, Row, Local
  <2>2. /\ sessions'[old].user = sessions[old].user
        /\ sessions'[old].family = sessions[old].family
        /\ sessions'[old].revoked /\ sessions'[old].replacedBy = new
    BY <1>2, <1>3 DEF Row
  <2>3. /\ sessions'[new].user = sessions[old].user
        /\ sessions'[new].family = sessions[old].family
        /\ sessions'[new].replacedBy = None
    BY <1>3 DEF CreateForRefreshRotation
  <2>4. sessions'[new] # None
    BY <1>3, <2>1, ConstantsAssumption, SMTT(60)
  <2>. QED  BY <2>2, <2>3, <2>4
<1>5. sessions[old].replacedBy = None
  BY <1>2 DEF FamilyIsChain, Live
<1>6. \A s \in SessionIds : Stored(s) =>
        sessions[s].replacedBy \in SessionIds \cup {None} /\ sessions[s].replacedBy # new
  BY <1>2, StoredIsRow, ConstantsAssumption, ZenonT(60) DEF Row, FamilyIsChain
<1>7. ASSUME NEW s \in SessionIds, sessions'[s] # None, sessions'[s].replacedBy # None
      PROVE  LET n == sessions'[s].replacedBy IN
             /\ sessions'[s].revoked /\ sessions'[n] # None
             /\ sessions'[n].user = sessions'[s].user
             /\ sessions'[n].family = sessions'[s].family
  <2>1. CASE s = old
    BY <1>2, <1>4, <2>1
  <2>2. CASE s \notin {old, new}
    <3>1. /\ Stored(s) /\ sessions[s].replacedBy # None
          /\ sessions'[s] = sessions[s]
      BY <1>3, <1>7, <2>2 DEF Stored
    <3>2. PICK n \in SessionIds : n = sessions[s].replacedBy /\ n # new /\ Stored(n)
      BY <1>6, <3>1 DEF FamilyIsChain
    <3>3. /\ sessions[s].revoked /\ sessions[n].user = sessions[s].user
          /\ sessions[n].family = sessions[s].family
      BY <3>1, <3>2 DEF FamilyIsChain
    <3>4. /\ sessions'[n] # None /\ sessions'[n].user = sessions[n].user
          /\ sessions'[n].family = sessions[n].family
      <4>1. CASE n = old
        <5>1. sessions'[old] \in Row
          BY <1>2, <1>3, Zenon DEF Row
        <5>. QED  BY <1>4, <4>1, <5>1, ConstantsAssumption
      <4>2. CASE n # old
        BY <1>3, <3>2, <4>2 DEF Stored
      <4>. QED  BY <4>1, <4>2, SMTT(60)
    <3>. QED  BY <3>1, <3>2, <3>3, <3>4
  <2>. QED  BY <1>4, <1>7, <2>1, <2>2, SMTT(60)
<1>8. ASSUME NEW s \in SessionIds, NEW o \in SessionIds, s # o,
             sessions'[s] # None, sessions'[o] # None
      PROVE  /\ sessions'[s].replacedBy = sessions'[o].replacedBy
                   => sessions'[s].replacedBy = None
             /\ sessions'[s].family = sessions'[o].family
                   => sessions'[s].replacedBy # None \/ sessions'[o].replacedBy # None
  <2>1. \A q \in SessionIds \ {old, new} : sessions'[q] # None =>
          /\ sessions'[q] = sessions[q] /\ Stored(q)
          /\ sessions[q].replacedBy # new
          /\ sessions[q].family = sessions[old].family => sessions[q].replacedBy # None
    BY <1>2, <1>3, <1>5, <1>6 DEF FamilyIsChain, Stored, Live
  <2>2. new # None
    BY <1>2, ConstantsAssumption
  <2>3. CASE s \in {old, new} /\ o \in {old, new}
    BY <1>4, <1>8, <2>2, <2>3, SMTT(60)
  <2>4. CASE s \in {old, new} /\ o \notin {old, new}
    BY <1>4, <1>8, <2>1, <2>2, <2>4, SMTT(60)
  <2>5. CASE s \notin {old, new} /\ o \in {old, new}
    BY <1>4, <1>8, <2>1, <2>2, <2>5
  <2>6. CASE s \notin {old, new} /\ o \notin {old, new}
    BY <1>8, <2>1, <2>6 DEF FamilyIsChain
  <2>. QED  BY <2>3, <2>4, <2>5, <2>6
<1>. QED
  BY <1>7, <1>8 DEF FamilyIsChain, Stored

\* Steps that wait for nothing keep every family a chain.
LEMMA ChainAdvance ==
  ASSUME TypeOK, HandlersAreIsolated, FamilyIsChain, NEW t \in Tasks, Advance(t)
  PROVE  FamilyIsChain'
<1>1. CASE RevokeCommit(t)
  <2>1. \A s \in task[t].locked : s \in SessionIds /\ sessions[s] \in Row
    BY StoredIsRow DEF HandlersAreIsolated, HandlerOK, Live, TypeOK, Local
  <2>2. \A s \in SessionIds :
          \/ sessions'[s] = sessions[s]
          \/ /\ sessions[s] \in Row
             /\ sessions'[s] = [sessions[s] EXCEPT !.revoked = TRUE]
    BY <1>1, <2>1 DEF RevokeCommit
  <2>3. ASSUME NEW s \in SessionIds
        PROVE  /\ Stored(s) <=> sessions'[s] # None
               /\ Stored(s) => /\ sessions'[s].user = sessions[s].user
                               /\ sessions'[s].family = sessions[s].family
                               /\ sessions'[s].replacedBy = sessions[s].replacedBy
                               /\ sessions[s].revoked => sessions'[s].revoked
    <3>1. CASE sessions'[s] = sessions[s]
      BY <3>1 DEF Stored
    <3>2. CASE /\ sessions[s] \in Row
               /\ sessions'[s] = [sessions[s] EXCEPT !.revoked = TRUE]
      <4>1. sessions'[s] \in Row
        BY <3>2, Zenon DEF Row
      <4>2. Stored(s) /\ sessions'[s] # None
        BY <3>2, <4>1, ConstantsAssumption, Zenon DEF Stored
      <4>. QED  BY <3>2, <4>2 DEF Row
    <3>. QED  BY <2>2, <3>1, <3>2
  <2>. QED  BY <2>3, ChainKept
<1>2. CASE UNCHANGED sessions
  BY <1>2, ChainKept DEF Stored
<1>. QED
  BY <1>1, <1>2, ChainSignIn, ChainRefresh, Zenon
  DEF Advance, RevokeStart, AnswerRead, RevokeAllSessions, ConfirmResetRefuse,
      RevokeSession, ChangePassword, ConfirmResetVerify, ConfirmResetWrong,
      SupersedeStart, RequestCommit

\* Steps that wait for a row keep every family a chain.
LEMMA ChainAcquire ==
  ASSUME TypeOK, HandlersAreIsolated, FamilyIsChain, NEW t \in Tasks, Acquire(t)
  PROVE  FamilyIsChain'
<1>. DEFINE s == task[t].sid
<1>1. CASE UpdateLastUsed(t) \/ RevokeByUserId(t)
  <2>1. s \in SessionIds /\ sessions[s] \in Row /\ task[t] \in Local
    BY <1>1, StoredIsRow
    DEF UpdateLastUsed, RevokeByUserId, At, HandlersAreIsolated, HandlerOK, TypeOK, Local
  <2>2. \A q \in SessionIds \ {s} : sessions'[q] = sessions[q]
    BY <1>1, <2>1 DEF UpdateLastUsed, RevokeByUserId, TypeOK
  <2>3. \/ sessions'[s] = sessions[s]
        \/ sessions'[s] = [sessions[s] EXCEPT !.revoked = TRUE]
        \/ sessions'[s] = [sessions[s] EXCEPT !.lastUsed =
                              Later(sessions[s].lastUsed, task[t].at)]
    BY <1>1, <2>1 DEF UpdateLastUsed, RevokeByUserId, TypeOK
  <2>4. /\ sessions'[s] \in Row
        /\ sessions'[s].user = sessions[s].user
        /\ sessions'[s].family = sessions[s].family
        /\ sessions'[s].replacedBy = sessions[s].replacedBy
        /\ sessions[s].revoked => sessions'[s].revoked
    BY <2>1, <2>3, ZenonT(60) DEF Row, Later, Local
  <2>. QED  BY <2>1, <2>2, <2>4, ChainKept, ConstantsAssumption DEF Stored
<1>2. CASE UNCHANGED sessions
  BY <1>2, ChainKept DEF Stored
<1>. QED
  BY <1>1, <1>2, ZenonT(60)
  DEF Acquire, RevokeAndReplace, MarkUsed, IncrementAttempts, UpdatePasswordHash,
      RevokeRow, RequestLock, Supersede, ConfirmAttempt
-----------------------------------------------------------------------------
(* ResetsAreIsolated, RequestsAreSerial and OneActiveReset.                *)

\* A step of t that takes hold of no reset token it did not hold.
LEMMA ResetsKept ==
  ASSUME TypeOK, ResetsAreIsolated, UNCHANGED resets,
         NEW t \in Tasks, NEW l \in Local, Become(t, l),
         l.pc \in {"superseded", "set_password", "revoke_many", "revoking"} =>
           \/ l.reset = None
           \/ HoldsReset(t, l.reset) /\ l.at = task[t].at /\ ~At(t, "superseded")
           \/ /\ Active(l.reset) /\ ResetFree(t, l.reset)
              /\ l.pc = "superseded" \/ Usable(l.reset, l.at)
  PROVE  ResetsAreIsolated'
<1>1. task' = [task EXCEPT ![t] = l]
  BY SMTT(60) DEF Become
<1>2. ASSUME NEW r \in ResetIds, HoldsReset(t, r)'
      PROVE  /\ Active(r) /\ ResetFree(t, r)
             /\ task'[t].pc = "superseded" \/ Usable(r, task'[t].at)
  BY <1>1, <1>2, ConstantsAssumption DEF HoldsReset, ResetsAreIsolated, TypeOK, At
<1>3. \A o \in Tasks \ {t} :
        /\ task'[o] = task[o]
        /\ \A r \in ResetIds : HoldsReset(o, r)' <=> HoldsReset(o, r)
  BY <1>1, SMTT(60) DEF HoldsReset, TypeOK
<1>4. ASSUME NEW o \in Tasks, NEW r \in ResetIds, HoldsReset(o, r)'
      PROVE  /\ Active(r)' /\ \A q \in Tasks \ {o} : ~HoldsReset(q, r)'
             /\ At(o, "superseded")' \/ Usable(r, task[o].at)'
  <2>1. Active(r) /\ (task'[o].pc = "superseded" \/ Usable(r, task'[o].at))
    BY <1>2, <1>3, <1>4 DEF ResetsAreIsolated, At
  <2>2. ASSUME NEW q \in Tasks \ {o}, HoldsReset(q, r)' PROVE FALSE
    <3>1. CASE o = t
      BY <1>2, <1>3, <1>4, <2>2, <3>1 DEF ResetFree
    <3>2. CASE q = t
      BY <1>2, <1>3, <1>4, <2>2, <3>2 DEF ResetFree
    <3>3. CASE o # t /\ q # t
      BY <1>3, <1>4, <2>2, <3>3, ZenonT(60) DEF ResetsAreIsolated, ResetFree
    <3>. QED  BY <3>1, <3>2, <3>3
  <2>. QED  BY <2>1, <2>2, SMTT(60) DEF Usable, Active, At
<1>. QED
  BY <1>4 DEF ResetsAreIsolated, ResetFree

\* A request or a rollback that ends.
LEMMA ResetsEnd ==
  ASSUME TypeOK, ResetsAreIsolated, UNCHANGED resets, NEW t \in Tasks, Become(t, Idle)
  PROVE  ResetsAreIsolated'
BY IdleType, ResetsKept, ZenonT(60) DEF Idle

\* A step that opens no token, and of a task that takes no lock it did not
\* hold unless nobody else does.
LEMMA SerialKept ==
  ASSUME TypeOK, RequestsAreSerial,
         \A r \in ResetIds : Active(r)' => Active(r) /\ resets'[r].user = resets[r].user,
         NEW t \in Tasks, NEW l \in Local, Become(t, l),
         l.pc \in {"locked", "superseding", "superseded"} =>
           /\ l.user = task[t].user /\ ScopesFree(t)
           /\ l.pc # "locked" => ActiveOfUser(l.user) \subseteq {l.reset}
  PROVE  RequestsAreSerial'
<1>1. task'[t] = l /\ \A o \in Tasks \ {t} : task'[o] = task[o]
  BY SMTT(60) DEF Become, TypeOK
<1>2. \A x : ActiveOfUser(x)' \subseteq ActiveOfUser(x)
  BY DEF ActiveOfUser
<1>3. ASSUME NEW o \in Tasks, HoldsScopes(o)'
      PROVE  /\ \A q \in Tasks \ {o} : ~(HoldsScopes(q)' /\ task'[q].user = task'[o].user)
             /\ task'[o].pc # "locked" => ActiveOfUser(task'[o].user) \subseteq {task'[o].reset}
  <2>1. CASE o = t
    BY <1>1, <1>3, <2>1, SMTT(60) DEF HoldsScopes, ScopesFree
  <2>2. CASE o # t
    <3>1. HoldsScopes(o) /\ task'[o] = task[o]
      BY <1>1, <1>3, <2>2, SMTT(60) DEF HoldsScopes
    <3>2. ASSUME NEW q \in Tasks \ {o}, HoldsScopes(q)', task'[q].user = task'[o].user
          PROVE  FALSE
      BY <1>1, <3>1, <3>2, SMTT(60) DEF HoldsScopes, ScopesFree, RequestsAreSerial
    <3>. QED  BY <3>1, <3>2 DEF RequestsAreSerial, At
  <2>. QED  BY <2>1, <2>2
<1>4. \A o \in Tasks : \A x : x = task'[o].user => ActiveOfUser(task[o].user)' \subseteq ActiveOfUser(x)
  BY <1>2 DEF ActiveOfUser
<1>. QED
  BY <1>3, <1>4, ZenonT(60) DEF RequestsAreSerial, ScopesFree, At

\* The end of a request, or of a confirmation, that opens no token.
LEMMA SerialEnd ==
  ASSUME TypeOK, RequestsAreSerial,
         \A r \in ResetIds : Active(r)' => Active(r) /\ resets'[r].user = resets[r].user,
         NEW t \in Tasks, Become(t, Idle)
  PROVE  RequestsAreSerial'
<1>1. PICK l \in Local : l = Idle
  BY IdleType, SMTT(60)
<1>2. l.pc = "idle"
  BY <1>1, SMTT(60) DEF Idle
<1>. QED
  BY <1>1, <1>2, SerialKept

\* The commit that consumes a token lets go of it.
LEMMA ResetsCommit ==
  ASSUME TypeOK, ResetsAreIsolated, RequestsAreSerial, OneActiveReset,
         NEW t \in Tasks, RevokeCommit(t)
  PROVE  ResetsAreIsolated' /\ RequestsAreSerial' /\ OneActiveReset'
<1>1. /\ task' = [task EXCEPT ![t] = Idle] /\ task[t] \in Local
      /\ task[t].pc = "revoking"
  BY DEF RevokeCommit, Become, TypeOK, At
<1>2. \A r \in ResetIds : r # task[t].reset => resets'[r] = resets[r]
  BY DEF RevokeCommit, TypeOK
<1>3. task[t].reset \in ResetIds =>
        /\ resets[task[t].reset] \in ResetRow
        /\ resets'[task[t].reset] = [resets[task[t].reset] EXCEPT !.used = TRUE]
  BY <1>1, ConstantsAssumption, Zenon
  DEF RevokeCommit, TypeOK, ResetsAreIsolated, HoldsReset, Active
<1>4. \A r \in ResetIds : Active(r)' => Active(r) /\ resets'[r] = resets[r]
  BY <1>2, <1>3 DEF Active, ResetRow
<1>5. OneActiveReset'
  BY <1>4 DEF OneActiveReset
<1>6. \A o \in Tasks, r \in ResetIds : HoldsReset(o, r)' =>
        o # t /\ HoldsReset(o, r) /\ task'[o] = task[o]
  BY <1>1 DEF HoldsReset, TypeOK, Idle
<1>7. \A o \in Tasks \ {t}, r \in ResetIds :
        HoldsReset(o, r) => /\ r # task[t].reset /\ Active(r)
                            /\ At(o, "superseded") \/ Usable(r, task[o].at)
  BY <1>1, SMTT(60) DEF ResetsAreIsolated, ResetFree, HoldsReset
<1>8. \A o \in Tasks, r \in ResetIds : HoldsReset(o, r)' =>
        /\ Active(r)' /\ \A q \in Tasks \ {o} : ~HoldsReset(q, r)'
        /\ At(o, "superseded")' \/ Usable(r, task[o].at)'
  BY <1>2, <1>6, <1>7 DEF ResetsAreIsolated, ResetFree, Usable, Active, At
<1>9. RequestsAreSerial'
  BY <1>4, SerialEnd DEF RevokeCommit
<1>. QED
  BY <1>5, <1>8, <1>9 DEF ResetsAreIsolated, ResetFree

\* A request for a reset token closes the active one and opens another: the
\* row of its snapshot was the only active one.
LEMMA ResetsRequest ==
  ASSUME TypeOK, HandlersAreIsolated, ResetsAreIsolated, RequestsAreSerial, OneActiveReset,
         NEW t \in Tasks, RequestCommit(t)
  PROVE  ResetsAreIsolated' /\ RequestsAreSerial' /\ OneActiveReset'
<1>. DEFINE u == task[t].user
<1>1. PICK n \in ResetIds :
        /\ resets[n] = None /\ resets'[n] = NewReset(u, task[t].at)
        /\ n # task[t].reset
        /\ \A r \in ResetIds \ {n} :
             IF r = task[t].reset
               THEN /\ resets[r] \in ResetRow
                    /\ resets'[r] = [resets[r] EXCEPT !.used = TRUE]
               ELSE resets'[r] = resets[r]
  BY RequestWrites
<1>2. /\ task' = [task EXCEPT ![t] = Idle] /\ task[t] \in Local
      /\ task[t].pc = "superseded"
  BY DEF RequestCommit, Become, TypeOK, At
<1>3. \A r \in ResetIds : Active(r) /\ resets[r].user = u => r = task[t].reset
  BY <1>2 DEF RequestsAreSerial, HoldsScopes, At, ActiveOfUser
<1>4. \A r \in ResetIds \ {n} : Active(r)' =>
        /\ Active(r) /\ resets'[r] = resets[r]
        /\ r # task[t].reset /\ resets[r].user # u
  BY <1>1, <1>3, ZenonT(60) DEF Active, ResetRow
<1>5. resets'[n].user = u
  BY <1>1 DEF NewReset
<1>6. OneActiveReset'
  BY <1>4, <1>5 DEF OneActiveReset
<1>7. \A o \in Tasks \ {t} : task'[o] = task[o]
  BY <1>2 DEF TypeOK
<1>8. task'[t].pc = "idle"
  BY <1>2 DEF TypeOK, Idle
<1>9. \A o \in Tasks \ {t}, r \in ResetIds :
        HoldsReset(o, r) => r # n /\ resets'[r] = resets[r]
  BY <1>1, <1>2, ZenonT(60) DEF ResetsAreIsolated, ResetFree, HoldsReset, Active
<1>10. ResetsAreIsolated'
  BY <1>7, <1>8, <1>9 DEF ResetsAreIsolated, HoldsReset, ResetFree, Usable, Active, At
<1>11. \A o \in Tasks \ {t} : HoldsScopes(o) => task[o].user # u
  BY <1>2 DEF RequestsAreSerial, ScopesFree, HoldsScopes
<1>12. ASSUME NEW o \in Tasks, HoldsScopes(o)'
       PROVE  /\ o # t /\ HoldsScopes(o) /\ task'[o] = task[o]
              /\ \A q \in Tasks \ {o} : ~(HoldsScopes(q)' /\ task'[q].user = task'[o].user)
  BY <1>7, <1>8, <1>12 DEF HoldsScopes, RequestsAreSerial, ScopesFree
<1>13. ASSUME NEW o \in Tasks \ {t}, HoldsScopes(o)
       PROVE  ActiveOfUser(task[o].user)' \subseteq ActiveOfUser(task[o].user)
  <2>1. task[o].user # u /\ task'[o] = task[o]
    BY <1>7, <1>11, <1>13
  <2>. QED  BY <1>4, <1>5, <2>1 DEF ActiveOfUser
<1>14. RequestsAreSerial'
  BY <1>12, <1>13 DEF RequestsAreSerial, ScopesFree, At
<1>. QED
  BY <1>6, <1>10, <1>14

\* A wrong token is counted on a row that no confirmation holds.
LEMMA ResetsIncrement ==
  ASSUME TypeOK, HandlersAreIsolated, ResetsAreIsolated, RequestsAreSerial, OneActiveReset,
         NEW t \in Tasks, IncrementAttempts(t)
  PROVE  ResetsAreIsolated' /\ RequestsAreSerial' /\ OneActiveReset'
<1>. DEFINE r == task[t].reset
<1>1. task[t] \in Local /\ HandlerOK(task[t]) /\ At(t, "count_wrong")
  BY DEF TypeOK, HandlersAreIsolated, IncrementAttempts
<1>2. r \in ResetIds /\ ResetFree(t, r) /\ Become(t, Idle)
  BY <1>1, SMTT(60) DEF At, HandlerOK, Local, IncrementAttempts
<1>3. CASE Usable(r, task[t].at)
  <2>1. /\ resets[r] \in ResetRow
        /\ resets'[r] = [resets[r] EXCEPT !.attempts = resets[r].attempts + 1]
        /\ \A q \in ResetIds \ {r} : resets'[q] = resets[q]
    BY <1>2, <1>3 DEF IncrementAttempts, TypeOK, Usable, Active
  <2>2. \A q \in ResetIds : Active(q)' => Active(q) /\ resets'[q].user = resets[q].user
    BY <1>3, <2>1 DEF Usable, Active, ResetRow
  <2>3. OneActiveReset'
    BY <2>2, SMTT(60) DEF OneActiveReset
  <2>4. \A o \in Tasks, q \in ResetIds : HoldsReset(o, q)' =>
          o # t /\ HoldsReset(o, q) /\ task'[o] = task[o]
    BY <1>2 DEF HoldsReset, TypeOK, Become, Idle
  <2>5. \A o \in Tasks \ {t} : ~HoldsReset(o, r)
    BY <1>2 DEF ResetFree
  <2>6. \A o \in Tasks, q \in ResetIds : HoldsReset(o, q)' =>
          /\ Active(q)' /\ \A w \in Tasks \ {o} : ~HoldsReset(w, q)'
          /\ At(o, "superseded")' \/ Usable(q, task[o].at)'
    BY <2>1, <2>4, <2>5 DEF ResetsAreIsolated, ResetFree, Usable, Active, At
  <2>7. RequestsAreSerial'
    BY <1>2, <2>2, SerialEnd, SMTT(60)
  <2>. QED  BY <2>3, <2>6, <2>7 DEF ResetsAreIsolated, ResetFree
<1>4. CASE ~Usable(r, task[t].at)
  <2>1. UNCHANGED resets
    BY <1>4 DEF IncrementAttempts
  <2>2. RequestsAreSerial'
    BY <1>2, <2>1, SerialEnd DEF Active
  <2>. QED  BY <1>2, <2>1, <2>2, ResetsEnd DEF OneActiveReset, Active
<1>. QED
  BY <1>3, <1>4

\* What a step leaves in the locals of its task.
LEMMA BecomeValue ==
  ASSUME TypeOK, NEW t \in Tasks, NEW x, Become(t, x)
  PROVE  task'[t] = x
BY SMTT(60) DEF TypeOK, Become

\* The steps of a request for a reset token up to its commit.
Requesting(t) ==
  \/ RequestLock(t) \/ SupersedeStart(t) \/ Supersede(t) \/ ConfirmAttempt(t)
  \/ \E u \in Users : RequestReset(t, u)

\* What such a step leaves in the locals of its task.
LEMMA RequestingLocals ==
  ASSUME TypeOK, NEW t \in Tasks, Requesting(t), TypeOK'
  PROVE  \E l \in Local :
           /\ Become(t, l) /\ UNCHANGED resets
           /\ \/ l.pc \in {"request", "confirm"}
              \/ l.pc = "locked" /\ l.user = task[t].user /\ ScopesFree(t)
              \/ /\ l.pc = "superseding" /\ l.user = task[t].user /\ At(t, "locked")
                 /\ l.reset = None => ActiveOfUser(l.user) = {}
                 /\ l.reset # None => l.reset \in ActiveOfUser(l.user)
              \/ /\ l.pc = "superseded" /\ l.user = task[t].user /\ At(t, "superseding")
                 /\ l.reset = task[t].reset /\ Active(l.reset) /\ ResetFree(t, l.reset)
              \/ /\ l.pc = "superseded" /\ l.user = task[t].user /\ At(t, "superseding")
                 /\ l.reset = None
                 /\ task[t].reset # None => ~Active(task[t].reset)
<1>. task[t] \in Local /\ task' \in [Tasks -> Local]
  BY DEF TypeOK
<1>1. ASSUME NEW x, Become(t, x) PROVE x \in Local
  BY <1>1 DEF TypeOK, Become
<1>2. CASE RequestLock(t)
  <2>1. PICK l \in Local : l = [task[t] EXCEPT !.pc = "locked"] /\ Become(t, l)
    BY <1>1, <1>2 DEF RequestLock
  <2>2. l.pc = "locked" /\ l.user = task[t].user
    BY <2>1 DEF Local
  <2>. QED  BY <1>2, <2>1, <2>2, ZenonT(60) DEF RequestLock
<1>3. CASE SupersedeStart(t)
  <2>1. PICK r \in ResetIds \cup {None} :
          /\ Become(t, [task[t] EXCEPT !.pc = "superseding", !.reset = r])
          /\ r = None => ActiveOfUser(task[t].user) = {}
          /\ r # None => r \in ActiveOfUser(task[t].user)
    BY <1>3, SnapshotType, ZenonT(60)
  <2>2. PICK l \in Local :
          l = [task[t] EXCEPT !.pc = "superseding", !.reset = r] /\ Become(t, l)
    BY <1>1, <2>1
  <2>3. l.pc = "superseding" /\ l.user = task[t].user /\ l.reset = r
    BY <2>2, ZenonT(60) DEF Local
  <2>. QED  BY <1>3, <2>1, <2>2, <2>3, ZenonT(60) DEF SupersedeStart
<1>4. CASE Supersede(t)
  <2>. DEFINE r == task[t].reset
  <2>1. CASE r # None /\ Active(r)
    <3>1. PICK l \in Local : l = [task[t] EXCEPT !.pc = "superseded"] /\ Become(t, l)
      BY <1>1, <1>4, <2>1 DEF Supersede
    <3>2. l.pc = "superseded" /\ l.user = task[t].user /\ l.reset = r
      BY <3>1 DEF Local
    <3>. QED  BY <1>4, <2>1, <3>1, <3>2, ZenonT(60) DEF Supersede
  <2>2. CASE ~(r # None /\ Active(r))
    <3>1. PICK l \in Local :
            l = [task[t] EXCEPT !.pc = "superseded", !.reset = None] /\ Become(t, l)
      BY <1>1, <1>4, <2>2 DEF Supersede
    <3>2. l.pc = "superseded" /\ l.user = task[t].user /\ l.reset = None
      BY <3>1 DEF Local
    <3>. QED  BY <1>4, <2>2, <3>1, <3>2, ZenonT(60) DEF Supersede
  <2>. QED  BY <2>1, <2>2, ZenonT(60)
<1>5. CASE ConfirmAttempt(t)
  <2>1. PICK l \in Local : l = [task[t] EXCEPT !.pc = "confirm"] /\ Become(t, l)
    BY <1>1, <1>5 DEF ConfirmAttempt
  <2>2. l.pc = "confirm"
    BY <2>1 DEF Local
  <2>. QED  BY <1>5, <2>1, <2>2, ZenonT(60) DEF ConfirmAttempt
<1>6. ASSUME NEW u \in Users, RequestReset(t, u)
      PROVE  \E l \in Local : Become(t, l) /\ UNCHANGED resets /\ l.pc = "request"
  <2>1. PICK l \in Local :
          l = [Idle EXCEPT !.pc = "request", !.user = u, !.at = now] /\ Become(t, l)
    BY <1>1, <1>6 DEF RequestReset
  <2>2. l.pc = "request"
    BY <2>1 DEF Idle
  <2>. QED  BY <1>6, <2>1, <2>2, ZenonT(60) DEF RequestReset
<1>. QED
  BY <1>2, <1>3, <1>4, <1>5, <1>6, ZenonT(60) DEF Requesting

\* These steps keep the tokens apart and the requests of a user in a row.
LEMMA ResetsRequesting ==
  ASSUME TypeOK, ResetsAreIsolated, RequestsAreSerial, OneActiveReset,
         NEW t \in Tasks, Requesting(t), TypeOK'
  PROVE  ResetsAreIsolated' /\ RequestsAreSerial' /\ OneActiveReset'
<1>1. PICK l \in Local :
           /\ Become(t, l) /\ UNCHANGED resets
           /\ \/ l.pc \in {"request", "confirm"}
              \/ l.pc = "locked" /\ l.user = task[t].user /\ ScopesFree(t)
              \/ /\ l.pc = "superseding" /\ l.user = task[t].user /\ At(t, "locked")
                 /\ l.reset = None => ActiveOfUser(l.user) = {}
                 /\ l.reset # None => l.reset \in ActiveOfUser(l.user)
              \/ /\ l.pc = "superseded" /\ l.user = task[t].user /\ At(t, "superseding")
                 /\ l.reset = task[t].reset /\ Active(l.reset) /\ ResetFree(t, l.reset)
              \/ /\ l.pc = "superseded" /\ l.user = task[t].user /\ At(t, "superseding")
                 /\ l.reset = None
                 /\ task[t].reset # None => ~Active(task[t].reset)
  BY RequestingLocals, ZenonT(60)
<1>2. OneActiveReset'
  BY <1>1, SMTT(60) DEF OneActiveReset, Active
<1>3. ResetsAreIsolated'
  BY <1>1, ResetsKept, SMTT(60)
<1>4. At(t, "locked") \/ At(t, "superseding") => ScopesFree(t)
  BY DEF RequestsAreSerial, HoldsScopes, At
<1>5. At(t, "superseding") => ActiveOfUser(task[t].user) \subseteq {task[t].reset}
  BY DEF RequestsAreSerial, HoldsScopes, At
<1>6. \A r \in ActiveOfUser(l.user) :
        r \in ResetIds /\ Active(r) /\ resets[r].user = l.user
  BY SMTT(60) DEF ActiveOfUser
<1>7. l.pc = "superseding" => ActiveOfUser(l.user) \subseteq {l.reset}
  BY <1>1, <1>6, ZenonT(60) DEF OneActiveReset
<1>8. l.pc = "superseded" => ActiveOfUser(l.user) \subseteq {l.reset}
  BY <1>1, <1>5, <1>6, ConstantsAssumption, ZenonT(60)
<1>9. RequestsAreSerial'
  BY <1>1, <1>4, <1>7, <1>8, SerialKept, SMTT(60) DEF Active
<1>. QED
  BY <1>2, <1>3, <1>9, ZenonT(60)

\* No other step takes a lock of the attempt limiter.
LEMMA ScopesEntered ==
  ASSUME TypeOK, NEW t \in Tasks,
         Arrive(t) \/ Advance(t) \/ Acquire(t) \/ Rollback(t), ~Requesting(t)
  PROVE  task'[t].pc \notin {"locked", "superseding", "superseded"}
<1>. task[t] \in Local
  BY SMTT(60) DEF TypeOK
<1>1. ASSUME Become(t, Idle) PROVE task'[t].pc = "idle"
  BY <1>1, BecomeValue DEF Idle
<1>2. CASE Arrive(t)
  <2>1. PICK pc \in {"sign_in", "attempt", "revoke_many", "rotate", "touch", "authenticated"} :
          task'[t].pc = pc
    <3>1. ASSUME NEW u \in Users, SignInVerify(t, u) PROVE task'[t].pc = "sign_in"
      <4>1. PICK s \in SessionIds, f \in Families :
              Become(t, [Idle EXCEPT !.pc = "sign_in", !.user = u, !.new = s,
                                     !.family = f, !.pwd = password[u]])
        BY <3>1, Zenon DEF SignInVerify
      <4>. QED  BY <4>1, BecomeValue, ZenonT(60) DEF Idle
    <3>2. ASSUME NEW u \in Users, ConfirmReset(t, u) PROVE task'[t].pc = "attempt"
      BY <3>2, BecomeValue, ZenonT(60) DEF ConfirmReset, Idle
    <3>3. ASSUME NEW s \in SessionIds, RefreshReuse(t, s) PROVE task'[t].pc = "revoke_many"
      <4>1. task'[t] = [Idle EXCEPT !.pc = "revoke_many", !.user = sessions[s].user,
                                    !.family = sessions[s].family]
        BY <3>3, BecomeValue, Zenon DEF RefreshReuse
      <4>. QED  BY <4>1, Zenon DEF Idle
    <3>4. ASSUME NEW s \in SessionIds, RefreshRotate(t, s) PROVE task'[t].pc = "rotate"
      <4>1. PICK n \in SessionIds :
              Become(t, [Idle EXCEPT !.pc = "rotate", !.sid = s, !.new = n, !.at = now])
        BY <3>4, Zenon DEF RefreshRotate
      <4>. QED  BY <4>1, BecomeValue, ZenonT(60) DEF Idle
    <3>5. ASSUME NEW s \in SessionIds, Authenticate(t, s)
          PROVE  task'[t].pc \in {"touch", "authenticated"}
      <4>1. PICK pc \in {"touch", "authenticated"} :
              Become(t, [Idle EXCEPT !.pc = pc, !.user = sessions[s].user,
                                     !.sid = s, !.at = now])
        BY <3>5, Zenon DEF Authenticate
      <4>2. task'[t] = [Idle EXCEPT !.pc = pc, !.user = sessions[s].user,
                                    !.sid = s, !.at = now]
        BY <4>1, BecomeValue, Zenon
      <4>3. task'[t].pc = pc
        BY <4>2, Zenon DEF Idle
      <4>. QED  BY <4>1, <4>3
    <3>. QED  BY <1>2, <3>1, <3>2, <3>3, <3>4, <3>5, ZenonT(60) DEF Arrive, Requesting
  <2>. QED  BY <2>1, SMTT(60)
<1>3. CASE Advance(t)
  <2>1. CASE RevokeStart(t)
    BY <2>1, BecomeValue, ZenonT(60) DEF RevokeStart, Local
  <2>2. CASE RevokeAllSessions(t)
    BY <2>2, BecomeValue, ZenonT(60) DEF RevokeAllSessions, Idle
  <2>3. ASSUME NEW s \in SessionIds, RevokeSession(t, s) PROVE task'[t].pc = "revoke_one"
    BY <2>3, BecomeValue, ZenonT(60) DEF RevokeSession, Idle
  <2>4. ASSUME NEW p \in Passwords, ChangePassword(t, p) PROVE task'[t].pc = "set_password"
    BY <2>4, BecomeValue, ZenonT(60) DEF ChangePassword, Idle
  <2>5. ASSUME NEW r \in ResetIds, NEW p \in Passwords, ConfirmResetVerify(t, r, p)
        PROVE  task'[t].pc = "mark_used"
    BY <2>5, BecomeValue, ZenonT(60) DEF ConfirmResetVerify, Local
  <2>6. ASSUME NEW r \in ResetIds, ConfirmResetWrong(t, r) PROVE task'[t].pc = "count_wrong"
    BY <2>6, BecomeValue, ZenonT(60) DEF ConfirmResetWrong, Local
  <2>7. CASE Become(t, Idle)
    BY <1>1, <2>7
  <2>. QED
    BY <1>3, <2>1, <2>2, <2>3, <2>4, <2>5, <2>6, <2>7, Zenon
    DEF Advance, Requesting, SignInCommit, RefreshCommit, RevokeCommit, AnswerRead,
        ConfirmResetRefuse, RequestCommit
<1>4. CASE Acquire(t)
  <2>1. CASE RevokeAndReplace(t)
    <3>1. \/ task'[t] = Idle
          \/ task'[t] = [task[t] EXCEPT !.pc = "rotated", !.locked = {task[t].sid}]
      BY <2>1, BecomeValue DEF RevokeAndReplace
    <3>2. CASE task'[t] = Idle
      BY <3>2 DEF Idle
    <3>3. CASE task'[t] = [task[t] EXCEPT !.pc = "rotated", !.locked = {task[t].sid}]
      BY <3>3 DEF Local
    <3>. QED  BY <3>1, <3>2, <3>3
  <2>2. CASE UpdateLastUsed(t)
    BY <2>2, BecomeValue DEF UpdateLastUsed, Local
  <2>3. CASE MarkUsed(t)
    <3>1. task'[t] = Idle \/ task'[t] = [task[t] EXCEPT !.pc = "set_password"]
      BY <2>3, BecomeValue, SMTT(60) DEF MarkUsed
    <3>2. CASE task'[t] = Idle
      BY <3>2 DEF Idle
    <3>3. CASE task'[t] = [task[t] EXCEPT !.pc = "set_password"]
      BY <3>3 DEF Local
    <3>. QED  BY <3>1, <3>2, <3>3
  <2>4. CASE UpdatePasswordHash(t)
    BY <2>4, BecomeValue DEF UpdatePasswordHash, Local
  <2>5. ASSUME NEW s \in SessionIds, RevokeRow(t, s) PROVE task'[t].pc = "revoking"
    <3>1. task'[t] = [task[t] EXCEPT !.todo = task[t].todo \ {s},
                        !.locked = IF Live(s) THEN task[t].locked \cup {s}
                                              ELSE task[t].locked]
      BY <2>5, BecomeValue DEF RevokeRow
    <3>2. task'[t].pc = task[t].pc
      BY <3>1 DEF Local
    <3>. QED  BY <2>5, <3>2 DEF RevokeRow, At
  <2>6. CASE Become(t, Idle)
    BY <1>1, <2>6
  <2>. QED
    BY <1>4, <2>1, <2>2, <2>3, <2>4, <2>5, <2>6, Zenon
    DEF Acquire, Requesting, RevokeByUserId, IncrementAttempts
<1>5. CASE Rollback(t)
  BY <1>1, <1>5 DEF Rollback
<1>. QED
  BY <1>2, <1>3, <1>4, <1>5

\* Steps of handlers keep the reset tokens apart and the requests of a user
\* for one in a row.
LEMMA ResetsStep ==
  ASSUME TypeOK, HandlersAreIsolated, ResetsAreIsolated, RequestsAreSerial, OneActiveReset,
         NEW t \in Tasks, Arrive(t) \/ Advance(t) \/ Acquire(t) \/ Rollback(t), TypeOK'
  PROVE  ResetsAreIsolated' /\ RequestsAreSerial' /\ OneActiveReset'
<1>1. CASE RevokeCommit(t) \/ IncrementAttempts(t)
  BY <1>1, ResetsCommit, ResetsIncrement
<1>3. CASE RequestCommit(t) \/ Requesting(t)
  BY <1>3, ResetsRequest, ResetsRequesting
<1>2. CASE /\ ~RevokeCommit(t) /\ ~IncrementAttempts(t)
           /\ ~RequestCommit(t) /\ ~Requesting(t)
  <2>1. UNCHANGED resets
    BY <1>2, Zenon
    DEF Arrive, Advance, Acquire, Rollback, SignInVerify, ConfirmReset, RefreshReuse,
        RefreshRotate, Authenticate, SignInCommit, RefreshCommit, RevokeStart, AnswerRead,
        RevokeAllSessions, ConfirmResetRefuse, RevokeSession, ChangePassword,
        ConfirmResetVerify, ConfirmResetWrong, RevokeAndReplace, UpdateLastUsed,
        RevokeByUserId, MarkUsed, UpdatePasswordHash, RevokeRow, Requesting
  <2>2. OneActiveReset'
    BY <2>1 DEF OneActiveReset, Active
  <2>3. task[t] \in Local /\ HandlerOK(task[t])
    BY SMTT(60) DEF TypeOK, HandlersAreIsolated
  <2>4. PICK l \in Local :
          /\ Become(t, l)
          /\ l.pc \notin {"locked", "superseding", "superseded"}
          /\ l.pc \in {"set_password", "revoke_many", "revoking"} =>
               \/ l.reset = None
               \/ HoldsReset(t, l.reset) /\ l.at = task[t].at /\ ~At(t, "superseded")
               \/ Usable(l.reset, l.at) /\ ResetFree(t, l.reset)
    <3>1. task'[t] \in Local /\ Become(t, task'[t])
      BY <1>2, ZenonT(60)
      DEF TypeOK, Become, Arrive, Advance, Acquire, Rollback, SignInVerify, ConfirmReset,
          RefreshReuse, RefreshRotate, Authenticate, SignInCommit, RefreshCommit,
          RevokeStart, AnswerRead, RevokeAllSessions, ConfirmResetRefuse, RevokeSession,
          ChangePassword, ConfirmResetVerify, ConfirmResetWrong, RevokeAndReplace,
          UpdateLastUsed, RevokeByUserId, MarkUsed, UpdatePasswordHash, RevokeRow, Requesting
    <3>2. PICK l \in Local :
            /\ l = task'[t] /\ Become(t, l)
            /\ l.pc \notin {"locked", "superseding", "superseded"}
      BY <1>2, <3>1, ScopesEntered
    <3>3. task \in [Tasks -> Local] /\ task' = [task EXCEPT ![t] = l]
      BY <3>2, SMTT(60) DEF TypeOK, Become
    <3>4. CASE Arrive(t)
      <4>1. l.reset = None
        BY <3>3, <3>4, ZenonT(60)
        DEF Arrive, SignInVerify, RequestReset, ConfirmReset, RefreshReuse, RefreshRotate,
            Authenticate, Become, Idle
      <4>. QED  BY <3>2, <4>1
    <3>5. CASE RevokeStart(t) \/ UpdatePasswordHash(t) \/ \E s \in SessionIds : RevokeRow(t, s)
      <4>1. /\ l.reset = task[t].reset /\ l.at = task[t].at
            /\ task[t].pc \in {"set_password", "revoke_many", "revoking"}
        <5>1. CASE RevokeStart(t)
          <6>1. l = [task[t] EXCEPT !.pc = "revoking", !.todo = RevokeMatching(t),
                                    !.seen = RevokeMatching(t)]
            BY <3>2, <5>1, BecomeValue DEF RevokeStart
          <6>2. l.reset = task[t].reset /\ l.at = task[t].at
            BY <2>3, <6>1 DEF Local
          <6>. QED  BY <5>1, <6>2 DEF RevokeStart, At
        <5>2. CASE UpdatePasswordHash(t)
          BY <2>3, <3>3, <5>2 DEF UpdatePasswordHash, At, Become, Local
        <5>3. ASSUME NEW s \in SessionIds, RevokeRow(t, s)
              PROVE  /\ l.reset = task[t].reset /\ l.at = task[t].at
                     /\ task[t].pc = "revoking"
          <6>1. l = [task[t] EXCEPT !.todo = task[t].todo \ {s},
                       !.locked = IF Live(s) THEN task[t].locked \cup {s}
                                             ELSE task[t].locked]
            BY <3>2, <5>3, BecomeValue DEF RevokeRow
          <6>2. l.reset = task[t].reset /\ l.at = task[t].at
            BY <2>3, <6>1 DEF Local
          <6>. QED  BY <5>3, <6>2 DEF RevokeRow, At
        <5>. QED  BY <3>5, <5>1, <5>2, <5>3
      <4>. QED  BY <3>2, <4>1 DEF HoldsReset, At
    <3>6. CASE MarkUsed(t)
      <4>1. \/ l = Idle
            \/ l.reset = task[t].reset /\ Usable(l.reset, l.at)
        BY <2>3, <3>3, <3>6 DEF MarkUsed, Become, Local
      <4>2. ResetFree(t, task[t].reset)
        BY <3>6 DEF MarkUsed
      <4>3. l.reset = None \/ (Usable(l.reset, l.at) /\ ResetFree(t, l.reset))
        <5>1. CASE l = Idle
          BY <5>1, Zenon DEF Idle
        <5>2. CASE l.reset = task[t].reset /\ Usable(l.reset, l.at)
          BY <4>2, <5>2, ZenonT(60)
        <5>. QED  BY <4>1, <5>1, <5>2, Zenon
      <4>. QED  BY <3>2, <4>3
    <3>7. CASE UpdateLastUsed(t)
               \/ (\E r \in ResetIds, p \in Passwords : ConfirmResetVerify(t, r, p))
               \/ \E r \in ResetIds : ConfirmResetWrong(t, r)
      <4>1. l.pc \in {"mark_used", "count_wrong", "authenticated"}
        <5>1. CASE UpdateLastUsed(t)
          BY <2>3, <3>3, <5>1 DEF UpdateLastUsed, Become, Local
        <5>2. ASSUME NEW r \in ResetIds, NEW p \in Passwords, ConfirmResetVerify(t, r, p)
              PROVE  l.pc = "mark_used"
          <6>1. l = [task[t] EXCEPT !.pc = "mark_used", !.reset = r, !.pwd = p]
            BY <3>2, <5>2, BecomeValue DEF ConfirmResetVerify
          <6>. QED  BY <2>3, <6>1 DEF Local
        <5>3. ASSUME NEW r \in ResetIds, ConfirmResetWrong(t, r)
              PROVE  l.pc = "count_wrong"
          <6>1. l = [task[t] EXCEPT !.pc = "count_wrong", !.reset = r]
            BY <3>2, <5>3, BecomeValue, SMTT(60) DEF ConfirmResetWrong
          <6>. QED  BY <2>3, <6>1 DEF Local
        <5>. QED  BY <3>7, <5>1, <5>2, <5>3
      <4>. QED  BY <3>2, <4>1
    <3>8. CASE RevokeAllSessions(t) \/ (\E s \in SessionIds : RevokeSession(t, s))
               \/ \E p \in Passwords : ChangePassword(t, p)
      <4>1. l.reset = None
        <5>1. CASE RevokeAllSessions(t)
          BY <3>2, <5>1, BecomeValue, ZenonT(60) DEF RevokeAllSessions, Idle
        <5>2. ASSUME NEW s \in SessionIds, RevokeSession(t, s) PROVE l.reset = None
          BY <3>2, <5>2, BecomeValue, ZenonT(60) DEF RevokeSession, Idle
        <5>3. ASSUME NEW p \in Passwords, ChangePassword(t, p) PROVE l.reset = None
          BY <3>2, <5>3, BecomeValue, ZenonT(60) DEF ChangePassword, Idle
        <5>. QED  BY <3>8, <5>1, <5>2, <5>3
      <4>. QED  BY <3>2, <4>1
    <3>9. CASE RevokeAndReplace(t)
      <4>1. l = Idle \/ l.pc = "rotated"
        <5>1. l = Idle \/ l = [task[t] EXCEPT !.pc = "rotated", !.locked = {task[t].sid}]
          BY <3>2, <3>9, BecomeValue, SMTT(60) DEF RevokeAndReplace
        <5>. QED  BY <2>3, <5>1, Zenon DEF Local
      <4>2. Idle.reset = None
        BY DEF Idle
      <4>. QED  BY <3>2, <4>1, <4>2
    <3>10. CASE task' = [task EXCEPT ![t] = Idle]
      <4>1. l = Idle
        BY <3>3, <3>10, Zenon
      <4>2. l.reset = None
        BY <4>1, Zenon DEF Idle
      <4>. QED  BY <3>2, <4>2, Zenon
    <3>. QED
      BY <1>2, <3>4, <3>5, <3>6, <3>7, <3>8, <3>9, <3>10
      DEF Advance, Acquire, Rollback, SignInCommit, RefreshCommit, AnswerRead,
          ConfirmResetRefuse, RevokeByUserId, Become, Requesting
  <2>5. ResetsAreIsolated'
    BY <2>1, <2>4, ResetsKept, ZenonT(60) DEF Usable
  <2>6. RequestsAreSerial'
    BY <2>1, <2>4, SerialKept, ZenonT(60) DEF Active
  <2>. QED  BY <2>2, <2>5, <2>6
<1>. QED
  BY <1>1, <1>2, <1>3
-----------------------------------------------------------------------------
(* The inductive invariant, and what follows from it.                      *)

\* The initial states satisfy the invariant.
LEMMA InvInit == Init => IInv
<1>. SUFFICES ASSUME Init PROVE IInv
  OBVIOUS
<1>1. TypeOK
  BY TypeInit
<1>2. HandlersAreIsolated
  BY IdleOK, IdleType, SMTT(60) DEF Init, HandlersAreIsolated
<1>3. FamilyIsChain
  BY ZenonT(60) DEF Init, FamilyIsChain, Stored
<1>4. ResetsAreIsolated /\ RequestsAreSerial /\ OneActiveReset
  BY DEF Init, ResetsAreIsolated, RequestsAreSerial, OneActiveReset, HoldsReset,
         HoldsScopes, Active, Idle
<1>. QED
  BY <1>1, <1>2, <1>3, <1>4 DEF IInv

\* Steps of handlers preserve the invariant.
LEMMA InvTaskStep ==
  ASSUME IInv, NEW t \in Tasks, Arrive(t) \/ Advance(t) \/ Acquire(t) \/ Rollback(t)
  PROVE  IInv'
<1>. /\ TypeOK /\ HandlersAreIsolated /\ FamilyIsChain
     /\ ResetsAreIsolated /\ RequestsAreSerial /\ OneActiveReset
  BY DEF IInv
<1>1. TypeOK'
  BY TypeArrive, TypeAdvance, TypeAcquire, TypeTaskStep, IdleType DEF Rollback
<1>2. HandlersAreIsolated'
  BY HandlersArrive, HandlersAdvance, HandlersAcquire, HandlersEnd DEF Rollback
<1>3. FamilyIsChain'
  <2>1. CASE UNCHANGED sessions
    BY <2>1, ChainKept DEF Stored
  <2>. QED
    BY <2>1, ChainAdvance, ChainAcquire, Zenon
    DEF Arrive, Rollback, SignInVerify, RequestReset, ConfirmReset, RefreshReuse,
        RefreshRotate, Authenticate
<1>4. ResetsAreIsolated' /\ RequestsAreSerial' /\ OneActiveReset'
  BY <1>1, ResetsStep
<1>. QED
  BY <1>1, <1>2, <1>3, <1>4 DEF IInv

\* Every step preserves the invariant.
LEMMA InvNext == IInv /\ [Next]_vars => IInv'
<1>. SUFFICES ASSUME IInv, [Next]_vars PROVE IInv'
  OBVIOUS
<1>. /\ TypeOK /\ HandlersAreIsolated /\ FamilyIsChain
     /\ ResetsAreIsolated /\ RequestsAreSerial /\ OneActiveReset
  BY DEF IInv
<1>1. CASE Tick \/ UNCHANGED vars
  <2>1. TypeOK'
    BY <1>1, ConstantsAssumption DEF Tick, vars, TypeOK
  <2>2. UNCHANGED <<sessions, resets, task>>
    BY <1>1 DEF Tick, vars
  <2>3. HandlersAreIsolated'
    BY <2>2, HandlersOutside
  <2>4. FamilyIsChain'
    BY <2>2, ChainKept, SMTT(60) DEF Stored
  <2>5. ResetsAreIsolated' /\ RequestsAreSerial' /\ OneActiveReset'
    BY <2>2
    DEF ResetsAreIsolated, RequestsAreSerial, OneActiveReset, HoldsReset, HoldsScopes,
        ResetFree, ScopesFree, ActiveOfUser, Usable, Active, At
  <2>. QED  BY <2>1, <2>3, <2>4, <2>5 DEF IInv
<1>. QED
  BY <1>1, InvTaskStep DEF Next

\* The inductive invariant holds in every reachable state.
THEOREM Invariance == Spec => []IInv
BY InvInit, InvNext, PTL DEF Spec

\* The types of the tables and of every handler's locals.
THEOREM TypeCorrect == Spec => []TypeOK
BY Invariance, PTL DEF IInv

\* Concurrent handlers do not share rows or ids.
THEOREM Isolation == Spec => []HandlersAreIsolated
BY Invariance, PTL DEF IInv

\* Every token family is one chain of replacements.
THEOREM Chain == Spec => []FamilyIsChain
BY Invariance, PTL DEF IInv

\* No family ever has two live sessions: a live session has no replacement,
\* and only the tip of a chain has none.
THEOREM NoFork == Spec => []OneLiveSessionPerFamily
<1>1. FamilyIsChain => OneLiveSessionPerFamily
  BY DEF FamilyIsChain, OneLiveSessionPerFamily, Live
<1>. QED
  BY <1>1, Chain, PTL

\* At most one reset token per user is active.
THEOREM SingleActiveReset == Spec => []OneActiveReset
BY Invariance, PTL DEF IInv

\* A reset token is in the hands of one confirmation at most, and nothing that
\* makes it unusable happens to it there.
THEOREM ResetIsolation == Spec => []ResetsAreIsolated
BY Invariance, PTL DEF IInv
-----------------------------------------------------------------------------
(* Action properties.                                                      *)

\* The steps that write to sessions.
LEMMA WritersOfSessions ==
  ASSUME [Next]_vars
  PROVE  \/ UNCHANGED sessions
         \/ \E t \in Tasks : \/ SignInCommit(t) \/ RefreshCommit(t) \/ UpdateLastUsed(t)
                             \/ RevokeByUserId(t) \/ RevokeCommit(t)
<1>1. CASE Tick \/ UNCHANGED vars
  BY <1>1, Zenon DEF Tick, vars
<1>2. ASSUME NEW t \in Tasks, Arrive(t) \/ Rollback(t) PROVE UNCHANGED sessions
  BY <1>2, Zenon
  DEF Arrive, Rollback, SignInVerify, RequestReset, ConfirmReset, RefreshReuse,
      RefreshRotate, Authenticate
<1>3. ASSUME NEW t \in Tasks, Advance(t)
      PROVE  SignInCommit(t) \/ RefreshCommit(t) \/ RevokeCommit(t) \/ UNCHANGED sessions
  BY <1>3, Zenon
  DEF Advance, RevokeStart, AnswerRead, RevokeAllSessions, ConfirmResetRefuse,
      RevokeSession, ChangePassword, ConfirmResetVerify, ConfirmResetWrong,
      SupersedeStart, RequestCommit
<1>4. ASSUME NEW t \in Tasks, Acquire(t)
      PROVE  UpdateLastUsed(t) \/ RevokeByUserId(t) \/ UNCHANGED sessions
  BY <1>4, Zenon
  DEF Acquire, RevokeAndReplace, MarkUsed, IncrementAttempts, UpdatePasswordHash,
      RevokeRow, RequestLock, Supersede, ConfirmAttempt
<1>. QED
  BY <1>1, <1>2, <1>3, <1>4, Zenon DEF Next

\* The only ways a step changes a row that is there.
LEMMA RowChanges ==
  ASSUME IInv, [Next]_vars, NEW s \in SessionIds, Stored(s)
  PROVE  \/ sessions'[s] = sessions[s]
         \/ sessions'[s] = [sessions[s] EXCEPT !.revoked = TRUE]
         \/ \E at \in Nat : sessions'[s] =
              [sessions[s] EXCEPT !.lastUsed = Later(sessions[s].lastUsed, at)]
         \/ /\ ~sessions[s].revoked
            /\ \E n \in SessionIds : sessions'[s] =
                 [sessions[s] EXCEPT !.revoked = TRUE, !.replacedBy = n]
<1>. TypeOK /\ HandlersAreIsolated
  BY DEF IInv
<1>1. ASSUME NEW t \in Tasks, SignInCommit(t) PROVE sessions'[s] = sessions[s]
  <2>1. task[t].new \in SessionIds /\ ~Stored(task[t].new)
    BY <1>1 DEF SignInCommit, At, HandlersAreIsolated, HandlerOK, TypeOK, Local
  <2>. QED  BY <1>1, <2>1, SMTT(60) DEF SignInCommit, TypeOK
<1>2. ASSUME NEW t \in Tasks, RefreshCommit(t)
      PROVE  \/ sessions'[s] = sessions[s]
             \/ /\ ~sessions[s].revoked
                /\ \E n \in SessionIds : sessions'[s] =
                     [sessions[s] EXCEPT !.revoked = TRUE, !.replacedBy = n]
  <2>1. task[t] \in Local /\ HandlerOK(task[t]) /\ At(t, "rotated")
    BY <1>2, SMTT(60) DEF RefreshCommit, HandlersAreIsolated, TypeOK
  <2>2. /\ task[t].sid \in SessionIds /\ ~sessions[task[t].sid].revoked
        /\ task[t].new \in SessionIds /\ ~Stored(task[t].new)
    BY <2>1, SMTT(60) DEF At, HandlerOK, Live, Local
  <2>3. s # task[t].new
    BY <2>2
  <2>. QED  BY <1>2, <2>2, <2>3, Zenon DEF RefreshCommit, TypeOK
<1>3. ASSUME NEW t \in Tasks, UpdateLastUsed(t)
      PROVE  \/ sessions'[s] = sessions[s]
             \/ \E at \in Nat : sessions'[s] =
                  [sessions[s] EXCEPT !.lastUsed = Later(sessions[s].lastUsed, at)]
  <2>1. task[t].at \in Nat
    BY DEF TypeOK, Local
  <2>. QED  BY <1>3, <2>1 DEF UpdateLastUsed, TypeOK
<1>4. ASSUME NEW t \in Tasks, RevokeByUserId(t) \/ RevokeCommit(t)
      PROVE  \/ sessions'[s] = sessions[s]
             \/ sessions'[s] = [sessions[s] EXCEPT !.revoked = TRUE]
  BY <1>4, Zenon DEF RevokeByUserId, RevokeCommit, TypeOK
<1>5. CASE UNCHANGED sessions
  BY <1>5
<1>. QED
  BY <1>1, <1>2, <1>3, <1>4, <1>5, WritersOfSessions, Zenon

\* Rows stay, revocation is for good, and a replacement is never redirected.
THEOREM Final == Spec => RevocationIsFinal
<1>1. ASSUME IInv, [Next]_vars, NEW s \in SessionIds, Stored(s)
      PROVE  /\ sessions'[s] # None
             /\ sessions'[s].user = sessions[s].user
             /\ sessions'[s].family = sessions[s].family
             /\ sessions'[s].expiresAt = sessions[s].expiresAt
             /\ sessions[s].revoked =>
                  /\ sessions'[s].revoked
                  /\ sessions'[s].replacedBy = sessions[s].replacedBy
  <2>1. sessions[s] \in Row
    BY <1>1, StoredIsRow DEF IInv
  <2>2. sessions'[s] \in Row
    BY <1>1, <2>1, RowChanges, ZenonT(60) DEF Row, Later
  <2>3. sessions'[s] # None
    BY <2>2, ConstantsAssumption
  <2>. QED  BY <1>1, <2>1, <2>3, RowChanges, Zenon DEF Row
<1>2. IInv /\ [Next]_vars =>
        [\A s \in SessionIds : Stored(s) =>
           /\ sessions'[s] # None
           /\ sessions'[s].user = sessions[s].user
           /\ sessions'[s].family = sessions[s].family
           /\ sessions'[s].expiresAt = sessions[s].expiresAt
           /\ sessions[s].revoked =>
                /\ sessions'[s].revoked
                /\ sessions'[s].replacedBy = sessions[s].replacedBy]_vars
  BY <1>1
<1>. QED
  BY <1>2, Invariance, PTL DEF Spec, RevocationIsFinal

\* last_used_at never goes back.
THEOREM LastUsedMonotone == Spec => LastUsedNeverGoesBack
<1>1. ASSUME IInv, [Next]_vars, NEW s \in SessionIds, Stored(s)
      PROVE  sessions'[s].lastUsed >= sessions[s].lastUsed
  <2>1. sessions[s] \in Row
    BY <1>1, StoredIsRow DEF IInv
  <2>2. sessions[s].lastUsed \in Nat
    BY <2>1 DEF Row
  <2>3. ASSUME NEW at \in Nat, sessions'[s] =
               [sessions[s] EXCEPT !.lastUsed = Later(sessions[s].lastUsed, at)]
        PROVE  sessions'[s].lastUsed >= sessions[s].lastUsed
    <3>1. sessions'[s].lastUsed = Later(sessions[s].lastUsed, at)
      BY <2>1, <2>3, SMTT(60) DEF Row
    <3>. QED  BY <2>2, <3>1 DEF Later
  <2>4. CASE \/ sessions'[s] = sessions[s]
             \/ sessions'[s] = [sessions[s] EXCEPT !.revoked = TRUE]
             \/ \E n \in SessionIds : sessions'[s] =
                  [sessions[s] EXCEPT !.revoked = TRUE, !.replacedBy = n]
    <3>1. sessions'[s].lastUsed = sessions[s].lastUsed
      BY <2>1, <2>4, Zenon DEF Row
    <3>. QED  BY <2>2, <3>1
  <2>. QED  BY <1>1, <2>3, <2>4, RowChanges, Zenon
<1>2. IInv /\ [Next]_vars =>
        [\A s \in SessionIds :
           Stored(s) => sessions'[s].lastUsed >= sessions[s].lastUsed]_vars
  BY <1>1
<1>. QED
  BY <1>2, Invariance, PTL DEF Spec, LastUsedNeverGoesBack

\* A bulk revocation revokes every session of its snapshot.
THEOREM BulkRevoke == Spec => BulkRevokeCoversSnapshot
<1>1. ASSUME IInv, NEW t \in Tasks, RevokeCommit(t), NEW s \in task[t].seen
      PROVE  sessions'[s].revoked
  <2>1. task[t] \in Local /\ HandlerOK(task[t])
    BY <1>1 DEF IInv, TypeOK, HandlersAreIsolated
  <2>2. /\ s \in SessionIds /\ Stored(s)
        /\ s \in task[t].locked \/ sessions[s].revoked
    BY <1>1, <2>1, SMTT(60) DEF RevokeCommit, At, HandlerOK, Local
  <2>3. sessions[s] \in Row
    BY <1>1, <2>2, StoredIsRow DEF IInv
  <2>. QED  BY <1>1, <2>2, <2>3, SMTT(60) DEF RevokeCommit, Row
<1>2. IInv =>
        [\A t \in Tasks : RevokeCommit(t) =>
           \A s \in task[t].seen : sessions'[s].revoked]_vars
  BY <1>1
<1>. QED
  BY <1>2, Invariance, PTL DEF BulkRevokeCoversSnapshot

\* A reset token changes the password at most once, and only while it is
\* usable.
THEOREM SingleUse == Spec => ResetTokenIsConsumedOnce
<1>1. ASSUME IInv, NEW t \in Tasks, RevokeCommit(t), task[t].reset # None
      PROVE  Usable(task[t].reset, task[t].at) /\ resets'[task[t].reset].used
  <2>1. task[t].reset \in ResetIds /\ HoldsReset(t, task[t].reset)
    BY <1>1 DEF IInv, TypeOK, Local, RevokeCommit, At, HoldsReset
  <2>2. Usable(task[t].reset, task[t].at) /\ resets[task[t].reset] \in ResetRow
    BY <1>1, <2>1 DEF IInv, ResetsAreIsolated, TypeOK, Usable, Active, RevokeCommit, At
  <2>3. resets'[task[t].reset] = [resets[task[t].reset] EXCEPT !.used = TRUE]
    BY <1>1, <2>1, ZenonT(60) DEF RevokeCommit, IInv, TypeOK
  <2>. QED  BY <2>2, <2>3 DEF ResetRow
<1>2. IInv =>
        [\A t \in Tasks : RevokeCommit(t) /\ task[t].reset # None =>
           Usable(task[t].reset, task[t].at) /\ resets'[task[t].reset].used]_vars
  BY <1>1
<1>. QED
  BY <1>2, Invariance, PTL DEF ResetTokenIsConsumedOnce
-----------------------------------------------------------------------------
(* Refinement: the handlers implement the book of refresh tokens.          *)

\* What a step that stores, revokes or leaves alone a session does to the
\* entry the book has for it.
LEMMA BookEntry ==
  ASSUME NEW s \in SessionIds
  PROVE  /\ Stored(s) => Book[s] = [user |-> sessions[s].user,
                                    family |-> sessions[s].family,
                                    good |-> ~sessions[s].revoked]
         /\ ~Stored(s) => Book[s] = None
BY Zenon DEF Book

\* The same of the book after a step.
LEMMA BookEntryNext ==
  ASSUME NEW s \in SessionIds
  PROVE  /\ sessions'[s] # None => Book'[s] = [user |-> sessions'[s].user,
                                               family |-> sessions'[s].family,
                                               good |-> ~sessions'[s].revoked]
         /\ sessions'[s] = None => Book'[s] = None
BY Zenon DEF Book, Stored

\* The book lists the sessions that are stored.
LEMMA BookStored ==
  ASSUME TypeOK, NEW s \in SessionIds
  PROVE  /\ Book[s] # None <=> Stored(s)
         /\ Stored(s) => /\ Book[s].family = sessions[s].family
                         /\ Book[s].good <=> ~sessions[s].revoked
<1>1. CASE Stored(s)
  <2>1. sessions[s] \in Row
    BY <1>1, StoredIsRow, SMTT(60)
  <2>2. Book[s] = [user |-> sessions[s].user, family |-> sessions[s].family,
                   good |-> ~sessions[s].revoked]
    BY <1>1, BookEntry
  <2>3. Book[s] \in [user : Users, family : Families, good : BOOLEAN]
    <3>1. /\ sessions[s].user \in Users /\ sessions[s].family \in Families
          /\ (~sessions[s].revoked) \in BOOLEAN
      BY <2>1 DEF Row
    <3>. QED  BY <2>2, <3>1, SMT
  <2>4. Book[s] # None
    BY <2>3, ConstantsAssumption
  <2>5. Book[s].family = sessions[s].family
    BY <2>2
  <2>6. Book[s].good = ~sessions[s].revoked
    BY <2>2
  <2>. QED  BY <1>1, <2>4, <2>5, <2>6, Zenon
<1>2. CASE ~Stored(s)
  BY <1>2, BookEntry, Zenon
<1>. QED
  BY <1>1, <1>2

\* The book is a function on the sessions, so its entries determine it.
LEMMA BookIsFunction ==
  /\ Book = [s \in SessionIds |-> Book[s]]
  /\ Book' = [s \in SessionIds |-> Book'[s]]
BY Zenon DEF Book

\* A step that leaves the rows alone leaves the book alone.
LEMMA BookKept ==
  ASSUME NEW s \in SessionIds, sessions'[s] = sessions[s]
  PROVE  Book'[s] = Book[s]
BY Zenon DEF Book, Stored

\* A row that keeps its user and family and is live or not as before.
LEMMA BookTouched ==
  ASSUME NEW s \in SessionIds, Stored(s), sessions'[s] # None,
         sessions'[s].user = sessions[s].user,
         sessions'[s].family = sessions[s].family,
         sessions'[s].revoked = sessions[s].revoked
  PROVE  Book'[s] = Book[s]
BY BookEntry, BookEntryNext, ZenonT(60)

\* A live row that is revoked.
LEMMA BookRevoked ==
  ASSUME NEW s \in SessionIds, Live(s), sessions'[s] # None,
         sessions'[s].user = sessions[s].user,
         sessions'[s].family = sessions[s].family,
         sessions'[s].revoked = TRUE
  PROVE  Book'[s] = [Book[s] EXCEPT !.good = FALSE]
<1>1. Book[s] = [user |-> sessions[s].user, family |-> sessions[s].family,
                 good |-> ~sessions[s].revoked]
  BY BookEntry DEF Live
<1>2. Book'[s] = [user |-> sessions[s].user, family |-> sessions[s].family,
                  good |-> FALSE]
  <2>1. Book'[s] = [user |-> sessions[s].user, family |-> sessions[s].family,
                    good |-> ~TRUE]
    BY BookEntryNext, Zenon
  <2>. QED  BY <2>1, Zenon
<1>3. PICK a, b, c, d : /\ a = sessions[s].user /\ b = sessions[s].family
                        /\ c = ~sessions[s].revoked /\ d = FALSE
  BY ZenonT(60)
<1>4. Book[s] = [user |-> a, family |-> b, good |-> c]
  BY <1>1, <1>3
<1>5. Book'[s] = [user |-> a, family |-> b, good |-> d]
  BY <1>2, <1>3, Zenon
<1>6. Book'[s] = [Book[s] EXCEPT !.good = d]
  BY <1>4, <1>5, SMTT(60)
<1>. QED
  BY <1>3, <1>6, Zenon

\* A sign-in opens a family.
LEMMA RefinesOpen ==
  ASSUME TypeOK, HandlersAreIsolated, NEW t \in Tasks, SignInCommit(t)
  PROVE  Promise!Next
<1>. DEFINE n == task[t].new
            u == task[t].user
            f == task[t].family
            row == CreateForSignIn(u, f, task[t].pwd)
<1>1. /\ n \in SessionIds /\ u \in Users /\ f \in Families /\ ~Stored(n)
      /\ \A s \in SessionIds : Stored(s) => sessions[s].family # f
      /\ task[t].pwd \in Passwords
  BY DEF SignInCommit, At, HandlersAreIsolated, HandlerOK, TypeOK, Local
<1>2. row \in Row
  <2>1. now \in Nat /\ now + RefreshTokenTtl \in Nat
    BY NowIsNat, ConstantsAssumption
  <2>. QED  BY <1>1, <2>1, Zenon DEF CreateForSignIn, Row
<1>3. row # None
  BY <1>2, ConstantsAssumption, ZenonT(60)
<1>4. sessions'[n] = row /\ \A s \in SessionIds \ {n} : sessions'[s] = sessions[s]
  BY <1>1 DEF SignInCommit, TypeOK
<1>5. Book'[n] = [user |-> u, family |-> f, good |-> TRUE]
  <2>1. sessions'[n].user = u /\ sessions'[n].family = f /\ sessions'[n].revoked = FALSE
    <3>1. row.user = u /\ row.family = f /\ row.revoked = FALSE
      BY Zenon DEF CreateForSignIn
    <3>. HIDE DEF row
    <3>. QED  BY <1>4, <3>1, Zenon
  <2>2. Book'[n] = [user |-> u, family |-> f, good |-> ~FALSE]
    <3>1. Book'[n] = [user |-> sessions'[n].user, family |-> sessions'[n].family,
                      good |-> ~sessions'[n].revoked]
      BY <1>1, <1>3, <1>4, BookEntryNext, ZenonT(60)
    <3>. QED  BY <2>1, <3>1, Zenon
  <2>. QED  BY <2>2, Zenon
<1>6. Book' = [Book EXCEPT ![n] = [user |-> u, family |-> f, good |-> TRUE]]
  <2>1. \A s \in SessionIds \ {n} : Book'[s] = Book[s]
    BY <1>4, BookKept
  <2>. QED  BY <1>1, <1>5, <2>1, BookIsFunction
<1>7. /\ Book[n] = None
      /\ \A s \in SessionIds : Book[s] # None => Book[s].family # f
  BY <1>1, BookStored, SMTT(60)
<1>8. Promise!Open(n, u, f)
  BY <1>6, <1>7, SMTT(60) DEF Promise!Open
<1>. QED
  BY <1>1, <1>8, SMTT(60) DEF Promise!Next

\* A rotation moves the good token of a family to a new session.
LEMMA RefinesRotate ==
  ASSUME TypeOK, HandlersAreIsolated, NEW t \in Tasks, RefreshCommit(t)
  PROVE  Promise!Next
<1>. DEFINE old == task[t].sid
            new == task[t].new
            row == CreateForRefreshRotation(old, task[t].at)
<1>1. /\ old \in SessionIds /\ new \in SessionIds /\ Live(old) /\ ~Stored(new)
      /\ task[t].at \in Nat
  BY DEF RefreshCommit, At, HandlersAreIsolated, HandlerOK, TypeOK, Local
<1>2. sessions[old] \in Row /\ old # new
  BY <1>1, StoredIsRow DEF Live
<1>3. /\ sessions'[old] = [sessions[old] EXCEPT !.revoked = TRUE, !.replacedBy = new]
      /\ sessions'[new] = row
      /\ \A s \in SessionIds \ {old, new} : sessions'[s] = sessions[s]
  BY <1>1, <1>2, Zenon DEF RefreshCommit, TypeOK
<1>4. Book'[old] = [Book[old] EXCEPT !.good = FALSE]
  <2>1. sessions'[old] \in Row
    BY <1>1, <1>2, <1>3, Zenon DEF Row
  <2>2. sessions'[old] # None
    BY <2>1, ConstantsAssumption
  <2>3. /\ sessions'[old].user = sessions[old].user
        /\ sessions'[old].family = sessions[old].family
        /\ sessions'[old].revoked = TRUE
    BY <1>2, <1>3 DEF Row
  <2>. QED  BY <1>1, <2>2, <2>3, BookRevoked, Zenon
<1>5. Book'[new] = Book[old]
  <2>1. row \in Row
    <3>1. /\ sessions[old].user \in Users /\ sessions[old].family \in Families
          /\ sessions[old].signedWith \in Passwords
      BY <1>2 DEF Row
    <3>2. task[t].at + RefreshTokenTtl \in Nat
      BY <1>1, ConstantsAssumption
    <3>. QED  BY <1>1, <3>1, <3>2, ZenonT(60) DEF CreateForRefreshRotation, Row
  <2>2. sessions'[new] # None
    BY <1>3, <2>1, ConstantsAssumption
  <2>3. /\ sessions'[new].user = sessions[old].user
        /\ sessions'[new].family = sessions[old].family
        /\ sessions'[new].revoked = FALSE
    BY <1>3 DEF CreateForRefreshRotation
  <2>4. sessions[old].revoked = FALSE
    BY <1>1, <1>2 DEF Live, Row
  <2>5. Book'[new] = [user |-> sessions[old].user, family |-> sessions[old].family,
                      good |-> ~FALSE]
    <3>1. Book'[new] = [user |-> sessions'[new].user, family |-> sessions'[new].family,
                        good |-> ~sessions'[new].revoked]
      BY <1>1, <2>2, BookEntryNext, Zenon
    <3>. QED  BY <2>3, <3>1, Zenon
  <2>6. Book[old] = [user |-> sessions[old].user, family |-> sessions[old].family,
                     good |-> ~FALSE]
    <3>1. Book[old] = [user |-> sessions[old].user, family |-> sessions[old].family,
                       good |-> ~sessions[old].revoked]
      BY <1>1, BookEntry, Zenon DEF Live
    <3>. QED  BY <2>4, <3>1, Zenon
  <2>. QED  BY <2>5, <2>6, Zenon
<1>6. \A s \in SessionIds \ {old, new} : Book'[s] = Book[s]
  BY <1>3, BookKept
<1>7. Book' = [Book EXCEPT ![old] = [Book[old] EXCEPT !.good = FALSE],
                           ![new] = Book[old]]
  BY <1>1, <1>2, <1>4, <1>5, <1>6, BookIsFunction, SMTT(60)
<1>8. Promise!Good(old) /\ Book[new] = None
  BY <1>1, BookStored DEF Live, Promise!Good
<1>9. Promise!Rotate(old, new)
  BY <1>7, <1>8 DEF Promise!Rotate
<1>. QED
  BY <1>1, <1>9 DEF Promise!Next

\* The live sessions of S are revoked and no other row changes.
LEMMA RefinesRevoke ==
  ASSUME TypeOK, NEW S \in SUBSET SessionIds, \A s \in S : Live(s),
         \A s \in S : sessions'[s] = [sessions[s] EXCEPT !.revoked = TRUE],
         \A s \in SessionIds \ S : sessions'[s] = sessions[s]
  PROVE  Promise!Next
<1>1. ASSUME NEW s \in S PROVE Book'[s] = [Book[s] EXCEPT !.good = FALSE]
  <2>1. Live(s) /\ sessions[s] \in Row
    BY <1>1, StoredIsRow DEF Live
  <2>2. sessions'[s] = [sessions[s] EXCEPT !.revoked = TRUE]
    BY <1>1
  <2>3. sessions'[s] \in Row
    BY <2>1, <2>2, Zenon DEF Row
  <2>4. sessions'[s] # None
    BY <2>3, ConstantsAssumption
  <2>5. /\ sessions'[s].user = sessions[s].user
        /\ sessions'[s].family = sessions[s].family
        /\ sessions'[s].revoked = TRUE
    BY <2>1, <2>2 DEF Row
  <2>. QED  BY <1>1, <2>1, <2>4, <2>5, BookRevoked, Zenon
<1>2. \A s \in SessionIds \ S : Book'[s] = Book[s]
  BY BookKept
<1>3. Book' = [s \in SessionIds |->
                 IF s \in S THEN [Book[s] EXCEPT !.good = FALSE] ELSE Book[s]]
  BY <1>1, <1>2, BookIsFunction, Zenon
<1>4. \A s \in S : Promise!Good(s)
  BY BookStored DEF Live, Promise!Good
<1>5. Promise!Revoke(S)
  BY <1>3, <1>4 DEF Promise!Revoke
<1>. QED
  BY <1>5 DEF Promise!Next

\* A step that changes no token.
LEMMA RefinesStutter ==
  ASSUME \A s \in SessionIds : Book'[s] = Book[s]
  PROVE  UNCHANGED Book
BY BookIsFunction

\* Every step of the handlers is a step of the book, or none.
LEMMA RefinesNext == IInv /\ [Next]_vars => [Promise!Next]_Book
<1>. SUFFICES ASSUME IInv, [Next]_vars PROVE [Promise!Next]_Book
  OBVIOUS
<1>. TypeOK /\ HandlersAreIsolated
  BY DEF IInv
<1>1. CASE UNCHANGED sessions
  BY <1>1, BookKept, RefinesStutter
<1>2. ASSUME NEW t \in Tasks, UpdateLastUsed(t) PROVE UNCHANGED Book
  <2>. DEFINE s == task[t].sid
  <2>1. s \in SessionIds /\ Stored(s) /\ sessions[s] \in Row /\ task[t].at \in Nat
    BY <1>2, StoredIsRow
    DEF UpdateLastUsed, At, HandlersAreIsolated, HandlerOK, TypeOK, Local
  <2>2. CASE Live(s)
    <3>1. /\ sessions'[s] = [sessions[s] EXCEPT !.lastUsed =
                                Later(sessions[s].lastUsed, task[t].at)]
          /\ \A q \in SessionIds \ {s} : sessions'[q] = sessions[q]
      BY <1>2, <2>1, <2>2 DEF UpdateLastUsed, TypeOK
    <3>2. sessions'[s] \in Row
      BY <2>1, <3>1, Zenon DEF Row, Later
    <3>3. sessions'[s] # None
      BY <3>2, ConstantsAssumption
    <3>4. /\ sessions'[s].user = sessions[s].user
          /\ sessions'[s].family = sessions[s].family
          /\ sessions'[s].revoked = sessions[s].revoked
      BY <2>1, <3>1, Zenon DEF Row
    <3>5. Book'[s] = Book[s]
      BY <2>1, <3>3, <3>4, BookTouched, Zenon
    <3>. QED  BY <3>1, <3>5, BookKept, RefinesStutter
  <2>3. CASE ~Live(s)
    BY <1>2, <2>3, BookKept, RefinesStutter DEF UpdateLastUsed
  <2>. QED  BY <2>2, <2>3
<1>3. ASSUME NEW t \in Tasks, RevokeByUserId(t) PROVE [Promise!Next]_Book
  <2>. DEFINE s == task[t].sid
  <2>1. s \in SessionIds
    BY <1>3 DEF RevokeByUserId, At, HandlersAreIsolated, HandlerOK, TypeOK, Local
  <2>2. CASE Live(s) /\ sessions[s].user = task[t].user
    <3>1. /\ sessions'[s] = [sessions[s] EXCEPT !.revoked = TRUE]
          /\ \A q \in SessionIds \ {s} : sessions'[q] = sessions[q]
      BY <1>3, <2>1, <2>2, Zenon DEF RevokeByUserId, TypeOK
    <3>2. PICK S \in SUBSET SessionIds : S = {s}
      BY <2>1, Zenon
    <3>. QED  BY <2>2, <3>1, <3>2, RefinesRevoke, Zenon
  <2>3. CASE ~(Live(s) /\ sessions[s].user = task[t].user)
    BY <1>3, <2>3, BookKept, RefinesStutter DEF RevokeByUserId
  <2>. QED  BY <2>2, <2>3
<1>4. ASSUME NEW t \in Tasks, RevokeCommit(t) PROVE Promise!Next
  <2>1. /\ task[t].locked \in SUBSET SessionIds
        /\ \A s \in task[t].locked : Live(s)
    BY Zenon DEF HandlersAreIsolated, HandlerOK, TypeOK, Local
  <2>2. /\ \A s \in task[t].locked : sessions'[s] = [sessions[s] EXCEPT !.revoked = TRUE]
        /\ \A s \in SessionIds \ task[t].locked : sessions'[s] = sessions[s]
    BY <1>4, <2>1 DEF RevokeCommit
  <2>. QED  BY <2>1, <2>2, RefinesRevoke, Zenon
<1>5. ASSUME NEW t \in Tasks, SignInCommit(t) \/ RefreshCommit(t) PROVE Promise!Next
  BY <1>5, RefinesOpen, RefinesRotate
<1>. QED
  BY <1>1, <1>2, <1>3, <1>4, <1>5, WritersOfSessions

\* The concurrent handlers implement the atomic book of refresh tokens.
THEOREM Refinement == Spec => ImplementsTokenFamily
<1>1. Init => Promise!Init
  <2>. SUFFICES ASSUME Init PROVE Promise!Init
    OBVIOUS
  <2>1. \A s \in SessionIds : Book[s] = None
    BY BookEntry DEF Init, Stored
  <2>. QED  BY <2>1, BookIsFunction DEF Promise!Init
<1>. QED
  BY <1>1, RefinesNext, Invariance, PTL DEF Spec, ImplementsTokenFamily, Promise!Spec
=============================================================================
