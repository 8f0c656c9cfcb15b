------------------------------ MODULE Sessions ------------------------------
(***************************************************************************)
(* The life of sessions and passwords in smirkly-auth: sign-in, refresh    *)
(* rotation, reuse detection, access-token authentication, revocation,     *)
(* password change and password reset, as concurrent request handlers over *)
(* PostgreSQL.                                                             *)
(*                                                                         *)
(* Every handler is a task that reads outside any transaction and then     *)
(* writes inside one.  Transactions run at READ COMMITTED, the default of  *)
(* PgTransactionManager::Begin, and that is what the model spells out:     *)
(*   - reads see committed rows only; nothing a task read is re-read;      *)
(*   - an UPDATE picks its rows in a snapshot taken when the statement     *)
(*     starts, then locks them one by one, waiting for a transaction that  *)
(*     holds a row and re-checking the WHERE clause on the row it left;    *)
(*   - writes and row locks of a transaction take effect, or vanish, at    *)
(*     its commit or rollback.                                             *)
(* A transaction whose only writes are inserts, or one UPDATE of one row,  *)
(* is a single step: nobody can see it half done.                          *)
(*                                                                         *)
(* Data is abstract.  A refresh or access token is the id of the session   *)
(* it was issued for (its hash, user and family are functions of that id), *)
(* a password hash is the password it verifies, and a request refused      *)
(* before it writes leaves no trace here: it is a stuttering step.  The    *)
(* attempt tables of the rate limiter are in module AttemptLimiter.        *)
(***************************************************************************)
EXTENDS Naturals

CONSTANTS
  Users,              \* user ids
  SessionIds,         \* session ids the id generator may hand out
  Families,           \* token family ids it may hand out
  ResetIds,           \* ids of password_resets rows
  Passwords,          \* passwords, also standing for their hashes
  Tasks,              \* concurrent request handlers
  None,               \* SQL NULL, an absent row, an unset local
  RefreshTokenTtl,    \* SessionPolicy::refresh_token_ttl
  ActivityThreshold,  \* SessionPolicy::activity_update_threshold
  ResetTokenTtl,      \* PasswordResetPolicy::token_ttl
  MaxTokenAttempts,   \* PasswordResetPolicy::max_token_attempts
  MaxNow,             \* bound on the clock
  Requests            \* the requests clients send

RequestKinds ==
  {"sign_in", "refresh", "authenticate", "revoke_session", "revoke_all",
   "change_password", "password_reset"}

VARIABLES
  now,       \* the system clock
  password,  \* users.password_hash, committed
  sessions,  \* the sessions table, committed: a row or None for every id
  resets,    \* the password_resets table, committed
  task       \* the local state of every task, its open transaction included

vars == <<now, password, sessions, resets, task>>

\* A row of sessions.  signedWith is a history field: the password the
\* sign-in that started the family verified.
Row ==
  [user : Users, family : Families, revoked : BOOLEAN,
   replacedBy : SessionIds \cup {None}, expiresAt : Nat, lastUsed : Nat,
   signedWith : Passwords]

ResetRow ==
  [user : Users, used : BOOLEAN, expiresAt : Nat, attempts : 0..MaxTokenAttempts]

Pcs ==
  {"idle", "sign_in", "rotate", "rotated", "touch", "authenticated",
   "revoke_one", "revoke_many", "revoking", "request", "locked", "superseding",
   "superseded", "attempt", "confirm", "count_wrong", "mark_used", "set_password"}

\* The locals of a handler: where it is, what it read, the rows its UPDATE
\* still has to visit (todo), the ones its transaction has locked and
\* revoked (locked), and the snapshot the UPDATE started from (seen).
Local ==
  [pc : Pcs, user : Users \cup {None}, sid : SessionIds \cup {None},
   new : SessionIds \cup {None}, family : Families \cup {None},
   at : Nat, pwd : Passwords \cup {None}, reset : ResetIds \cup {None},
   todo : SUBSET SessionIds, locked : SUBSET SessionIds,
   seen : SUBSET SessionIds]

Idle ==
  [pc |-> "idle", user |-> None, sid |-> None, new |-> None, family |-> None,
   at |-> 0, pwd |-> None, reset |-> None,
   todo |-> {}, locked |-> {}, seen |-> {}]

ASSUME ConstantsAssumption ==
  /\ None \notin Users \cup SessionIds \cup Families \cup ResetIds \cup Passwords
  /\ None \notin Row
  /\ None \notin ResetRow
  /\ None \notin [user : Users, family : Families, good : BOOLEAN]
  /\ RefreshTokenTtl \in Nat \ {0}
  /\ ActivityThreshold \in Nat
  /\ ResetTokenTtl \in Nat \ {0}
  /\ MaxTokenAttempts \in Nat \ {0}
  /\ MaxNow \in Nat
  /\ Requests \subseteq RequestKinds
-----------------------------------------------------------------------------
(* Rows, and the row locks that open transactions hold.                    *)

Stored(s) == sessions[s] # None

\* revoked_at IS NULL, the clause every write to a session repeats.
Live(s) == Stored(s) /\ ~sessions[s].revoked

\* WHERE user_id = $1 AND revoked_at IS NULL
LiveOfUser(u) == {s \in SessionIds : Live(s) /\ sessions[s].user = u}

\* WHERE user_id = $1 AND token_family_id = $2 AND revoked_at IS NULL
LiveOfFamily(u, f) == {s \in LiveOfUser(u) : sessions[s].family = f}

Active(r) == resets[r] # None /\ ~resets[r].used

\* used_at IS NULL AND expires_at > $2 AND attempts < $3, for a handler that
\* read the clock at time at.
Usable(r, at) ==
  /\ Active(r)
  /\ resets[r].expiresAt > at
  /\ resets[r].attempts < MaxTokenAttempts

\* No other transaction holds the session row.
RowFree(t, s) == \A o \in Tasks \ {t} : s \notin task[o].locked

\* Task t has run UpdatePasswordHash and not finished its transaction.
HoldsUser(t) ==
  task[t].pc \in {"revoke_many", "revoking"} /\ task[t].pwd # None

UserFree(t, u) ==
  \A o \in Tasks \ {t} : ~(HoldsUser(o) /\ task[o].user = u)

\* Task t has run MarkUsed, or MarkActiveUsedByUserId, on reset r and not
\* finished its transaction.
HoldsReset(t, r) ==
  /\ task[t].reset = r
  /\ task[t].pc \in {"superseded", "set_password", "revoke_many", "revoking"}

ResetFree(t, r) == \A o \in Tasks \ {t} : ~HoldsReset(o, r)

\* Task t has an open transaction that asks for a reset token.
HoldsScopes(t) == task[t].pc \in {"locked", "superseding", "superseded"}

\* Mutant: the transaction does not keep the locks of the attempt limiter.
ScopesUnlocked(t) == TRUE

\* No other transaction holds the advisory lock of the user.
ScopesFree(t) ==
  \A o \in Tasks \ {t} : ~(HoldsScopes(o) /\ task[o].user = task[t].user)

\* A generated UUID: in no row, and in the hands of no other task.
FreshId(s) == ~Stored(s) /\ \A o \in Tasks : task[o].new # s

FreshFamily(f) ==
  /\ \A s \in SessionIds : Stored(s) => sessions[s].family # f
  /\ \A o \in Tasks : task[o].family # f
-----------------------------------------------------------------------------
\* The row RequestReset inserts, at the time its handler read first.
NewReset(u, at) ==
  [user |-> u, used |-> FALSE, expiresAt |-> at + ResetTokenTtl, attempts |-> 0]

Init ==
  /\ now = 0
  /\ password \in [Users -> Passwords]
  /\ sessions = [s \in SessionIds |-> None]
  /\ resets = [r \in ResetIds |-> None]
  /\ task = [t \in Tasks |-> Idle]

Become(t, local) == task' = [task EXCEPT ![t] = local]

At(t, pc) == task[t].pc = pc

Starts(t, kind) == At(t, "idle") /\ kind \in Requests

Tick ==
  /\ now < MaxNow
  /\ now' = now + 1
  /\ UNCHANGED <<password, sessions, resets, task>>

\* An exception, a lost connection, a deadlock victim or a crash: the
\* transaction's destructor, or the server, rolls everything back.
Rollback(t) ==
  /\ ~At(t, "idle")
  /\ Become(t, Idle)
  /\ UNCHANGED <<now, password, sessions, resets>>
-----------------------------------------------------------------------------
(* Sign-in: verify against the hash read, then insert device and session.  *)

\* Mutant: token_family_id is left NULL.
CreateForSignInNoFamily(u, f, p) ==
  [user |-> u, family |-> None, revoked |-> FALSE, replacedBy |-> None,
   expiresAt |-> now + RefreshTokenTtl, lastUsed |-> now, signedWith |-> p]

CreateForSignIn(u, f, p) ==
  [user |-> u, family |-> f, revoked |-> FALSE, replacedBy |-> None,
   expiresAt |-> now + RefreshTokenTtl, lastUsed |-> now, signedWith |-> p]

SignInVerify(t, u) ==
  /\ Starts(t, "sign_in")
  /\ \E s \in SessionIds, f \in Families :
       /\ FreshId(s) /\ FreshFamily(f)
       /\ Become(t, [Idle EXCEPT !.pc = "sign_in", !.user = u, !.new = s,
                                 !.family = f, !.pwd = password[u]])
  /\ UNCHANGED <<now, password, sessions, resets>>

SignInCommit(t) ==
  /\ At(t, "sign_in")
  /\ sessions' = [sessions EXCEPT ![task[t].new] =
       CreateForSignIn(task[t].user, task[t].family, task[t].pwd)]
  /\ Become(t, Idle)
  /\ UNCHANGED <<now, password, resets>>
-----------------------------------------------------------------------------
(* Refresh: a live session is rotated into a new one of the same family; a *)
(* revoked one whose token is presented again has its family revoked.      *)

\* at is the time of the read: the transaction is begun right after it.
CreateForRefreshRotation(s, at) ==
  [user |-> sessions[s].user, family |-> sessions[s].family,
   revoked |-> FALSE, replacedBy |-> None, expiresAt |-> at + RefreshTokenTtl,
   lastUsed |-> at, signedWith |-> sessions[s].signedWith]

RefreshReuse(t, s) ==
  /\ Starts(t, "refresh")
  /\ Stored(s) /\ sessions[s].revoked
  /\ Become(t, [Idle EXCEPT !.pc = "revoke_many", !.user = sessions[s].user,
                            !.family = sessions[s].family])
  /\ UNCHANGED <<now, password, sessions, resets>>

RefreshRotate(t, s) ==
  /\ Starts(t, "refresh")
  /\ Live(s) /\ sessions[s].expiresAt > now
  /\ \E n \in SessionIds :
       /\ FreshId(n)
       /\ Become(t, [Idle EXCEPT !.pc = "rotate", !.sid = s, !.new = n,
                                 !.at = now])
  /\ UNCHANGED <<now, password, sessions, resets>>

\* Mutant: the UPDATE lacks AND revoked_at IS NULL.
RevokeAndReplaceUnconditional(t) ==
  /\ At(t, "rotate")
  /\ RowFree(t, task[t].sid)
  /\ Become(t, [task[t] EXCEPT !.pc = "rotated", !.locked = {task[t].sid}])
  /\ UNCHANGED <<now, password, sessions, resets>>

\* Mutant: a rotation that finds the session already rotated tries again.
RevokeAndReplaceRetrying(t) ==
  /\ At(t, "rotate")
  /\ RowFree(t, task[t].sid) /\ Live(task[t].sid)
  /\ Become(t, [task[t] EXCEPT !.pc = "rotated", !.locked = {task[t].sid}])
  /\ UNCHANGED <<now, password, sessions, resets>>

\* Insert(replacement), still invisible, and the conditional UPDATE of the
\* old row.  No row updated: the handler throws and the insert is undone.
RevokeAndReplace(t) ==
  /\ At(t, "rotate")
  /\ RowFree(t, task[t].sid)
  /\ \/ /\ Live(task[t].sid)
        /\ Become(t, [task[t] EXCEPT !.pc = "rotated", !.locked = {task[t].sid}])
     \/ /\ ~Live(task[t].sid)
        /\ Become(t, Idle)
  /\ UNCHANGED <<now, password, sessions, resets>>

\* Mutant: replaced_by_session_id is not set.
RefreshCommitUnlinked(t) ==
  /\ At(t, "rotated")
  /\ LET old == task[t].sid
         new == task[t].new
     IN  sessions' = [sessions EXCEPT
           ![old] = [sessions[old] EXCEPT !.revoked = TRUE],
           ![new] = CreateForRefreshRotation(old, task[t].at)]
  /\ Become(t, Idle)
  /\ UNCHANGED <<now, password, resets>>

RefreshCommit(t) ==
  /\ At(t, "rotated")
  /\ LET old == task[t].sid
         new == task[t].new
     IN  sessions' = [sessions EXCEPT
           ![old] = [sessions[old] EXCEPT !.revoked = TRUE, !.replacedBy = new],
           ![new] = CreateForRefreshRotation(old, task[t].at)]
  /\ Become(t, Idle)
  /\ UNCHANGED <<now, password, resets>>
-----------------------------------------------------------------------------
(* Authentication of an access token, the first step of the handlers of    *)
(* /me, /sessions, /logout and /change-password.                           *)

ShouldUpdateLastUsed(s) == sessions[s].lastUsed + ActivityThreshold <= now

Authenticate(t, s) ==
  /\ Starts(t, "authenticate")
  /\ Live(s) /\ sessions[s].expiresAt > now
  /\ Become(t, [Idle EXCEPT
       !.pc = IF ShouldUpdateLastUsed(s) THEN "touch" ELSE "authenticated",
       !.user = sessions[s].user, !.sid = s, !.at = now])
  /\ UNCHANGED <<now, password, sessions, resets>>

\* Mutant: SET last_used_at = $2.
LaterWritten(a, b) == b

Later(a, b) == IF a >= b THEN a ELSE b

\* SET last_used_at = GREATEST(...) WHERE id = $1 AND revoked_at IS NULL
UpdateLastUsed(t) ==
  LET s == task[t].sid IN
  /\ At(t, "touch")
  /\ RowFree(t, s)
  /\ sessions' = IF Live(s)
                   THEN [sessions EXCEPT ![s] =
                           [sessions[s] EXCEPT !.lastUsed =
                              Later(sessions[s].lastUsed, task[t].at)]]
                   ELSE sessions
  /\ Become(t, [task[t] EXCEPT !.pc = "authenticated"])
  /\ UNCHANGED <<now, password, resets>>
-----------------------------------------------------------------------------
(* What an authenticated request does.                                     *)

\* RevokeSession, or RevokeCurrentSession for s the session of the token.
RevokeSession(t, s) ==
  /\ At(t, "authenticated") /\ "revoke_session" \in Requests
  /\ Live(s) /\ sessions[s].user = task[t].user
  /\ Become(t, [Idle EXCEPT !.pc = "revoke_one", !.user = task[t].user, !.sid = s])
  /\ UNCHANGED <<now, password, sessions, resets>>

RevokeByUserId(t) ==
  LET s == task[t].sid IN
  /\ At(t, "revoke_one")
  /\ RowFree(t, s)
  /\ sessions' = IF Live(s) /\ sessions[s].user = task[t].user
                   THEN [sessions EXCEPT ![s] =
                           [sessions[s] EXCEPT !.revoked = TRUE]]
                   ELSE sessions
  /\ Become(t, Idle)
  /\ UNCHANGED <<now, password, resets>>

RevokeAllSessions(t) ==
  /\ At(t, "authenticated") /\ "revoke_all" \in Requests
  /\ Become(t, [Idle EXCEPT !.pc = "revoke_many", !.user = task[t].user])
  /\ UNCHANGED <<now, password, sessions, resets>>

\* The current password verifies against the hash just read and the new one
\* does not; the hash is not looked at again.
ChangePassword(t, p) ==
  /\ At(t, "authenticated") /\ "change_password" \in Requests
  /\ p # password[task[t].user]
  /\ Become(t, [Idle EXCEPT !.pc = "set_password", !.user = task[t].user, !.pwd = p])
  /\ UNCHANGED <<now, password, sessions, resets>>

\* GET /me and GET /sessions only read.
AnswerRead(t) ==
  /\ At(t, "authenticated")
  /\ Become(t, Idle)
  /\ UNCHANGED <<now, password, sessions, resets>>
-----------------------------------------------------------------------------
(* Password reset: request, then confirm.                                  *)

\* The clock and FindByEmail.
RequestReset(t, u) ==
  /\ Starts(t, "password_reset")
  /\ Become(t, [Idle EXCEPT !.pc = "request", !.user = u, !.at = now])
  /\ UNCHANGED <<now, password, sessions, resets>>

\* TryRecordAttempt: the advisory locks last as long as the transaction.
RequestLock(t) ==
  /\ At(t, "request") /\ ScopesFree(t)
  /\ Become(t, [task[t] EXCEPT !.pc = "locked"])
  /\ UNCHANGED <<now, password, sessions, resets>>

\* WHERE user_id = $1 AND used_at IS NULL
ActiveOfUser(u) == {r \in ResetIds : Active(r) /\ resets[r].user = u}

\* MarkActiveUsedByUserId: the row in the snapshot of the UPDATE, if any.
SupersedeStart(t) ==
  LET active == ActiveOfUser(task[t].user) IN
  /\ At(t, "locked")
  /\ \E r \in IF active = {} THEN {None} ELSE active :
       Become(t, [task[t] EXCEPT !.pc = "superseding", !.reset = r])
  /\ UNCHANGED <<now, password, sessions, resets>>

\* The row of the snapshot, waited for and re-checked.
Supersede(t) ==
  LET r == task[t].reset IN
  /\ At(t, "superseding")
  /\ r # None => ResetFree(t, r)
  /\ \/ /\ r # None /\ Active(r)
        /\ Become(t, [task[t] EXCEPT !.pc = "superseded"])
     \/ /\ ~(r # None /\ Active(r))
        /\ Become(t, [task[t] EXCEPT !.pc = "superseded", !.reset = None])
  /\ UNCHANGED <<now, password, sessions, resets>>

\* Insert and commit.  The partial unique index on password_resets is left
\* out: OneActiveReset says that it has nothing to refuse.
RequestCommit(t) ==
  /\ At(t, "superseded")
  /\ \E n \in ResetIds :
       /\ resets[n] = None
       /\ resets' = [r \in ResetIds |->
            IF r = n THEN NewReset(task[t].user, task[t].at)
            ELSE IF r = task[t].reset THEN [resets[r] EXCEPT !.used = TRUE]
            ELSE resets[r]]
  /\ Become(t, Idle)
  /\ UNCHANGED <<now, password, sessions>>

\* The clock and FindByEmail; the hash read here is the one the new password
\* must differ from.
ConfirmReset(t, u) ==
  /\ Starts(t, "password_reset")
  /\ Become(t, [Idle EXCEPT !.pc = "attempt", !.user = u, !.pwd = password[u],
                          !.at = now])
  /\ UNCHANGED <<now, password, sessions, resets>>

\* TryRecordAttempt in a transaction of its own, which takes the advisory
\* locks and drops them.
ConfirmAttempt(t) ==
  /\ At(t, "attempt") /\ ScopesFree(t)
  /\ Become(t, [task[t] EXCEPT !.pc = "confirm"])
  /\ UNCHANGED <<now, password, sessions, resets>>

\* FindActiveByUserId and the comparison of the token with the row's hash.
ConfirmResetVerify(t, r, p) ==
  /\ At(t, "confirm")
  /\ Usable(r, task[t].at) /\ resets[r].user = task[t].user
  /\ p # task[t].pwd
  /\ Become(t, [task[t] EXCEPT !.pc = "mark_used", !.reset = r, !.pwd = p])
  /\ UNCHANGED <<now, password, sessions, resets>>

\* The token is not the one the row's hash was made from.
ConfirmResetWrong(t, r) ==
  /\ At(t, "confirm")
  /\ Usable(r, task[t].at) /\ resets[r].user = task[t].user
  /\ Become(t, [task[t] EXCEPT !.pc = "count_wrong", !.reset = r])
  /\ UNCHANGED <<now, password, sessions, resets>>

\* No usable token, or a new password equal to the old one.
ConfirmResetRefuse(t) ==
  /\ At(t, "confirm")
  /\ Become(t, Idle)
  /\ UNCHANGED <<now, password, sessions, resets>>

\* A transaction of its own: wait for the row, count the wrong token if the
\* row is still usable, then throw.
IncrementAttempts(t) ==
  LET r == task[t].reset IN
  /\ At(t, "count_wrong")
  /\ ResetFree(t, r)
  /\ resets' = IF Usable(r, task[t].at)
                 THEN [resets EXCEPT ![r] =
                         [resets[r] EXCEPT !.attempts = resets[r].attempts + 1]]
                 ELSE resets
  /\ Become(t, Idle)
  /\ UNCHANGED <<now, password, sessions>>

\* Mutant: the UPDATE has no more than WHERE id = $1.
MarkUsedUnconditional(t) ==
  /\ At(t, "mark_used")
  /\ ResetFree(t, task[t].reset)
  /\ Become(t, [task[t] EXCEPT !.pc = "set_password"])
  /\ UNCHANGED <<now, password, sessions, resets>>

\* UPDATE ... WHERE id = $1 and the row is still usable; no row updated
\* throws.
MarkUsed(t) ==
  /\ At(t, "mark_used")
  /\ ResetFree(t, task[t].reset)
  /\ \/ /\ Usable(task[t].reset, task[t].at)
        /\ Become(t, [task[t] EXCEPT !.pc = "set_password"])
     \/ /\ ~Usable(task[t].reset, task[t].at)
        /\ Become(t, Idle)
  /\ UNCHANGED <<now, password, sessions, resets>>
-----------------------------------------------------------------------------
(* The transaction that ChangePassword, ConfirmReset, RevokeAllSessions and *)
(* reuse detection share the end of.                                       *)

\* UPDATE users ... WHERE id = $1: waits for the user's row, never re-checks
\* the hash the handler verified.
UpdatePasswordHash(t) ==
  /\ At(t, "set_password")
  /\ UserFree(t, task[t].user)
  /\ Become(t, [task[t] EXCEPT !.pc = "revoke_many"])
  /\ UNCHANGED <<now, password, sessions, resets>>

\* RevokeAllByUserId or RevokeByTokenFamily: the rows the UPDATE starts with.
RevokeMatching(t) ==
  IF task[t].family = None
    THEN LiveOfUser(task[t].user)
    ELSE LiveOfFamily(task[t].user, task[t].family)

RevokeStart(t) ==
  /\ At(t, "revoke_many")
  /\ Become(t, [task[t] EXCEPT !.pc = "revoking", !.todo = RevokeMatching(t),
                               !.seen = RevokeMatching(t)])
  /\ UNCHANGED <<now, password, sessions, resets>>

\* Mutant: rows another transaction holds are skipped.
RevokeRowSkipLocked(t, s) ==
  /\ At(t, "revoking")
  /\ s \in task[t].todo
  /\ Become(t, [task[t] EXCEPT
       !.todo = task[t].todo \ {s},
       !.locked = IF RowFree(t, s) /\ Live(s) THEN task[t].locked \cup {s}
                                              ELSE task[t].locked])
  /\ UNCHANGED <<now, password, sessions, resets>>

\* Wait for the row, then re-check the WHERE clause on what is there.
RevokeRow(t, s) ==
  /\ At(t, "revoking")
  /\ s \in task[t].todo
  /\ RowFree(t, s)
  /\ Become(t, [task[t] EXCEPT
       !.todo = task[t].todo \ {s},
       !.locked = IF Live(s) THEN task[t].locked \cup {s} ELSE task[t].locked])
  /\ UNCHANGED <<now, password, sessions, resets>>

RevokeCommit(t) ==
  /\ At(t, "revoking")
  /\ task[t].todo = {}
  /\ sessions' = [s \in SessionIds |->
                    IF s \in task[t].locked
                      THEN [sessions[s] EXCEPT !.revoked = TRUE]
                      ELSE sessions[s]]
  /\ password' = IF task[t].pwd # None
                   THEN [password EXCEPT ![task[t].user] = task[t].pwd]
                   ELSE password
  /\ resets' = IF task[t].reset # None
                 THEN [resets EXCEPT ![task[t].reset] =
                         [resets[task[t].reset] EXCEPT !.used = TRUE]]
                 ELSE resets
  /\ Become(t, Idle)
  /\ UNCHANGED now
-----------------------------------------------------------------------------
(* The specification.                                                      *)

\* The steps a handler takes without waiting for a lock.
Advance(t) ==
  \/ SignInCommit(t) \/ RefreshCommit(t) \/ RevokeStart(t) \/ RevokeCommit(t)
  \/ AnswerRead(t) \/ RevokeAllSessions(t) \/ ConfirmResetRefuse(t)
  \/ SupersedeStart(t) \/ RequestCommit(t)
  \/ \E s \in SessionIds : RevokeSession(t, s)
  \/ \E p \in Passwords : ChangePassword(t, p)
  \/ \E r \in ResetIds, p \in Passwords : ConfirmResetVerify(t, r, p)
  \/ \E r \in ResetIds : ConfirmResetWrong(t, r)

\* The steps that wait for a row or an advisory lock.
Acquire(t) ==
  \/ RevokeAndReplace(t) \/ UpdateLastUsed(t) \/ RevokeByUserId(t)
  \/ MarkUsed(t) \/ IncrementAttempts(t) \/ UpdatePasswordHash(t)
  \/ RequestLock(t) \/ Supersede(t) \/ ConfirmAttempt(t)
  \/ \E s \in SessionIds : RevokeRow(t, s)

Arrive(t) ==
  \/ \E u \in Users : SignInVerify(t, u) \/ RequestReset(t, u) \/ ConfirmReset(t, u)
  \/ \E s \in SessionIds :
       RefreshReuse(t, s) \/ RefreshRotate(t, s) \/ Authenticate(t, s)

Next ==
  \/ Tick
  \/ \E t \in Tasks : Arrive(t) \/ Advance(t) \/ Acquire(t) \/ Rollback(t)

Spec == Init /\ [][Next]_vars

\* Task t waits in a cycle of transactions that wait for one another.
Deadlocked(t) ==
  \E D \in SUBSET Tasks :
    /\ t \in D
    /\ \A d \in D :
         /\ At(d, "revoking") /\ task[d].todo # {}
         /\ \A s \in task[d].todo : \E o \in D \ {d} : s \in task[o].locked

\* PostgreSQL's deadlock detector picks a victim.
DeadlockVictim(t) == Deadlocked(t) /\ Rollback(t)

\* Coroutines are scheduled, lock queues are first come first served, and
\* the deadlock detector runs.
FairSpec ==
  /\ Spec
  /\ \A t \in Tasks : WF_vars(Advance(t)) /\ SF_vars(Acquire(t))
  /\ \A t \in Tasks : WF_vars(DeadlockVictim(t))
-----------------------------------------------------------------------------
(* Properties.                                                             *)

\* Rows and handlers keep their types: every stored row has an owner, a family
\* and an expiry, and the clock stays within its bound.
TypeOK ==
  /\ now \in 0..MaxNow
  /\ password \in [Users -> Passwords]
  /\ sessions \in [SessionIds -> Row \cup {None}]
  /\ resets \in [ResetIds -> ResetRow \cup {None}]
  /\ task \in [Tasks -> Local]

\* Rotation never forks a family: however refreshes of the same token, reuse
\* detection and revocations interleave, a family has at most one session
\* that is not revoked, so at most one refresh token of it is good.
OneLiveSessionPerFamily ==
  \A s, o \in SessionIds :
    Live(s) /\ Live(o) /\ sessions[s].family = sessions[o].family => s = o

\* replaced_by_session_id makes every family one chain: a replaced session is
\* revoked, its replacement exists, has its user and family and replaces no
\* other session, and only one session of a family has no replacement.
FamilyIsChain ==
  /\ \A s \in SessionIds : Stored(s) /\ sessions[s].replacedBy # None =>
       LET n == sessions[s].replacedBy IN
       /\ sessions[s].revoked /\ Stored(n)
       /\ sessions[n].user = sessions[s].user
       /\ sessions[n].family = sessions[s].family
  /\ \A s, o \in SessionIds : Stored(s) /\ Stored(o) /\ s # o =>
       /\ sessions[s].replacedBy = sessions[o].replacedBy
             => sessions[s].replacedBy = None
       /\ sessions[s].family = sessions[o].family
             => sessions[s].replacedBy # None \/ sessions[o].replacedBy # None

\* A row, once inserted, stays; its owner, family and expiry never change; a
\* revoked session is never revived and a replacement never redirected.
RevocationIsFinal ==
  [][\A s \in SessionIds : Stored(s) =>
       /\ sessions'[s] # None
       /\ sessions'[s].user = sessions[s].user
       /\ sessions'[s].family = sessions[s].family
       /\ sessions'[s].expiresAt = sessions[s].expiresAt
       /\ sessions[s].revoked =>
            /\ sessions'[s].revoked
            /\ sessions'[s].replacedBy = sessions[s].replacedBy]_vars

\* last_used_at never goes back, whatever the order in which the updates of
\* requests that read the clock at different times are applied.
LastUsedNeverGoesBack ==
  [][\A s \in SessionIds :
       Stored(s) => sessions'[s].lastUsed >= sessions[s].lastUsed]_vars

\* When RevokeAllByUserId or RevokeByTokenFamily commits, every session that
\* was live in the statement's snapshot is revoked, those another
\* transaction was busy with included.
BulkRevokeCoversSnapshot ==
  [][\A t \in Tasks : RevokeCommit(t) =>
       \A s \in task[t].seen : sessions'[s].revoked]_vars

\* A password is set by a reset token at most once, and only by a token that
\* no later request has closed, that had not expired when the request came and
\* that has not met its limit of wrong guesses, those counted while the
\* confirmation was under way included: the token is usable until the commit
\* that changes the password, and used from then on.
ResetTokenIsConsumedOnce ==
  [][\A t \in Tasks : RevokeCommit(t) /\ task[t].reset # None =>
       Usable(task[t].reset, task[t].at) /\ resets'[task[t].reset].used]_vars

\* At most one reset token per user is active, however many requests for one
\* run at a time, each closing the token it sees and opening another: the
\* partial unique index on password_resets never turns a request away.
OneActiveReset ==
  \A r, q \in ResetIds :
    Active(r) /\ Active(q) /\ resets[r].user = resets[q].user => r = q

\* What a handler relies on between its steps.  The rows its transaction holds
\* are live; the ids in its hands are in no row; the rows it read are there;
\* and a bulk revocation has dealt with every session of its snapshot that it
\* does not still have to visit.
HandlerOK(l) ==
  /\ \A s \in l.locked : Live(s)
  /\ l.new # None <=> l.pc \in {"sign_in", "rotate", "rotated"}
  /\ l.new # None => ~Stored(l.new)
  /\ l.pc \in {"rotate", "rotated", "touch", "authenticated", "revoke_one"}
       => l.sid # None /\ Stored(l.sid)
  /\ l.pc = "rotated" => l.locked = {l.sid}
  /\ l.pc \notin {"rotated", "revoking"} => l.locked = {}
  /\ l.pc \notin {"idle", "rotate", "rotated"} => l.user # None
  /\ l.pc \in {"sign_in", "attempt", "confirm", "mark_used", "set_password"} => l.pwd # None
  /\ l.pc \in {"count_wrong", "mark_used"} => l.reset # None
  /\ l.pc = "sign_in" => l.family # None
  /\ l.pc = "sign_in" =>
       \A s \in SessionIds : Stored(s) => sessions[s].family # l.family
  /\ l.pc = "revoking" => \A s \in l.seen :
       Stored(s) /\ (s \notin l.todo \cup l.locked => sessions[s].revoked)
  /\ l.todo \subseteq l.seen
  /\ l.pc # "revoking" => l.todo = {}

\* What two handlers never share: a locked row, an id in hand, and the family
\* that a sign-in is about to start.
Apart(l, m) ==
  /\ l.locked \cap m.locked = {}
  /\ l.new # None => l.new # m.new
  /\ (l.pc = "sign_in" \/ m.pc = "sign_in") /\ l.family # None
       => l.family # m.family

\* Concurrent handlers never hold one another's rows or ids, and what a
\* handler read and still relies on stays true until it is done.
HandlersAreIsolated ==
  \A t \in Tasks :
    HandlerOK(task[t]) /\ \A o \in Tasks \ {t} : Apart(task[t], task[o])

\* A reset token a transaction has marked used is held by it alone, and is
\* still active, and usable if a confirmation holds it, for everyone else.
ResetsAreIsolated ==
  \A t \in Tasks, r \in ResetIds : HoldsReset(t, r) =>
    /\ Active(r) /\ ResetFree(t, r)
    /\ At(t, "superseded") \/ Usable(r, task[t].at)

\* The requests of a user for a reset token run one after the other, and the
\* row that one has in its snapshot is the only active one left.
RequestsAreSerial ==
  \A t \in Tasks : HoldsScopes(t) =>
    /\ ScopesFree(t)
    /\ ~At(t, "locked") => ActiveOfUser(task[t].user) \subseteq {task[t].reset}

\* Every request ends, answered or rolled back: transactions that wait for
\* one another's rows are not left waiting, and a handler that is busy is idle
\* again later.
RequestsFinish == \A t \in Tasks : []<>At(t, "idle")

\* The sessions table as the abstract book of refresh tokens.
Book ==
  [s \in SessionIds |->
     IF Stored(s)
       THEN [user |-> sessions[s].user, family |-> sessions[s].family,
             good |-> ~sessions[s].revoked]
       ELSE None]

Promise == INSTANCE TokenFamily WITH book <- Book

\* The concurrent handlers implement the atomic token book: whatever their
\* interleaving, the only thing any step does to the tokens is to open a
\* family, to rotate the good token of one, or to revoke good tokens.
ImplementsTokenFamily == Promise!Spec

\* The documentation's "Detected refresh-token reuse revokes the whole token
\* family": once the transaction of the reuse branch has committed, no
\* session of the family is live.
ReuseRevokesWholeFamily ==
  [][\A t \in Tasks, s \in SessionIds :
       /\ RevokeCommit(t) /\ task[t].family # None
       /\ Stored(s) /\ sessions[s].family = task[t].family
       => sessions'[s].revoked]_vars

\* The documentation's "Password change revokes active sessions so clients
\* must sign in again": a live session descends from a sign-in with the
\* password the user has now.
LiveSessionsUseCurrentPassword ==
  \A s \in SessionIds :
    Live(s) => sessions[s].signedWith = password[sessions[s].user]
=============================================================================
