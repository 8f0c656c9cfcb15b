--------------------------- MODULE AttemptLimiter ---------------------------
(***************************************************************************)
(* The attempt limiter: the tables sign_in_attempts, sign_up_attempts,     *)
(* email_verification_attempts and password_reset_attempts, which have the *)
(* same protocol.                                                          *)
(*                                                                         *)
(* A request belongs to up to three scopes: the identifier or email, the   *)
(* user if one was found, the client address if one is known.  A scope is  *)
(* a key, and keys are numbered in the order of ORDER BY lock_key.  In one *)
(* transaction a handler locks its scopes' advisory locks in that order,   *)
(* and then, in a statement of its own and so with a snapshot taken after  *)
(* the locks, counts the recent attempts of each scope and inserts its own *)
(* if every count is below the limit.  attempted_at is the clock value the *)
(* handler read at its start, which may be old by the time it is inserted. *)
(***************************************************************************)
EXTENDS Naturals, FiniteSets

CONSTANTS
  Tasks,        \* concurrent request handlers
  Keys,         \* scopes, as the ranks of their lock keys
  Scopes,       \* the sets of scopes that requests have
  AttemptIds,   \* ids of rows, given in ascending order
  Limit,        \* max_attempts_per_... of every key; 0 switches it off
  Window,       \* rate_limit_window
  Tables,       \* the attempt tables
  MaxNow,       \* bound on the clock
  None          \* an absent row

VARIABLES
  table,     \* the table that this instance of the protocol is about
  now,       \* the system clock
  attempts,  \* the table, committed: a row or None for every id
  task       \* the locals of every handler, its open transaction included

vars == <<table, now, attempts, task>>

Attempt == [keys : SUBSET Keys, at : Nat]

\* held: the advisory locks the transaction has.
Local ==
  [pc : {"idle", "check", "lock", "recorded"}, keys : SUBSET Keys, at : Nat,
   held : SUBSET Keys]

Idle == [pc |-> "idle", keys |-> {}, at |-> 0, held |-> {}]

ASSUME LimiterAssumption ==
  /\ Keys \subseteq Nat
  /\ AttemptIds \subseteq Nat
  /\ Scopes \subseteq SUBSET Keys
  /\ Limit \in [Keys -> Nat]
  /\ Window \in Nat
  /\ MaxNow \in Nat
  /\ None \notin Attempt
-----------------------------------------------------------------------------
Stored(i) == attempts[i] # None

\* Mutant: attempts later than the handler's clock are left out.
RecentUpTo(k, at) ==
  {i \in AttemptIds : /\ Stored(i) /\ k \in attempts[i].keys
                      /\ attempts[i].at + Window >= at /\ attempts[i].at <= at}

\* The attempts of a scope with attempted_at >= since, since being at - Window.
Recent(k, at) ==
  {i \in AttemptIds : /\ Stored(i) /\ k \in attempts[i].keys
                      /\ attempts[i].at + Window >= at}

IsRateLimitExceeded(count, limit) == limit > 0 /\ count >= limit

\* WHERE limit = 0 OR count < limit, for every scope the request has.
Admitted(ks, at) ==
  \A k \in ks : Limit[k] = 0 \/ Cardinality(Recent(k, at)) < Limit[k]

LockFree(t, k) == \A o \in Tasks \ {t} : k \notin task[o].held

Become(t, local) == task' = [task EXCEPT ![t] = local]

Init ==
  /\ table \in Tables
  /\ now = 0
  /\ attempts = [i \in AttemptIds |-> None]
  /\ task = [t \in Tasks |-> Idle]

Tick ==
  /\ now < MaxNow
  /\ now' = now + 1
  /\ UNCHANGED <<table, attempts, task>>

\* SignIn reads the clock and the user; the count comes later.
SignIn(t, ks) ==
  /\ table = "sign_in_attempts"
  /\ task[t].pc = "idle"
  /\ Become(t, [Idle EXCEPT !.pc = "check", !.keys = ks, !.at = now])
  /\ UNCHANGED <<table, now, attempts>>

\* CountRecentAttempts, without locks.  A request over a limit is refused;
\* one with good credentials leaves no attempt; the others go on to record.
SignInCheck(t) ==
  /\ task[t].pc = "check"
  /\ \/ Become(t, Idle)
     \/ /\ \A k \in task[t].keys :
             ~IsRateLimitExceeded(Cardinality(Recent(k, task[t].at)), Limit[k])
        /\ Become(t, [task[t] EXCEPT !.pc = "lock"])
  /\ UNCHANGED <<table, now, attempts>>

\* SignUp, VerifyEmail, ResendEmailVerification, RequestReset and
\* ConfirmReset record before they do anything else.
RecordFirst(t, ks) ==
  /\ table # "sign_in_attempts"
  /\ task[t].pc = "idle"
  /\ Become(t, [Idle EXCEPT !.pc = "lock", !.keys = ks, !.at = now])
  /\ UNCHANGED <<table, now, attempts>>

\* Mutant: locks are taken in any order.
LockScopeUnordered(t) ==
  /\ task[t].pc = "lock"
  /\ \E k \in task[t].keys \ task[t].held :
       /\ LockFree(t, k)
       /\ Become(t, [task[t] EXCEPT !.held = task[t].held \cup {k}])
  /\ UNCHANGED <<table, now, attempts>>

\* pg_advisory_xact_lock on the scopes, ORDER BY lock_key.
LockScope(t) ==
  /\ task[t].pc = "lock"
  /\ \E k \in task[t].keys \ task[t].held :
       /\ \A j \in task[t].keys \ task[t].held : k <= j
       /\ LockFree(t, k)
       /\ Become(t, [task[t] EXCEPT !.held = task[t].held \cup {k}])
  /\ UNCHANGED <<table, now, attempts>>

\* Mutant: the count does not wait for the locks.
TryRecordUnlocked(t) ==
  /\ task[t].pc = "lock"
  /\ \/ /\ Admitted(task[t].keys, task[t].at)
        /\ Become(t, [task[t] EXCEPT !.pc = "recorded"])
     \/ /\ ~Admitted(task[t].keys, task[t].at)
        /\ Become(t, Idle)
  /\ UNCHANGED <<table, now, attempts>>

\* The counting INSERT.  No row inserted: the handler throws and its
\* transaction, with the locks, is rolled back.
TryRecord(t) ==
  /\ task[t].pc = "lock"
  /\ task[t].held = task[t].keys
  /\ \/ /\ Admitted(task[t].keys, task[t].at)
        /\ Become(t, [task[t] EXCEPT !.pc = "recorded"])
     \/ /\ ~Admitted(task[t].keys, task[t].at)
        /\ Become(t, Idle)
  /\ UNCHANGED <<table, now, attempts>>

\* The row becomes visible and the locks are released.
Commit(t) ==
  /\ task[t].pc = "recorded"
  /\ \E i \in AttemptIds :
       /\ ~Stored(i) /\ \A j \in AttemptIds : Stored(j) \/ i <= j
       /\ attempts' = [attempts EXCEPT ![i] =
                         [keys |-> task[t].keys, at |-> task[t].at]]
  /\ Become(t, Idle)
  /\ UNCHANGED <<table, now>>

Rollback(t) ==
  /\ task[t].pc # "idle"
  /\ Become(t, Idle)
  /\ UNCHANGED <<table, now, attempts>>

Next ==
  \/ Tick
  \/ \E t \in Tasks :
       \/ \E ks \in Scopes : SignIn(t, ks) \/ RecordFirst(t, ks)
       \/ SignInCheck(t) \/ LockScope(t) \/ TryRecord(t) \/ Commit(t)
       \/ Rollback(t)

Spec == Init /\ [][Next]_vars

\* Handlers are scheduled, and a lock's waiters are served in turn.
FairSpec ==
  /\ Spec
  /\ \A t \in Tasks :
       /\ WF_vars(SignInCheck(t) \/ TryRecord(t) \/ Commit(t))
       /\ SF_vars(LockScope(t))
-----------------------------------------------------------------------------
\* The attempts table and the locals of the handlers keep their types: every
\* recorded attempt has its scopes and the time of its handler.
TypeOK ==
  /\ table \in Tables
  /\ now \in 0..MaxNow
  /\ attempts \in [AttemptIds -> Attempt \cup {None}]
  /\ task \in [Tasks -> Local]

\* The recorded attempts of scope k in the window that starts at w.
InWindow(k, w) ==
  {i \in AttemptIds : /\ Stored(i) /\ k \in attempts[i].keys
                      /\ w <= attempts[i].at /\ attempts[i].at <= w + Window}

\* The limit holds in every window of time, not only in those that end at some
\* request: attempts that several handlers record at once, with clock values
\* read in another order than the rows are inserted, never exceed it.
WindowLimit ==
  \A k \in Keys, w \in 0..MaxNow :
    Limit[k] > 0 => Cardinality(InWindow(k, w)) <= Limit[k]

\* Between the counting INSERT and its commit the count stays true: nobody
\* else adds an attempt to a scope whose lock the transaction has.
CountStaysTrue ==
  /\ \A t \in Tasks : task[t].pc = "recorded" =>
       task[t].held = task[t].keys /\ Admitted(task[t].keys, task[t].at)
  /\ \A t, o \in Tasks : t # o => task[t].held \cap task[o].held = {}

\* Handlers that wait for one another's advisory locks all get through: each
\* one is done with its request again and again.
RequestsFinish == \A t \in Tasks : []<>(task[t].pc = "idle")
=============================================================================
