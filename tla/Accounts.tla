------------------------------ MODULE Accounts ------------------------------
(***************************************************************************)
(* Sign-up, e-mail verification and the resending of codes: the handlers   *)
(* of IdentityService as concurrent tasks over PostgreSQL, at READ         *)
(* COMMITTED as in module Sessions.                                        *)
(*                                                                         *)
(* Sign-up asks a replica, which may lag behind, whether a name is taken;  *)
(* the unique indexes of users decide.  An INSERT enters its keys into the *)
(* indexes one by one and waits for an open transaction that entered the   *)
(* same key.  Verification reads the account and the code outside any      *)
(* transaction and repeats the conditions in the UPDATE that uses the      *)
(* code.  Resending holds the advisory locks of the attempt limiter to     *)
(* the end of its transaction.                                             *)
(*                                                                         *)
(* A code stands for its hash, which the hasher binds to the account.  The *)
(* attempt tables are in module AttemptLimiter: a request the limiter, the *)
(* validators or a check refuses leaves no trace here.                     *)
(***************************************************************************)
EXTENDS Validation

CONSTANTS
  Commands,         \* the sign-up requests clients send
  Spellings,        \* the addresses clients type to verify and to resend
  CodeValues,       \* what the code generator may generate
  Tasks,            \* concurrent request handlers
  CodeTtl,          \* EmailVerificationPolicy::code_ttl
  MaxCodeAttempts,  \* EmailVerificationPolicy::max_code_attempts
  MaxUsers, MaxCodes, MaxNow  \* bounds on the accounts, the codes, the clock

VARIABLES
  now,      \* the system clock
  users,    \* the users table, committed, in the order of the commits
  codes,    \* the email_verifications table, committed, in insertion order
  outbox,   \* the verification jobs of email_outbox, committed
  task      \* the local state of every task, its open transaction included

vars == <<now, users, codes, outbox, task>>

Fields == <<"username", "email", "phone">>

Pcs ==
  {"idle", "exists", "insert", "inserted", "verify", "wrong_code",
   "mark_used", "marked", "resend", "locked", "superseding", "superseded"}

\* The locals of a handler: the normalised sign-up, the field it is at, the
\* account and the code it read or holds, the code typed, its clock reading.
Idle ==
  [pc |-> "idle", input |-> None, field |-> 1, user |-> 0, code |-> 0,
   value |-> None, at |-> 0]

ASSUME AccountsAssumption ==
  /\ None \notin CodeValues
  /\ \A cmd \in Commands : cmd.username # None
  /\ MinPasswordLength \in Nat \ {0} /\ MaxPasswordLength \in Nat
  /\ IsFiniteSet(Tasks)
  /\ CodeTtl \in Nat \ {0} /\ MaxCodeAttempts \in Nat \ {0}
  /\ MaxUsers \in Nat /\ MaxCodes \in Nat /\ MaxNow \in Nat
-----------------------------------------------------------------------------
(* Queries, and the keys and rows that open transactions hold.             *)

\* lower(a) = lower(b) for names and addresses, a = b for phone numbers.
SameKey(field, a, b) ==
  /\ a # None /\ b # None
  /\ IF field = "phone" THEN a = b
     ELSE ToLowerAsciiInPlace(a) = ToLowerAsciiInPlace(b)

\* The account a query by one of the unique fields finds among the first n
\* rows, 0 if there is none.
FindBy(field, value, n) ==
  LET found == {u \in 1..n : SameKey(field, users[u][field], value)}
  IN  IF found = {} THEN 0 ELSE CHOOSE u \in found : TRUE

UserOfEmail(e) == FindBy("email", e, Len(users))

\* used_at IS NULL AND expires_at > $now AND attempts < $max
Acceptable(c, at) ==
  ~codes[c].used /\ codes[c].expiresAt > at /\ codes[c].attempts < MaxCodeAttempts

UnusedOf(u) == {c \in DOMAIN codes : codes[c].user = u /\ ~codes[c].used}

\* Task t's INSERT has entered its key of field f and t has not committed.
HoldsKey(t, f) ==
  \/ task[t].pc = "insert" /\ f < task[t].field
  \/ task[t].pc = "inserted"

KeyFree(t, f) ==
  \A o \in Tasks \ {t} :
    ~(HoldsKey(o, f) /\ SameKey(Fields[f], task[o].input[Fields[f]],
                                           task[t].input[Fields[f]]))

\* No other transaction holds the row of code c.
CodeFree(t, c) ==
  \A o \in Tasks \ {t} :
    ~(task[o].pc \in {"marked", "superseded"} /\ task[o].code = c)

\* Mutant: a handler announces itself before it looks, and two that arrive
\* together wait for each other.
ScopesFreeOfQueued(t) ==
  \A o \in Tasks \ {t} :
    ~(/\ task[o].pc \in {"resend", "locked", "superseding", "superseded"}
      /\ task[o].user = task[t].user)

\* Mutant: the transaction does not keep the locks of the attempt limiter.
ScopesUnlocked(t) == TRUE

\* No other transaction holds the advisory lock of the account.
ScopesFree(t) ==
  \A o \in Tasks \ {t} :
    ~(/\ task[o].pc \in {"locked", "superseding", "superseded"}
      /\ task[o].user = task[t].user)
-----------------------------------------------------------------------------
Init ==
  /\ now = 0
  /\ users = <<>>
  /\ codes = <<>> /\ outbox = {}
  /\ task = [t \in Tasks |-> Idle]

Become(t, local) == task' = [task EXCEPT ![t] = local]

At(t, pc) == task[t].pc = pc

SigningUp == {t \in Tasks : task[t].pc \in {"exists", "insert", "inserted"}}

Resending ==
  {t \in Tasks : task[t].pc \in {"resend", "locked", "superseding", "superseded"}}

\* The bounds leave room for what the started requests may insert.
RoomForUser == Len(users) + Cardinality(SigningUp) < MaxUsers

RoomForCode == Len(codes) + Cardinality(SigningUp \cup Resending) < MaxCodes

\* The e-mail carries the code as generated; the row keeps its hash.
NewCode(u, value, at) ==
  [user |-> u, value |-> value, expiresAt |-> at + CodeTtl, used |-> FALSE,
   attempts |-> 0]

\* INSERT INTO email_verifications and INSERT INTO email_outbox
Mail(u, email, value) == [user |-> u, to |-> email, code |-> value, row |-> Len(codes) + 1]
-----------------------------------------------------------------------------
(* IdentityService::SignUp                                                 *)

\* Validation and the sign-up limiter.
SignUp(t, cmd) ==
  LET input == ValidateSignUp(cmd)
  IN  /\ At(t, "idle") /\ RoomForUser /\ RoomForCode
      /\ input # None
      /\ Become(t, [Idle EXCEPT !.pc = "exists", !.input = input])
      /\ UNCHANGED <<now, users, codes, outbox>>

\* The fields sent, after field f.
FieldsAfter(f, input) == {g \in (f + 1)..Len(Fields) : input[Fields[g]] # None}

\* On to the next field sent, or to the next phase after the last one.
Onward(t, phase) ==
  LET rest == FieldsAfter(task[t].field, task[t].input)
  IN  IF rest = {}
        THEN [task[t] EXCEPT !.pc = phase, !.field = 1]
        ELSE [task[t] EXCEPT !.field = CHOOSE f \in rest : \A g \in rest : f <= g]

\* ExistsByUsername, ExistsByEmail, ExistsByPhone: a replica answers, which
\* has replayed the first n commits.
CheckExists(t) ==
  LET field == Fields[task[t].field]
  IN  /\ At(t, "exists")
      /\ \E n \in 0..Len(users) :
           Become(t, IF FindBy(field, task[t].input[field], n) # 0
                       THEN Idle ELSE Onward(t, "insert"))
      /\ UNCHANGED <<now, users, codes, outbox>>

\* Mutant: users has no unique indexes.
InsertUnchecked(t) ==
  /\ At(t, "insert")
  /\ Become(t, Onward(t, "inserted"))
  /\ UNCHANGED <<now, users, codes, outbox>>

\* PostgresUserRepository::Insert, one index at a time; UniqueViolation
\* becomes UsernameTaken, EmailTaken or PhoneTaken.
InsertKey(t) ==
  LET field == Fields[task[t].field]
  IN  /\ At(t, "insert")
      /\ KeyFree(t, task[t].field)
      /\ Become(t, IF FindBy(field, task[t].input[field], Len(users)) # 0
                     THEN Idle ELSE Onward(t, "inserted"))
      /\ UNCHANGED <<now, users, codes, outbox>>

\* The user row, and what every sign-up commit does.
InsertUser(t) ==
  /\ users' = Append(users, [username |-> task[t].input.username,
                             email |-> task[t].input.email,
                             phone |-> task[t].input.phone,
                             verified |-> FALSE])
  /\ Become(t, Idle)
  /\ UNCHANGED now

\* Mutant: the job is left to a second transaction, which may not happen.
SignUpCommitWithoutJob(t, value) ==
  /\ At(t, "inserted")
  /\ InsertUser(t)
  /\ codes' = IF task[t].input.email = None THEN codes
              ELSE Append(codes, NewCode(Len(users) + 1, value, now))
  /\ UNCHANGED outbox

\* One transaction: the account and, if it has an address, a code and the
\* job that mails it.
SignUpCommit(t, value) ==
  LET u     == Len(users) + 1
      email == task[t].input.email
  IN  /\ At(t, "inserted")
      /\ InsertUser(t)
      /\ IF email = None
           THEN UNCHANGED <<codes, outbox>>
           ELSE /\ codes' = Append(codes, NewCode(u, value, now))
                /\ outbox' = outbox \cup {Mail(u, email, value)}
-----------------------------------------------------------------------------
(* IdentityService::VerifyEmail                                            *)

\* FindByEmail on the primary, AlreadyVerified.
VerifyEmail(t, e, value) ==
  LET u == UserOfEmail(e)
  IN  /\ At(t, "idle")
      /\ u # 0 /\ ~users[u].verified
      /\ Become(t, [Idle EXCEPT !.pc = "verify", !.user = u, !.value = value,
                                !.at = now])
      /\ UNCHANGED <<now, users, codes, outbox>>

\* TryRecordAttempt takes and drops the advisory locks; then
\* FindActiveByUserId and the comparison of the code.
FindActive(t) ==
  LET l      == task[t]
      active == {c \in UnusedOf(l.user) : Acceptable(c, l.at)}
  IN  /\ At(t, "verify")
      /\ ScopesFree(t)
      /\ IF active = {}
           THEN Become(t, Idle)
           ELSE LET c == CHOOSE c \in active : \A d \in active : d <= c
                IN  Become(t, [l EXCEPT !.code = c, !.pc =
                      IF codes[c].value = l.value THEN "mark_used" ELSE "wrong_code"])
      /\ UNCHANGED <<now, users, codes, outbox>>

\* A transaction of its own, then InvalidCode.
IncrementAttempts(t) ==
  LET c == task[t].code
  IN  /\ At(t, "wrong_code") /\ CodeFree(t, c)
      /\ codes' = IF Acceptable(c, task[t].at)
                    THEN [codes EXCEPT ![c].attempts = @ + 1] ELSE codes
      /\ Become(t, Idle)
      /\ UNCHANGED <<now, users, outbox>>

\* Mutant: UPDATE ... WHERE id = $1, trusting what FindActiveByUserId read.
MarkUsedUnchecked(t) ==
  /\ At(t, "mark_used") /\ CodeFree(t, task[t].code)
  /\ Become(t, [task[t] EXCEPT !.pc = "marked"])
  /\ UNCHANGED <<now, users, codes, outbox>>

\* The conditional UPDATE; no row means CodeExpired.
MarkUsed(t) ==
  /\ At(t, "mark_used") /\ CodeFree(t, task[t].code)
  /\ Become(t, IF Acceptable(task[t].code, task[t].at)
                 THEN [task[t] EXCEPT !.pc = "marked"] ELSE Idle)
  /\ UNCHANGED <<now, users, codes, outbox>>

\* SetEmailVerified and commit.
VerifyCommit(t) ==
  /\ At(t, "marked")
  /\ codes' = [codes EXCEPT ![task[t].code].used = TRUE]
  /\ users' = [users EXCEPT ![task[t].user].verified = TRUE]
  /\ Become(t, Idle)
  /\ UNCHANGED <<now, outbox>>
-----------------------------------------------------------------------------
(* IdentityService::ResendEmailVerification                                *)

\* FindByEmail on the primary; without an unverified account the attempt is
\* recorded and nothing else happens.
Resend(t, e) ==
  LET u == UserOfEmail(e)
  IN  /\ At(t, "idle") /\ RoomForCode
      /\ u # 0 /\ ~users[u].verified
      /\ Become(t, [Idle EXCEPT !.pc = "resend", !.user = u, !.at = now])
      /\ UNCHANGED <<now, users, codes, outbox>>

\* TryRecordAttempt, whose advisory locks last as long as the transaction.
ResendLock(t) ==
  /\ At(t, "resend") /\ ScopesFree(t)
  /\ Become(t, [task[t] EXCEPT !.pc = "locked"])
  /\ UNCHANGED <<now, users, codes, outbox>>

\* MarkActiveUsedByUserId: the snapshot of the UPDATE.
SupersedeStart(t) ==
  LET unused == UnusedOf(task[t].user)
  IN  /\ At(t, "locked")
      /\ Become(t, [task[t] EXCEPT !.pc = "superseding",
                      !.code = IF unused = {} THEN 0 ELSE CHOOSE c \in unused : TRUE])
      /\ UNCHANGED <<now, users, codes, outbox>>

\* The row of the snapshot, locked and re-checked.
Supersede(t) ==
  LET c == task[t].code
  IN  /\ At(t, "superseding") /\ (c = 0 \/ CodeFree(t, c))
      /\ Become(t, [task[t] EXCEPT !.pc = "superseded",
                      !.code = IF c # 0 /\ ~codes[c].used THEN c ELSE 0])
      /\ UNCHANGED <<now, users, codes, outbox>>

\* The new code and its job, and commit.
ResendCommit(t, value) ==
  LET l == task[t]
  IN  /\ At(t, "superseded")
      /\ codes' = Append(IF l.code = 0 THEN codes
                         ELSE [codes EXCEPT ![l.code].used = TRUE],
                         NewCode(l.user, value, l.at))
      /\ outbox' = outbox \cup {Mail(l.user, users[l.user].email, value)}
      /\ Become(t, Idle)
      /\ UNCHANGED <<now, users>>
-----------------------------------------------------------------------------
\* An exception: the destructor of the transaction rolls it back.
Rollback(t) ==
  /\ ~At(t, "idle")
  /\ Become(t, Idle)
  /\ UNCHANGED <<now, users, codes, outbox>>

Tick ==
  /\ now < MaxNow
  /\ now' = now + 1
  /\ UNCHANGED <<users, codes, outbox, task>>

\* The steps that may have to wait for another transaction.
Acquire(t) ==
  \/ InsertKey(t) \/ FindActive(t) \/ IncrementAttempts(t) \/ MarkUsed(t)
  \/ ResendLock(t) \/ Supersede(t)

Advance(t) ==
  \/ CheckExists(t) \/ VerifyCommit(t) \/ SupersedeStart(t)
  \/ \E value \in CodeValues : SignUpCommit(t, value) \/ ResendCommit(t, value)

Request(t) ==
  \/ \E cmd \in Commands : SignUp(t, cmd)
  \/ \E e \in Spellings, value \in CodeValues : VerifyEmail(t, e, value)
  \/ \E e \in Spellings : Resend(t, e)

Next == (\E t \in Tasks : Request(t) \/ Acquire(t) \/ Advance(t) \/ Rollback(t)) \/ Tick

Spec == Init /\ [][Next]_vars

\* Coroutines are scheduled, and PostgreSQL queues those that wait for a lock
\* in order, so that nobody is overtaken forever.
FairSpec == Spec /\ \A t \in Tasks : WF_vars(Advance(t)) /\ SF_vars(Acquire(t))
-----------------------------------------------------------------------------
(* Properties.                                                             *)

\* No two accounts share a username, an address or a phone number, however
\* they were spelled and however stale the replica that sign-up asked was.
UniqueAccounts ==
  \A u, v \in DOMAIN users, f \in DOMAIN Fields :
    SameKey(Fields[f], users[u][Fields[f]], users[v][Fields[f]]) => u = v

\* What a client typed to open an account signs in to it and to no other, by
\* any one of its fields: the two validators agree on every text, at the
\* limits too, and the lookup by the normal form finds that one row.
OwnersFindTheirAccounts ==
  \A cmd \in Commands, u \in DOMAIN users, f \in DOMAIN Fields :
    LET field == Fields[f]
        input == ValidateSignUp(cmd)
    IN  /\ input # None /\ users[u][field] # None
        /\ \A g \in DOMAIN Fields : users[u][Fields[g]] = input[Fields[g]]
        => /\ ValidateSignIn(Alone(cmd, field)) = [by |-> field, value |-> input[field]]
           /\ FindBy(field, input[field], Len(users)) = u

\* An account never has two unused codes, so that the unique index on them
\* never turns a resend into an internal error.
OneUnusedCode ==
  \A c, d \in DOMAIN codes :
    ~codes[c].used /\ ~codes[d].used /\ codes[c].user = codes[d].user => c = d

\* An account with an address always has a code, and every code that may
\* still be typed is on its way to the address of its account.
CodesAreMailed ==
  /\ \A u \in DOMAIN users :
       users[u].email # None => \E c \in DOMAIN codes : codes[c].user = u
  /\ \A c \in DOMAIN codes : LET u == codes[c].user IN
       [user |-> u, to |-> users[u].email, code |-> codes[c].value, row |-> c]
         \in outbox

\* An account becomes verified only by the code of the last mail sent to its
\* address: "Resend invalidates the previous active code".
OnlyLastMailVerifies ==
  [][\A u \in DOMAIN users : ~users[u].verified /\ users'[u].verified =>
       \E t \in Tasks, m \in outbox :
         /\ m.to = users[u].email /\ m.code = task[t].value
         /\ VerifyCommit(t)
         /\ \A other \in outbox : other.user = u => other.row <= m.row]_vars

\* The code in force for an account, and the tries it has left.
InForce(u) == IF UnusedOf(u) = {} THEN 0 ELSE CHOOSE c \in UnusedOf(u) : TRUE

TriesLeft(u) ==
  IF UnusedOf(u) = {} THEN 0 ELSE MaxCodeAttempts - codes[InForce(u)].attempts

\* The tables, seen as the abstract one-time code.
Promise ==
  INSTANCE OneTimeCode WITH
    Accounts <- 1..MaxUsers,
    Tries <- MaxCodeAttempts,
    inForce <- [u \in 1..MaxUsers |-> InForce(u)],
    issued <- Len(codes),
    tries <- [u \in 1..MaxUsers |-> TriesLeft(u)],
    verified <- {u \in DOMAIN users : users[u].verified}

\* The handlers implement the one-time code: whatever their interleaving,
\* only the code in force verifies, only while it has tries left, and only
\* once, and no try is ever given back.
ImplementsOneTimeCode == Promise!Spec

\* Every request ends: sign-ups that wait for one another's keys, and
\* verifications and resends that wait for locks and rows, are not left
\* waiting, and a handler that is busy is idle again later.
RequestsFinish == \A t \in Tasks : []<>At(t, "idle")
=============================================================================
