--------------------------- MODULE AccountsProofs ---------------------------
(***************************************************************************)
(* What is proved of Accounts, for any number of handlers, accounts and    *)
(* codes and for whatever clients send: accounts are unique and have one   *)
(* identifier each, an account has one unused code, every code is mailed,  *)
(* only the last mail verifies, the handlers implement the one-time code,  *)
(* and they never wait for one another in a circle.                        *)
(***************************************************************************)
EXTENDS AccountsLocals, WellFoundedInduction

-----------------------------------------------------------------------------
(***************************************************************************)
(* The commits keep the invariant.  Those that insert nothing, a wrong     *)
(* answer counted and an account verified, leave the other handlers the    *)
(* rows and the locks those hold.  Those that issue a code, a sign-up and  *)
(* a resend, make it the newest of its account and the only one unused,    *)
(* and mail it; the keys of a new account are new.                         *)
(***************************************************************************)
\* What no commit takes back: rows keep their keys, codes keep their account
\* and their value, a used code stays used.
RowsOnlyGrow ==
  /\ Len(users') \in Nat /\ Len(codes') \in Nat
  /\ Len(users) <= Len(users') /\ Len(codes) <= Len(codes')
  /\ \A c \in 1..Len(codes) :
       /\ codes'[c].user = codes[c].user /\ codes'[c].value = codes[c].value
       /\ codes[c].used => codes'[c].used

\* What the commit of another handler leaves to a handler with locals l: the
\* row it holds, and the lock of its account.
LeavesAlone(l) ==
  /\ l.pc \in {"marked", "superseded"} /\ l.code # 0 =>
       codes'[l.code] = codes[l.code]
  /\ l.pc \in {"superseding", "superseded"} =>
       \A c \in 1..Len(codes') : Len(codes) < c => codes'[c].user # l.user

\* What a handler relies on survives such a commit.
LEMMA OthersKeep ==
  ASSUME TypeInv, RowsOnlyGrow, DOMAIN codes' = 1..Len(codes'),
         NEW l \in Local, LocalOK(l), LeavesAlone(l)
  PROVE  LocalOK(l)'
<1>1. Len(users) \in Nat /\ Len(codes) \in Nat
  BY Tables
<1>2. l.user \in 0..Len(users') /\ l.code \in 0..Len(codes')
  BY <1>1 DEF LocalOK, RowsOnlyGrow
<1>3. l.pc \in Verifying => l.code # 0 /\ codes'[l.code].user = l.user
  BY <1>1 DEF LocalOK, RowsOnlyGrow
<1>4. l.pc \in {"mark_used", "marked"} => codes'[l.code].value = l.value
  <2>1. l.pc \in {"mark_used", "marked"} => l.code \in 1..Len(codes)
    BY <1>1 DEF LocalOK, Verifying
  <2>. QED  BY <1>1, <2>1 DEF LocalOK, RowsOnlyGrow
<1>5. l.pc = "marked" => Acceptable(l.code, l.at)'
  <2>1. l.pc = "marked" => l.code # 0
    BY DEF LocalOK, Verifying
  <2>2. l.pc = "marked" => codes'[l.code] = codes[l.code]
    BY <2>1 DEF LeavesAlone
  <2>. QED  BY <2>2 DEF LocalOK, Acceptable
<1>6. ASSUME l.pc \in {"superseding", "superseded"}
      PROVE  /\ UnusedOf(l.user)' \subseteq {l.code}
             /\ l.code # 0 => codes'[l.code].user = l.user
  <2>1. ASSUME NEW c \in UnusedOf(l.user)' PROVE c = l.code
    <3>1. c \in 1..Len(codes') /\ codes'[c].user = l.user /\ ~codes'[c].used
      BY <2>1 DEF UnusedOf
    <3>2. c \in 1..Len(codes)
      BY <1>1, <1>6, <3>1 DEF LeavesAlone, RowsOnlyGrow
    <3>3. codes[c].user = l.user /\ ~codes[c].used
      BY <3>1, <3>2 DEF RowsOnlyGrow
    <3>4. c \in UnusedOf(l.user)
      BY <3>2, <3>3, UnusedOfDef
    <3>. QED  BY <1>6, <3>4 DEF LocalOK
  <2>2. l.code # 0 => codes'[l.code].user = l.user
    BY <1>1, <1>6 DEF LocalOK, RowsOnlyGrow
  <2>. QED  BY <2>1, <2>2
<1>7. l.pc = "superseded" /\ l.code # 0 => ~codes'[l.code].used
  BY DEF LocalOK, LeavesAlone
<1>8. l.pc \in {"verify", "resend"} \cup Verifying \cup Locking => l.user # 0
  BY DEF LocalOK
<1>. QED
  BY <1>2, <1>3, <1>4, <1>5, <1>6, <1>7, <1>8 DEF LocalOK

\* After a commit its handler is idle, and the others hold and rely on what
\* they did before.
LEMMA CommitStep ==
  ASSUME IInv, NEW t \in Tasks, Become(t, Idle), TypeInv', RowsOnlyGrow,
         \A o \in Tasks \ {t} : LeavesAlone(task[o])
  PROVE  /\ \A o \in Tasks : LocalOK(task[o])'
         /\ LocksAreExclusive'
<1>1. TypeInv /\ LocksAreExclusive /\ \A o \in Tasks : LocalOK(task[o])
  BY DEF IInv
<1>2. /\ task'[t] = Idle /\ Idle.pc = "idle"
      /\ \A o \in Tasks : o # t => task'[o] = task[o]
  BY <1>1, BecomeValue, IdleIsOK
<1>3. DOMAIN codes' = 1..Len(codes')
  BY DEF TypeInv
<1>4. LocalOK(Idle)'
  <2>1. /\ Idle.pc = "idle" /\ Idle.user = 0 /\ Idle.code = 0
    BY DEF Idle
  <2>2. Len(users') \in Nat /\ Len(codes') \in Nat
    BY DEF RowsOnlyGrow
  <2>. QED  BY <2>1, <2>2 DEF LocalOK, Verifying, Locking
<1>5. ASSUME NEW o \in Tasks, o # t PROVE LocalOK(task[o])'
  <2>1. PICK l \in Local : l = task[o]
    BY <1>1 DEF TypeInv
  <2>2. LocalOK(l)'
    BY <1>1, <1>3, <1>5, <2>1, OthersKeep
  <2>3. task'[o] = l
    BY <1>2, <1>5, <2>1
  <2>. QED  BY <2>2, <2>3 DEF LocalOK, Acceptable, UnusedOf
<1>6. LocalOK(task[t])'
  BY <1>2, <1>4 DEF LocalOK, Acceptable, UnusedOf
<1>7. LocksAreExclusive'
  BY <1>1, <1>2 DEF LocksAreExclusive, Locking
<1>. QED
  BY <1>5, <1>6, <1>7

\* A commit that keeps the keys of every row releases those of its handler.
LEMMA KeysKept ==
  ASSUME IInv, NEW t \in Tasks, Become(t, Idle), Len(users') = Len(users),
         \A u \in 1..Len(users), f \in 1..3 : users'[u][Fields[f]] = users[u][Fields[f]]
  PROVE  KeysAreHeld' /\ RowsAreUnique' /\ RoomIsKept'
<1>1. TypeInv /\ KeysAreHeld /\ RowsAreUnique /\ RoomIsKept
  BY DEF IInv
<1>2. /\ task'[t] = Idle /\ Idle.pc = "idle"
      /\ \A o \in Tasks : o # t => task'[o] = task[o]
  BY <1>1, BecomeValue, IdleIsOK
<1>3. \A o \in Tasks, f \in 1..3 : HoldsKey(o, f)' => o # t /\ HoldsKey(o, f)
  BY <1>2 DEF HoldsKey
<1>4. KeysAreHeld'
  <2>1. SUFFICES ASSUME NEW o \in Tasks, NEW f \in 1..3, HoldsKey(o, f)'
                 PROVE  /\ KeyFree(o, f)'
                        /\ \A u \in 1..Len(users') :
                             ~SameKey(Fields[f], users'[u][Fields[f]],
                                      task'[o].input[Fields[f]])
    BY DEF KeysAreHeld
  <2>2. HoldsKey(o, f) /\ o # t /\ task'[o] = task[o]
    BY <1>2, <1>3, <2>1
  <2>3. KeyFree(o, f)
    BY <1>1, <2>2 DEF KeysAreHeld
  <2>4. KeyFree(o, f)'
    BY <1>2, <1>3, <2>2, <2>3 DEF KeyFree
  <2>. QED  BY <1>1, <2>2, <2>4 DEF KeysAreHeld
<1>5. RowsAreUnique'
  BY <1>1 DEF RowsAreUnique
<1>6. RoomIsKept'
  <2>1. Len(users) \in Nat /\ MaxUsers \in Nat
    BY <1>1, Tables, AccountsAssumption
  <2>2. Idle.pc \notin SignUpPcs
    BY <1>2 DEF SignUpPcs
  <2>. QED  BY <1>1, <2>1, <2>2, SigningUpNext DEF RoomIsKept
<1>. QED
  BY <1>4, <1>5, <1>6

\* The table with one code updated.
WithCode(c, row) == [codes EXCEPT ![c] = row]

\* The other codes stay as they are.
LEMMA CodeUpdated ==
  ASSUME TypeInv, NEW c \in 1..Len(codes), NEW row \in CodeRow
  PROVE  /\ WithCode(c, row) \in Seq(CodeRow) /\ Len(WithCode(c, row)) = Len(codes)
         /\ WithCode(c, row)[c] = row
         /\ \A d \in 1..Len(codes) : d # c => WithCode(c, row)[d] = codes[d]
<1>1. codes \in Seq(CodeRow) /\ DOMAIN codes = 1..Len(codes)
  BY Tables DEF TypeInv
<1>. QED
  BY <1>1 DEF WithCode

\* The table with code c marked as used.
UsedCode(c) == [codes EXCEPT ![c].used = TRUE]

\* Only that changes.
LEMMA CodeUsed ==
  ASSUME TypeInv, NEW c \in 1..Len(codes)
  PROVE  /\ UsedCode(c) \in Seq(CodeRow) /\ Len(UsedCode(c)) = Len(codes)
         /\ UsedCode(c)[c].used /\ UsedCode(c)[c].user = codes[c].user
         /\ UsedCode(c)[c].value = codes[c].value
         /\ UsedCode(c)[c].attempts = codes[c].attempts
         /\ \A d \in 1..Len(codes) : d # c => UsedCode(c)[d] = codes[d]
<1>1. codes[c] \in CodeRow
  BY Tables
<1>2. PICK row : row = [codes[c] EXCEPT !.used = TRUE]
  BY Zenon
<1>3. /\ row \in CodeRow /\ row.used = TRUE /\ row.user = codes[c].user
      /\ row.value = codes[c].value /\ row.attempts = codes[c].attempts
  BY <1>1, <1>2, Zenon DEF CodeRow
<1>4. UsedCode(c) = WithCode(c, row)
  BY <1>2 DEF WithCode, UsedCode
<1>. QED
  BY <1>3, <1>4, CodeUpdated, SMTT(60)

\* The table with one more wrong answer to code c.
MissedCode(c) == [codes EXCEPT ![c].attempts = @ + 1]

\* Only that changes.
LEMMA CodeMissed ==
  ASSUME TypeInv, NEW c \in 1..Len(codes)
  PROVE  /\ MissedCode(c) \in Seq(CodeRow) /\ Len(MissedCode(c)) = Len(codes)
         /\ MissedCode(c)[c].attempts = codes[c].attempts + 1
         /\ MissedCode(c)[c].used = codes[c].used /\ MissedCode(c)[c].user = codes[c].user
         /\ MissedCode(c)[c].value = codes[c].value
         /\ \A d \in 1..Len(codes) : d # c => MissedCode(c)[d] = codes[d]
<1>1. codes[c] \in CodeRow /\ codes[c].attempts \in Nat
  BY Tables, CodeFields
<1>2. PICK n : n = codes[c].attempts + 1
  OBVIOUS
<1>3. PICK row : row = [codes[c] EXCEPT !.attempts = n]
  BY Zenon
<1>4. n \in Nat
  BY <1>1, <1>2
<1>5. /\ row \in CodeRow /\ row.used = codes[c].used /\ row.user = codes[c].user
      /\ row.value = codes[c].value /\ row.attempts = n
  BY <1>1, <1>3, <1>4 DEF CodeRow
<1>6. MissedCode(c) = WithCode(c, row)
  BY <1>2, <1>3 DEF WithCode, MissedCode
<1>. QED
  BY <1>2, <1>5, <1>6, CodeUpdated, SMTT(60)

\* A new code.
LEMMA NewCodeFields ==
  ASSUME NEW u \in Nat, NEW value \in CodeValues, NEW at \in Nat
  PROVE  /\ NewCode(u, value, at) \in CodeRow
         /\ NewCode(u, value, at).user = u /\ NewCode(u, value, at).value = value
         /\ NewCode(u, value, at).used = FALSE /\ NewCode(u, value, at).attempts = 0
<1>1. PICK e : e = at + CodeTtl
  OBVIOUS
<1>2. e \in Nat
  BY <1>1, AccountsAssumption
<1>3. NewCode(u, value, at) =
        [user |-> u, value |-> value, expiresAt |-> e, used |-> FALSE, attempts |-> 0]
  BY <1>1 DEF NewCode
<1>. QED
  BY <1>2, <1>3 DEF CodeRow

\* The table with account u verified.
VerifiedUser(u) == [users EXCEPT ![u].verified = TRUE]

\* Only that changes.
LEMMA UserVerified ==
  ASSUME TypeInv, NEW u \in 1..Len(users)
  PROVE  /\ VerifiedUser(u) \in Seq(UserRow) /\ Len(VerifiedUser(u)) = Len(users)
         /\ VerifiedUser(u)[u].verified = TRUE
         /\ \A v \in 1..Len(users) : v # u => VerifiedUser(u)[v] = users[v]
         /\ \A v \in 1..Len(users), f \in 1..3 :
              VerifiedUser(u)[v][Fields[f]] = users[v][Fields[f]]
         /\ \A v \in 1..Len(users) : VerifiedUser(u)[v].email = users[v].email
<1>1. users[u] \in UserRow /\ users \in Seq(UserRow)
  BY Tables DEF TypeInv
<1>2. PICK row : row = [users[u] EXCEPT !.verified = TRUE]
  BY Zenon
<1>3. /\ row \in UserRow /\ row.verified = TRUE /\ row.username = users[u].username
      /\ row.email = users[u].email /\ row.phone = users[u].phone
  BY <1>1, <1>2, Zenon DEF UserRow
<1>4. \A f \in 1..3 : row[Fields[f]] = users[u][Fields[f]]
  <2>1. Fields[1] = "username" /\ Fields[2] = "email" /\ Fields[3] = "phone"
    BY DEF Fields
  <2>. QED  BY <1>3, <2>1
<1>5. VerifiedUser(u) = [users EXCEPT ![u] = row]
  BY <1>2 DEF VerifiedUser
<1>6. /\ VerifiedUser(u) \in Seq(UserRow) /\ Len(VerifiedUser(u)) = Len(users)
      /\ \A v \in 1..Len(users) : VerifiedUser(u)[v] = IF v = u THEN row ELSE users[v]
  BY <1>1, <1>3, <1>5
<1>. QED
  BY <1>3, <1>4, <1>6

\* What a commit that inserts nothing keeps.
LEMMA NothingInserted ==
  ASSUME IInv, RowsOnlyGrow, Len(codes') = Len(codes), Len(users') = Len(users),
         outbox' = outbox, \A u \in 1..Len(users) : users'[u].email = users[u].email
  PROVE  UnusedIsNewest' /\ JobsMatchCodes'
<1>1. TypeInv /\ UnusedIsNewest /\ JobsMatchCodes /\ Len(codes) \in Nat
  BY Tables DEF IInv
<1>2. UnusedIsNewest'
  BY <1>1 DEF UnusedIsNewest, RowsOnlyGrow
<1>3. ASSUME NEW c \in 1..Len(codes)
      PROVE  [user |-> codes'[c].user, to |-> users'[codes'[c].user].email,
              code |-> codes'[c].value, row |-> c] \in outbox
  <2>1. /\ codes'[c].user = codes[c].user /\ codes'[c].value = codes[c].value
        /\ users'[codes[c].user].email = users[codes[c].user].email
    BY <1>1, CodeFields DEF RowsOnlyGrow
  <2>. QED  BY <1>1, <2>1 DEF JobsMatchCodes
<1>4. \A m \in outbox : m.row \in 1..Len(codes') /\ m.user = codes'[m.row].user
  BY <1>1 DEF JobsMatchCodes, RowsOnlyGrow
<1>5. \A u \in 1..Len(users') :
        users'[u].email # None => \E c \in 1..Len(codes') : codes'[c].user = u
  BY <1>1 DEF JobsMatchCodes, RowsOnlyGrow
<1>. QED
  BY <1>2, <1>3, <1>4, <1>5 DEF JobsMatchCodes

\* The codes that other handlers hold, when only code c is updated.
LEMMA HeldRows ==
  ASSUME IInv, NEW t \in Tasks, NEW c, CodeFree(t, c), Len(codes') = Len(codes),
         \A d \in 1..Len(codes) : d # c => codes'[d] = codes[d]
  PROVE  \A o \in Tasks \ {t} : LeavesAlone(task[o])
<1>1. SUFFICES ASSUME NEW o \in Tasks \ {t} PROVE LeavesAlone(task[o])
  OBVIOUS
<1>2. LocalOK(task[o]) /\ Len(codes) \in Nat
  BY Tables DEF IInv
<1>3. task[o].pc \in {"marked", "superseded"} /\ task[o].code # 0 =>
        task[o].code \in 1..Len(codes) /\ task[o].code # c
  BY <1>2 DEF LocalOK, CodeFree
<1>. QED
  BY <1>2, <1>3 DEF LeavesAlone

\* A wrong answer uses up a try of an unused code nobody holds.
LEMMA IncrementAttemptsStep ==
  ASSUME IInv, NEW t \in Tasks, IncrementAttempts(t)
  PROVE  IInv'
<1>. DEFINE c == task[t].code
<1>1. /\ TypeInv /\ LocalOK(task[t]) /\ AttemptsAreBounded
      /\ Len(codes) \in Nat /\ Len(users) \in Nat
  BY Tables DEF IInv
<1>2. /\ task[t].pc = "wrong_code" /\ CodeFree(t, c) /\ Become(t, Idle)
      /\ UNCHANGED <<now, users, outbox>>
  BY DEF IncrementAttempts, At
<1>3. CASE ~Acceptable(c, task[t].at)
  BY <1>2, <1>3, GoesIdle DEF IncrementAttempts
<1>4. CASE Acceptable(c, task[t].at)
  <2>1. c \in 1..Len(codes)
    BY <1>1, <1>2 DEF LocalOK, Verifying
  <2>2. codes' = MissedCode(c)
    BY <1>4 DEF IncrementAttempts, MissedCode
  <2>3. /\ codes' \in Seq(CodeRow) /\ Len(codes') = Len(codes)
        /\ codes'[c].attempts = codes[c].attempts + 1
        /\ codes'[c].used = codes[c].used /\ codes'[c].user = codes[c].user
        /\ codes'[c].value = codes[c].value
        /\ \A d \in 1..Len(codes) : d # c => codes'[d] = codes[d]
    BY <1>1, <2>1, <2>2, CodeMissed, ZenonT(60)
  <2>4. RowsOnlyGrow
    BY <1>1, <1>2, <2>3 DEF RowsOnlyGrow
  <2>5. TypeInv'
    <3>1. task' \in [Tasks -> Local]
      BY <1>1, <1>2, BecomeValue, IdleIsOK, SMTT(60)
    <3>. QED  BY <1>1, <1>2, <2>3, <3>1, Zenon DEF TypeInv
  <2>6. \A o \in Tasks \ {t} : LeavesAlone(task[o])
    BY <1>2, <2>3, HeldRows, SMTT(60)
  <2>7. AttemptsAreBounded'
    <3>1. codes[c].attempts \in Nat /\ codes[c].attempts < MaxCodeAttempts
      BY <1>1, <1>4, <2>1, CodeFields DEF Acceptable
    <3>. QED  BY <1>1, <2>3, <3>1, AccountsAssumption DEF AttemptsAreBounded
  <2>8. KeysAreHeld' /\ RowsAreUnique' /\ RoomIsKept'
    BY <1>2, KeysKept, SMTT(60)
  <2>9. UnusedIsNewest' /\ JobsMatchCodes'
    BY <1>2, <2>3, <2>4, NothingInserted
  <2>10. (\A o \in Tasks : LocalOK(task[o])') /\ LocksAreExclusive'
    BY <1>2, <2>4, <2>5, <2>6, CommitStep, SMTT(60)
  <2>. QED  BY <2>5, <2>7, <2>8, <2>9, <2>10, ZenonT(60) DEF IInv
<1>. QED
  BY <1>3, <1>4

\* What VerifyCommit does: its code, unused and with a try left, is the one
\* that is now used, and its account is verified.
LEMMA VerifyCommitEffect ==
  ASSUME IInv, NEW t \in Tasks, VerifyCommit(t),
         NEW c, c = task[t].code, NEW u, u = task[t].user
  PROVE  /\ c \in 1..Len(codes) /\ u \in 1..Len(users)
         /\ codes[c].user = u /\ codes[c].value = task[t].value
         /\ Acceptable(c, task[t].at)
         /\ codes' = UsedCode(c) /\ users' = VerifiedUser(u) /\ outbox' = outbox
<1>1. TypeInv /\ LocalOK(task[t]) /\ Len(codes) \in Nat /\ Len(users) \in Nat
  BY Tables DEF IInv
<1>2. task[t].pc = "marked"
  BY DEF VerifyCommit, At
<1>3. /\ c # 0 /\ c \in 0..Len(codes) /\ u # 0 /\ u \in 0..Len(users)
      /\ codes[c].user = u /\ codes[c].value = task[t].value
      /\ Acceptable(c, task[t].at)
  BY <1>1, <1>2 DEF LocalOK, Verifying
<1>4. codes' = UsedCode(c) /\ users' = VerifiedUser(u) /\ outbox' = outbox
  BY DEF VerifyCommit, UsedCode, VerifiedUser
<1>. QED
  BY <1>1, <1>3, <1>4

\* It keeps the invariant.
LEMMA VerifyCommitStep ==
  ASSUME IInv, NEW t \in Tasks, VerifyCommit(t)
  PROVE  IInv'
<1>1. PICK c, u : c = task[t].code /\ u = task[t].user
  OBVIOUS
<1>2. /\ TypeInv /\ AttemptsAreBounded /\ LocksAreExclusive
      /\ Len(codes) \in Nat /\ Len(users) \in Nat
  BY Tables DEF IInv
<1>3. /\ c \in 1..Len(codes) /\ u \in 1..Len(users)
      /\ codes' = UsedCode(c) /\ users' = VerifiedUser(u) /\ outbox' = outbox
  BY <1>1, VerifyCommitEffect
<1>4. task[t].pc = "marked" /\ Become(t, Idle) /\ now' = now
  BY DEF VerifyCommit, At
<1>5. /\ codes' \in Seq(CodeRow) /\ Len(codes') = Len(codes)
      /\ codes'[c].used /\ codes'[c].user = codes[c].user
      /\ codes'[c].value = codes[c].value
      /\ \A d \in 1..Len(codes) : d # c => codes'[d] = codes[d]
  BY <1>2, <1>3, CodeUsed
<1>6. /\ users' \in Seq(UserRow) /\ Len(users') = Len(users)
      /\ \A v \in 1..Len(users), f \in 1..3 : users'[v][Fields[f]] = users[v][Fields[f]]
      /\ \A v \in 1..Len(users) : users'[v].email = users[v].email
  BY <1>2, <1>3, UserVerified, Zenon
<1>7. RowsOnlyGrow
  BY <1>2, <1>5, <1>6 DEF RowsOnlyGrow
<1>8. TypeInv'
  <2>1. task' \in [Tasks -> Local]
    BY <1>2, <1>4, BecomeValue, IdleIsOK, SMTT(60)
  <2>. QED  BY <1>2, <1>4, <1>5, <1>6, <2>1, ZenonT(60) DEF TypeInv
<1>9. CodeFree(t, c)
  BY <1>1, <1>2, <1>3, <1>4, SMTT(60) DEF CodeFree, LocksAreExclusive
<1>10. \A o \in Tasks \ {t} : LeavesAlone(task[o])
  BY <1>5, <1>9, HeldRows
<1>11. AttemptsAreBounded'
  <2>1. codes'[c].attempts = codes[c].attempts
    BY <1>2, <1>3, CodeUsed
  <2>. QED  BY <1>2, <1>5, <2>1 DEF AttemptsAreBounded
<1>12. KeysAreHeld' /\ RowsAreUnique' /\ RoomIsKept'
  BY <1>4, <1>6, KeysKept
<1>13. UnusedIsNewest' /\ JobsMatchCodes'
  BY <1>3, <1>5, <1>6, <1>7, NothingInserted
<1>14. (\A o \in Tasks : LocalOK(task[o])') /\ LocksAreExclusive'
  BY <1>4, <1>7, <1>8, <1>10, CommitStep
<1>. QED
  BY <1>8, <1>11, <1>12, <1>13, <1>14 DEF IInv
-----------------------------------------------------------------------------
\* Account u has the new code n, and every other code of it is used.
Issues(u, value, n) ==
  /\ codes' \in Seq(CodeRow) /\ Len(codes') = n /\ n = Len(codes) + 1
  /\ codes'[n].user = u /\ codes'[n].value = value
  /\ codes'[n].used = FALSE /\ codes'[n].attempts = 0
  /\ \A d \in 1..Len(codes) :
       /\ codes'[d].user = codes[d].user /\ codes'[d].value = codes[d].value
       /\ codes'[d].attempts = codes[d].attempts
       /\ codes[d].user = u => codes'[d].used
       /\ codes[d].user # u => codes'[d] = codes[d]

\* The new code is the newest of its account, the only one unused, and it is
\* mailed.
LEMMA IssueKeeps ==
  ASSUME IInv, NEW u \in Nat, NEW value, NEW n, Issues(u, value, n),
         \A v \in 1..Len(users) : users'[v].email = users[v].email,
         \A v \in 1..Len(users') : v \in 1..Len(users) \/ v = u,
         outbox' = outbox \cup {Mail(u, users'[u].email, value)}
  PROVE  /\ UnusedIsNewest' /\ AttemptsAreBounded' /\ JobsMatchCodes'
         /\ \A d \in 1..n : d \in 1..Len(codes) \/ d = n
<1>1. /\ TypeInv /\ UnusedIsNewest /\ AttemptsAreBounded /\ JobsMatchCodes
      /\ Len(codes) \in Nat
  BY Tables DEF IInv
<1>2. /\ Len(codes') = n /\ n = Len(codes) + 1
      /\ codes'[n].user = u /\ codes'[n].value = value
      /\ codes'[n].used = FALSE /\ codes'[n].attempts = 0
      /\ \A d \in 1..Len(codes) :
           /\ codes'[d].user = codes[d].user /\ codes'[d].value = codes[d].value
           /\ codes'[d].attempts = codes[d].attempts
           /\ codes[d].user = u => codes'[d].used
           /\ codes[d].user # u => codes'[d] = codes[d]
  BY DEF Issues
<1>3. \A d \in 1..n : d \in 1..Len(codes) \/ d = n
  BY <1>1, <1>2
<1>4. AttemptsAreBounded'
  <2>1. \A d \in 1..n : codes'[d].attempts <= MaxCodeAttempts
    BY <1>1, <1>2, <1>3, AccountsAssumption DEF AttemptsAreBounded
  <2>. QED  BY <1>2, <2>1, SMTT(60) DEF AttemptsAreBounded
<1>5. UnusedIsNewest'
  <2>1. SUFFICES ASSUME NEW c \in 1..n, NEW d \in 1..n,
                        ~codes'[c].used, codes'[c].user = codes'[d].user
                 PROVE  d <= c
    BY <1>2 DEF UnusedIsNewest
  <2>2. CASE c = n
    BY <1>1, <1>2, <2>2
  <2>3. CASE c \in 1..Len(codes)
    <3>1. ~codes[c].used /\ codes[c].user # u /\ codes'[c].user = codes[c].user
      BY <1>2, <2>1, <2>3
    <3>2. d \in 1..Len(codes)
      BY <1>2, <1>3, <2>1, <3>1, ZenonT(60)
    <3>. QED  BY <1>1, <1>2, <2>1, <2>3, <3>1, <3>2, ZenonT(60) DEF UnusedIsNewest
  <2>. QED  BY <1>3, <2>2, <2>3, SMTT(60)
<1>6. JobsMatchCodes'
  <2>1. Mail(u, users'[u].email, value) =
          [user |-> u, to |-> users'[u].email, code |-> value, row |-> n]
    BY <1>2 DEF Mail
  <2>2. ASSUME NEW c \in 1..n
        PROVE  [user |-> codes'[c].user, to |-> users'[codes'[c].user].email,
                code |-> codes'[c].value, row |-> c] \in outbox'
    <3>1. CASE c = n
      BY <1>2, <2>1, <3>1, ZenonT(60)
    <3>2. CASE c \in 1..Len(codes)
      <4>1. /\ codes'[c].user = codes[c].user /\ codes'[c].value = codes[c].value
            /\ users'[codes[c].user].email = users[codes[c].user].email
        BY <1>1, <1>2, <3>2, CodeFields, ZenonT(60)
      <4>2. [user |-> codes[c].user, to |-> users[codes[c].user].email,
             code |-> codes[c].value, row |-> c] \in outbox
        BY <1>1, <3>2, SMTT(60) DEF JobsMatchCodes
      <4>. QED  BY <4>1, <4>2
    <3>. QED  BY <1>3, <3>1, <3>2, SMTT(60)
  <2>3. ASSUME NEW m \in outbox' PROVE m.row \in 1..n /\ m.user = codes'[m.row].user
    <3>1. CASE m \in outbox
      BY <1>1, <1>2, <3>1, SMTT(60) DEF JobsMatchCodes
    <3>2. CASE m = Mail(u, users'[u].email, value)
      BY <1>1, <1>2, <2>1, <3>2, SMTT(60)
    <3>. QED  BY <2>3, <3>1, <3>2, ZenonT(60)
  <2>4. ASSUME NEW v \in 1..Len(users'), users'[v].email # None
        PROVE  \E c \in 1..n : codes'[c].user = v
    <3>1. CASE v = u
      <4>1. n \in 1..n
        BY <1>1, <1>2
      <4>. QED  BY <1>2, <3>1, <4>1
    <3>2. CASE v \in 1..Len(users)
      <4>1. PICK c \in 1..Len(codes) : codes[c].user = v
        BY <1>1, <2>4, <3>2 DEF JobsMatchCodes
      <4>. QED  BY <1>1, <1>2, <4>1, SMTT(60)
    <3>. QED  BY <2>4, <3>1, <3>2
  <2>. QED  BY <1>2, <2>2, <2>3, <2>4, ZenonT(60) DEF JobsMatchCodes
<1>. QED
  BY <1>3, <1>4, <1>5, <1>6

\* That is what ResendCommit does, and the row it updates is the one it holds.
LEMMA ResendCommitEffect ==
  ASSUME IInv, NEW t \in Tasks, NEW value \in CodeValues, ResendCommit(t, value)
  PROVE  /\ task[t].user \in 1..Len(users)
         /\ Issues(task[t].user, value, Len(codes) + 1)
         /\ \A d \in 1..Len(codes) : d # task[t].code => codes'[d] = codes[d]
<1>1. PICK u, n : u = task[t].user /\ n = Len(codes) + 1
  OBVIOUS
<1>. DEFINE c == task[t].code
            base == IF c = 0 THEN codes ELSE UsedCode(c)
            new == NewCode(u, value, task[t].at)
<1>2. /\ TypeInv /\ LocalOK(task[t]) /\ task[t] \in Local
      /\ Len(codes) \in Nat /\ Len(users) \in Nat
  BY Tables, Zenon DEF IInv, TypeInv
<1>3. task[t].pc = "superseded" /\ codes' = Append(base, new)
  BY <1>1, SMTT(60) DEF ResendCommit, At, UsedCode
<1>4. /\ u \in 1..Len(users) /\ UnusedOf(u) \subseteq {c} /\ c \in 0..Len(codes)
      /\ c # 0 => codes[c].user = u
  BY <1>1, <1>2, <1>3, SMTT(60) DEF LocalOK, Locking
<1>5. /\ new \in CodeRow /\ new.user = u /\ new.value = value
      /\ new.used = FALSE /\ new.attempts = 0
  <2>1. u \in Nat /\ task[t].at \in Nat
    BY <1>2, <1>4, LocalFields
  <2>2. new \in CodeRow
    BY <2>1, NewCodeFields, Zenon
  <2>. QED  BY <2>2 DEF NewCode
<1>6. \A d \in 1..Len(codes) : codes[d].user = u /\ d # c => codes[d].used
  BY <1>2, <1>4, UnusedOfDef, ZenonT(60)
<1>7. /\ base \in Seq(CodeRow) /\ Len(base) = Len(codes)
      /\ \A d \in 1..Len(codes) :
           /\ base[d].user = codes[d].user /\ base[d].value = codes[d].value
           /\ base[d].attempts = codes[d].attempts
           /\ codes[d].user = u => base[d].used
           /\ d # c => base[d] = codes[d]
  <2>1. CASE c = 0
    <3>1. base = codes
      BY <2>1, Zenon
    <3>2. \A d \in 1..Len(codes) : d # c
      <4>. HIDE DEF c
      <4>. QED  BY <2>1
    <3>. QED  BY <1>2, <1>6, <3>1, <3>2, Zenon DEF TypeInv
  <2>2. CASE c # 0
    <3>1. c \in 1..Len(codes)
      BY <1>2, <1>4, <2>2
    <3>2. base = UsedCode(c)
      BY <2>2
    <3>3. /\ base \in Seq(CodeRow) /\ Len(base) = Len(codes)
          /\ base[c].used /\ base[c].user = codes[c].user
          /\ base[c].value = codes[c].value /\ base[c].attempts = codes[c].attempts
          /\ \A d \in 1..Len(codes) : d # c => base[d] = codes[d]
      BY <1>2, <3>1, <3>2, CodeUsed, ZenonT(60)
    <3>. QED  BY <1>6, <3>3, Zenon
  <2>. QED  BY <2>1, <2>2
<1>8. /\ codes' \in Seq(CodeRow) /\ Len(codes') = n /\ codes'[n] = new
      /\ \A d \in 1..Len(codes) : codes'[d] = base[d]
  BY <1>1, <1>3, <1>5, <1>7
<1>9. \A d \in 1..Len(codes) : codes[d].user # u => d # c
  <2>1. ASSUME NEW d \in 1..Len(codes), d = c PROVE codes[d].user = u
    <3>1. c # 0
      BY <1>2, <2>1
    <3>. QED  BY <1>4, <2>1, <3>1, ZenonT(60)
  <2>. QED  BY <2>1, Zenon
<1>10. Issues(u, value, n)
  <2>. HIDE DEF base, new, c
  <2>1. /\ codes'[n].user = u /\ codes'[n].value = value
        /\ codes'[n].used = FALSE /\ codes'[n].attempts = 0
    BY <1>5, <1>8, Zenon
  <2>2. ASSUME NEW d \in 1..Len(codes)
        PROVE  /\ codes'[d].user = codes[d].user /\ codes'[d].value = codes[d].value
               /\ codes'[d].attempts = codes[d].attempts
               /\ codes[d].user = u => codes'[d].used
               /\ codes[d].user # u => codes'[d] = codes[d]
    <3>1. codes'[d] = base[d]
      BY <1>8, ZenonT(60)
    <3>. QED  BY <1>7, <1>9, <3>1, Zenon
  <2>. QED  BY <1>1, <1>8, <2>1, <2>2, Zenon DEF Issues
<1>. QED
  BY <1>1, <1>4, <1>7, <1>8, <1>10, ZenonT(60)

\* It keeps the invariant.
LEMMA ResendCommitStep ==
  ASSUME IInv, NEW t \in Tasks, NEW value \in CodeValues, ResendCommit(t, value)
  PROVE  IInv'
<1>1. PICK u, n : u = task[t].user /\ n = Len(codes) + 1
  OBVIOUS
<1>2. /\ TypeInv /\ LocksAreExclusive /\ (\A o \in Tasks : LocalOK(task[o]))
      /\ Len(codes) \in Nat /\ Len(users) \in Nat
  BY Tables DEF IInv
<1>3. /\ u \in 1..Len(users)
      /\ codes' \in Seq(CodeRow) /\ Len(codes') = n
      /\ codes'[n].user = u /\ codes'[n].value = value
      /\ codes'[n].used = FALSE /\ codes'[n].attempts = 0
      /\ \A d \in 1..Len(codes) :
           /\ codes'[d].user = codes[d].user /\ codes'[d].value = codes[d].value
           /\ codes'[d].attempts = codes[d].attempts
           /\ codes[d].user = u => codes'[d].used
           /\ codes[d].user # u \/ d # task[t].code => codes'[d] = codes[d]
  <2>1. Issues(u, value, n) /\ u \in 1..Len(users)
    BY <1>1, ResendCommitEffect
  <2>2. \A d \in 1..Len(codes) : d # task[t].code => codes'[d] = codes[d]
    BY ResendCommitEffect
  <2>. QED  BY <2>1, <2>2 DEF Issues
<1>4. /\ task[t].pc = "superseded" /\ Become(t, Idle) /\ UNCHANGED <<now, users>>
      /\ outbox' = outbox \cup {Mail(u, users[u].email, value)}
  BY <1>1 DEF ResendCommit, At
<1>5. \A d \in 1..Len(codes) : codes[d].used => codes'[d].used
  BY <1>3
<1>6. RowsOnlyGrow
  <2>1. /\ Len(users') \in Nat /\ Len(codes') \in Nat
        /\ Len(users) <= Len(users') /\ Len(codes) <= Len(codes')
    <3>1. users' = users /\ Len(codes') = n
      BY <1>3, <1>4, ZenonT(60)
    <3>. QED  BY <1>1, <1>2, <3>1
  <2>. QED  BY <1>3, <1>5, <2>1, Zenon DEF RowsOnlyGrow
<1>7. /\ UnusedIsNewest' /\ AttemptsAreBounded' /\ JobsMatchCodes'
      /\ \A d \in 1..n : d \in 1..Len(codes) \/ d = n
  <2>1. u \in Nat /\ Issues(u, value, n)
    <3>1. Issues(u, value, n) /\ u \in 1..Len(users)
      BY <1>1, ResendCommitEffect, Zenon
    <3>. QED  BY <1>2, <3>1
  <2>. QED  BY <1>4, <2>1, IssueKeeps
<1>8. TypeInv'
  <2>1. task' \in [Tasks -> Local]
    BY <1>2, <1>4, BecomeValue, IdleIsOK, ZenonT(60)
  <2>2. \A d \in 1..n : codes'[d].user \in 1..Len(users)
    BY <1>2, <1>3, <1>7, ZenonT(60) DEF TypeInv
  <2>. QED  BY <1>2, <1>3, <1>4, <2>1, <2>2, ZenonT(60) DEF TypeInv
<1>9. ASSUME NEW o \in Tasks \ {t} PROVE LeavesAlone(task[o])
  <2>1. task[o].pc \in {"marked", "superseded"} /\ task[o].code # 0 =>
          codes'[task[o].code] = codes[task[o].code]
    <3>1. task[o].pc \in {"marked", "superseded"} /\ task[o].code # 0 =>
            task[o].code \in 1..Len(codes) /\ task[o].code # task[t].code
      BY <1>2, <1>4 DEF LocalOK, LocksAreExclusive
    <3>. QED  BY <1>3, <3>1, ZenonT(60)
  <2>2. task[o].pc \in {"superseding", "superseded"} => task[o].user # u
    BY <1>1, <1>2, <1>4, ZenonT(60) DEF LocksAreExclusive, Locking
  <2>. QED  BY <1>1, <1>2, <1>3, <2>1, <2>2, SMTT(60) DEF LeavesAlone
<1>10. KeysAreHeld' /\ RowsAreUnique' /\ RoomIsKept'
  BY <1>4, KeysKept, SMTT(60)
<1>11. (\A o \in Tasks : LocalOK(task[o])') /\ LocksAreExclusive'
  BY <1>4, <1>6, <1>8, <1>9, CommitStep, ZenonT(60)
<1>. QED
  BY <1>7, <1>8, <1>10, <1>11 DEF IInv

\* The account that SignUpCommit inserts.
LEMMA SignUpCommitUsers ==
  ASSUME IInv, NEW t \in Tasks, NEW value \in CodeValues, SignUpCommit(t, value)
  PROVE  /\ users' \in Seq(UserRow) /\ Len(users') = Len(users) + 1
         /\ \A v \in 1..Len(users) : users'[v] = users[v]
         /\ \A f \in 1..3 : users'[Len(users) + 1][Fields[f]] = task[t].input[Fields[f]]
         /\ users'[Len(users) + 1].email = task[t].input.email
         /\ users'[Len(users) + 1].verified = FALSE
<1>. DEFINE input == task[t].input
<1>1. TypeInv /\ users \in Seq(UserRow) /\ input \in Inputs
  BY LocalFields DEF IInv, TypeInv
<1>2. PICK row : row = [username |-> input.username, email |-> input.email,
                        phone |-> input.phone, verified |-> FALSE]
  BY Zenon
<1>3. users' = Append(users, row)
  BY <1>2, ZenonT(60) DEF SignUpCommit, InsertUser
<1>4. row \in UserRow
  BY <1>1, <1>2, SMTT(60) DEF UserRow
<1>5. /\ users' \in Seq(UserRow) /\ Len(users') = Len(users) + 1
      /\ \A v \in 1..Len(users) : users'[v] = users[v]
      /\ users'[Len(users) + 1] = row
  BY <1>1, <1>3, <1>4
<1>6. /\ row.username = input.username /\ row.email = input.email
      /\ row.phone = input.phone /\ row.verified = FALSE
  BY <1>2
<1>7. \A f \in 1..3 : row[Fields[f]] = input[Fields[f]]
  <2>1. Fields[1] = "username" /\ Fields[2] = "email" /\ Fields[3] = "phone"
    BY DEF Fields
  <2>. QED  BY <1>6, <2>1
<1>. QED
  BY <1>5, <1>6, <1>7

\* Its keys are those the handler entered: they are in no other row, and no
\* other handler has entered them.
LEMMA SignUpCommitKeys ==
  ASSUME IInv, NEW t \in Tasks, NEW value \in CodeValues, SignUpCommit(t, value)
  PROVE  KeysAreHeld' /\ RowsAreUnique' /\ RoomIsKept'
<1>. DEFINE input == task[t].input
<1>1. /\ TypeInv /\ KeysAreHeld /\ RowsAreUnique /\ RoomIsKept
      /\ Len(users) \in Nat /\ MaxUsers \in Nat
  BY Tables, AccountsAssumption DEF IInv
<1>2. PICK n : n = Len(users) + 1
  OBVIOUS
<1>3. /\ Len(users') = n /\ (\A v \in 1..Len(users) : users'[v] = users[v])
      /\ \A f \in 1..3 : users'[n][Fields[f]] = input[Fields[f]]
  BY <1>2, SignUpCommitUsers, ZenonT(60)
<1>4. task[t].pc = "inserted" /\ Become(t, Idle)
  BY DEF SignUpCommit, At, InsertUser
<1>5. /\ task'[t] = Idle /\ Idle.pc = "idle"
      /\ \A o \in Tasks : o # t => task'[o] = task[o]
  BY <1>1, <1>4, BecomeValue, IdleIsOK
<1>6. \A v \in 1..n : v \in 1..Len(users) \/ v = n
  BY <1>1, <1>2
<1>7. \A f \in 1..3 : HoldsKey(t, f)
  BY <1>4 DEF HoldsKey
<1>8. \A o \in Tasks, f \in 1..3 : HoldsKey(o, f)' => o # t /\ HoldsKey(o, f)
  BY <1>5, Zenon DEF HoldsKey
<1>9. KeysAreHeld'
  <2>1. SUFFICES ASSUME NEW o \in Tasks, NEW f \in 1..3, HoldsKey(o, f)'
                 PROVE  /\ KeyFree(o, f)'
                        /\ \A v \in 1..Len(users') :
                             ~SameKey(Fields[f], users'[v][Fields[f]],
                                      task'[o].input[Fields[f]])
    BY DEF KeysAreHeld
  <2>2. HoldsKey(o, f) /\ o # t /\ task'[o] = task[o]
    BY <1>5, <1>8, <2>1, ZenonT(60)
  <2>3. /\ KeyFree(o, f)
        /\ \A v \in 1..Len(users) :
             ~SameKey(Fields[f], users[v][Fields[f]], task[o].input[Fields[f]])
    BY <1>1, <2>2, ZenonT(60) DEF KeysAreHeld
  <2>4. KeyFree(o, f)'
    BY <1>5, <1>8, <2>2, <2>3, ZenonT(60) DEF KeyFree
  <2>5. ~SameKey(Fields[f], input[Fields[f]], task[o].input[Fields[f]])
    BY <1>7, <2>2, <2>3 DEF KeyFree
  <2>6. ASSUME NEW v \in 1..n
        PROVE  ~SameKey(Fields[f], users'[v][Fields[f]], task'[o].input[Fields[f]])
    <3>1. CASE v \in 1..Len(users)
      BY <1>3, <2>2, <2>3, <3>1, Zenon
    <3>2. CASE v = n
      BY <1>3, <2>2, <2>5, <3>2, Zenon
    <3>. QED  BY <1>6, <3>1, <3>2, Zenon
  <2>. QED  BY <1>3, <2>4, <2>6, ZenonT(60)
<1>10. RowsAreUnique'
  <2>1. SUFFICES ASSUME NEW u \in 1..n, NEW v \in 1..n, NEW f \in 1..3,
                        SameKey(Fields[f], users'[u][Fields[f]], users'[v][Fields[f]])
                 PROVE  u = v
    BY <1>3, ZenonT(60) DEF RowsAreUnique
  <2>2. \A w \in 1..Len(users) :
          ~SameKey(Fields[f], users[w][Fields[f]], input[Fields[f]])
    BY <1>1, <1>7, ZenonT(60) DEF KeysAreHeld
  <2>3. CASE u \in 1..Len(users) /\ v \in 1..Len(users)
    BY <1>1, <1>3, <2>1, <2>3, ZenonT(60) DEF RowsAreUnique
  <2>4. CASE u \in 1..Len(users) /\ v = n
    BY <1>3, <2>1, <2>2, <2>4, ZenonT(60)
  <2>5. CASE u = n /\ v \in 1..Len(users)
    <3>1. SameKey(Fields[f], input[Fields[f]], users[v][Fields[f]])
      BY <1>3, <2>1, <2>5, SMTT(60)
    <3>. QED  BY <2>2, <2>5, <3>1, SameKeySymmetric, ZenonT(60)
  <2>. QED  BY <1>6, <2>3, <2>4, <2>5, ZenonT(60)
<1>11. RoomIsKept'
  <2>1. task[t].pc \in SignUpPcs /\ Idle.pc \notin SignUpPcs
    BY <1>4, <1>5 DEF SignUpPcs
  <2>2. /\ Cardinality(SigningUp') + 1 = Cardinality(SigningUp)
        /\ Cardinality(SigningUp') \in Nat
    BY <1>1, <1>4, <2>1, SigningUpNext
  <2>. QED  BY <1>1, <1>2, <1>3, <2>2, SMTT(60) DEF RoomIsKept
<1>. QED
  BY <1>9, <1>10, <1>11

\* The code that SignUpCommit issues to an account with an address.
LEMMA SignUpCommitCodes ==
  ASSUME IInv, NEW t \in Tasks, NEW value \in CodeValues, SignUpCommit(t, value),
         task[t].input.email # None
  PROVE  Issues(Len(users) + 1, value, Len(codes) + 1)
<1>1. PICK u, n : u = Len(users) + 1 /\ n = Len(codes) + 1
  OBVIOUS
<1>2. /\ TypeInv /\ codes \in Seq(CodeRow) /\ now \in Nat
      /\ Len(codes) \in Nat /\ Len(users) \in Nat
  BY Tables DEF IInv, TypeInv
<1>3. PICK new : new = NewCode(u, value, now)
  OBVIOUS
<1>4. codes' = Append(codes, new)
  BY <1>1, <1>3 DEF SignUpCommit
<1>5. new \in CodeRow
  <2>1. u \in Nat
    BY <1>1, <1>2
  <2>. QED  BY <1>2, <1>3, <2>1, NewCodeFields, Zenon
<1>6. /\ new.user = u /\ new.value = value /\ new.used = FALSE /\ new.attempts = 0
  BY <1>3 DEF NewCode
<1>7. /\ codes' \in Seq(CodeRow) /\ Len(codes') = n /\ codes'[n] = new
      /\ \A d \in 1..Len(codes) : codes'[d] = codes[d]
  BY <1>1, <1>2, <1>4, <1>5, SMTT(60)
<1>8. \A d \in 1..Len(codes) : codes[d].user # u
  BY <1>1, <1>2, CodeFields, SMTT(60)
<1>9. Issues(u, value, n)
  BY <1>1, <1>6, <1>7, <1>8 DEF Issues
<1>. QED
  BY <1>1, <1>9

\* It keeps the invariant.
LEMMA SignUpCommitStep ==
  ASSUME IInv, NEW t \in Tasks, NEW value \in CodeValues, SignUpCommit(t, value)
  PROVE  IInv'
<1>. DEFINE email == task[t].input.email
<1>1. PICK u, n : u = Len(users) + 1 /\ n = Len(codes) + 1
  OBVIOUS
<1>2. /\ TypeInv /\ UnusedIsNewest /\ AttemptsAreBounded /\ JobsMatchCodes
      /\ \A o \in Tasks : LocalOK(task[o])
  BY DEF IInv
<1>3. Len(codes) \in Nat /\ Len(users) \in Nat /\ u \in Nat
  BY <1>1, <1>2, Tables
<1>4. /\ users' \in Seq(UserRow) /\ Len(users') = u
      /\ (\A v \in 1..Len(users) : users'[v] = users[v])
      /\ users'[u].email = email
  BY <1>1, SignUpCommitUsers, ZenonT(60)
<1>5. Become(t, Idle) /\ now' = now
  BY DEF SignUpCommit, InsertUser
<1>6. \A v \in 1..Len(users') : v \in 1..Len(users) \/ v = u
  BY <1>1, <1>3, <1>4, SMTT(60)
<1>7. task' \in [Tasks -> Local]
  BY <1>2, <1>5, BecomeValue, IdleIsOK
<1>8. KeysAreHeld' /\ RowsAreUnique' /\ RoomIsKept'
  BY SignUpCommitKeys, SMTT(60)
<1>9. CASE email = None
  <2>1. codes' = codes /\ outbox' = outbox
    BY <1>9 DEF SignUpCommit
  <2>2. RowsOnlyGrow
    BY <1>1, <1>3, <1>4, <2>1, SMTT(60) DEF RowsOnlyGrow
  <2>3. TypeInv'
    BY <1>1, <1>2, <1>3, <1>4, <1>5, <1>7, <2>1, SMTT(60) DEF TypeInv
  <2>4. \A o \in Tasks \ {t} : LeavesAlone(task[o])
    BY <1>3, <2>1 DEF LeavesAlone
  <2>5. UnusedIsNewest' /\ AttemptsAreBounded'
    BY <1>2, <2>1 DEF UnusedIsNewest, AttemptsAreBounded
  <2>6. JobsMatchCodes'
    <3>1. ASSUME NEW c \in 1..Len(codes)
          PROVE  [user |-> codes[c].user, to |-> users'[codes[c].user].email,
                  code |-> codes[c].value, row |-> c] \in outbox
      <4>1. users'[codes[c].user] = users[codes[c].user]
        BY <1>2, <1>4, CodeFields, SMTT(60)
      <4>. QED  BY <1>2, <4>1 DEF JobsMatchCodes
    <3>2. \A v \in 1..Len(users') :
            users'[v].email # None => \E c \in 1..Len(codes) : codes[c].user = v
      BY <1>2, <1>4, <1>6, <1>9, SMTT(60) DEF JobsMatchCodes
    <3>. QED  BY <1>2, <2>1, <3>1, <3>2, ZenonT(60) DEF JobsMatchCodes
  <2>7. (\A o \in Tasks : LocalOK(task[o])') /\ LocksAreExclusive'
    BY <1>5, <2>2, <2>3, <2>4, CommitStep, SMTT(60)
  <2>. QED  BY <1>8, <2>3, <2>5, <2>6, <2>7, SMTT(60) DEF IInv
<1>10. CASE email # None
  <2>1. Issues(u, value, n)
    BY <1>1, <1>10, SignUpCommitCodes
  <2>2. outbox' = outbox \cup {Mail(u, users'[u].email, value)}
    BY <1>1, <1>4, <1>10, ZenonT(60) DEF SignUpCommit
  <2>3. /\ UnusedIsNewest' /\ AttemptsAreBounded' /\ JobsMatchCodes'
        /\ \A d \in 1..n : d \in 1..Len(codes) \/ d = n
    <3>1. \A v \in 1..Len(users) : users'[v].email = users[v].email
      BY <1>4
    <3>. QED  BY <1>3, <1>6, <2>1, <2>2, <3>1, IssueKeeps, SMTT(60)
  <2>4. /\ codes' \in Seq(CodeRow) /\ Len(codes') = n /\ codes'[n].user = u
        /\ \A d \in 1..Len(codes) : codes'[d].user = codes[d].user
    BY <2>1 DEF Issues
  <2>5. ASSUME NEW d \in 1..Len(codes) PROVE codes'[d] = codes[d]
    <3>1. codes[d].user # u
      BY <1>1, <1>2, <1>3, CodeFields, SMTT(60)
    <3>. QED  BY <2>1, <3>1 DEF Issues
  <2>6. RowsOnlyGrow
    BY <1>1, <1>3, <1>4, <2>4, <2>5, SMTT(60) DEF RowsOnlyGrow
  <2>7. TypeInv'
    <3>1. \A d \in 1..n : codes'[d].user \in 1..u
      BY <1>1, <1>2, <1>3, <2>3, <2>4, SMTT(60) DEF TypeInv
    <3>. QED  BY <1>2, <1>4, <1>5, <1>7, <2>4, <3>1, SMTT(60) DEF TypeInv
  <2>8. ASSUME NEW o \in Tasks \ {t} PROVE LeavesAlone(task[o])
    <3>1. task[o].user \in 0..Len(users) /\ task[o].code \in 0..Len(codes)
      BY <1>2 DEF LocalOK
    <3>2. task[o].user # u
      BY <1>1, <1>3, <3>1
    <3>3. task[o].code # 0 => codes'[task[o].code] = codes[task[o].code]
      BY <1>3, <2>5, <3>1
    <3>4. \A c \in 1..Len(codes') : Len(codes) < c => codes'[c].user = u
      BY <1>1, <1>3, <2>4, SMTT(60)
    <3>. QED  BY <3>2, <3>3, <3>4, SMTT(60) DEF LeavesAlone
  <2>9. (\A o \in Tasks : LocalOK(task[o])') /\ LocksAreExclusive'
    BY <1>5, <2>6, <2>7, <2>8, CommitStep, SMTT(60)
  <2>. QED  BY <1>8, <2>3, <2>7, <2>9 DEF IInv
<1>. QED
  BY <1>9, <1>10

-----------------------------------------------------------------------------
(***************************************************************************)
(* The theorems.                                                           *)
(***************************************************************************)
\* It holds at the start.
LEMMA InvInit == Init => IInv
<1>. SUFFICES ASSUME Init PROVE IInv
  OBVIOUS
<1>1. /\ now = 0 /\ users = <<>> /\ codes = <<>> /\ outbox = {}
      /\ task = [t \in Tasks |-> Idle]
  BY DEF Init
<1>2. /\ users \in Seq(UserRow) /\ Len(users) = 0
      /\ codes \in Seq(CodeRow) /\ Len(codes) = 0
  BY <1>1
<1>3. /\ Idle.pc = "idle" /\ Idle.input = None /\ Idle.field = 1 /\ Idle.user = 0
      /\ Idle.code = 0 /\ Idle.value = None /\ Idle.at = 0
  BY DEF Idle
<1>4. TypeInv
  <2>1. "idle" \in Pcs
    BY Zenon DEF Pcs
  <2>2. None \in Inputs
    BY DEF Inputs
  <2>3. Idle \in Local
    BY <2>1, <2>2 DEF Idle, Local
  <2>. QED  BY <1>1, <1>2, <2>3 DEF TypeInv
<1>5. \A t \in Tasks : task[t] = Idle
  BY <1>1
<1>6. KeysAreHeld
  BY <1>3, <1>5 DEF KeysAreHeld, HoldsKey
<1>7. \A t \in Tasks : LocalOK(task[t])
  BY <1>4, <1>5, IdleIsOK
<1>8. LocksAreExclusive
  BY <1>3, <1>5, SMTT(60) DEF LocksAreExclusive, Locking
<1>9. RowsAreUnique /\ UnusedIsNewest /\ AttemptsAreBounded /\ JobsMatchCodes
  BY <1>1, <1>2 DEF RowsAreUnique, UnusedIsNewest, AttemptsAreBounded, JobsMatchCodes
<1>10. RoomIsKept
  <2>1. SigningUp = {}
    BY <1>3, <1>5 DEF SigningUp
  <2>2. Cardinality(SigningUp) = 0
    BY <2>1, FS_EmptySet
  <2>. QED  BY <1>2, <2>2, AccountsAssumption DEF RoomIsKept
<1>. QED
  BY <1>4, <1>6, <1>7, <1>8, <1>9, <1>10 DEF IInv

\* Nothing but the clock changes, or nothing at all.
LEMMA StutterStep ==
  ASSUME IInv, now' \in Nat, UNCHANGED <<users, codes, outbox, task>>
  PROVE  IInv'
<1>1. /\ TypeInv /\ KeysAreHeld /\ RowsAreUnique
      /\ \A o \in Tasks : LocalOK(task[o])
      /\ LocksAreExclusive /\ UnusedIsNewest /\ AttemptsAreBounded
      /\ JobsMatchCodes /\ RoomIsKept
  BY DEF IInv
<1>2. TypeInv'
  BY <1>1 DEF TypeInv
<1>3. KeysAreHeld'
  BY <1>1, Zenon DEF KeysAreHeld, HoldsKey, KeyFree
<1>4. RowsAreUnique' /\ LocksAreExclusive' /\ UnusedIsNewest' /\ AttemptsAreBounded'
      /\ JobsMatchCodes'
  <2>1. RowsAreUnique' /\ UnusedIsNewest' /\ AttemptsAreBounded'
    BY <1>1, ZenonT(60) DEF RowsAreUnique, UnusedIsNewest, AttemptsAreBounded
  <2>2. LocksAreExclusive'
    BY <1>1, Zenon DEF LocksAreExclusive
  <2>3. JobsMatchCodes'
    BY <1>1, Zenon DEF JobsMatchCodes
  <2>. QED  BY <2>1, <2>2, <2>3, Zenon
<1>5. \A o \in Tasks : LocalOK(task[o])'
  BY <1>1 DEF LocalOK, Acceptable, UnusedOf
<1>6. RoomIsKept'
  BY <1>1 DEF RoomIsKept, SigningUp
<1>. QED
  BY <1>2, <1>3, <1>4, <1>5, <1>6 DEF IInv

\* Every step keeps the invariant.
LEMMA InvNext == IInv /\ [Next]_vars => IInv'
<1>. SUFFICES ASSUME IInv, [Next]_vars PROVE IInv'
  OBVIOUS
<1>1. CASE Tick \/ UNCHANGED vars
  <2>1. now \in Nat
    BY DEF IInv, TypeInv
  <2>2. now' \in Nat /\ UNCHANGED <<users, codes, outbox, task>>
    BY <1>1, <2>1 DEF Tick, vars
  <2>. QED  BY <2>2, StutterStep
<1>2. ASSUME NEW t \in Tasks, Request(t) PROVE IInv'
  BY <1>2, SignUpStep, VerifyEmailStep, ResendStep DEF Request
<1>3. ASSUME NEW t \in Tasks, Acquire(t) PROVE IInv'
  BY <1>3, InsertKeyStep, FindActiveStep, IncrementAttemptsStep, MarkUsedStep,
     ResendLockStep, SupersedeStep, SMTT(60) DEF Acquire
<1>4. ASSUME NEW t \in Tasks, Advance(t) PROVE IInv'
  BY <1>4, CheckExistsStep, VerifyCommitStep, SupersedeStartStep, SignUpCommitStep,
     ResendCommitStep, SMTT(60) DEF Advance
<1>5. ASSUME NEW t \in Tasks, Rollback(t) PROVE IInv'
  BY <1>5, GoesIdle DEF Rollback
<1>. QED
  BY <1>1, <1>2, <1>3, <1>4, <1>5 DEF Next

\* The inductive invariant holds in every reachable state.
THEOREM Invariance == Spec => []IInv
BY InvInit, InvNext, PTL DEF Spec

\* For any number of handlers, whatever clients send and however stale the
\* replicas are, the unique indexes keep accounts apart: SignUpCommit never
\* inserts a username, an address or a phone number that is taken.
THEOREM Unique == Spec => []UniqueAccounts
<1>1. IInv => UniqueAccounts
  <2>1. DOMAIN Fields = 1..3
    BY SMTT(60) DEF Fields
  <2>. QED  BY <2>1, Tables DEF IInv, RowsAreUnique, UniqueAccounts
<1>. QED
  BY <1>1, Invariance, PTL

\* The two validators agree: a command that sign-up accepts signs in by any
\* one field it has, with the value that sign-up stores.
LEMMA ValidatorsAgree ==
  ASSUME NEW cmd, cmd.username # None, ValidateSignUp(cmd) # None,
         NEW f \in 1..3, ValidateSignUp(cmd)[Fields[f]] # None
  PROVE  ValidateSignIn(Alone(cmd, Fields[f]))
           = [by |-> Fields[f], value |-> ValidateSignUp(cmd)[Fields[f]]]
<1>. DEFINE input == ValidateSignUp(cmd)
            one == Alone(cmd, Fields[f])
<1>1. /\ ValidPassword(cmd.password)
      /\ input.username = Username(cmd.username)
      /\ input.email = IF cmd.email = None THEN None ELSE Email(cmd.email)
      /\ input.phone = IF cmd.phone = None THEN None ELSE Phone(cmd.phone)
      /\ input.username # Invalid /\ input.email # Invalid /\ input.phone # Invalid
  BY ZenonT(60) DEF ValidateSignUp
<1>2. Len(cmd.password) \in 1..MaxPasswordLength
  <2>1. Len(cmd.password) \in MinPasswordLength..MaxPasswordLength
    BY <1>1, ZenonT(60) DEF ValidPassword
  <2>. QED  BY <2>1, AccountsAssumption, SMTT(60)
<1>3. /\ one.password = cmd.password
      /\ one.username = IF Fields[f] = "username" THEN cmd.username ELSE None
      /\ one.email = IF Fields[f] = "email" THEN cmd.email ELSE None
      /\ one.phone = IF Fields[f] = "phone" THEN cmd.phone ELSE None
  BY DEF Alone
<1>4. CASE f = 1
  <2>1. Fields[f] = "username"
    BY <1>4 DEF Fields
  <2>. QED  BY <1>1, <1>2, <1>3, <2>1, ZenonT(60) DEF ValidateSignIn
<1>5. CASE f = 2
  <2>1. Fields[f] = "email" /\ "email" # "username"
    BY <1>5, SMTT(60) DEF Fields
  <2>2. cmd.email # None /\ one.username = None /\ one.email = cmd.email
    BY <1>1, <1>3, <2>1, SMTT(60)
  <2>3. input.email = Email(cmd.email) /\ Email(cmd.email) # Invalid
    BY <1>1, <2>2
  <2>. QED  BY <1>2, <1>3, <2>1, <2>2, <2>3, ZenonT(60) DEF ValidateSignIn
<1>6. CASE f = 3
  <2>1. Fields[f] = "phone" /\ "phone" # "username" /\ "phone" # "email"
    BY <1>6, SMTT(60) DEF Fields
  <2>2. /\ cmd.phone # None /\ one.username = None /\ one.email = None
        /\ one.phone = cmd.phone
    BY <1>1, <1>3, <2>1, SMTT(60)
  <2>3. input.phone = Phone(cmd.phone) /\ Phone(cmd.phone) # Invalid
    BY <1>1, <2>2
  <2>. QED  BY <1>2, <1>3, <2>1, <2>2, <2>3, ZenonT(60) DEF ValidateSignIn
<1>. QED
  BY <1>4, <1>5, <1>6, SMTT(60)

\* Whatever runs beside the sign-up, what a client typed to open an account
\* signs in to that account, by any one of its fields, and to no other.
THEOREM OwnersFind == Spec => []OwnersFindTheirAccounts
<1>1. IInv => OwnersFindTheirAccounts
  <2>. SUFFICES ASSUME IInv, NEW cmd \in Commands, NEW u \in DOMAIN users,
                       NEW f \in DOMAIN Fields,
                       ValidateSignUp(cmd) # None, users[u][Fields[f]] # None,
                       \A g \in DOMAIN Fields :
                         users[u][Fields[g]] = ValidateSignUp(cmd)[Fields[g]]
                PROVE  /\ ValidateSignIn(Alone(cmd, Fields[f]))
                            = [by |-> Fields[f], value |-> ValidateSignUp(cmd)[Fields[f]]]
                       /\ FindBy(Fields[f], ValidateSignUp(cmd)[Fields[f]], Len(users)) = u
    BY ZenonT(60) DEF OwnersFindTheirAccounts
  <2>. DEFINE value == users[u][Fields[f]]
              found == {v \in 1..Len(users) : SameKey(Fields[f], users[v][Fields[f]], value)}
  <2>1. /\ DOMAIN Fields = 1..3 /\ DOMAIN users = 1..Len(users)
        /\ value = ValidateSignUp(cmd)[Fields[f]]
    BY Tables, SMTT(60) DEF IInv, Fields
  <2>2. ValidateSignIn(Alone(cmd, Fields[f])) = [by |-> Fields[f], value |-> value]
    BY <2>1, ValidatorsAgree, AccountsAssumption, ZenonT(60)
  <2>3. u \in found
    BY <2>1, SMTT(60) DEF SameKey
  <2>4. \A v \in found : v = u
    BY <2>1, ZenonT(60) DEF IInv, RowsAreUnique
  <2>5. FindBy(Fields[f], value, Len(users)) = u
    BY <2>3, <2>4 DEF FindBy
  <2>. QED  BY <2>1, <2>2, <2>5
<1>. QED
  BY <1>1, Invariance, PTL

\* An account never has two unused codes: ResendCommit inserts the new one
\* in the transaction that marks the old one, under the account's lock.
THEOREM SingleUnused == Spec => []OneUnusedCode
<1>1. IInv => OneUnusedCode
  <2>. SUFFICES ASSUME IInv, NEW c \in DOMAIN codes, NEW d \in DOMAIN codes,
                       ~codes[c].used, ~codes[d].used, codes[c].user = codes[d].user
                PROVE  c = d
    BY DEF OneUnusedCode
  <2>1. c \in 1..Len(codes) /\ d \in 1..Len(codes)
    BY Tables DEF IInv
  <2>2. c <= d /\ d <= c
    BY <2>1 DEF IInv, UnusedIsNewest
  <2>. QED  BY <2>1, <2>2
<1>. QED
  BY <1>1, Invariance, PTL

\* Every code that may still be typed has its job in the outbox, addressed
\* to its account, and every account with an address has a code.
THEOREM Mailed == Spec => []CodesAreMailed
<1>1. IInv => CodesAreMailed
  BY Tables, Zenon DEF IInv, JobsMatchCodes, CodesAreMailed
<1>. QED
  BY <1>1, Invariance, PTL
-----------------------------------------------------------------------------
(* Only the last mail verifies.                                            *)

\* The steps that neither issue nor end a code, nor count an answer.
Unrelated(t) ==
  \/ Request(t) \/ InsertKey(t) \/ FindActive(t) \/ MarkUsed(t) \/ ResendLock(t)
  \/ Supersede(t) \/ CheckExists(t) \/ SupersedeStart(t) \/ Rollback(t)

\* They leave the tables alone.
LEMMA UnrelatedStep ==
  ASSUME NEW t \in Tasks, Unrelated(t)
  PROVE  UNCHANGED <<users, codes, outbox>>
<1>1. CASE Request(t)
  BY <1>1, ZenonT(60) DEF Request, SignUp, VerifyEmail, Resend
<1>2. CASE InsertKey(t) \/ FindActive(t) \/ MarkUsed(t) \/ ResendLock(t) \/ Supersede(t)
  BY <1>2 DEF InsertKey, FindActive, MarkUsed, ResendLock, Supersede
<1>3. CASE CheckExists(t) \/ SupersedeStart(t) \/ Rollback(t)
  BY <1>3 DEF CheckExists, SupersedeStart, Rollback
<1>. QED
  BY <1>1, <1>2, <1>3 DEF Unrelated

\* The steps, sorted by what they do to accounts and codes.
LEMMA NextCases ==
  ASSUME [Next]_vars
  PROVE  \/ UNCHANGED <<users, codes, outbox>>
         \/ \E t \in Tasks : IncrementAttempts(t) \/ VerifyCommit(t)
         \/ \E t \in Tasks, value \in CodeValues :
              SignUpCommit(t, value) \/ ResendCommit(t, value)
<1>1. CASE Tick \/ UNCHANGED vars
  BY <1>1 DEF Tick, vars
<1>2. CASE Next /\ ~Tick
  <2>1. PICK t \in Tasks : Request(t) \/ Acquire(t) \/ Advance(t) \/ Rollback(t)
    BY <1>2 DEF Next
  <2>2. \/ Unrelated(t) \/ IncrementAttempts(t) \/ VerifyCommit(t)
        \/ \E value \in CodeValues : SignUpCommit(t, value) \/ ResendCommit(t, value)
    BY <2>1 DEF Unrelated, Acquire, Advance
  <2>. QED  BY <2>2, UnrelatedStep
<1>. QED
  BY <1>1, <1>2, SMTT(60)

\* An account becomes verified by VerifyCommit, whose code was unused, hence
\* the newest of the account, hence the one in the last mail to it.
THEOREM LastMail == Spec => OnlyLastMailVerifies
<1>. DEFINE Step(u) == \E t \in Tasks, m \in outbox :
              /\ m.to = users[u].email /\ m.code = task[t].value
              /\ VerifyCommit(t)
              /\ \A other \in outbox : other.user = u => other.row <= m.row
<1>1. ASSUME IInv, [Next]_vars, NEW u \in DOMAIN users,
             ~users[u].verified, users'[u].verified
      PROVE  Step(u)
  <2>1. TypeInv /\ UnusedIsNewest /\ JobsMatchCodes /\ u \in 1..Len(users)
    BY <1>1, Tables DEF IInv
  <2>2. users'[u] # users[u]
    BY <1>1
  <2>3. PICK t \in Tasks : VerifyCommit(t)
    <3>1. CASE \E t \in Tasks : IncrementAttempts(t)
      BY <2>2, <3>1, ZenonT(60) DEF IncrementAttempts
    <3>2. CASE \E t \in Tasks, value \in CodeValues : ResendCommit(t, value)
      BY <2>2, <3>2, ZenonT(60) DEF ResendCommit
    <3>3. ASSUME NEW t \in Tasks, NEW value \in CodeValues, SignUpCommit(t, value)
          PROVE  FALSE
      BY <1>1, <2>1, <2>2, <3>3, SignUpCommitUsers, ZenonT(60)
    <3>. QED  BY <1>1, <2>2, <3>1, <3>2, <3>3, NextCases, SMTT(60)
  <2>4. PICK c, w : c = task[t].code /\ w = task[t].user
    OBVIOUS
  <2>5. /\ c \in 1..Len(codes) /\ w \in 1..Len(users)
        /\ codes[c].user = w /\ codes[c].value = task[t].value
        /\ Acceptable(c, task[t].at) /\ users' = VerifiedUser(w)
    BY <1>1, <2>3, <2>4, VerifyCommitEffect
  <2>6. u = w
    BY <2>1, <2>2, <2>5, UserVerified, ZenonT(60)
  <2>7. PICK m : m = [user |-> u, to |-> users[u].email, code |-> codes[c].value, row |-> c]
    BY ZenonT(60)
  <2>8. m \in outbox /\ m.to = users[u].email /\ m.code = task[t].value /\ m.row = c
    BY <2>1, <2>5, <2>6, <2>7 DEF JobsMatchCodes
  <2>9. ASSUME NEW other \in outbox, other.user = u PROVE other.row <= m.row
    <3>1. other.row \in 1..Len(codes) /\ codes[other.row].user = u
      BY <2>1, <2>9, SMTT(60) DEF JobsMatchCodes
    <3>2. ~codes[c].used
      BY <2>5, ZenonT(60) DEF Acceptable
    <3>. QED  BY <2>1, <2>5, <2>6, <2>8, <3>1, <3>2, ZenonT(60) DEF UnusedIsNewest
  <2>. QED  BY <2>3, <2>8, <2>9
<1>2. IInv /\ [Next]_vars =>
        [\A u \in DOMAIN users : ~users[u].verified /\ users'[u].verified => Step(u)]_vars
  BY <1>1, SMTT(60)
<1>. QED
  BY <1>2, Invariance, PTL DEF Spec, OnlyLastMailVerifies
-----------------------------------------------------------------------------
(* The handlers implement the one-time code.                               *)

\* The code in force is the unused one.
LEMMA InForceValue ==
  ASSUME NEW u
  PROVE  /\ UnusedOf(u) = {} => InForce(u) = 0 /\ TriesLeft(u) = 0
         /\ \A c : UnusedOf(u) = {c} =>
              /\ InForce(u) = c
              /\ TriesLeft(u) = MaxCodeAttempts - codes[c].attempts
<1>1. ASSUME NEW c, UnusedOf(u) = {c} PROVE InForce(u) = c
  BY <1>1 DEF InForce
<1>2. ASSUME NEW c, UnusedOf(u) = {c}
      PROVE  TriesLeft(u) = MaxCodeAttempts - codes[c].attempts
  <2>1. UnusedOf(u) # {}
    BY <1>2
  <2>. QED  BY <1>1, <1>2, <2>1 DEF TriesLeft
<1>3. UnusedOf(u) = {} => InForce(u) = 0 /\ TriesLeft(u) = 0
  BY SMTT(60) DEF InForce, TriesLeft
<1>. QED
  BY <1>1, <1>2, <1>3

\* The same, after a step.
LEMMA InForceNext ==
  ASSUME NEW u
  PROVE  /\ UnusedOf(u)' = {} => InForce(u)' = 0 /\ TriesLeft(u)' = 0
         /\ \A c : UnusedOf(u)' = {c} =>
              /\ InForce(u)' = c
              /\ TriesLeft(u)' = MaxCodeAttempts - codes'[c].attempts
<1>1. ASSUME NEW c, UnusedOf(u)' = {c} PROVE InForce(u)' = c
  BY <1>1 DEF InForce
<1>2. ASSUME NEW c, UnusedOf(u)' = {c}
      PROVE  TriesLeft(u)' = MaxCodeAttempts - codes'[c].attempts
  <2>1. UnusedOf(u)' # {}
    BY <1>2
  <2>. QED  BY <1>1, <1>2, <2>1 DEF TriesLeft
<1>3. UnusedOf(u)' = {} => InForce(u)' = 0 /\ TriesLeft(u)' = 0
  BY SMTT(60) DEF InForce, TriesLeft
<1>. QED
  BY <1>1, <1>2, <1>3

\* An account whose codes stay as they are keeps its code in force.
LEMMA OthersInForce ==
  ASSUME TypeInv, TypeInv', UnusedIsNewest, NEW v,
         \A c \in 1..Len(codes') : codes'[c].user = v => c \in 1..Len(codes),
         \A c \in 1..Len(codes) : c \in 1..Len(codes') /\ codes'[c].user = codes[c].user,
         \A c \in 1..Len(codes) : codes[c].user = v => codes'[c] = codes[c]
  PROVE  InForce(v)' = InForce(v) /\ TriesLeft(v)' = TriesLeft(v)
<1>1. /\ UnusedOf(v) = {c \in 1..Len(codes) : codes[c].user = v /\ ~codes[c].used}
      /\ UnusedOf(v)' = {c \in 1..Len(codes') : codes'[c].user = v /\ ~codes'[c].used}
  <2>1. DOMAIN codes' = 1..Len(codes')
    BY DEF TypeInv
  <2>. QED  BY <2>1, UnusedOfDef, SMTT(60) DEF UnusedOf
<1>2. UnusedOf(v)' = UnusedOf(v)
  BY <1>1, SMTT(60)
<1>3. CASE UnusedOf(v) = {}
  BY <1>2, <1>3, InForceValue, InForceNext, SMTT(60)
<1>4. CASE UnusedOf(v) # {}
  <2>. PICK c \in UnusedOf(v) : TRUE
    BY <1>4
  <2>1. UnusedOf(v) = {c}
    BY UnusedIsOne, SMTT(60)
  <2>2. codes'[c] = codes[c]
    BY <1>1, <2>1, SMTT(60)
  <2>3. /\ InForce(v) = c /\ TriesLeft(v) = MaxCodeAttempts - codes[c].attempts
    BY <2>1, InForceValue, SMTT(60)
  <2>4. /\ InForce(v)' = c /\ TriesLeft(v)' = MaxCodeAttempts - codes'[c].attempts
    BY <1>2, <2>1, InForceNext
  <2>. QED  BY <2>2, <2>3, <2>4, SMTT(60)
<1>. QED
  BY <1>3, <1>4, SMTT(60)

\* The accounts stay within the bound on them.
LEMMA WithinBounds ==
  ASSUME TypeInv, RoomIsKept
  PROVE  /\ 1..Len(users) \subseteq 1..MaxUsers
         /\ \A t \in Tasks : task[t].pc \in SignUpPcs => Len(users) + 1 \in 1..MaxUsers
<1>1. Len(users) \in Nat /\ MaxUsers \in Nat
  BY Tables, AccountsAssumption
<1>2. /\ Cardinality(SigningUp) \in Nat
      /\ Cardinality(SigningUp) = 0 <=> SigningUp = {}
  <2>1. SigningUp \subseteq Tasks /\ IsFiniteSet(Tasks)
    BY AccountsAssumption DEF SigningUp
  <2>. QED  BY <2>1, CountIsNat
<1>3. ASSUME NEW t \in Tasks, task[t].pc \in SignUpPcs
      PROVE  Cardinality(SigningUp) # 0
  <2>1. SigningUp # {}
    BY <1>3 DEF SigningUp, SignUpPcs
  <2>. QED  BY <1>2, <2>1
<1>. QED
  BY <1>1, <1>2, <1>3, SMTT(60) DEF RoomIsKept

\* The accounts verified.
VerifiedUsers == {u \in DOMAIN users : users[u].verified}

\* A commit that issues a code is the abstract Issue.
LEMMA RefinesIssue ==
  ASSUME IInv, TypeInv', NEW u \in 1..MaxUsers, NEW value, NEW n, Issues(u, value, n),
         VerifiedUsers' = VerifiedUsers
  PROVE  Promise!Next
<1>1. TypeInv /\ UnusedIsNewest /\ Len(codes) \in Nat
  BY Tables, SMTT(60) DEF IInv
<1>2. /\ Len(codes') = n /\ n = Len(codes) + 1
      /\ codes'[n].user = u /\ codes'[n].used = FALSE /\ codes'[n].attempts = 0
      /\ \A d \in 1..Len(codes) :
           /\ codes'[d].user = codes[d].user
           /\ codes[d].user = u => codes'[d].used
           /\ codes[d].user # u => codes'[d] = codes[d]
  BY DEF Issues
<1>3. \A d \in 1..n : d \in 1..Len(codes) \/ d = n
  BY <1>1, <1>2, SMTT(60)
<1>4. InForce(u)' = n /\ TriesLeft(u)' = MaxCodeAttempts
  <2>1. DOMAIN codes' = 1..n
    BY <1>2, SMTT(60) DEF TypeInv
  <2>2. UnusedOf(u)' = {c \in 1..n : codes'[c].user = u /\ ~codes'[c].used}
    BY <2>1 DEF UnusedOf
  <2>3. n \in 1..n
    BY <1>1, <1>2, SMTT(60)
  <2>4. UnusedOf(u)' = {n}
    BY <1>2, <1>3, <2>2, <2>3, ZenonT(60)
  <2>. QED  BY <1>2, <2>4, InForceNext, AccountsAssumption, SMTT(60)
<1>5. ASSUME NEW v \in 1..MaxUsers, v # u
      PROVE  InForce(v)' = InForce(v) /\ TriesLeft(v)' = TriesLeft(v)
  BY <1>1, <1>2, <1>3, <1>5, OthersInForce
<1>6. /\ [v \in 1..MaxUsers |-> InForce(v)]' =
           [[v \in 1..MaxUsers |-> InForce(v)] EXCEPT ![u] = n]
      /\ [v \in 1..MaxUsers |-> TriesLeft(v)]' =
           [[v \in 1..MaxUsers |-> TriesLeft(v)] EXCEPT ![u] = MaxCodeAttempts]
  BY <1>4, <1>5, ZenonT(60)
<1>7. Promise!Issue(u)
  BY <1>2, <1>6 DEF Promise!Issue, VerifiedUsers
<1>. QED
  BY <1>7 DEF Promise!Next

\* A wrong answer that counts is the abstract Miss.
LEMMA RefinesMiss ==
  ASSUME IInv, TypeInv', NEW t \in Tasks, IncrementAttempts(t)
  PROVE  Promise!Next \/ codes' = codes
<1>1. PICK c, u : c = task[t].code /\ u = task[t].user
  OBVIOUS
<1>2. /\ TypeInv /\ UnusedIsNewest /\ LocalOK(task[t]) /\ RoomIsKept
      /\ Len(codes) \in Nat /\ Len(users) \in Nat
  BY Tables DEF IInv
<1>3. task[t].pc = "wrong_code"
  BY Zenon DEF IncrementAttempts, At
<1>4. /\ c \in 1..Len(codes) /\ codes[c].user = u /\ u \in 1..Len(users)
  <2>1. /\ c \in 0..Len(codes) /\ u \in 0..Len(users) /\ u # 0
        /\ c # 0 /\ codes[c].user = u
    BY <1>1, <1>2, <1>3, ZenonT(60) DEF LocalOK, Verifying
  <2>. QED  BY <1>2, <2>1
<1>5. SUFFICES ASSUME Acceptable(c, task[t].at) PROVE Promise!Next
  BY <1>1 DEF IncrementAttempts
<1>6. codes' = MissedCode(c) /\ users' = users
  BY <1>1, <1>5, Zenon DEF IncrementAttempts, MissedCode
<1>7. /\ Len(codes') = Len(codes) /\ codes'[c].attempts = codes[c].attempts + 1
      /\ codes'[c].used = codes[c].used /\ codes'[c].user = codes[c].user
      /\ \A d \in 1..Len(codes) : d # c => codes'[d] = codes[d]
  BY <1>2, <1>4, <1>6, CodeMissed, ZenonT(60)
<1>8. /\ codes[c].attempts \in Nat /\ codes[c].attempts < MaxCodeAttempts
      /\ ~codes[c].used /\ MaxCodeAttempts \in Nat
  BY <1>2, <1>4, <1>5, CodeFields, AccountsAssumption, SMTT(60) DEF Acceptable
<1>9. UnusedOf(u) = {c}
  <2>1. c \in UnusedOf(u)
    BY <1>2, <1>4, <1>8, UnusedOfDef, SMTT(60)
  <2>. QED  BY <1>2, <2>1, UnusedIsOne, SMTT(60)
<1>10. UnusedOf(u)' = {c}
  <2>1. DOMAIN codes' = 1..Len(codes') /\ DOMAIN codes = 1..Len(codes)
    BY <1>2, SMTT(60) DEF TypeInv
  <2>2. \A d \in 1..Len(codes) :
          /\ codes'[d].user = codes[d].user /\ codes'[d].used = codes[d].used
    BY <1>7, SMTT(60)
  <2>. QED  BY <1>7, <1>9, <2>1, <2>2, SMTT(60) DEF UnusedOf
<1>11. /\ InForce(u) = c /\ TriesLeft(u) = MaxCodeAttempts - codes[c].attempts
       /\ InForce(u)' = c /\ TriesLeft(u)' = MaxCodeAttempts - codes'[c].attempts
  BY <1>9, <1>10, InForceValue, InForceNext, ZenonT(60)
<1>12. TriesLeft(u) > 0 /\ TriesLeft(u)' = TriesLeft(u) - 1 /\ InForce(u) # 0
  BY <1>4, <1>7, <1>8, <1>11, SMTT(60)
<1>13. ASSUME NEW v \in 1..MaxUsers, v # u
       PROVE  InForce(v)' = InForce(v) /\ TriesLeft(v)' = TriesLeft(v)
  BY <1>2, <1>4, <1>7, <1>13, OthersInForce, SMTT(60)
<1>14. u \in 1..MaxUsers
  BY <1>2, <1>4, WithinBounds
<1>15. /\ [v \in 1..MaxUsers |-> InForce(v)]' = [v \in 1..MaxUsers |-> InForce(v)]
       /\ [v \in 1..MaxUsers |-> TriesLeft(v)]' =
            [[v \in 1..MaxUsers |-> TriesLeft(v)] EXCEPT ![u] = @ - 1]
  BY <1>11, <1>12, <1>13, <1>14, ZenonT(60)
<1>16. Promise!Miss(u)
  BY <1>6, <1>7, <1>12, <1>14, <1>15, SMTT(60) DEF Promise!Miss
<1>. QED
  BY <1>14, <1>16 DEF Promise!Next

\* The commit of a verification is the abstract Verify.
LEMMA RefinesVerify ==
  ASSUME IInv, TypeInv', NEW t \in Tasks, VerifyCommit(t)
  PROVE  Promise!Next
<1>1. PICK c, u : c = task[t].code /\ u = task[t].user
  OBVIOUS
<1>2. TypeInv /\ UnusedIsNewest /\ RoomIsKept
  BY ZenonT(60) DEF IInv
<1>3. /\ c \in 1..Len(codes) /\ u \in 1..Len(users) /\ codes[c].user = u
      /\ Acceptable(c, task[t].at)
      /\ codes' = UsedCode(c) /\ users' = VerifiedUser(u)
  BY <1>1, VerifyCommitEffect, SMTT(60)
<1>4. /\ Len(codes') = Len(codes)
      /\ codes'[c].used /\ codes'[c].user = codes[c].user
      /\ \A d \in 1..Len(codes) : d # c => codes'[d] = codes[d]
  BY <1>2, <1>3, CodeUsed, SMTT(60)
<1>5. /\ codes[c].attempts \in Nat /\ codes[c].attempts < MaxCodeAttempts
      /\ ~codes[c].used /\ MaxCodeAttempts \in Nat
  BY <1>2, <1>3, CodeFields, AccountsAssumption, SMTT(60) DEF Acceptable
<1>6. UnusedOf(u) = {c}
  <2>1. c \in UnusedOf(u)
    BY <1>2, <1>3, <1>5, UnusedOfDef, ZenonT(60)
  <2>. QED  BY <1>2, <2>1, UnusedIsOne, SMTT(60)
<1>7. UnusedOf(u)' = {}
  <2>1. DOMAIN codes' = 1..Len(codes') /\ DOMAIN codes = 1..Len(codes)
    BY <1>2, SMTT(60) DEF TypeInv
  <2>. QED  BY <1>4, <1>6, <2>1, SMTT(60) DEF UnusedOf
<1>8. /\ InForce(u) = c /\ TriesLeft(u) = MaxCodeAttempts - codes[c].attempts
      /\ InForce(u)' = 0 /\ TriesLeft(u)' = 0
  BY <1>6, <1>7, InForceValue, InForceNext, ZenonT(60)
<1>9. TriesLeft(u) > 0 /\ InForce(u) # 0
  BY <1>3, <1>5, <1>8, SMTT(60)
<1>10. ASSUME NEW v \in 1..MaxUsers, v # u
       PROVE  InForce(v)' = InForce(v) /\ TriesLeft(v)' = TriesLeft(v)
  BY <1>2, <1>3, <1>4, <1>10, OthersInForce, ZenonT(60)
<1>11. u \in 1..MaxUsers
  BY <1>2, <1>3, WithinBounds
<1>12. /\ [v \in 1..MaxUsers |-> InForce(v)]' =
            [[v \in 1..MaxUsers |-> InForce(v)] EXCEPT ![u] = 0]
       /\ [v \in 1..MaxUsers |-> TriesLeft(v)]' =
            [[v \in 1..MaxUsers |-> TriesLeft(v)] EXCEPT ![u] = 0]
  BY <1>8, <1>10, <1>11, ZenonT(60)
<1>13. VerifiedUsers' = VerifiedUsers \cup {u}
  <2>1. DOMAIN users = 1..Len(users) /\ DOMAIN users' = 1..Len(users')
    BY <1>2 DEF TypeInv
  <2>2. /\ Len(users') = Len(users) /\ users'[u].verified = TRUE
        /\ \A v \in 1..Len(users) : v # u => users'[v] = users[v]
    BY <1>2, <1>3, UserVerified, ZenonT(60)
  <2>. QED  BY <1>3, <2>1, <2>2, SMTT(60) DEF VerifiedUsers
<1>14. Promise!Verify(u)
  BY <1>4, <1>9, <1>11, <1>12, <1>13, ZenonT(60) DEF Promise!Verify, VerifiedUsers
<1>. QED
  BY <1>11, <1>14 DEF Promise!Next

\* A sign-up verifies nobody.
LEMMA SignUpVerifiesNobody ==
  ASSUME IInv, TypeInv', NEW t \in Tasks, NEW value \in CodeValues, SignUpCommit(t, value)
  PROVE  VerifiedUsers' = VerifiedUsers
<1>1. TypeInv /\ Len(users) \in Nat
  BY Tables DEF IInv
<1>2. DOMAIN users = 1..Len(users) /\ DOMAIN users' = 1..Len(users')
  BY <1>1 DEF TypeInv
<1>3. /\ Len(users') = Len(users) + 1 /\ users'[Len(users) + 1].verified = FALSE
      /\ \A v \in 1..Len(users) : users'[v] = users[v]
  BY SignUpCommitUsers, Zenon
<1>4. \A v \in 1..(Len(users) + 1) : v \in 1..Len(users) \/ v = Len(users) + 1
  BY <1>1, SMTT(60)
<1>. QED
  BY <1>1, <1>2, <1>3, <1>4, SMTT(60) DEF VerifiedUsers

\* What the abstract specification sees of a step that changes no code and
\* verifies nobody.
LEMMA RefinesStutter ==
  ASSUME codes' = codes, VerifiedUsers' = VerifiedUsers
  PROVE  UNCHANGED Promise!vars
<1>1. \A v : InForce(v)' = InForce(v) /\ TriesLeft(v)' = TriesLeft(v)
  BY DEF InForce, TriesLeft, UnusedOf
<1>. QED
  BY <1>1, SMTT(60) DEF Promise!vars, VerifiedUsers

\* Every step is one of the abstract specification, or a stutter.
LEMMA RefinesNext == IInv /\ [Next]_vars => [Promise!Next]_(Promise!vars)
<1>. SUFFICES ASSUME IInv, [Next]_vars
              PROVE  Promise!Next \/ UNCHANGED Promise!vars
  OBVIOUS
<1>1. TypeInv /\ RoomIsKept /\ TypeInv'
  BY InvNext DEF IInv
<1>2. CASE UNCHANGED <<users, codes, outbox>>
  BY <1>2, RefinesStutter DEF VerifiedUsers
<1>3. ASSUME NEW t \in Tasks, IncrementAttempts(t)
      PROVE  Promise!Next \/ UNCHANGED Promise!vars
  <2>1. VerifiedUsers' = VerifiedUsers
    BY <1>3 DEF IncrementAttempts, VerifiedUsers
  <2>. QED  BY <1>1, <1>3, <2>1, RefinesMiss, RefinesStutter, SMTT(60)
<1>4. ASSUME NEW t \in Tasks, VerifyCommit(t) PROVE Promise!Next
  BY <1>1, <1>4, RefinesVerify, SMTT(60)
<1>5. ASSUME NEW t \in Tasks, NEW value \in CodeValues, ResendCommit(t, value)
      PROVE  Promise!Next
  <2>1. VerifiedUsers' = VerifiedUsers
    BY <1>5 DEF ResendCommit, VerifiedUsers
  <2>2. PICK u, n : u = task[t].user /\ n = Len(codes) + 1
    OBVIOUS
  <2>3. u \in 1..Len(users) /\ Issues(u, value, n)
    BY <1>5, <2>2, ResendCommitEffect
  <2>4. u \in 1..MaxUsers
    BY <1>1, <2>3, WithinBounds
  <2>. QED  BY <1>1, <2>1, <2>3, <2>4, RefinesIssue, ZenonT(60)
<1>6. ASSUME NEW t \in Tasks, NEW value \in CodeValues, SignUpCommit(t, value)
      PROVE  Promise!Next \/ UNCHANGED Promise!vars
  <2>1. VerifiedUsers' = VerifiedUsers
    BY <1>1, <1>6, SignUpVerifiesNobody
  <2>2. CASE task[t].input.email = None
    <3>1. codes' = codes
      BY <1>6, <2>2 DEF SignUpCommit
    <3>. QED  BY <2>1, <3>1, RefinesStutter, SMTT(60)
  <2>3. CASE task[t].input.email # None
    <3>1. PICK u, n : u = Len(users) + 1 /\ n = Len(codes) + 1
      OBVIOUS
    <3>2. Issues(u, value, n)
      BY <1>6, <2>3, <3>1, SignUpCommitCodes, SMTT(60)
    <3>3. task[t].pc \in SignUpPcs
      BY <1>6 DEF SignUpCommit, At, SignUpPcs
    <3>4. u \in 1..MaxUsers
      BY <1>1, <3>1, <3>3, WithinBounds, SMTT(60)
    <3>. QED  BY <1>1, <2>1, <3>2, <3>4, RefinesIssue, SMTT(60)
  <2>. QED  BY <2>2, <2>3
<1>. QED
  BY <1>2, <1>3, <1>4, <1>5, <1>6, NextCases, SMTT(60)

\* For any number of handlers, sign-up, verification and resending together
\* implement the one-time code: only the code in force verifies an account,
\* while it has tries left, once, and no interleaving gives a try back.
THEOREM Refinement == Spec => ImplementsOneTimeCode
<1>1. Init => Promise!Init
  <2>. SUFFICES ASSUME Init PROVE Promise!Init
    OBVIOUS
  <2>1. users = <<>> /\ codes = <<>> /\ Len(codes) = 0 /\ DOMAIN codes = {} /\ DOMAIN users = {}
    BY DEF Init
  <2>2. \A u : UnusedOf(u) = {}
    BY <2>1, SMTT(60) DEF UnusedOf
  <2>3. \A u \in 1..MaxUsers : InForce(u) = 0 /\ TriesLeft(u) = 0
    BY <2>2, InForceValue
  <2>. QED  BY <2>1, <2>3 DEF Promise!Init
<1>. QED
  BY <1>1, RefinesNext, Invariance, PTL DEF Spec, ImplementsOneTimeCode, Promise!Spec
-----------------------------------------------------------------------------
(***************************************************************************)
(* Handlers do not wait in a circle: keys are entered in the order of the  *)
(* indexes, and the locks of an account are taken before a row of a code.  *)
(***************************************************************************)
\* Handler o has what handler t needs for its next step: the key of the
\* index t is at, the locks of its account, or the row of its code.
Blocks(o, t) ==
  \/ /\ At(t, "insert") /\ HoldsKey(o, task[t].field)
     /\ SameKey(Fields[task[t].field], task[o].input[Fields[task[t].field]],
                                       task[t].input[Fields[task[t].field]])
  \/ /\ task[t].pc \in {"verify", "resend"} /\ task[o].pc \in Locking
     /\ task[o].user = task[t].user
  \/ /\ task[t].pc \in {"wrong_code", "mark_used", "superseding"} /\ task[t].code # 0
     /\ task[o].pc \in {"marked", "superseded"} /\ task[o].code = task[t].code

\* Handlers never block one another: of any set of them, one is blocked by
\* none of the others.
NoCircularWait ==
  \A W \in SUBSET Tasks : W # {} =>
    \E t \in W : \A o \in W \ {t} : ~Blocks(o, t)

\* A handler that nobody blocks need not wait: the guards of its step on the
\* keys, the locks and the rows of others hold.
LEMMA OnlyBlockersStop ==
  ASSUME NEW t \in Tasks, \A o \in Tasks \ {t} : ~Blocks(o, t)
  PROVE  /\ At(t, "insert") => KeyFree(t, task[t].field)
         /\ task[t].pc \in {"verify", "resend"} => ScopesFree(t)
         /\ task[t].pc \in {"wrong_code", "mark_used", "superseding"}
              => task[t].code = 0 \/ CodeFree(t, task[t].code)
BY Zenon DEF Blocks, KeyFree, ScopesFree, CodeFree, Locking

\* A nonempty set of natural numbers has a least one.
LEMMA LeastExists ==
  ASSUME NEW T \in SUBSET Nat, T # {}
  PROVE  \E x \in T : \A y \in T : x <= y
<1>1. \E x \in T : \A y \in T : ~(<<y, x>> \in OpToRel(<, Nat))
  BY NatLessThanWellFounded, WFMin, ZenonT(60)
<1>2. ASSUME NEW x \in T, NEW y \in T, ~(<<y, x>> \in OpToRel(<, Nat)) PROVE x <= y
  BY <1>2 DEF OpToRel
<1>. QED
  BY <1>1, <1>2, Zenon

\* A function on a finite set takes a greatest value: it is taken where the
\* fewest places have a greater one.
LEMMA GreatestExists ==
  ASSUME NEW W, IsFiniteSet(W), W # {}, NEW f \in [W -> Nat]
  PROVE  \E t \in W : \A o \in W : f[o] <= f[t]
<1>. DEFINE Above(t) == {o \in W : f[o] > f[t]}
            Sizes == {Cardinality(Above(t)) : t \in W}
<1>1. \A t \in W : IsFiniteSet(Above(t)) /\ Cardinality(Above(t)) \in Nat
  <2>. SUFFICES ASSUME NEW t \in W
                PROVE  IsFiniteSet(Above(t)) /\ Cardinality(Above(t)) \in Nat
    OBVIOUS
  <2>1. Above(t) \in SUBSET W
    OBVIOUS
  <2>. HIDE DEF Above
  <2>2. IsFiniteSet(Above(t))
    BY <2>1, FS_Subset, ZenonT(60)
  <2>. QED  BY <2>2, FS_CardinalityType, Zenon
<1>2. PICK t \in W : \A o \in W : Cardinality(Above(t)) <= Cardinality(Above(o))
  <2>. HIDE DEF Above
  <2>1. Sizes \in SUBSET Nat /\ Sizes # {}
    BY <1>1
  <2>2. PICK n \in Sizes : \A m \in Sizes : n <= m
    BY <2>1, LeastExists, Zenon
  <2>. QED  BY <2>2
<1>3. ASSUME NEW o \in W, f[o] > f[t] PROVE FALSE
  <2>1. Above(o) \in SUBSET Above(t) /\ Above(o) # Above(t)
    BY <1>3
  <2>. HIDE DEF Above
  <2>2. /\ Cardinality(Above(o)) <= Cardinality(Above(t))
        /\ Cardinality(Above(t)) = Cardinality(Above(o)) => Above(t) = Above(o)
    BY <1>1, <2>1, FS_Subset, ZenonT(60)
  <2>. QED  BY <1>1, <1>2, <2>1, <2>2
<1>. QED
  BY <1>3

\* How far a waiting handler has come.
Rank(t) ==
  IF At(t, "insert") THEN task[t].field
  ELSE IF task[t].pc \in {"verify", "resend"} THEN 0 ELSE 1

\* One that blocks another and is itself blocked has come further.
LEMMA BlockersAreAhead ==
  ASSUME TypeInv, NEW t \in Tasks, NEW o \in Tasks, NEW q, Blocks(o, t), Blocks(q, o)
  PROVE  Rank(o) > Rank(t)
<1>1. task[t].field \in Nat /\ task[o].field \in Nat
  BY DEF TypeInv, Local
<1>2. task[o].pc \in {"insert", "verify", "resend", "wrong_code", "mark_used", "superseding"}
  BY ZenonT(60) DEF Blocks, At
<1>3. CASE At(t, "insert") /\ HoldsKey(o, task[t].field)
  <2>1. task[o].pc = "insert" /\ task[t].field < task[o].field
    BY <1>2, <1>3, SMTT(60) DEF HoldsKey
  <2>. QED  BY <1>1, <1>3, <2>1, SMTT(60) DEF Rank, At
<1>4. CASE task[t].pc \in {"verify", "resend"} /\ task[o].pc \in Locking
  <2>1. task[o].pc = "superseding"
    BY <1>2, <1>4 DEF Locking
  <2>. QED  BY <1>4, <2>1, SMTT(60) DEF Rank, At
<1>5. task[o].pc \notin {"marked", "superseded"}
  BY <1>2
<1>. QED
  BY <1>3, <1>4, <1>5, ZenonT(60) DEF Blocks

\* However many handlers, sign-ups that enter the same keys and verifications
\* and resends of the same accounts never deadlock.
THEOREM NoDeadlock == Spec => []NoCircularWait
<1>1. TypeInv => NoCircularWait
  <2>. SUFFICES ASSUME TypeInv, NEW W \in SUBSET Tasks, W # {},
                       \A t \in W : \E o \in W : Blocks(o, t)
                PROVE  FALSE
    BY ZenonT(60) DEF NoCircularWait
  <2>. DEFINE rank == [t \in W |-> Rank(t)]
  <2>1. rank \in [W -> Nat]
    BY DEF Rank, TypeInv, Local
  <2>2. \A t \in W : rank[t] = Rank(t)
    OBVIOUS
  <2>. HIDE DEF rank
  <2>3. IsFiniteSet(W)
    BY AccountsAssumption, FS_Subset, Zenon
  <2>4. PICK t \in W : \A o \in W : rank[o] <= rank[t]
    BY <2>1, <2>3, GreatestExists, ZenonT(60)
  <2>5. PICK o \in W : Blocks(o, t) /\ \E q \in W : Blocks(q, o)
    BY Zenon
  <2>6. rank[o] > rank[t]
    BY <2>2, <2>5, BlockersAreAhead, ZenonT(60)
  <2>. QED  BY <2>1, <2>4, <2>6
<1>2. IInv => TypeInv
  BY Zenon DEF IInv
<1>. QED
  BY <1>1, <1>2, Invariance, PTL
=============================================================================
