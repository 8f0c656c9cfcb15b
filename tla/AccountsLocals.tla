--------------------------- MODULE AccountsLocals ---------------------------
(***************************************************************************)
(* The inductive invariant of Accounts, and the steps of a handler that    *)
(* change nothing but its own locals: they keep it, because what a handler *)
(* relies on is read or held, and what it holds is held by no other.       *)
(***************************************************************************)
EXTENDS Accounts, FiniteSetTheorems, TLAPS

\* What sign-up keeps of what clients send.
Inputs == {None} \cup {ValidateSignUp(cmd) : cmd \in Commands}

Local ==
  [pc : Pcs, input : Inputs, field : Nat, user : Nat, code : Nat,
   value : CodeValues \cup {None}, at : Nat]

UserRow ==
  [username : {i.username : i \in Inputs}, email : {i.email : i \in Inputs},
   phone : {i.phone : i \in Inputs}, verified : BOOLEAN]

CodeRow ==
  [user : Nat, value : CodeValues, expiresAt : Nat, used : BOOLEAN,
   attempts : Nat]

\* The type invariant: rows and locals have their types, and a code belongs
\* to an account.
TypeInv ==
  /\ now \in Nat
  /\ users \in Seq(UserRow)
  /\ codes \in Seq(CodeRow)
  /\ task \in [Tasks -> Local]
  /\ \A c \in 1..Len(codes) : codes[c].user \in 1..Len(users)

\* What the INSERT of a handler has entered into the unique indexes is in no
\* row and entered by no other handler.
KeysAreHeld ==
  \A t \in Tasks, f \in 1..3 : HoldsKey(t, f) =>
    /\ KeyFree(t, f)
    /\ \A u \in 1..Len(users) :
         ~SameKey(Fields[f], users[u][Fields[f]], task[t].input[Fields[f]])

\* The keys that the rows of accounts u and v have in common.
RowsAreUnique ==
  \A u, v \in 1..Len(users), f \in 1..3 :
    SameKey(Fields[f], users[u][Fields[f]], users[v][Fields[f]]) => u = v

Verifying == {"wrong_code", "mark_used", "marked"}
Locking == {"locked", "superseding", "superseded"}

\* What a handler with locals l has read and still relies on.
LocalOK(l) ==
  /\ l.user \in 0..Len(users) /\ l.code \in 0..Len(codes)
  /\ l.pc \in {"verify", "resend"} \cup Verifying \cup Locking => l.user # 0
  /\ l.pc \in Verifying => l.code # 0 /\ codes[l.code].user = l.user
  /\ l.pc \in {"mark_used", "marked"} => codes[l.code].value = l.value
  /\ l.pc = "marked" => Acceptable(l.code, l.at)
  /\ l.pc \in {"superseding", "superseded"} =>
       /\ UnusedOf(l.user) \subseteq {l.code}
       /\ l.code # 0 => codes[l.code].user = l.user
  /\ l.pc = "superseded" /\ l.code # 0 => ~codes[l.code].used

\* Two handlers never hold the lock of one account or the row of one code.
LocksAreExclusive ==
  \A t, o \in Tasks : t # o =>
    /\ task[t].pc \in Locking /\ task[o].pc \in Locking
         => task[t].user # task[o].user
    /\ /\ task[t].pc \in {"marked", "superseded"}
       /\ task[o].pc \in {"marked", "superseded"}
       => task[t].code # task[o].code \/ task[t].code = 0

\* An unused code is the newest of its account, and has a try left.
UnusedIsNewest ==
  \A c, d \in 1..Len(codes) :
    ~codes[c].used /\ codes[c].user = codes[d].user => d <= c

AttemptsAreBounded ==
  \A c \in 1..Len(codes) : codes[c].attempts <= MaxCodeAttempts

\* Every code has its job, every job its code, every address a code.
JobsMatchCodes ==
  /\ \A c \in 1..Len(codes) :
       [user |-> codes[c].user, to |-> users[codes[c].user].email,
        code |-> codes[c].value, row |-> c] \in outbox
  /\ \A m \in outbox :
       m.row \in 1..Len(codes) /\ m.user = codes[m.row].user
  /\ \A u \in 1..Len(users) :
       users[u].email # None => \E c \in 1..Len(codes) : codes[c].user = u

\* The bound on accounts leaves room for those being signed up.
RoomIsKept == Len(users) + Cardinality(SigningUp) <= MaxUsers

IInv ==
  /\ TypeInv /\ KeysAreHeld /\ RowsAreUnique
  /\ \A t \in Tasks : LocalOK(task[t])
  /\ LocksAreExclusive /\ UnusedIsNewest /\ AttemptsAreBounded
  /\ JobsMatchCodes /\ RoomIsKept
-----------------------------------------------------------------------------
(* The operators.                                                          *)

\* The unique indexes compare keys symmetrically, and never NULL.
LEMMA SameKeySymmetric ==
  ASSUME NEW field, NEW a, NEW b
  PROVE  /\ SameKey(field, a, b) <=> SameKey(field, b, a)
         /\ SameKey(field, a, b) => a # None /\ b # None
BY DEF SameKey

\* A query that finds no account means that no row has the key.
LEMMA FindByNone ==
  ASSUME TypeInv, NEW field, NEW value, NEW n \in 0..Len(users),
         FindBy(field, value, n) = 0
  PROVE  \A u \in 1..n : ~SameKey(field, users[u][field], value)
<1>. DEFINE found == {u \in 1..n : SameKey(field, users[u][field], value)}
<1>1. SUFFICES ASSUME found # {} PROVE FALSE
  OBVIOUS
<1>2. (CHOOSE u \in found : TRUE) \in found
  BY <1>1
<1>3. FindBy(field, value, n) = CHOOSE u \in found : TRUE
  BY <1>1 DEF FindBy
<1>. QED
  BY <1>2, <1>3

\* One that finds one names a row.
LEMMA FindBySome ==
  ASSUME TypeInv, NEW field, NEW value
  PROVE  FindBy(field, value, Len(users)) \in 0..Len(users)
<1>. DEFINE found == {u \in 1..Len(users) : SameKey(field, users[u][field], value)}
<1>1. Len(users) \in Nat
  BY DEF TypeInv
<1>2. CASE found = {}
  BY <1>1, <1>2 DEF FindBy
<1>3. CASE found # {}
  <2>1. (CHOOSE u \in found : TRUE) \in found
    BY <1>3
  <2>2. FindBy(field, value, Len(users)) = CHOOSE u \in found : TRUE
    BY <1>3 DEF FindBy
  <2>. QED  BY <1>1, <2>1, <2>2
<1>. QED
  BY <1>2, <1>3

\* The next field is the first one sent, and those passed over were not sent.
LEMMA NextField ==
  ASSUME NEW k \in Nat, NEW input, FieldsAfter(k, input) # {}, NEW g,
         g = CHOOSE f \in FieldsAfter(k, input) : \A h \in FieldsAfter(k, input) : f <= h
  PROVE  /\ g \in 1..3 /\ k < g
         /\ \A f \in 1..3 : k < f /\ f < g => input[Fields[f]] = None
<1>. DEFINE rest == FieldsAfter(k, input)
<1>1. rest = {f \in (k + 1)..3 : input[Fields[f]] # None}
  BY DEF FieldsAfter, Fields
<1>2. rest \subseteq 1..3
  BY <1>1
<1>3. \E f \in rest : \A h \in rest : f <= h
  <2>1. CASE 1 \in rest  BY <1>2, <2>1
  <2>2. CASE 1 \notin rest /\ 2 \in rest
    <3>1. \A h \in rest : 2 <= h  BY <1>2, <2>2
    <3>. QED  BY <2>2, <3>1
  <2>3. CASE 1 \notin rest /\ 2 \notin rest
    <3>1. rest = {3}  BY <1>2, <2>3
    <3>. QED  BY <3>1
  <2>. QED  BY <2>1, <2>2, <2>3
<1>4. g \in rest /\ \A h \in rest : g <= h
  BY <1>3
<1>5. ASSUME NEW f \in 1..3, k < f, f < g PROVE input[Fields[f]] = None
  <2>1. f \notin rest
    BY <1>2, <1>4, <1>5
  <2>. QED  BY <1>1, <1>5, <2>1
<1>. QED
  BY <1>1, <1>2, <1>4, <1>5

\* When no field is left, the ones after the last were not sent.
LEMMA NoField ==
  ASSUME NEW k \in Nat, NEW input, FieldsAfter(k, input) = {}
  PROVE  \A f \in 1..3 : k < f => input[Fields[f]] = None
BY DEF FieldsAfter, Fields
-----------------------------------------------------------------------------
(* Rows, locals and the codes of an account.                               *)

\* The tables are sequences of rows.
LEMMA Tables ==
  ASSUME TypeInv
  PROVE  /\ Len(users) \in Nat /\ DOMAIN users = 1..Len(users)
         /\ Len(codes) \in Nat /\ DOMAIN codes = 1..Len(codes)
         /\ \A u \in 1..Len(users) : users[u] \in UserRow
         /\ \A c \in 1..Len(codes) : codes[c] \in CodeRow
BY DEF TypeInv

\* The fields of a code row.
LEMMA CodeFields ==
  ASSUME TypeInv, NEW c \in 1..Len(codes)
  PROVE  /\ codes[c].user \in 1..Len(users) /\ codes[c].value \in CodeValues
         /\ codes[c].expiresAt \in Nat /\ codes[c].used \in BOOLEAN
         /\ codes[c].attempts \in Nat
<1>1. codes[c] \in CodeRow
  BY Tables
<1>. QED
  BY <1>1 DEF CodeRow, TypeInv

\* The unused codes of an account.
LEMMA UnusedOfDef ==
  ASSUME TypeInv, NEW u
  PROVE  UnusedOf(u) = {c \in 1..Len(codes) : codes[c].user = u /\ ~codes[c].used}
BY Tables DEF UnusedOf

\* There is at most one of them.
LEMMA UnusedIsOne ==
  ASSUME TypeInv, UnusedIsNewest, NEW u
  PROVE  \A c, d \in UnusedOf(u) : c = d
<1>1. SUFFICES ASSUME NEW c \in UnusedOf(u), NEW d \in UnusedOf(u) PROVE c = d
  OBVIOUS
<1>2. /\ c \in 1..Len(codes) /\ ~codes[c].used /\ codes[c].user = u
      /\ d \in 1..Len(codes) /\ ~codes[d].used /\ codes[d].user = u
  BY <1>1, UnusedOfDef
<1>3. c <= d /\ d <= c
  BY <1>2 DEF UnusedIsNewest
<1>. QED
  BY <1>2, <1>3

\* A handler's step changes its own locals only.
LEMMA BecomeValue ==
  ASSUME TypeInv, NEW t \in Tasks, NEW l, Become(t, l)
  PROVE  /\ task'[t] = l
         /\ \A o \in Tasks : o # t => task'[o] = task[o]
         /\ l \in Local => task' \in [Tasks -> Local]
BY DEF TypeInv, Become

\* An idle handler relies on nothing.
LEMMA IdleIsOK ==
  ASSUME TypeInv
  PROVE  /\ Idle \in Local
         /\ LocalOK(Idle)
         /\ Idle.pc = "idle"
<1>1. /\ Idle.pc = "idle" /\ Idle.input = None /\ Idle.field = 1 /\ Idle.user = 0
      /\ Idle.code = 0 /\ Idle.value = None /\ Idle.at = 0
  BY DEF Idle
<1>2. Idle \in Local
  <2>1. "idle" \in Pcs
    BY Zenon DEF Pcs
  <2>2. None \in Inputs
    BY DEF Inputs
  <2>. QED  BY <2>1, <2>2 DEF Idle, Local
<1>3. LocalOK(Idle)
  BY <1>1, Tables DEF LocalOK, Verifying, Locking
<1>. QED
  BY <1>1, <1>2, <1>3
-----------------------------------------------------------------------------
(* Steps that change nothing but the locals of one handler.                *)

\* The handler that steps has entered the key of field f, with locals l.
Entered(l, f) == (l.pc = "insert" /\ f < l.field) \/ l.pc = "inserted"

\* The keys entered are new to the rows and to the other handlers.
KeysAreNew(t, l) ==
  \A f \in 1..3 : Entered(l, f) =>
    /\ \A o \in Tasks \ {t} :
         ~(HoldsKey(o, f) /\ SameKey(Fields[f], task[o].input[Fields[f]],
                                                l.input[Fields[f]]))
    /\ \A u \in 1..Len(users) :
         ~SameKey(Fields[f], users[u][Fields[f]], l.input[Fields[f]])

\* The locks the handler holds with locals l are held by no other.
LocksAreNew(t, l) ==
  /\ l.pc \in Locking =>
       \A o \in Tasks \ {t} : ~(task[o].pc \in Locking /\ task[o].user = l.user)
  /\ l.pc \in {"marked", "superseded"} => l.code = 0 \/ CodeFree(t, l.code)

SignUpPcs == {"exists", "insert", "inserted"}

\* A set of handlers has a number of members, which is 0 only if it is empty.
LEMMA CountIsNat ==
  ASSUME NEW H, IsFiniteSet(H), NEW S, S \subseteq H
  PROVE  Cardinality(S) \in Nat /\ (Cardinality(S) = 0 <=> S = {})
<1>1. IsFiniteSet(S)
  BY FS_Subset
<1>. QED
  BY <1>1, FS_CardinalityType, FS_EmptySet

\* When at most one handler enters or leaves it, the number changes by one.
LEMMA CountNext ==
  ASSUME NEW H, IsFiniteSet(H), NEW S, S \subseteq H, NEW T, T \subseteq H,
         NEW t \in H, \A o \in H : o # t => (o \in T <=> o \in S)
  PROVE  /\ Cardinality(S) \in Nat /\ Cardinality(T) \in Nat
         /\ t \in T /\ t \notin S => Cardinality(T) = Cardinality(S) + 1
         /\ t \notin T /\ t \in S => Cardinality(T) + 1 = Cardinality(S)
         /\ (t \in T <=> t \in S) => Cardinality(T) = Cardinality(S)
<1>1. /\ IsFiniteSet(S) /\ IsFiniteSet(T)
      /\ Cardinality(S) \in Nat /\ Cardinality(T) \in Nat
  BY FS_Subset, FS_CardinalityType
<1>2. CASE t \in T /\ t \notin S
  <2>1. T = S \cup {t}
    BY <1>2
  <2>2. Cardinality(T) = Cardinality(S) + 1
    BY <1>1, <1>2, <2>1, FS_AddElement
  <2>. QED  BY <1>1, <1>2, <2>2
<1>3. CASE t \notin T /\ t \in S
  <2>1. T = S \ {t}
    BY <1>3
  <2>2. Cardinality(T) = Cardinality(S) - 1
    BY <1>1, <1>3, <2>1, FS_RemoveElement
  <2>. QED  BY <1>1, <1>3, <2>2
<1>4. CASE t \in T <=> t \in S
  <2>1. T = S
    BY <1>4
  <2>. QED  BY <1>1, <1>4, <2>1
<1>. QED
  BY <1>2, <1>3, <1>4

\* The handlers that sign up, after a step of one of them.
LEMMA SigningUpNext ==
  ASSUME TypeInv, NEW t \in Tasks, NEW l, Become(t, l)
  PROVE  /\ Cardinality(SigningUp) \in Nat /\ Cardinality(SigningUp') \in Nat
         /\ Cardinality(SigningUp') <= Cardinality(SigningUp) + 1
         /\ (l.pc \notin SignUpPcs \/ task[t].pc \in SignUpPcs) =>
              Cardinality(SigningUp') <= Cardinality(SigningUp)
         /\ l.pc \notin SignUpPcs /\ task[t].pc \in SignUpPcs =>
              Cardinality(SigningUp') + 1 = Cardinality(SigningUp)
<1>. DEFINE S == SigningUp
            T == SigningUp'
<1>1. /\ S = {o \in Tasks : task[o].pc \in SignUpPcs}
      /\ T = {o \in Tasks : task'[o].pc \in SignUpPcs}
  BY DEF SigningUp, SignUpPcs
<1>2. IsFiniteSet(Tasks) /\ S \subseteq Tasks /\ T \subseteq Tasks
  BY <1>1, AccountsAssumption
<1>3. \A o \in Tasks : o # t => (o \in T <=> o \in S)
  BY <1>1, BecomeValue
<1>4. /\ t \in T <=> l.pc \in SignUpPcs
      /\ t \in S <=> task[t].pc \in SignUpPcs
  BY <1>1, BecomeValue
<1>. HIDE DEF S, T
<1>5. /\ Cardinality(S) \in Nat /\ Cardinality(T) \in Nat
      /\ t \in T /\ t \notin S => Cardinality(T) = Cardinality(S) + 1
      /\ t \notin T /\ t \in S => Cardinality(T) + 1 = Cardinality(S)
      /\ (t \in T <=> t \in S) => Cardinality(T) = Cardinality(S)
  BY <1>2, <1>3, CountNext
<1>. QED
  BY <1>4, <1>5 DEF S, T

\* Such a step keeps the invariant if what it relies on from now on is true
\* and what it holds from now on is held by no other.
LEMMA QuietStep ==
  ASSUME IInv, NEW t \in Tasks, NEW l \in Local, Become(t, l),
         UNCHANGED <<now, users, codes, outbox>>,
         LocalOK(l), KeysAreNew(t, l), LocksAreNew(t, l),
         l.pc \in SignUpPcs => task[t].pc \in SignUpPcs \/ RoomForUser
  PROVE  IInv'
<1>1. /\ TypeInv /\ KeysAreHeld /\ RowsAreUnique
      /\ \A o \in Tasks : LocalOK(task[o])
      /\ LocksAreExclusive /\ UnusedIsNewest /\ AttemptsAreBounded
      /\ JobsMatchCodes /\ RoomIsKept
  BY DEF IInv
<1>2. /\ task'[t] = l /\ task' \in [Tasks -> Local]
      /\ \A o \in Tasks : o # t => task'[o] = task[o]
  BY <1>1, BecomeValue
<1>3. TypeInv'
  BY <1>1, <1>2 DEF TypeInv
<1>4. KeysAreHeld'
  <2>1. SUFFICES ASSUME NEW o \in Tasks, NEW f \in 1..3, HoldsKey(o, f)'
                 PROVE  /\ KeyFree(o, f)'
                        /\ \A u \in 1..Len(users) :
                             ~SameKey(Fields[f], users[u][Fields[f]],
                                      task'[o].input[Fields[f]])
    BY DEF KeysAreHeld
  <2>2. CASE o = t
    <3>1. Entered(l, f)
      BY <1>2, <2>1, <2>2 DEF HoldsKey, Entered
    <3>2. \A p \in Tasks \ {t} : HoldsKey(p, f)' <=> HoldsKey(p, f)
      BY <1>2 DEF HoldsKey
    <3>. QED  BY <1>2, <2>2, <3>1, <3>2 DEF KeysAreNew, KeyFree
  <2>3. CASE o # t
    <3>1. HoldsKey(o, f) /\ task'[o] = task[o]
      BY <1>2, <2>1, <2>3 DEF HoldsKey
    <3>2. /\ KeyFree(o, f)
          /\ \A u \in 1..Len(users) :
               ~SameKey(Fields[f], users[u][Fields[f]], task[o].input[Fields[f]])
      BY <1>1, <3>1 DEF KeysAreHeld
    <3>3. ASSUME NEW p \in Tasks \ {o}, HoldsKey(p, f)'
          PROVE  ~SameKey(Fields[f], task'[p].input[Fields[f]], task[o].input[Fields[f]])
      <4>1. CASE p = t
        <5>1. Entered(l, f)
          BY <1>2, <3>3, <4>1 DEF HoldsKey, Entered
        <5>2. ~SameKey(Fields[f], task[o].input[Fields[f]], l.input[Fields[f]])
          BY <2>3, <3>1, <5>1 DEF KeysAreNew
        <5>. QED  BY <1>2, <4>1, <5>2, SameKeySymmetric
      <4>2. CASE p # t
        <5>1. HoldsKey(p, f) /\ task'[p] = task[p]
          BY <1>2, <3>3, <4>2, SMTT(60) DEF HoldsKey
        <5>. QED  BY <3>2, <5>1 DEF KeyFree
      <4>. QED  BY <4>1, <4>2
    <3>. QED  BY <3>1, <3>2, <3>3 DEF KeyFree
  <2>. QED  BY <2>2, <2>3
<1>5. RowsAreUnique' /\ UnusedIsNewest' /\ AttemptsAreBounded' /\ JobsMatchCodes'
  BY <1>1, SMTT(60) DEF RowsAreUnique, UnusedIsNewest, AttemptsAreBounded, JobsMatchCodes
<1>6. \A o \in Tasks : LocalOK(task[o])'
  <2>1. \A o \in Tasks : LocalOK(task'[o])
    BY <1>1, <1>2, SMTT(60)
  <2>. QED  BY <2>1 DEF LocalOK, Acceptable, UnusedOf
<1>7. LocksAreExclusive'
  <2>1. SUFFICES ASSUME NEW a \in Tasks, NEW b \in Tasks, a # b
                 PROVE  /\ task'[a].pc \in Locking /\ task'[b].pc \in Locking
                             => task'[a].user # task'[b].user
                        /\ /\ task'[a].pc \in {"marked", "superseded"}
                           /\ task'[b].pc \in {"marked", "superseded"}
                           => task'[a].code # task'[b].code \/ task'[a].code = 0
    BY DEF LocksAreExclusive
  <2>2. CASE a # t /\ b # t
    BY <1>1, <1>2, <2>1, <2>2 DEF LocksAreExclusive
  <2>3. CASE a = t
    BY <1>2, <2>1, <2>3 DEF LocksAreNew, CodeFree
  <2>4. CASE b = t
    BY <1>2, <2>1, <2>4 DEF LocksAreNew, CodeFree
  <2>. QED  BY <2>2, <2>3, <2>4
<1>8. RoomIsKept'
  <2>1. Len(users) \in Nat /\ MaxUsers \in Nat
    BY <1>1, Tables, AccountsAssumption
  <2>2. CASE l.pc \notin SignUpPcs \/ task[t].pc \in SignUpPcs
    BY <1>1, <2>1, <2>2, SigningUpNext DEF RoomIsKept
  <2>3. CASE RoomForUser
    BY <1>1, <2>1, <2>3, SigningUpNext DEF RoomIsKept, RoomForUser
  <2>. QED  BY <2>2, <2>3
<1>. QED
  BY <1>3, <1>4, <1>5, <1>6, <1>7, <1>8 DEF IInv

\* A handler that ends without a commit, by a refusal or by an exception.
LEMMA GoesIdle ==
  ASSUME IInv, NEW t \in Tasks, Become(t, Idle), UNCHANGED <<now, users, codes, outbox>>
  PROVE  IInv'
<1>1. TypeInv
  BY DEF IInv
<1>2. Idle \in Local /\ LocalOK(Idle) /\ Idle.pc = "idle"
  BY <1>1, IdleIsOK
<1>3. KeysAreNew(t, Idle) /\ LocksAreNew(t, Idle) /\ Idle.pc \notin SignUpPcs
  BY <1>2 DEF KeysAreNew, Entered, LocksAreNew, Locking, SignUpPcs
<1>. QED
  BY <1>2, <1>3, QuietStep

\* A handler that holds no key, with the locks it takes free.
LEMMA QuietOther ==
  ASSUME IInv, NEW t \in Tasks, NEW l \in Local, Become(t, l),
         UNCHANGED <<now, users, codes, outbox>>,
         LocalOK(l), LocksAreNew(t, l), l.pc \notin SignUpPcs
  PROVE  IInv'
<1>1. KeysAreNew(t, l)
  BY DEF KeysAreNew, Entered, SignUpPcs
<1>. QED
  BY <1>1, QuietStep

\* The fields of a handler's locals.
LEMMA LocalFields ==
  ASSUME NEW l \in Local
  PROVE  /\ l.pc \in Pcs /\ l.input \in Inputs /\ l.field \in Nat /\ l.user \in Nat
         /\ l.code \in Nat /\ l.value \in CodeValues \cup {None} /\ l.at \in Nat
BY DEF Local

\* Where a sign-up goes next.
LEMMA OnwardValue ==
  ASSUME TypeInv, NEW t \in Tasks, NEW phase \in Pcs
  PROVE  /\ Onward(t, phase) \in Local
         /\ Onward(t, phase).input = task[t].input
         /\ Onward(t, phase).user = task[t].user
         /\ Onward(t, phase).code = task[t].code
         /\ FieldsAfter(task[t].field, task[t].input) = {} =>
              Onward(t, phase).pc = phase /\ Onward(t, phase).field = 1
         /\ FieldsAfter(task[t].field, task[t].input) # {} =>
              /\ Onward(t, phase).pc = task[t].pc
              /\ Onward(t, phase).field =
                   CHOOSE f \in FieldsAfter(task[t].field, task[t].input) :
                     \A g \in FieldsAfter(task[t].field, task[t].input) : f <= g
<1>. DEFINE rest == FieldsAfter(task[t].field, task[t].input)
<1>0. PICK l : l = Onward(t, phase)
  OBVIOUS
<1>1. task[t] \in Local /\ task[t].field \in Nat
  BY LocalFields DEF TypeInv
<1>2. CASE rest = {}
  <2>1. l = [task[t] EXCEPT !.pc = phase, !.field = 1]
    BY <1>0, <1>2, Zenon DEF Onward
  <2>2. l \in Local
    <3>1. [task[t] EXCEPT !.pc = phase] \in Local
      BY <1>1 DEF Local
    <3>2. l = [[task[t] EXCEPT !.pc = phase] EXCEPT !.field = 1]
      BY <2>1
    <3>. QED  BY <3>1, <3>2, Zenon DEF Local
  <2>3. /\ l.input = task[t].input /\ l.user = task[t].user /\ l.code = task[t].code
        /\ l.pc = phase /\ l.field = 1
    BY <1>1, <2>1 DEF Local
  <2>. QED  BY <1>0, <1>2, <2>2, <2>3
<1>3. CASE rest # {}
  <2>1. PICK n : n = CHOOSE f \in rest : \A g \in rest : f <= g
    OBVIOUS
  <2>2. l = [task[t] EXCEPT !.field = n]
    BY <1>0, <1>3, <2>1, Zenon DEF Onward
  <2>3. n \in Nat
    BY <1>1, <1>3, <2>1, NextField
  <2>4. l \in Local
    BY <1>1, <2>2, <2>3 DEF Local
  <2>5. /\ l.input = task[t].input /\ l.user = task[t].user /\ l.code = task[t].code
        /\ l.pc = task[t].pc /\ l.field = n
    BY <1>1, <2>2 DEF Local
  <2>. QED  BY <1>0, <1>3, <2>1, <2>4, <2>5
<1>. QED
  BY <1>2, <1>3

\* SignUp passes validation only.
LEMMA SignUpStep ==
  ASSUME IInv, NEW t \in Tasks, NEW cmd \in Commands, SignUp(t, cmd)
  PROVE  IInv'
<1>. DEFINE l == [Idle EXCEPT !.pc = "exists", !.input = ValidateSignUp(cmd)]
<1>1. TypeInv
  BY DEF IInv
<1>2. /\ Become(t, l) /\ RoomForUser /\ UNCHANGED <<now, users, codes, outbox>>
  BY DEF SignUp
<1>3. l.pc = "exists" /\ l.user = 0 /\ l.code = 0
  BY DEF Idle
<1>4. l \in Local
  <2>1. "exists" \in Pcs
    BY Zenon DEF Pcs
  <2>2. ValidateSignUp(cmd) \in Inputs
    BY DEF Inputs
  <2>. QED  BY <1>1, <2>1, <2>2, IdleIsOK, Zenon DEF Local
<1>5. LocalOK(l)
  BY <1>1, <1>3, Tables DEF LocalOK, Verifying, Locking
<1>6. KeysAreNew(t, l) /\ LocksAreNew(t, l)
  BY <1>3 DEF KeysAreNew, Entered, LocksAreNew, Locking
<1>. QED
  BY <1>2, <1>4, <1>5, <1>6, QuietStep

\* CheckExists decides nothing: no key is entered yet.
LEMMA CheckExistsStep ==
  ASSUME IInv, NEW t \in Tasks, CheckExists(t)
  PROVE  IInv'
<1>1. TypeInv /\ LocalOK(task[t])
  BY DEF IInv
<1>. PICK l : l = Onward(t, "insert")
  OBVIOUS
<1>2. /\ task[t].pc = "exists" /\ UNCHANGED <<now, users, codes, outbox>>
      /\ Become(t, Idle) \/ Become(t, l)
  BY DEF CheckExists, At
<1>3. CASE Become(t, l)
  <2>1. "insert" \in Pcs
    BY Zenon DEF Pcs
  <2>2. /\ l \in Local /\ l.user = task[t].user /\ l.code = task[t].code
        /\ l.pc = "exists" \/ (l.pc = "insert" /\ l.field = 1)
    <3>1. \/ l.pc = "insert" /\ l.field = 1
          \/ l.pc = task[t].pc
      BY <1>1, <2>1, OnwardValue, Zenon
    <3>2. l \in Local /\ l.user = task[t].user /\ l.code = task[t].code
      BY <1>1, <2>1, OnwardValue, ZenonT(60)
    <3>. QED  BY <1>2, <3>1, <3>2
  <2>3. LocalOK(l)
    BY <1>1, <2>2, ZenonT(60) DEF LocalOK, Verifying, Locking
  <2>4. KeysAreNew(t, l) /\ LocksAreNew(t, l)
    BY <2>2 DEF KeysAreNew, Entered, LocksAreNew, Locking
  <2>5. task[t].pc \in SignUpPcs
    BY <1>2 DEF SignUpPcs
  <2>. QED  BY <1>2, <1>3, <2>2, <2>3, <2>4, <2>5, QuietStep
<1>. QED
  BY <1>2, <1>3, GoesIdle

\* InsertKey enters a key that is in no row and entered by no other handler;
\* the fields it passes over were not sent.
LEMMA InsertKeyStep ==
  ASSUME IInv, NEW t \in Tasks, InsertKey(t)
  PROVE  IInv'
<1>. DEFINE l == Onward(t, "inserted")
            k == task[t].field
            input == task[t].input
            rest == FieldsAfter(k, input)
<1>1. TypeInv /\ LocalOK(task[t]) /\ KeysAreHeld /\ task[t] \in Local
  BY DEF IInv, TypeInv
<1>2. /\ task[t].pc = "insert" /\ UNCHANGED <<now, users, codes, outbox>>
      /\ KeyFree(t, k)
      /\ \/ Become(t, Idle)
         \/ Become(t, l) /\ FindBy(Fields[k], input[Fields[k]], Len(users)) = 0
  BY ZenonT(60) DEF InsertKey, At
<1>3. CASE Become(t, l) /\ FindBy(Fields[k], input[Fields[k]], Len(users)) = 0
  <2>1. "inserted" \in Pcs
    BY Zenon DEF Pcs
  <2>2. /\ l \in Local /\ l.input = input /\ l.user = task[t].user /\ l.code = task[t].code
        /\ \/ rest = {} /\ l.pc = "inserted" /\ l.field = 1
           \/ /\ rest # {} /\ l.pc = "insert"
              /\ l.field = CHOOSE f \in rest : \A g \in rest : f <= g
    BY <1>1, <1>2, <2>1, OnwardValue, ZenonT(60)
  <2>3. LocalOK(l)
    BY <1>1, <2>2 DEF LocalOK, Verifying, Locking
  <2>4. k \in Nat
    BY <1>1, LocalFields
  <2>5. ASSUME NEW f \in 1..3, Entered(l, f)
        PROVE  HoldsKey(t, f) \/ f = k \/ input[Fields[f]] = None
    <3>1. f < k => HoldsKey(t, f)
      BY <1>2 DEF HoldsKey
    <3>2. CASE rest = {}
      BY <2>4, <3>1, <3>2, NoField
    <3>3. CASE rest # {}
      <4>1. l.field \in 1..3 /\ f < l.field
        BY <2>2, <2>4, <2>5, <3>3, NextField, ZenonT(60) DEF Entered
      <4>2. k < f /\ f < l.field => input[Fields[f]] = None
        BY <2>2, <2>4, <3>3, NextField, ZenonT(60)
      <4>. QED  BY <2>4, <3>1, <4>1, <4>2, SMTT(60)
    <3>. QED  BY <3>2, <3>3
  <2>6. KeysAreNew(t, l)
    <3>1. SUFFICES ASSUME NEW f \in 1..3, Entered(l, f)
                   PROVE  /\ \A o \in Tasks \ {t} :
                               ~(HoldsKey(o, f)
                                 /\ SameKey(Fields[f], task[o].input[Fields[f]], input[Fields[f]]))
                          /\ \A u \in 1..Len(users) :
                               ~SameKey(Fields[f], users[u][Fields[f]], input[Fields[f]])
      BY <2>2, ZenonT(60) DEF KeysAreNew
    <3>2. CASE HoldsKey(t, f)
      BY <1>1, <3>2, ZenonT(60) DEF KeysAreHeld, KeyFree
    <3>3. CASE f = k
      <4>1. Len(users) \in 0..Len(users)
        BY <1>1, Tables, SMTT(60)
      <4>2. \A u \in 1..Len(users) : ~SameKey(Fields[k], users[u][Fields[k]], input[Fields[k]])
        BY <1>1, <1>3, <4>1, FindByNone, SMTT(60)
      <4>. QED  BY <1>2, <3>3, <4>2, ZenonT(60) DEF KeyFree
    <3>4. CASE input[Fields[f]] = None
      BY <3>4, SameKeySymmetric
    <3>. QED  BY <2>5, <3>1, <3>2, <3>3, <3>4, ZenonT(60)
  <2>7. LocksAreNew(t, l)
    BY <2>2 DEF LocksAreNew, Locking
  <2>8. task[t].pc \in SignUpPcs
    BY <1>2 DEF SignUpPcs
  <2>. QED  BY <1>2, <1>3, <2>2, <2>3, <2>6, <2>7, <2>8, QuietStep, ZenonT(60)
<1>. QED
  BY <1>2, <1>3, GoesIdle

\* VerifyEmail read an account.
LEMMA VerifyEmailStep ==
  ASSUME IInv, NEW t \in Tasks, NEW e \in Spellings, NEW value \in CodeValues,
         VerifyEmail(t, e, value)
  PROVE  IInv'
<1>1. TypeInv
  BY DEF IInv
<1>2. PICK u \in 0..Len(users) : u = UserOfEmail(e)
  BY <1>1, FindBySome DEF UserOfEmail
<1>3. PICK l : l = [Idle EXCEPT !.pc = "verify", !.user = u, !.value = value, !.at = now]
  OBVIOUS
<1>4. Become(t, l) /\ u # 0 /\ UNCHANGED <<now, users, codes, outbox>>
  BY <1>2, <1>3, Zenon DEF VerifyEmail
<1>5. /\ l.pc = "verify" /\ l.input = None /\ l.field = 1 /\ l.user = u /\ l.code = 0
      /\ l.value = value /\ l.at = now
      /\ l = [pc |-> "verify", input |-> None, field |-> 1, user |-> u, code |-> 0,
              value |-> value, at |-> now]
  BY <1>3, Zenon DEF Idle
<1>6. l \in Local
  <2>1. "verify" \in Pcs
    BY Zenon DEF Pcs
  <2>2. None \in Inputs
    BY Zenon DEF Inputs
  <2>3. now \in Nat
    BY <1>1, Zenon DEF TypeInv
  <2>4. u \in Nat
    BY <1>2
  <2>. QED  BY <1>5, <2>1, <2>2, <2>3, <2>4 DEF Local
<1>7. LocalOK(l)
  <2>1. Len(users) \in Nat /\ Len(codes) \in Nat
    BY <1>1, Tables, Zenon
  <2>2. l.user \in 0..Len(users) /\ l.code \in 0..Len(codes) /\ l.user # 0
    BY <1>2, <1>4, <1>5, <2>1
  <2>3. /\ l.pc \notin Verifying /\ l.pc # "marked" /\ l.pc # "superseded"
        /\ l.pc \notin {"mark_used", "marked"}
        /\ l.pc \notin {"superseding", "superseded"}
    BY <1>5, Zenon DEF Verifying
  <2>. QED  BY <2>2, <2>3, Zenon DEF LocalOK
<1>8. LocksAreNew(t, l) /\ l.pc \notin SignUpPcs
  BY <1>5 DEF LocksAreNew, Locking, SignUpPcs
<1>. QED
  BY <1>4, <1>6, <1>7, <1>8, QuietOther

\* So did Resend.
LEMMA ResendStep ==
  ASSUME IInv, NEW t \in Tasks, NEW e \in Spellings, Resend(t, e)
  PROVE  IInv'
<1>1. TypeInv
  BY DEF IInv
<1>2. PICK u \in 0..Len(users) : u = UserOfEmail(e)
  BY <1>1, FindBySome DEF UserOfEmail
<1>3. PICK l : l = [Idle EXCEPT !.pc = "resend", !.user = u, !.at = now]
  OBVIOUS
<1>4. Become(t, l) /\ u # 0 /\ UNCHANGED <<now, users, codes, outbox>>
  BY <1>2, <1>3, Zenon DEF Resend
<1>5. /\ l.pc = "resend" /\ l.user = u /\ l.code = 0
      /\ l = [pc |-> "resend", input |-> None, field |-> 1, user |-> u, code |-> 0,
              value |-> None, at |-> now]
  BY <1>3, Zenon DEF Idle
<1>6. l \in Local
  <2>1. "resend" \in Pcs
    BY Zenon DEF Pcs
  <2>2. None \in Inputs
    BY Zenon DEF Inputs
  <2>3. now \in Nat
    BY <1>1, Zenon DEF TypeInv
  <2>4. u \in Nat
    BY <1>2
  <2>. QED  BY <1>5, <2>1, <2>2, <2>3, <2>4 DEF Local
<1>7. LocalOK(l)
  <2>1. Len(users) \in Nat /\ Len(codes) \in Nat
    BY <1>1, Tables, Zenon
  <2>2. l.user \in 0..Len(users) /\ l.code \in 0..Len(codes) /\ l.user # 0
    BY <1>2, <1>4, <1>5, <2>1
  <2>3. /\ l.pc \notin Verifying /\ l.pc # "marked" /\ l.pc # "superseded"
        /\ l.pc \notin {"mark_used", "marked"}
        /\ l.pc \notin {"superseding", "superseded"}
    BY <1>5, Zenon DEF Verifying
  <2>. QED  BY <2>2, <2>3, Zenon DEF LocalOK
<1>8. LocksAreNew(t, l) /\ l.pc \notin SignUpPcs
  BY <1>5, ZenonT(60) DEF LocksAreNew, Locking, SignUpPcs
<1>. QED
  BY <1>4, <1>6, <1>7, <1>8, QuietOther

\* A handler moves on and sets the code it is about.
Moved(t, pc, c) == [task[t] EXCEPT !.pc = pc, !.code = c]

\* It keeps the rest of what it read.
LEMMA MovesOn ==
  ASSUME TypeInv, NEW t \in Tasks, NEW pc \in Pcs, NEW c \in Nat
  PROVE  /\ Moved(t, pc, c) \in Local
         /\ Moved(t, pc, c).pc = pc /\ Moved(t, pc, c).code = c
         /\ Moved(t, pc, c).user = task[t].user
         /\ Moved(t, pc, c).value = task[t].value
<1>1. task[t] \in Local
  BY ZenonT(60) DEF TypeInv
<1>2. PICK l : l = Moved(t, pc, c)
  OBVIOUS
<1>3. [task[t] EXCEPT !.pc = pc] \in Local
  BY <1>1 DEF Local
<1>4. l = [[task[t] EXCEPT !.pc = pc] EXCEPT !.code = c]
  BY <1>2 DEF Moved
<1>5. l \in Local
  BY <1>3, <1>4, Zenon DEF Local
<1>6. l.pc = pc /\ l.code = c /\ l.user = task[t].user /\ l.value = task[t].value
  BY <1>1, <1>2 DEF Local, Moved
<1>. QED
  BY <1>2, <1>5, <1>6, ZenonT(60)

\* FindActive found a code of the account that is unused.
LEMMA FindActiveStep ==
  ASSUME IInv, NEW t \in Tasks, FindActive(t)
  PROVE  IInv'
<1>. DEFINE active == {c \in UnusedOf(task[t].user) : Acceptable(c, task[t].at)}
<1>1. TypeInv /\ UnusedIsNewest /\ LocalOK(task[t])
  BY DEF IInv
<1>2. task[t].pc = "verify" /\ UNCHANGED <<now, users, codes, outbox>>
  BY DEF FindActive, At
<1>3. CASE active = {}
  BY <1>2, <1>3, GoesIdle DEF FindActive
<1>4. CASE active # {}
  <2>1. PICK c : c = CHOOSE x \in active : \A d \in active : d <= x
    OBVIOUS
  <2>2. c \in UnusedOf(task[t].user)
    <3>1. PICK d \in active : TRUE
      BY <1>4
    <3>2. d \in Nat /\ \A e \in active : e = d
      BY <1>1, <3>1, UnusedIsOne, UnusedOfDef
    <3>3. \A e \in active : e <= d
      BY <3>2
    <3>. QED  BY <2>1, <3>1, <3>3
  <2>3. c \in 1..Len(codes) /\ codes[c].user = task[t].user
    BY <1>1, <2>2, UnusedOfDef
  <2>4. PICK pc : pc = IF codes[c].value = task[t].value THEN "mark_used" ELSE "wrong_code"
    OBVIOUS
  <2>5. PICK l : l = [task[t] EXCEPT !.code = c, !.pc = pc]
    OBVIOUS
  <2>6. Become(t, l)
    BY <1>4, <2>1, <2>4, <2>5, Zenon DEF FindActive
  <2>7. pc \in Pcs /\ l = Moved(t, pc, c)
    BY <2>4, <2>5, Zenon DEF Pcs, Moved
  <2>8. /\ l \in Local /\ l.pc = pc /\ l.code = c
        /\ l.user = task[t].user /\ l.value = task[t].value
    <3>1. c \in Nat
      BY <2>3
    <3>. QED  BY <1>1, <2>7, <3>1, MovesOn, ZenonT(60)
  <2>9. LocalOK(l)
    BY <1>1, <1>2, <2>3, <2>4, <2>8 DEF LocalOK, Verifying, Locking
  <2>10. LocksAreNew(t, l) /\ l.pc \notin SignUpPcs
    BY <2>4, <2>8 DEF LocksAreNew, Locking, SignUpPcs
  <2>. QED  BY <1>2, <2>6, <2>8, <2>9, <2>10, QuietOther
<1>. QED
  BY <1>3, <1>4

\* MarkUsed checked the code again and holds its row.
LEMMA MarkUsedStep ==
  ASSUME IInv, NEW t \in Tasks, MarkUsed(t)
  PROVE  IInv'
<1>1. TypeInv /\ LocalOK(task[t]) /\ task[t] \in Local
  BY DEF IInv, TypeInv
<1>2. /\ task[t].pc = "mark_used" /\ CodeFree(t, task[t].code)
      /\ UNCHANGED <<now, users, codes, outbox>>
  BY DEF MarkUsed, At
<1>3. CASE ~Acceptable(task[t].code, task[t].at)
  BY <1>2, <1>3, GoesIdle, SMTT(60) DEF MarkUsed
<1>4. CASE Acceptable(task[t].code, task[t].at)
  <2>1. PICK l : l = [task[t] EXCEPT !.pc = "marked"]
    BY Zenon
  <2>2. Become(t, l)
    BY <1>4, <2>1, Zenon DEF MarkUsed
  <2>3. "marked" \in Pcs
    BY Zenon DEF Pcs
  <2>4. /\ l \in Local /\ l.pc = "marked" /\ l.code = task[t].code
        /\ l.user = task[t].user /\ l.value = task[t].value /\ l.at = task[t].at
    BY <1>1, <2>1, <2>3, ZenonT(60) DEF Local
  <2>5. LocalOK(l)
    BY <1>1, <1>2, <1>4, <2>4, SMTT(60) DEF LocalOK, Verifying, Locking
  <2>6. LocksAreNew(t, l) /\ l.pc \notin SignUpPcs
    BY <1>2, <2>4 DEF LocksAreNew, Locking, SignUpPcs
  <2>. QED  BY <1>2, <2>2, <2>4, <2>5, <2>6, QuietOther
<1>. QED
  BY <1>3, <1>4, SMTT(60)

\* ResendLock takes an advisory lock nobody holds.
LEMMA ResendLockStep ==
  ASSUME IInv, NEW t \in Tasks, ResendLock(t)
  PROVE  IInv'
<1>1. TypeInv /\ LocalOK(task[t]) /\ task[t] \in Local
  BY DEF IInv, TypeInv
<1>2. PICK l : l = [task[t] EXCEPT !.pc = "locked"]
  BY Zenon
<1>3. /\ task[t].pc = "resend" /\ ScopesFree(t) /\ Become(t, l)
      /\ UNCHANGED <<now, users, codes, outbox>>
  BY <1>2, Zenon DEF ResendLock, At
<1>4. "locked" \in Pcs
  BY Zenon DEF Pcs
<1>5. /\ l \in Local /\ l.pc = "locked" /\ l.code = task[t].code
      /\ l.user = task[t].user
  BY <1>1, <1>2, <1>4, SMTT(60) DEF Local
<1>6. LocalOK(l)
  BY <1>1, <1>3, <1>5, SMTT(60) DEF LocalOK, Verifying, Locking
<1>7. LocksAreNew(t, l) /\ l.pc \notin SignUpPcs
  BY <1>3, <1>5, ZenonT(60) DEF LocksAreNew, ScopesFree, Locking, SignUpPcs
<1>. QED
  BY <1>3, <1>5, <1>6, <1>7, QuietOther

\* The snapshot of SupersedeStart has the only unused code.
LEMMA SupersedeStartStep ==
  ASSUME IInv, NEW t \in Tasks, SupersedeStart(t)
  PROVE  IInv'
<1>. DEFINE unused == UnusedOf(task[t].user)
<1>1. /\ TypeInv /\ UnusedIsNewest /\ LocksAreExclusive /\ LocalOK(task[t])
      /\ Len(codes) \in Nat
  BY Tables DEF IInv
<1>2. PICK c : c = IF unused = {} THEN 0 ELSE CHOOSE x \in unused : TRUE
  OBVIOUS
<1>3. PICK l : l = Moved(t, "superseding", c)
  OBVIOUS
<1>4. /\ task[t].pc = "locked" /\ Become(t, l) /\ UNCHANGED <<now, users, codes, outbox>>
  BY <1>2, <1>3, Zenon DEF SupersedeStart, At, Moved
<1>5. /\ unused \subseteq {c} /\ c \in 0..Len(codes)
      /\ c # 0 => codes[c].user = task[t].user
  <2>1. CASE unused = {}
    BY <1>1, <1>2, <2>1
  <2>2. CASE unused # {}
    <3>1. c \in unused
      BY <1>2, <2>2
    <3>2. c \in 1..Len(codes) /\ codes[c].user = task[t].user
      BY <1>1, <3>1, UnusedOfDef
    <3>3. unused \subseteq {c}
      BY <1>1, <3>1, UnusedIsOne
    <3>. QED  BY <1>1, <3>2, <3>3
  <2>. QED  BY <2>1, <2>2
<1>6. c \in Nat /\ "superseding" \in Pcs
  BY <1>1, <1>5 DEF Pcs
<1>7. l \in Local /\ l.pc = "superseding" /\ l.code = c /\ l.user = task[t].user
  BY <1>1, <1>3, <1>6, MovesOn, ZenonT(60)
<1>8. LocalOK(l)
  BY <1>1, <1>4, <1>5, <1>7 DEF LocalOK, Verifying, Locking
<1>9. LocksAreNew(t, l) /\ l.pc \notin SignUpPcs
  BY <1>1, <1>4, <1>7, Zenon DEF LocksAreNew, LocksAreExclusive, Locking, SignUpPcs
<1>. QED
  BY <1>4, <1>7, <1>8, <1>9, QuietOther

\* Supersede holds the row of that code, or there is none left.
LEMMA SupersedeStep ==
  ASSUME IInv, NEW t \in Tasks, Supersede(t)
  PROVE  IInv'
<1>. DEFINE c == task[t].code
<1>1. /\ TypeInv /\ LocksAreExclusive /\ LocalOK(task[t])
      /\ task[t] \in Local /\ c \in Nat
  BY LocalFields DEF IInv, TypeInv
<1>2. PICK d : d = IF c # 0 /\ ~codes[c].used THEN c ELSE 0
  OBVIOUS
<1>3. PICK l : l = Moved(t, "superseded", d)
  OBVIOUS
<1>4. /\ task[t].pc = "superseding" /\ (c = 0 \/ CodeFree(t, c)) /\ Become(t, l)
      /\ UNCHANGED <<now, users, codes, outbox>>
  BY <1>2, <1>3, ZenonT(60) DEF Supersede, At, Moved
<1>5. /\ d \in 0..Len(codes) /\ UnusedOf(task[t].user) \subseteq {d}
      /\ d # 0 => codes[d].user = task[t].user /\ ~codes[d].used /\ d = c
  <2>1. /\ UnusedOf(task[t].user) \subseteq {c} /\ c \in 0..Len(codes)
        /\ c # 0 => codes[c].user = task[t].user
    BY <1>1, <1>4, SMTT(60) DEF LocalOK
  <2>2. CASE c # 0 /\ ~codes[c].used
    BY <1>2, <2>1, <2>2
  <2>3. CASE c = 0
    BY <1>2, <2>1, <2>3, SMTT(60)
  <2>4. CASE c # 0 /\ codes[c].used
    <3>1. UnusedOf(task[t].user) = {}
      BY <1>1, <2>1, <2>4, UnusedOfDef
    <3>. QED  BY <1>2, <2>1, <2>4, <3>1, SMTT(60)
  <2>. QED  BY <2>2, <2>3, <2>4, ZenonT(60)
<1>6. d \in Nat /\ "superseded" \in Pcs
  BY <1>1, <1>2 DEF Pcs
<1>7. l \in Local /\ l.pc = "superseded" /\ l.code = d /\ l.user = task[t].user
  BY <1>1, <1>3, <1>6, MovesOn, ZenonT(60)
<1>8. LocalOK(l)
  BY <1>1, <1>4, <1>5, <1>7 DEF LocalOK, Verifying, Locking
<1>9. LocksAreNew(t, l) /\ l.pc \notin SignUpPcs
  BY <1>1, <1>4, <1>5, <1>7 DEF LocksAreNew, LocksAreExclusive, Locking, SignUpPcs
<1>. QED
  BY <1>4, <1>7, <1>8, <1>9, QuietOther, SMTT(60)
=============================================================================
