------------------------ MODULE AttemptLimiterProofs ------------------------
(***************************************************************************)
(* The limit of AttemptLimiter, for any number of handlers, scopes and     *)
(* attempts, any limits and any window; and that the order of the locks    *)
(* keeps handlers from waiting for one another in a circle.                *)
(***************************************************************************)
EXTENDS AttemptLimiter, FiniteSetTheorems, WellFoundedInduction, TLAPS

\* The table is finite at any time, however many ids there are.
TableIsFinite == IsFiniteSet({i \in AttemptIds : Stored(i)})

\* The inductive invariant.
IInv == TypeOK /\ CountStaysTrue /\ WindowLimit /\ TableIsFinite

\* The locals of a handler at rest have their type.
LEMMA IdleType == Idle \in Local
BY DEF Idle, Local

\* Sets of attempts are finite and their sizes are numbers.
LEMMA FiniteCounts ==
  ASSUME TableIsFinite, NEW k, NEW w
  PROVE  /\ IsFiniteSet(Recent(k, w)) /\ Cardinality(Recent(k, w)) \in Nat
         /\ IsFiniteSet(InWindow(k, w)) /\ Cardinality(InWindow(k, w)) \in Nat
<1>1. /\ Recent(k, w) \subseteq {i \in AttemptIds : Stored(i)}
      /\ InWindow(k, w) \subseteq {i \in AttemptIds : Stored(i)}
  BY DEF Recent, InWindow
<1>. QED
  BY <1>1, FS_Subset, FS_CardinalityType DEF TableIsFinite

\* A step that leaves the table alone and moves t to l.
LEMMA TaskStep ==
  ASSUME IInv, NEW t \in Tasks, NEW l \in Local, Become(t, l),
         UNCHANGED <<table, now, attempts>>,
         l.pc = "recorded" => l.held = l.keys /\ Admitted(l.keys, l.at),
         \A o \in Tasks \ {t} : l.held \cap task[o].held = {}
  PROVE  IInv'
<1>1. TypeOK'
  BY DEF IInv, TypeOK, Become
<1>2. \A ks, at : Admitted(ks, at) => Admitted(ks, at)'
  BY DEF Admitted, Recent, Stored
<1>3. task' = [task EXCEPT ![t] = l] /\ task \in [Tasks -> Local]
  BY DEF IInv, TypeOK, Become
<1>4. CountStaysTrue'
  <2>1. ASSUME NEW o \in Tasks, task'[o].pc = "recorded"
        PROVE  /\ task'[o].held = task'[o].keys
               /\ Admitted(task[o].keys, task[o].at)'
    <3>1. PICK m \in Local : m = task'[o]
      BY <1>3
    <3>2. m.held = m.keys /\ Admitted(m.keys, m.at)
      <4>1. CASE o = t
        BY <1>3, <2>1, <3>1, <4>1
      <4>2. CASE o # t
        BY <1>3, <2>1, <3>1, <4>2 DEF IInv, CountStaysTrue
      <4>. QED  BY <4>1, <4>2
    <3>3. Admitted(m.keys, m.at)'
      BY <1>2, <3>2
    <3>. QED  BY <3>1, <3>2, <3>3 DEF Admitted, Recent, Stored
  <2>2. \A o, q \in Tasks : o # q => task'[o].held \cap task'[q].held = {}
    BY <1>3 DEF IInv, CountStaysTrue
  <2>. QED  BY <2>1, <2>2 DEF CountStaysTrue
<1>5. WindowLimit' /\ TableIsFinite'
  BY DEF IInv, WindowLimit, InWindow, TableIsFinite, Stored
<1>. QED
  BY <1>1, <1>4, <1>5 DEF IInv

\* The attempts of a scope after Commit(t) has inserted row i.
LEMMA AfterCommit ==
  ASSUME TypeOK, NEW t \in Tasks, NEW i \in AttemptIds, ~Stored(i),
         attempts' = [attempts EXCEPT ![i] =
                        [keys |-> task[t].keys, at |-> task[t].at]],
         NEW k \in Keys
  PROVE  /\ k \notin task[t].keys =>
              /\ \A at \in Nat : Recent(k, at)' = Recent(k, at)
              /\ \A w \in Nat : InWindow(k, w)' = InWindow(k, w)
         /\ \A w \in Nat :
              \/ InWindow(k, w)' = InWindow(k, w)
              \/ /\ InWindow(k, w)' = InWindow(k, w) \cup {i}
                 /\ i \notin InWindow(k, w)
                 /\ InWindow(k, w) \subseteq Recent(k, task[t].at)
<1>1. task[t].keys \subseteq Keys /\ task[t].at \in Nat
  BY DEF TypeOK, Local
<1>2. [keys |-> task[t].keys, at |-> task[t].at] \in Attempt
  BY <1>1 DEF Attempt
<1>3. /\ \A j \in AttemptIds \ {i} : attempts'[j] = attempts[j]
      /\ attempts'[i] # None
      /\ attempts'[i].keys = task[t].keys /\ attempts'[i].at = task[t].at
  BY <1>2, LimiterAssumption DEF TypeOK
<1>4. attempts[i] = None
  BY DEF Stored
<1>6. ASSUME k \notin task[t].keys
      PROVE  /\ \A at \in Nat : Recent(k, at)' = Recent(k, at)
             /\ \A w \in Nat : InWindow(k, w)' = InWindow(k, w)
  BY <1>3, <1>4, <1>6 DEF Recent, InWindow, Stored
<1>7. ASSUME NEW w \in Nat
      PROVE  \/ InWindow(k, w)' = InWindow(k, w)
             \/ /\ InWindow(k, w)' = InWindow(k, w) \cup {i}
                /\ i \notin InWindow(k, w)
                /\ InWindow(k, w) \subseteq Recent(k, task[t].at)
  <2>1. CASE k \in task[t].keys /\ w <= task[t].at /\ task[t].at <= w + Window
    <3>1. InWindow(k, w)' = InWindow(k, w) \cup {i}
      BY <1>3, <1>4, <2>1 DEF InWindow, Stored
    <3>2. i \notin InWindow(k, w)
      BY <1>4 DEF InWindow, Stored
    <3>3. ASSUME NEW j \in InWindow(k, w) PROVE j \in Recent(k, task[t].at)
      <4>1. /\ j \in AttemptIds /\ Stored(j) /\ k \in attempts[j].keys
            /\ w <= attempts[j].at
        BY <3>3 DEF InWindow
      <4>2. attempts[j].at \in Nat
        BY <4>1 DEF TypeOK, Stored, Attempt
      <4>3. attempts[j].at + Window >= task[t].at
        BY <1>1, <2>1, <4>1, <4>2, LimiterAssumption
      <4>. QED  BY <4>1, <4>3 DEF Recent
    <3>. QED  BY <3>1, <3>2, <3>3
  <2>2. CASE ~(k \in task[t].keys /\ w <= task[t].at /\ task[t].at <= w + Window)
    BY <1>3, <1>4, <2>2 DEF InWindow, Stored
  <2>. QED  BY <2>1, <2>2
<1>. QED
  BY <1>6, <1>7

\* Inserting an admitted attempt preserves the invariant.
LEMMA CommitStep ==
  ASSUME IInv, NEW t \in Tasks, Commit(t)
  PROVE  IInv'
<1>. TypeOK /\ CountStaysTrue /\ WindowLimit /\ TableIsFinite
  BY DEF IInv
<1>1. PICK i \in AttemptIds :
        /\ ~Stored(i)
        /\ attempts' = [attempts EXCEPT ![i] =
                          [keys |-> task[t].keys, at |-> task[t].at]]
  BY Zenon DEF Commit
<1>2. /\ task' = [task EXCEPT ![t] = Idle] /\ UNCHANGED <<table, now>>
      /\ task[t].pc = "recorded" /\ task[t] \in Local
  BY DEF Commit, Become, TypeOK
<1>3. TypeOK'
  <2>1. [keys |-> task[t].keys, at |-> task[t].at] \in Attempt
    BY <1>2 DEF Attempt, Local
  <2>. QED  BY <1>1, <1>2, <2>1, IdleType DEF TypeOK
<1>4. TableIsFinite'
  <2>1. [keys |-> task[t].keys, at |-> task[t].at] \in Attempt
    BY <1>2 DEF Attempt, Local
  <2>2. {j \in AttemptIds : attempts'[j] # None}
          = {j \in AttemptIds : attempts[j] # None} \cup {i}
    BY <1>1, <2>1, LimiterAssumption DEF TypeOK
  <2>3. IsFiniteSet({j \in AttemptIds : attempts[j] # None})
    BY DEF TableIsFinite, Stored
  <2>4. IsFiniteSet({j \in AttemptIds : attempts[j] # None} \cup {i})
    BY <2>3, FS_AddElement
  <2>. QED  BY <2>2, <2>4 DEF TableIsFinite, Stored
<1>5. CountStaysTrue'
  <2>1. ASSUME NEW o \in Tasks, task'[o].pc = "recorded"
        PROVE  /\ task'[o].held = task'[o].keys
               /\ Admitted(task[o].keys, task[o].at)'
    <3>1. o # t /\ task'[o] = task[o]
      BY <1>2, <2>1 DEF Idle, TypeOK
    <3>2. PICK m \in Local : m = task[o] /\ m = task'[o]
      BY <3>1 DEF TypeOK
    <3>3. m.held = m.keys /\ Admitted(m.keys, m.at) /\ task[t].held = task[t].keys
      BY <1>2, <2>1, <3>2, Zenon DEF CountStaysTrue
    <3>4. m.keys \cap task[t].keys = {}
      BY <3>1, <3>2, <3>3 DEF CountStaysTrue
    <3>5. m.keys \subseteq Keys /\ m.at \in Nat
      BY DEF Local
    <3>6. \A k \in m.keys : Recent(k, m.at)' = Recent(k, m.at)
      BY <1>1, <3>4, <3>5, AfterCommit, Zenon
    <3>7. Admitted(m.keys, m.at)'
      BY <3>3, <3>6 DEF Admitted
    <3>. QED  BY <3>2, <3>3, <3>7 DEF Admitted, Recent, Stored
  <2>2. \A o, q \in Tasks : o # q => task'[o].held \cap task'[q].held = {}
    BY <1>2 DEF CountStaysTrue, TypeOK, Idle
  <2>. QED  BY <2>1, <2>2 DEF CountStaysTrue
<1>6. WindowLimit'
  <2>. SUFFICES ASSUME NEW k \in Keys, NEW w \in 0..MaxNow, Limit[k] > 0
                PROVE  Cardinality(InWindow(k, w)') <= Limit[k]
    BY DEF WindowLimit
  <2>1. w \in Nat /\ Limit[k] \in Nat
    BY LimiterAssumption
  <2>2. Cardinality(InWindow(k, w)) <= Limit[k]
    BY DEF WindowLimit
  <2>3. CASE InWindow(k, w)' = InWindow(k, w)
    BY <2>2, <2>3
  <2>4. CASE InWindow(k, w)' # InWindow(k, w)
    <3>1. /\ InWindow(k, w)' = InWindow(k, w) \cup {i}
          /\ i \notin InWindow(k, w)
          /\ InWindow(k, w) \subseteq Recent(k, task[t].at)
          /\ k \in task[t].keys
      BY <1>1, <2>1, <2>4, AfterCommit, Zenon
    <3>2. Cardinality(Recent(k, task[t].at)) < Limit[k]
      BY <1>2, <3>1 DEF CountStaysTrue, Admitted
    <3>3. Cardinality(InWindow(k, w)) <= Cardinality(Recent(k, task[t].at))
      BY <3>1, FiniteCounts, FS_Subset
    <3>4. Cardinality(InWindow(k, w)') = Cardinality(InWindow(k, w)) + 1
      BY <3>1, FiniteCounts, FS_AddElement, Zenon
    <3>. QED  BY <2>1, <3>2, <3>3, <3>4, FiniteCounts
  <2>. QED  BY <2>3, <2>4
<1>. QED
  BY <1>3, <1>4, <1>5, <1>6 DEF IInv

\* An empty table and handlers at rest satisfy the invariant.
LEMMA InvInit == Init => IInv
<1>. SUFFICES ASSUME Init PROVE IInv
  OBVIOUS
<1>1. TypeOK
  BY IdleType, LimiterAssumption DEF Init, TypeOK
<1>2. CountStaysTrue
  BY DEF Init, CountStaysTrue, Idle
<1>3. {i \in AttemptIds : Stored(i)} = {}
  BY DEF Init, Stored
<1>4. TableIsFinite
  BY <1>3, FS_EmptySet DEF TableIsFinite
<1>5. \A k, w : InWindow(k, w) = {}
  BY <1>3 DEF InWindow
<1>6. WindowLimit
  <2>. SUFFICES ASSUME NEW k \in Keys, NEW w \in 0..MaxNow, Limit[k] > 0
                PROVE  Cardinality(InWindow(k, w)) <= Limit[k]
    BY DEF WindowLimit
  <2>1. Cardinality({}) = 0
    BY FS_EmptySet
  <2>2. Cardinality(InWindow(k, w)) = 0
    BY <1>5, <2>1
  <2>. QED  BY <2>2, LimiterAssumption
<1>. QED
  BY <1>1, <1>2, <1>4, <1>6 DEF IInv

\* Every step preserves the invariant.
LEMMA InvNext == IInv /\ [Next]_vars => IInv'
<1>. SUFFICES ASSUME IInv, [Next]_vars PROVE IInv'
  OBVIOUS
<1>. TypeOK /\ CountStaysTrue
  BY DEF IInv
<1>1. CASE Tick
  <2>1. now' \in 0..MaxNow
    BY <1>1, LimiterAssumption DEF Tick, TypeOK
  <2>. QED
    BY <1>1, <2>1 DEF Tick, IInv, TypeOK, CountStaysTrue, Admitted, Recent,
         Stored, WindowLimit, InWindow, TableIsFinite
<1>2. ASSUME NEW t \in Tasks, NEW ks \in Scopes, SignIn(t, ks) PROVE IInv'
  <2>1. [Idle EXCEPT !.pc = "check", !.keys = ks, !.at = now] \in Local
    <3>1. ks \in SUBSET Keys /\ now \in Nat
      BY LimiterAssumption DEF TypeOK
    <3>. QED  BY <3>1, Zenon DEF Idle, Local
  <2>2. PICK l \in Local : l = [Idle EXCEPT !.pc = "check", !.keys = ks, !.at = now]
    BY <2>1
  <2>3. l.pc = "check" /\ l.held = {}
    BY <2>2 DEF Idle
  <2>4. Become(t, l) /\ UNCHANGED <<table, now, attempts>>
    BY <1>2, <2>2 DEF SignIn
  <2>. QED  BY <2>3, <2>4, TaskStep
<1>3. ASSUME NEW t \in Tasks, NEW ks \in Scopes, RecordFirst(t, ks) PROVE IInv'
  <2>1. [Idle EXCEPT !.pc = "lock", !.keys = ks, !.at = now] \in Local
    <3>1. ks \in SUBSET Keys /\ now \in Nat
      BY LimiterAssumption DEF TypeOK
    <3>. QED  BY <3>1, Zenon DEF Idle, Local
  <2>2. PICK l \in Local : l = [Idle EXCEPT !.pc = "lock", !.keys = ks, !.at = now]
    BY <2>1
  <2>3. l.pc = "lock" /\ l.held = {}
    BY <2>2 DEF Idle
  <2>4. Become(t, l) /\ UNCHANGED <<table, now, attempts>>
    BY <1>3, <2>2 DEF RecordFirst
  <2>. QED  BY <2>3, <2>4, TaskStep
<1>4. ASSUME NEW t \in Tasks, Become(t, Idle), UNCHANGED <<table, now, attempts>>
      PROVE  IInv'
  BY <1>4, IdleType, TaskStep DEF Idle
<1>5. ASSUME NEW t \in Tasks, SignInCheck(t) PROVE IInv'
  <2>1. CASE Become(t, [task[t] EXCEPT !.pc = "lock"])
    <3>1. [task[t] EXCEPT !.pc = "lock"] \in Local
      BY DEF TypeOK, Local
    <3>2. \A o \in Tasks \ {t} : task[t].held \cap task[o].held = {}
      BY DEF CountStaysTrue
    <3>. QED  BY <1>5, <2>1, <3>1, <3>2, TaskStep DEF SignInCheck, TypeOK, Local
  <2>. QED  BY <1>4, <1>5, <2>1 DEF SignInCheck
<1>6. ASSUME NEW t \in Tasks, LockScope(t) PROVE IInv'
  <2>1. PICK k \in task[t].keys \ task[t].held :
          LockFree(t, k) /\ Become(t, [task[t] EXCEPT !.held = task[t].held \cup {k}])
    BY <1>6, Zenon DEF LockScope
  <2>2. task[t] \in Local /\ task[t].pc = "lock" /\ k \in Keys
    BY <1>6, <2>1 DEF LockScope, TypeOK, Local
  <2>3. [task[t] EXCEPT !.held = task[t].held \cup {k}] \in Local
    BY <2>2 DEF Local
  <2>4. \A o \in Tasks \ {t} : (task[t].held \cup {k}) \cap task[o].held = {}
    BY <2>1 DEF CountStaysTrue, LockFree
  <2>. QED  BY <1>6, <2>1, <2>2, <2>3, <2>4, TaskStep DEF LockScope, Local
<1>7. ASSUME NEW t \in Tasks, TryRecord(t) PROVE IInv'
  <2>1. CASE /\ Admitted(task[t].keys, task[t].at)
             /\ Become(t, [task[t] EXCEPT !.pc = "recorded"])
    <3>1. [task[t] EXCEPT !.pc = "recorded"] \in Local
      BY DEF TypeOK, Local
    <3>2. \A o \in Tasks \ {t} : task[t].held \cap task[o].held = {}
      BY DEF CountStaysTrue
    <3>3. PICK l \in Local : l = [task[t] EXCEPT !.pc = "recorded"]
      BY <3>1
    <3>4. /\ l.held = task[t].held /\ l.keys = task[t].keys /\ l.at = task[t].at
      BY <3>3 DEF TypeOK, Local
    <3>5. l.held = l.keys /\ Admitted(l.keys, l.at)
      BY <1>7, <2>1, <3>4 DEF TryRecord
    <3>. QED  BY <1>7, <2>1, <3>2, <3>3, <3>4, <3>5, TaskStep, Zenon DEF TryRecord
  <2>. QED  BY <1>4, <1>7, <2>1 DEF TryRecord
<1>8. ASSUME NEW t \in Tasks, Rollback(t) PROVE IInv'
  BY <1>4, <1>8 DEF Rollback
<1>9. CASE UNCHANGED vars
  BY <1>9 DEF vars, IInv, TypeOK, CountStaysTrue, Admitted, Recent, Stored,
       WindowLimit, InWindow, TableIsFinite
<1>. QED
  BY <1>1, <1>2, <1>3, <1>5, <1>6, <1>7, <1>8, <1>9, CommitStep DEF Next

\* The invariant holds throughout.
THEOREM Invariance == Spec => []IInv
BY InvInit, InvNext, PTL DEF Spec

\* The variables keep their types.
THEOREM TypeCorrect == Spec => []TypeOK
<1>1. IInv => TypeOK
  BY DEF IInv
<1>. QED
  BY <1>1, Invariance, PTL

\* A count taken under the advisory locks is true until the commit.
THEOREM CountIsStable == Spec => []CountStaysTrue
<1>1. IInv => CountStaysTrue
  BY DEF IInv
<1>. QED
  BY <1>1, Invariance, PTL

\* No window of time has more recorded attempts of a scope than its limit,
\* whatever the handlers' clocks and the order of their inserts.
THEOREM LimitHolds == Spec => []WindowLimit
<1>1. IInv => WindowLimit
  BY DEF IInv
<1>. QED
  BY <1>1, Invariance, PTL
-----------------------------------------------------------------------------
(* The order of the locks.                                                 *)

\* The scopes whose locks handler t still needs.
Missing(t) == task[t].keys \ task[t].held

\* A handler has the locks of its first scopes: pg_advisory_xact_lock is
\* called in the order of lock_key.
LocksAscend ==
  \A t \in Tasks : /\ task[t].held \subseteq task[t].keys
                   /\ \A h \in task[t].held, m \in Missing(t) : h < m

\* Handlers never block one another: among any of them that are at their
\* locks, one has them all or needs next a lock that none of the others has.
\* With all that are at their locks, what it waits for is a commit.
NoCircularWait ==
  \A W \in SUBSET {t \in Tasks : task[t].pc = "lock"} :
    IsFiniteSet(W) /\ W # {} =>
      \E t \in W :
        \/ task[t].held = task[t].keys
        \/ \E k \in Missing(t) : /\ \A j \in Missing(t) : k <= j
                                 /\ \A o \in W \ {t} : k \notin task[o].held

\* A nonempty set of natural numbers has a least one.
LEMMA LeastExists ==
  ASSUME NEW T \in SUBSET Nat, T # {}
  PROVE  \E x \in T : \A y \in T : x <= y
<1>1. \E x \in T : \A y \in T : ~(<<y, x>> \in OpToRel(<, Nat))
  BY NatLessThanWellFounded, WFMin, Zenon
<1>2. ASSUME NEW x \in T, NEW y \in T, ~(<<y, x>> \in OpToRel(<, Nat)) PROVE x <= y
  BY <1>2 DEF OpToRel
<1>. QED
  BY <1>1, <1>2, Zenon

\* A function on a finite set takes a greatest value: it is taken where the
\* fewest places have a greater one.
LEMMA GreatestExists ==
  ASSUME NEW W, IsFiniteSet(W), W # {}, NEW f \in [W -> Nat]
  PROVE  \E t \in W : \A o \in W : f[o] <= f[t]
<1>. DEFINE Above(t) == {o \in W : f[o] > f[t]}
            Sizes == {Cardinality(Above(t)) : t \in W}
<1>1. \A t \in W : IsFiniteSet(Above(t)) /\ Cardinality(Above(t)) \in Nat
  <2>. SUFFICES ASSUME NEW t \in W
                PROVE  IsFiniteSet(Above(t)) /\ Cardinality(Above(t)) \in Nat
    OBVIOUS
  <2>1. Above(t) \in SUBSET W
    OBVIOUS
  <2>. HIDE DEF Above
  <2>2. IsFiniteSet(Above(t))
    BY <2>1, FS_Subset, Zenon
  <2>. QED  BY <2>2, FS_CardinalityType, Zenon
<1>2. PICK t \in W : \A o \in W : Cardinality(Above(t)) <= Cardinality(Above(o))
  <2>. HIDE DEF Above
  <2>1. Sizes \in SUBSET Nat /\ Sizes # {}
    BY <1>1
  <2>2. PICK n \in Sizes : \A m \in Sizes : n <= m
    BY <2>1, LeastExists, Zenon
  <2>. QED  BY <2>2
<1>3. ASSUME NEW o \in W, f[o] > f[t] PROVE FALSE
  <2>1. Above(o) \in SUBSET Above(t) /\ Above(o) # Above(t)
    BY <1>3
  <2>. HIDE DEF Above
  <2>2. /\ Cardinality(Above(o)) <= Cardinality(Above(t))
        /\ Cardinality(Above(t)) = Cardinality(Above(o)) => Above(t) = Above(o)
    BY <1>1, <2>1, FS_Subset, Zenon
  <2>. QED  BY <1>1, <1>2, <2>1, <2>2
<1>. QED
  BY <1>3

\* The locals of t become l, whose locks are those of its first scopes.
LEMMA OrderKept ==
  ASSUME TypeOK, LocksAscend, NEW t \in Tasks, NEW l, Become(t, l),
         l.held \subseteq l.keys, \A h \in l.held, m \in l.keys \ l.held : h < m
  PROVE  LocksAscend'
<1>1. task' = [task EXCEPT ![t] = l] /\ task \in [Tasks -> Local]
  BY DEF TypeOK, Become
<1>2. ASSUME NEW o \in Tasks
      PROVE  /\ task'[o].held \subseteq task'[o].keys
             /\ \A h \in task'[o].held, m \in task'[o].keys \ task'[o].held : h < m
  <2>1. CASE o = t
    <3>1. task'[o] = l
      BY <1>1, <2>1
    <3>. QED  BY <3>1
  <2>2. CASE o # t
    <3>1. task'[o] = task[o]
      BY <1>1, <2>2
    <3>. QED  BY <3>1 DEF LocksAscend, Missing
  <2>. QED  BY <2>1, <2>2
<1>. QED
  BY <1>2 DEF LocksAscend, Missing

\* Every step keeps the order of the locks.
LEMMA OrderNext == TypeOK /\ LocksAscend /\ [Next]_vars => LocksAscend'
<1>. SUFFICES ASSUME TypeOK, LocksAscend, [Next]_vars PROVE LocksAscend'
  OBVIOUS
<1>1. ASSUME UNCHANGED task PROVE LocksAscend'
  BY <1>1 DEF LocksAscend, Missing
<1>2. ASSUME NEW t \in Tasks, NEW l, Become(t, l), l.held = {} PROVE LocksAscend'
  BY <1>2, OrderKept
<1>3. ASSUME NEW t \in Tasks, NEW p, Become(t, [task[t] EXCEPT !.pc = p])
      PROVE  LocksAscend'
  <2>1. task[t] \in Local
    BY DEF TypeOK
  <2>2. PICK l : l = [task[t] EXCEPT !.pc = p]
    BY Zenon
  <2>3. l.held = task[t].held /\ l.keys = task[t].keys
    BY <2>1, <2>2 DEF Local
  <2>4. l.held \subseteq l.keys /\ \A h \in l.held, m \in l.keys \ l.held : h < m
    BY <2>3 DEF LocksAscend, Missing
  <2>. QED  BY <1>3, <2>2, <2>4, OrderKept, Zenon
<1>4. ASSUME NEW t \in Tasks, NEW ks \in Scopes, SignIn(t, ks) \/ RecordFirst(t, ks)
      PROVE  LocksAscend'
  <2>1. \A p : [Idle EXCEPT !.pc = p, !.keys = ks, !.at = now].held = {}
    BY DEF Idle
  <2>. QED  BY <1>2, <1>4, <2>1, Zenon DEF SignIn, RecordFirst
<1>5. ASSUME NEW t \in Tasks, Become(t, Idle) PROVE LocksAscend'
  BY <1>2, <1>5 DEF Idle
<1>6. ASSUME NEW t \in Tasks, LockScope(t) PROVE LocksAscend'
  <2>1. PICK k \in Missing(t) :
          /\ \A j \in Missing(t) : k <= j
          /\ Become(t, [task[t] EXCEPT !.held = task[t].held \cup {k}])
    BY <1>6, Zenon DEF LockScope, Missing
  <2>2. task[t] \in Local
    BY DEF TypeOK
  <2>3. PICK l : l = [task[t] EXCEPT !.held = task[t].held \cup {k}]
    BY Zenon
  <2>4. l.held = task[t].held \cup {k} /\ l.keys = task[t].keys
    BY <2>2, <2>3 DEF Local
  <2>5. Missing(t) \subseteq Nat
    BY <2>2, LimiterAssumption, Zenon DEF Missing, Local
  <2>6. l.held \subseteq l.keys
    BY <2>4 DEF LocksAscend, Missing
  <2>7. \A h \in l.held, m \in l.keys \ l.held : h < m
    <3>1. ASSUME NEW m \in l.keys \ l.held PROVE m \in Missing(t) /\ m # k
      BY <2>4, <3>1 DEF Missing
    <3>2. ASSUME NEW h \in task[t].held, NEW m \in Missing(t) PROVE h < m
      BY <3>2 DEF LocksAscend
    <3>3. ASSUME NEW m \in Missing(t), m # k PROVE k < m
      BY <2>1, <2>5, <3>3
    <3>. QED  BY <2>4, <3>1, <3>2, <3>3
  <2>. QED  BY <2>1, <2>3, <2>6, <2>7, OrderKept, Zenon
<1>. QED
  BY <1>1, <1>3, <1>4, <1>5, <1>6, Zenon
    DEF Next, vars, Tick, SignInCheck, TryRecord, Commit, Rollback

\* The order excludes a circular wait: the handler that waits for the
\* greatest key waits for none of the others, whose locks are all of lesser
\* keys than those they wait for.
LEMMA OrderSuffices == TypeOK /\ LocksAscend => NoCircularWait
<1>. SUFFICES ASSUME TypeOK, LocksAscend,
                     NEW W \in SUBSET {t \in Tasks : task[t].pc = "lock"},
                     IsFiniteSet(W), W # {},
                     \A t \in W : task[t].held # task[t].keys
              PROVE  \E t \in W : \E k \in Missing(t) :
                       /\ \A j \in Missing(t) : k <= j
                       /\ \A o \in W \ {t} : k \notin task[o].held
  BY DEF NoCircularWait
<1>. DEFINE IsNext(t, k) == k \in Missing(t) /\ \A j \in Missing(t) : k <= j
            next == [t \in W |-> CHOOSE k \in Nat : IsNext(t, k)]
<1>1. ASSUME NEW t \in W PROVE next[t] \in Nat /\ IsNext(t, next[t])
  <2>1. Missing(t) \in SUBSET Nat
    BY LimiterAssumption, Zenon DEF Missing, TypeOK, Local
  <2>2. Missing(t) # {}
    BY Zenon DEF Missing, LocksAscend
  <2>3. \E k \in Nat : IsNext(t, k)
    BY <2>1, <2>2, LeastExists
  <2>. HIDE DEF IsNext
  <2>. QED  BY <2>3, Zenon
<1>2. next \in [W -> Nat]
  BY <1>1
<1>. HIDE DEF next
<1>3. PICK t \in W : \A o \in W : next[o] <= next[t]
  BY <1>2, GreatestExists, Zenon
<1>4. ASSUME NEW o \in W \ {t} PROVE next[t] \notin task[o].held
  <2>1. next[t] \in task[o].held => next[t] < next[o]
    BY <1>1 DEF LocksAscend
  <2>. QED  BY <1>1, <1>3, <2>1
<1>. QED
  BY <1>1, <1>4

\* However many handlers, and whatever their scopes, taking the advisory
\* locks in the order of lock_key excludes a deadlock.
THEOREM NoDeadlock == Spec => []NoCircularWait
<1>1. Init => LocksAscend
  BY DEF Init, LocksAscend, Missing, Idle
<1>. QED
  BY <1>1, OrderNext, OrderSuffices, TypeCorrect, PTL DEF Spec
=============================================================================
