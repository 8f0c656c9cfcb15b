------------------------- MODULE EmailOutboxProofs -------------------------
(***************************************************************************)
(* The safety of EmailOutbox, for any number of workers, jobs and leases,  *)
(* any sequence of configs and any faults.                                 *)
(***************************************************************************)
EXTENDS EmailOutbox, TLAPS

\* A Tick has an entry at hand exactly while it has a result to write, and a
\* mail whose result is "sent" was accepted.
LocalOK(l) ==
  /\ l.pc \in {"idle", "loop"} <=> l.cur = None
  /\ l.pc = "sent" => delivered[l.cur.id] # {}

WorkersAreSound == \A w \in Workers : LocalOK(worker[w])

\* The inductive invariant.
IInv ==
  /\ TypeOK
  /\ RowsAreConsistent
  /\ LeaseIsExclusive
  /\ SentMeansDelivered
  /\ OneMailPerAttempt
  /\ WorkersAreSound

\* Entries are typed: a worker's batch and the entry at hand.
LEMMA EntryType ==
  ASSUME TypeOK, NEW w \in Workers
  PROVE  Entries(w) \subseteq Entry
BY DEF TypeOK, Local, Entries

\* The row of a new job is a consistent row.
LEMMA NewRow ==
  ASSUME NEW r, r = [status |-> "pending", payload |-> TRUE, attempts |-> 0,
                     lease |-> None, due |-> TRUE, locked |-> FALSE]
  PROVE  r \in Row /\ RowOK(r) /\ r.attempts = 0 /\ r.status = "pending"
BY DEF Row, RowOK

\* mark_sent and mark_dead leave a consistent row.
LEMMA ClosedRow ==
  ASSUME NEW r \in Row, NEW s \in {"sent", "dead"}, NEW c, c = Closed(r, s)
  PROVE  /\ c \in Row /\ RowOK(c) /\ c.attempts = r.attempts
         /\ c.lease = None /\ c.status = s
BY Zenon DEF Row, RowOK, Closed

\* reschedule leaves a consistent row, provided the job was open.
LEMMA RescheduledRow ==
  ASSUME NEW r \in Row, RowOK(r), r.status = "processing",
         NEW c, c = Rescheduled(r)
  PROVE  /\ c \in Row /\ RowOK(c) /\ c.attempts = r.attempts
         /\ c.lease = None /\ c.status = "pending"
BY Zenon DEF Row, RowOK, Rescheduled

\* A claim leaves a consistent row.
LEMMA ClaimedRow ==
  ASSUME NEW r \in Row, RowOK(r), r.status \in {"pending", "processing"},
         NEW l \in Leases, NEW c, c = Claimed(r, l)
  PROVE  /\ c \in Row /\ RowOK(c) /\ c.attempts = r.attempts + 1
         /\ c.lease = l /\ c.status = "processing"
<1>1. l # None
  BY OutboxAssumption
<1>2. c \in Row
  <2>1. r.attempts + 1 \in Nat
    BY DEF Row
  <2>. QED  BY <2>1, Zenon DEF Row, Claimed
<1>3. /\ c.attempts = r.attempts + 1 /\ c.lease = l /\ c.status = "processing"
      /\ c.payload = r.payload
  BY DEF Row, Claimed
<1>4. RowOK(c)
  BY <1>1, <1>3 DEF RowOK
<1>. QED
  BY <1>2, <1>3, <1>4

\* Time passes for a row without making it inconsistent.
LEMMA TimedRow ==
  ASSUME NEW r \in Row, RowOK(r),
         NEW c, c = [r EXCEPT !.due = TRUE] \/ c = [r EXCEPT !.locked = FALSE]
  PROVE  /\ c \in Row /\ RowOK(c) /\ c.attempts = r.attempts
         /\ c.lease = r.lease /\ c.status = r.status /\ c.payload = r.payload
BY Zenon DEF Row, RowOK

\* A step in which workers only lose entries, no mail goes out, and every row
\* stays, is new, or changes without a new lease or a new attempt.
LEMMA QuietStep ==
  ASSUME IInv,
         cfg' \in Configs, delivered' = delivered,
         worker' \in [Workers -> Local],
         \A w \in Workers : /\ Entries(w)' \subseteq Entries(w)
                           /\ worker'[w].batch \subseteq worker[w].batch
                           /\ LocalOK(worker[w])',
         jobs' \in [JobIds -> Row \cup {None}],
         \A j \in JobIds :
           \/ jobs'[j] = jobs[j]
           \/ /\ ~Stored(j) /\ RowOK(jobs'[j])
              /\ jobs'[j].attempts = 0 /\ jobs'[j].status = "pending"
           \/ /\ Stored(j) /\ jobs'[j] # None /\ RowOK(jobs'[j])
              /\ jobs'[j].attempts = jobs[j].attempts
              /\ jobs'[j].lease \in {jobs[j].lease, None}
              /\ jobs'[j].status = "sent" => delivered[j] # {}
  PROVE  IInv'
<1>. TypeOK /\ RowsAreConsistent /\ LeaseIsExclusive /\ SentMeansDelivered
     /\ OneMailPerAttempt /\ WorkersAreSound
  BY DEF IInv
<1>1. TypeOK'
  BY DEF TypeOK
<1>2. RowsAreConsistent'
  BY DEF RowsAreConsistent, Stored
<1>3. \A j \in JobIds : Stored(j) => /\ jobs'[j] # None
                                    /\ jobs'[j].attempts = jobs[j].attempts
                                    /\ jobs'[j].lease \in {jobs[j].lease, None}
  BY DEF Stored
<1>4. LeaseIsExclusive'
  <2>1. ASSUME NEW w \in Workers, NEW e \in Entries(w)'
        PROVE  /\ Stored(e.id)'
               /\ e.attempts <= jobs'[e.id].attempts
               /\ LeaseHeld(e)' => e.attempts = jobs'[e.id].attempts
    <3>1. e \in Entries(w) /\ e \in Entry
      BY <2>1, EntryType
    <3>2. /\ Stored(e.id) /\ e.attempts <= jobs[e.id].attempts
          /\ LeaseHeld(e) => e.attempts = jobs[e.id].attempts
      BY <3>1 DEF LeaseIsExclusive
    <3>3. e.id \in JobIds /\ e.lease \in Leases /\ e.lease # None
      BY <3>1, OutboxAssumption DEF Entry
    <3>4. /\ jobs'[e.id] # None /\ jobs'[e.id].attempts = jobs[e.id].attempts
          /\ jobs'[e.id].lease \in {jobs[e.id].lease, None}
      BY <1>3, <3>2, <3>3
    <3>5. jobs[e.id].lease = e.lease => jobs[e.id].status = "processing"
      BY <3>2, <3>3 DEF RowsAreConsistent, RowOK
    <3>. QED  BY <3>2, <3>3, <3>4, <3>5 DEF LeaseHeld, Stored
  <2>2. \A w, v \in Workers : \A e \in Entries(w)', f \in Entries(v)' :
          <<w, e>> # <<v, f>> =>
            e.lease # f.lease /\ (e.id = f.id => e.attempts # f.attempts)
    BY DEF LeaseIsExclusive
  <2>. QED  BY <2>1, <2>2 DEF LeaseIsExclusive
<1>5. SentMeansDelivered'
  BY DEF SentMeansDelivered, Stored
<1>6. OneMailPerAttempt'
  <2>1. ASSUME NEW j \in JobIds, Stored(j)'
        PROVE  \E c \in Configs : jobs'[j].attempts <= c.max_attempts
    <3>1. CASE Stored(j)
      BY <1>3, <3>1 DEF OneMailPerAttempt
    <3>2. CASE ~Stored(j)
      <4>1. jobs'[j].attempts = 0 /\ cfg \in Configs
        BY <2>1, <3>2 DEF Stored, TypeOK
      <4>2. cfg.max_attempts \in Nat
        BY OutboxAssumption DEF EmailOutboxRuntimeConfig, TypeOK
      <4>. QED  BY <4>1, <4>2
    <3>. QED  BY <3>1, <3>2
  <2>2. \A j \in JobIds : \A n \in delivered'[j] :
          Stored(j)' /\ n <= jobs'[j].attempts
    BY <1>3 DEF OneMailPerAttempt, Stored
  <2>3. \A w \in Workers : \A e \in worker'[w].batch : e.attempts \notin delivered'[e.id]
    BY DEF OneMailPerAttempt
  <2>. QED  BY <2>1, <2>2, <2>3 DEF OneMailPerAttempt
<1>7. WorkersAreSound'
  BY DEF WorkersAreSound
<1>. QED
  BY <1>1, <1>2, <1>4, <1>5, <1>6, <1>7 DEF IInv

\* Proceed(w) leaves a worker that only lost an entry.
LEMMA Proceeds ==
  ASSUME TypeOK, NEW w \in Workers, Proceed(w)
  PROVE  /\ worker' \in [Workers -> Local]
         /\ \A v \in Workers \ {w} : worker'[v] = worker[v]
         /\ worker'[w].pc \in {"idle", "loop"} /\ worker'[w].cur = None
         /\ worker'[w].batch \subseteq worker[w].batch
<1>1. worker[w] \in Local /\ worker \in [Workers -> Local]
  BY DEF TypeOK
<1>2. CASE worker[w].batch = {}
  <2>1. Idle \in Local
    BY DEF Idle, Local
  <2>2. worker' = [worker EXCEPT ![w] = Idle]
    BY <1>2 DEF Proceed, Become
  <2>. QED  BY <1>1, <2>1, <2>2 DEF Idle
<1>3. CASE worker[w].batch # {}
  <2>1. PICK l : l = [worker[w] EXCEPT !.pc = "loop", !.cur = None]
    OBVIOUS
  <2>2. l \in Local /\ l.pc = "loop" /\ l.cur = None /\ l.batch = worker[w].batch
    BY <1>1, <2>1, Zenon DEF Local
  <2>3. worker' = [worker EXCEPT ![w] = l]
    BY <1>3, <2>1, Zenon DEF Proceed, Become
  <2>. QED  BY <1>1, <2>2, <2>3
<1>. QED
  BY <1>2, <1>3

\* The result of worker w is written with row, or not at all.
LEMMA WriteStep ==
  ASSUME IInv, NEW w \in Workers, worker[w].cur # None,
         NEW row,
         LeaseHeld(worker[w].cur) =>
           /\ row \in Row /\ RowOK(row)
           /\ row.attempts = jobs[worker[w].cur.id].attempts
           /\ row.lease = None
           /\ row.status = "sent" => delivered[worker[w].cur.id] # {},
         Write(worker[w].cur, row) \/ UNCHANGED jobs,
         cfg' \in Configs, delivered' = delivered,
         worker' \in [Workers -> Local],
         \A v \in Workers : /\ Entries(v)' \subseteq Entries(v)
                           /\ worker'[v].batch \subseteq worker[v].batch
                           /\ LocalOK(worker[v])'
  PROVE  IInv'
<1>. TypeOK /\ LeaseIsExclusive
  BY DEF IInv
<1>1. PICK e : e = worker[w].cur
  OBVIOUS
<1>2. e \in Entries(w) /\ e \in Entry
  BY <1>1 DEF Entries, TypeOK, Local
<1>3. e.id \in JobIds /\ Stored(e.id)
  BY <1>2 DEF Entry, LeaseIsExclusive
<1>4. CASE UNCHANGED jobs
  BY <1>4, QuietStep DEF TypeOK
<1>5. CASE LeaseHeld(e) /\ jobs' = [jobs EXCEPT ![e.id] = row]
  <2>1. /\ row \in Row /\ RowOK(row) /\ row.attempts = jobs[e.id].attempts
        /\ row.status = "sent" => delivered[e.id] # {}
        /\ row.lease = None /\ row # None
    BY <1>1, <1>5, OutboxAssumption
  <2>2. /\ jobs' \in [JobIds -> Row \cup {None}] /\ jobs'[e.id] = row
        /\ \A j \in JobIds \ {e.id} : jobs'[j] = jobs[j]
    BY <1>3, <1>5, <2>1 DEF TypeOK
  <2>3. \A j \in JobIds :
          \/ jobs'[j] = jobs[j]
          \/ /\ Stored(j) /\ jobs'[j] # None /\ RowOK(jobs'[j])
             /\ jobs'[j].attempts = jobs[j].attempts
             /\ jobs'[j].lease \in {jobs[j].lease, None}
             /\ jobs'[j].status = "sent" => delivered[j] # {}
    <3>. TAKE j \in JobIds
    <3>1. CASE j = e.id
      <4>1. jobs'[j] = row
        BY <2>2, <3>1
      <4>2. Stored(j) /\ RowOK(jobs'[j]) /\ jobs'[j] # None
        BY <1>3, <2>1, <3>1, <4>1
      <4>3. /\ jobs'[j].attempts = jobs[j].attempts /\ jobs'[j].lease = None
            /\ jobs'[j].status = "sent" => delivered[j] # {}
        BY <2>1, <3>1, <4>1
      <4>. QED  BY <4>2, <4>3
    <3>2. CASE j # e.id
      BY <2>2, <3>2
    <3>. QED  BY <3>1, <3>2
  <2>. QED  BY <2>2, <2>3, QuietStep
<1>. QED
  BY <1>1, <1>4, <1>5 DEF Write

\* After Proceed(w) the workers satisfy what WriteStep asks for.
LEMMA ProceedsQuietly ==
  ASSUME TypeOK, WorkersAreSound, NEW w \in Workers, Proceed(w),
         delivered' = delivered
  PROVE  /\ worker' \in [Workers -> Local]
         /\ \A v \in Workers : /\ Entries(v)' \subseteq Entries(v)
                              /\ worker'[v].batch \subseteq worker[v].batch
                              /\ LocalOK(worker[v])'
<1>1. ASSUME NEW v \in Workers
      PROVE  /\ Entries(v)' \subseteq Entries(v)
             /\ worker'[v].batch \subseteq worker[v].batch
             /\ LocalOK(worker[v])'
  <2>1. CASE v = w
    BY <2>1, Proceeds DEF Entries, LocalOK
  <2>2. CASE v # w
    BY <2>2, Proceeds DEF Entries, LocalOK, WorkersAreSound
  <2>. QED  BY <2>1, <2>2
<1>. QED
  BY <1>1, Proceeds

\* Sending: one entry leaves the batch, its mail may be accepted.
LEMMA SendStep ==
  ASSUME IInv, NEW w \in Workers, Send(w)
  PROVE  IInv'
<1>. TypeOK /\ RowsAreConsistent /\ LeaseIsExclusive /\ SentMeansDelivered
     /\ OneMailPerAttempt /\ WorkersAreSound
  BY DEF IInv
<1>1. PICK e \in worker[w].batch, outcome \in {"sent", "retryable", "permanent"},
           accepted \in BOOLEAN :
        /\ outcome = "sent" => accepted
        /\ Become(w, [worker[w] EXCEPT !.pc = outcome, !.cur = e,
                                       !.batch = worker[w].batch \ {e}])
        /\ delivered' = IF accepted
                        THEN [delivered EXCEPT ![e.id] = @ \cup {e.attempts}]
                        ELSE delivered
  BY Zenon DEF Send
<1>2. cfg' = cfg /\ jobs' = jobs
  BY DEF Send
<1>3. PICK l : l = [worker[w] EXCEPT !.pc = outcome, !.cur = e,
                                     !.batch = worker[w].batch \ {e}]
  OBVIOUS
<1>4. e \in Entry /\ e # None /\ e \in Entries(w) /\ worker[w] \in Local
  BY OutboxAssumption DEF TypeOK, Local, Entries
<1>5. e.id \in JobIds /\ e.attempts \in Nat
  BY <1>4 DEF Entry
<1>6. /\ l \in Local /\ l.pc = outcome /\ l.cur = e
      /\ l.batch = worker[w].batch \ {e}
  BY <1>3, <1>4, Zenon DEF Local
<1>7. /\ worker' = [worker EXCEPT ![w] = l] /\ worker' \in [Workers -> Local]
      /\ worker'[w] = l /\ \A v \in Workers \ {w} : worker'[v] = worker[v]
  BY <1>1, <1>3, <1>6 DEF Become, TypeOK
<1>8. /\ delivered' \in [JobIds -> SUBSET Nat]
      /\ \A j \in JobIds : delivered[j] \subseteq delivered'[j]
      /\ \A j \in JobIds : \A n \in delivered'[j] :
           n \in delivered[j] \/ (j = e.id /\ n = e.attempts)
  BY <1>1, <1>5 DEF TypeOK
<1>9. outcome = "sent" => delivered'[e.id] # {}
  BY <1>1, <1>5 DEF TypeOK
<1>10. TypeOK'
  BY <1>2, <1>7, <1>8 DEF TypeOK
<1>11. \A v \in Workers : Entries(v)' \subseteq Entries(v)
  <2>. TAKE v \in Workers
  <2>1. CASE v = w
    BY <1>1, <1>6, <1>7, <2>1 DEF Entries
  <2>2. CASE v # w
    BY <1>7, <2>2 DEF Entries
  <2>. QED  BY <2>1, <2>2
<1>12. LeaseIsExclusive'
  <2>1. \A v \in Workers : \A f \in Entries(v)' :
          /\ Stored(f.id)' /\ f.attempts <= jobs'[f.id].attempts
          /\ LeaseHeld(f)' => f.attempts = jobs'[f.id].attempts
    BY <1>2, <1>11 DEF LeaseIsExclusive, LeaseHeld, Stored
  <2>2. \A u, v \in Workers : \A d \in Entries(u)', f \in Entries(v)' :
          <<u, d>> # <<v, f>> =>
            d.lease # f.lease /\ (d.id = f.id => d.attempts # f.attempts)
    BY <1>11 DEF LeaseIsExclusive
  <2>. QED  BY <2>1, <2>2 DEF LeaseIsExclusive
<1>13. RowsAreConsistent' /\ SentMeansDelivered'
  BY <1>2, <1>8 DEF RowsAreConsistent, SentMeansDelivered, Stored
<1>14. OneMailPerAttempt'
  <2>1. \A j \in JobIds : Stored(j)' =>
          \E c \in Configs : jobs'[j].attempts <= c.max_attempts
    BY <1>2 DEF OneMailPerAttempt, Stored
  <2>2. Stored(e.id) /\ e.attempts <= jobs[e.id].attempts
    BY <1>4 DEF LeaseIsExclusive
  <2>3. \A j \in JobIds : \A n \in delivered'[j] :
          Stored(j)' /\ n <= jobs'[j].attempts
    BY <1>2, <1>8, <2>2 DEF OneMailPerAttempt, Stored
  <2>4. ASSUME NEW v \in Workers, NEW f \in worker'[v].batch
        PROVE  f.attempts \notin delivered'[f.id]
    <3>1. f \in worker[v].batch /\ f \in Entries(v) /\ <<v, f>> # <<w, e>>
      <4>1. CASE v = w
        BY <1>6, <1>7, <2>4, <4>1 DEF Entries
      <4>2. CASE v # w
        BY <1>7, <2>4, <4>2 DEF Entries
      <4>. QED  BY <4>1, <4>2
    <3>2. f.id \in JobIds
      BY <3>1, EntryType DEF Entry
    <3>3. f.id = e.id => f.attempts # e.attempts
      BY <1>4, <3>1 DEF LeaseIsExclusive
    <3>4. f.attempts \notin delivered[f.id]
      BY <3>1 DEF OneMailPerAttempt
    <3>. QED  BY <1>8, <3>2, <3>3, <3>4
  <2>. QED  BY <2>1, <2>3, <2>4 DEF OneMailPerAttempt
<1>15. WorkersAreSound'
  <2>1. ASSUME NEW v \in Workers PROVE LocalOK(worker[v])'
    <3>1. CASE v = w
      BY <1>4, <1>6, <1>7, <1>9, <3>1 DEF LocalOK
    <3>2. CASE v # w
      <4>1. worker'[v] = worker[v] /\ LocalOK(worker[v]) /\ worker[v] \in Local
        BY <1>7, <3>2 DEF WorkersAreSound, TypeOK
      <4>2. worker[v].pc = "sent" =>
              worker[v].cur.id \in JobIds /\ delivered[worker[v].cur.id] # {}
        BY <4>1 DEF LocalOK, Local, Entry
      <4>. QED  BY <1>8, <4>1, <4>2 DEF LocalOK
    <3>. QED  BY <3>1, <3>2
  <2>. QED  BY <2>1 DEF WorkersAreSound
<1>. QED
  BY <1>10, <1>12, <1>13, <1>14, <1>15 DEF IInv

\* The claim of a batch: new leases, new attempts, an idle worker's new entries.
LEMMA ClaimStep ==
  ASSUME IInv, NEW w \in Workers, ClaimBatch(w)
  PROVE  IInv'
<1>. TypeOK /\ RowsAreConsistent /\ LeaseIsExclusive /\ SentMeansDelivered
     /\ OneMailPerAttempt /\ WorkersAreSound
  BY DEF IInv
<1>. DEFINE NewEntry(lease, j) == [id |-> j, lease |-> lease[j],
                                   attempts |-> jobs[j].attempts + 1]
<1>. DEFINE Takes(S, lease) ==
              /\ \A j \in S : Fresh(lease[j])
              /\ \A i, j \in S : i # j => lease[i] # lease[j]
              /\ jobs' = [j \in JobIds |-> IF j \in S THEN Claimed(jobs[j], lease[j])
                                           ELSE jobs[j]]
              /\ Become(w, [pc |-> "loop", cur |-> None, max |-> cfg.max_attempts,
                            batch |-> {NewEntry(lease, j) : j \in S}])
<1>0. PICK S \in SUBSET {j \in JobIds : Claimable(j)} :
        \E lease \in [S -> Leases] : Takes(S, lease)
  BY Zenon DEF ClaimBatch
<1>1. PICK lease \in [S -> Leases] : Takes(S, lease)
  BY <1>0, Zenon
<1>. DEFINE New(j) == NewEntry(lease, j)
            B == {New(j) : j \in S}
<1>2. cfg' = cfg /\ delivered' = delivered /\ cfg \in Configs
  BY DEF ClaimBatch, TypeOK
<1>3. cfg.max_attempts \in Nat
  BY OutboxAssumption DEF EmailOutboxRuntimeConfig, TypeOK
<1>4. \A j \in S : /\ j \in JobIds /\ Stored(j) /\ jobs[j] \in Row /\ RowOK(jobs[j])
                   /\ jobs[j].status \in {"pending", "processing"}
                   /\ jobs[j].attempts < cfg.max_attempts
                   /\ jobs[j].attempts \in Nat /\ lease[j] \in Leases
  <2>. TAKE j \in S
  <2>1. /\ j \in JobIds /\ Stored(j) /\ jobs[j].attempts < cfg.max_attempts
        /\ jobs[j].status \in {"pending", "processing"} /\ lease[j] \in Leases
    BY <1>0, <1>1, Zenon DEF Claimable
  <2>2. jobs[j] \in Row
    BY <2>1 DEF Stored, TypeOK
  <2>3. jobs[j].attempts \in Nat
    BY <2>2 DEF Row
  <2>. QED  BY <2>1, <2>2, <2>3 DEF RowsAreConsistent
<1>5. \A j \in S : /\ jobs'[j] \in Row /\ RowOK(jobs'[j]) /\ jobs'[j] # None
                   /\ jobs'[j].attempts = jobs[j].attempts + 1
                   /\ jobs'[j].lease = lease[j] /\ jobs'[j].status = "processing"
  <2>. TAKE j \in S
  <2>1. jobs'[j] = Claimed(jobs[j], lease[j])
    BY <1>1
  <2>2. PICK c : c = Claimed(jobs[j], lease[j])
    OBVIOUS
  <2>3. /\ c \in Row /\ RowOK(c) /\ c.attempts = jobs[j].attempts + 1
        /\ c.lease = lease[j] /\ c.status = "processing"
    BY <1>4, <2>2, ClaimedRow
  <2>4. c = jobs'[j] /\ c # None
    BY <2>1, <2>2, <2>3, OutboxAssumption
  <2>5. RowOK(jobs'[j])
    BY <2>3, <2>4
  <2>. QED  BY <2>3, <2>4, <2>5
<1>6. \A j \in JobIds \ S : jobs'[j] = jobs[j]
  BY <1>1
<1>7. jobs' \in [JobIds -> Row \cup {None}]
  <2>1. \A j \in JobIds : jobs'[j] \in Row \cup {None}
    BY <1>5, <1>6 DEF TypeOK
  <2>. QED  BY <1>1, <2>1
<1>8. B \subseteq Entry
  <2>1. \A j \in S : New(j) \in Entry
    BY <1>4 DEF Entry
  <2>. QED  BY <2>1
<1>9. /\ worker' \in [Workers -> Local]
      /\ worker'[w].pc = "loop" /\ worker'[w].cur = None /\ worker'[w].batch = B
      /\ \A v \in Workers \ {w} : worker'[v] = worker[v]
  <2>1. PICK l : l = [pc |-> "loop", cur |-> None, max |-> cfg.max_attempts,
                      batch |-> B]
    BY Zenon
  <2>2. l \in Local
    BY <1>3, <1>8, <2>1 DEF Local
  <2>3. worker' = [worker EXCEPT ![w] = l]
    BY <1>1, <2>1 DEF Become
  <2>. QED  BY <2>1, <2>2, <2>3 DEF TypeOK
<1>10. Entries(w)' = B /\ \A v \in Workers \ {w} : Entries(v)' = Entries(v)
  BY <1>9 DEF Entries
<1>11. TypeOK'
  BY <1>2, <1>7, <1>9 DEF TypeOK
<1>12. RowsAreConsistent'
  BY <1>5, <1>6 DEF RowsAreConsistent, Stored
<1>13. SentMeansDelivered'
  BY <1>2, <1>5, <1>6 DEF SentMeansDelivered, Stored
<1>14. \A v \in Workers : \A f \in Entries(v) :
          /\ f.id \in JobIds /\ f.attempts \in Nat
          /\ Stored(f.id) /\ f.attempts <= jobs[f.id].attempts
          /\ LeaseHeld(f) => f.attempts = jobs[f.id].attempts
          /\ \A j \in S : f.lease # lease[j]
  <2>. TAKE v \in Workers
  <2>. TAKE f \in Entries(v)
  <2>1. f \in Entry
    BY EntryType
  <2>2. \A j \in S : f.lease # lease[j]
    BY <1>1 DEF Fresh
  <2>. QED  BY <2>1, <2>2 DEF Entry, LeaseIsExclusive
<1>15. LeaseIsExclusive'
  <2>1. ASSUME NEW j \in S, NEW e, e = New(j)
        PROVE  /\ e.id = j /\ e.lease = lease[j]
               /\ e.attempts = jobs[j].attempts + 1
               /\ Stored(e.id)' /\ e.attempts = jobs'[e.id].attempts
               /\ e.attempts <= jobs'[e.id].attempts
    <3>1. e.id = j /\ e.lease = lease[j] /\ e.attempts = jobs[j].attempts + 1
      BY <2>1
    <3>2. jobs'[j].attempts = jobs[j].attempts + 1 /\ jobs'[j] # None
      BY <1>5
    <3>. QED  BY <1>4, <3>1, <3>2 DEF Stored
  <2>2. ASSUME NEW v \in Workers \ {w}, NEW f \in Entries(v)
        PROVE  /\ Stored(f.id)' /\ f.attempts <= jobs'[f.id].attempts
               /\ LeaseHeld(f)' => f.attempts = jobs'[f.id].attempts
    <3>1. CASE f.id \in S
      BY <1>4, <1>5, <1>14, <3>1 DEF Stored, LeaseHeld
    <3>2. CASE f.id \notin S
      BY <1>6, <1>14, <3>2 DEF Stored, LeaseHeld
    <3>. QED  BY <3>1, <3>2
  <2>3. ASSUME NEW v \in Workers, NEW f \in Entries(v)'
        PROVE  /\ Stored(f.id)' /\ f.attempts <= jobs'[f.id].attempts
               /\ LeaseHeld(f)' => f.attempts = jobs'[f.id].attempts
    <3>1. CASE v = w
      <4>1. PICK j \in S : f = New(j)
        BY <1>10, <2>3, <3>1
      <4>. QED  BY <2>1, <4>1
    <3>2. CASE v # w
      BY <1>10, <2>2, <2>3, <3>2
    <3>. QED  BY <3>1, <3>2
  <2>4. ASSUME NEW j \in S, NEW e, e = New(j),
               NEW v \in Workers \ {w}, NEW f \in Entries(v)
        PROVE  e.lease # f.lease /\ (e.id = f.id => e.attempts # f.attempts)
    BY <1>4, <1>14, <2>1, <2>4
  <2>5. ASSUME NEW u \in Workers, NEW v \in Workers,
               NEW d \in Entries(u)', NEW f \in Entries(v)', <<u, d>> # <<v, f>>
        PROVE  d.lease # f.lease /\ (d.id = f.id => d.attempts # f.attempts)
    <3>1. CASE u = w /\ v = w
      <4>1. PICK i \in S : d = New(i)
        BY <1>10, <2>5, <3>1
      <4>2. PICK j \in S : f = New(j)
        BY <1>10, <2>5, <3>1
      <4>3. i # j
        BY <2>5, <3>1, <4>1, <4>2
      <4>4. lease[i] # lease[j]
        BY <1>1, <4>3
      <4>. QED  BY <2>1, <4>1, <4>2, <4>3, <4>4
    <3>2. CASE u = w /\ v # w
      <4>1. PICK i \in S : d = New(i)
        BY <1>10, <2>5, <3>2
      <4>2. f \in Entries(v)
        BY <1>10, <2>5, <3>2
      <4>. QED  BY <2>4, <3>2, <4>1, <4>2
    <3>3. CASE u # w /\ v = w
      <4>1. PICK i \in S : f = New(i)
        BY <1>10, <2>5, <3>3
      <4>2. d \in Entries(u)
        BY <1>10, <2>5, <3>3
      <4>. QED  BY <2>4, <3>3, <4>1, <4>2
    <3>4. CASE u # w /\ v # w
      BY <1>10, <2>5, <3>4 DEF LeaseIsExclusive
    <3>. QED  BY <3>1, <3>2, <3>3, <3>4
  <2>. QED  BY <2>3, <2>5 DEF LeaseIsExclusive
<1>16. OneMailPerAttempt'
  <2>1. ASSUME NEW j \in JobIds, Stored(j)'
        PROVE  \E c \in Configs : jobs'[j].attempts <= c.max_attempts
    <3>1. CASE j \in S
      <4>1. jobs'[j].attempts <= cfg.max_attempts
        BY <1>3, <1>4, <1>5, <3>1
      <4>. QED  BY <1>2, <4>1
    <3>2. CASE j \notin S
      BY <1>6, <2>1, <3>2 DEF OneMailPerAttempt, Stored
    <3>. QED  BY <3>1, <3>2
  <2>2. ASSUME NEW j \in JobIds, NEW n \in delivered'[j]
        PROVE  Stored(j)' /\ n <= jobs'[j].attempts
    <3>1. n \in Nat /\ Stored(j) /\ n <= jobs[j].attempts
      BY <1>2, <2>2 DEF OneMailPerAttempt, TypeOK
    <3>2. CASE j \in S
      BY <1>4, <1>5, <3>1, <3>2 DEF Stored
    <3>3. CASE j \notin S
      BY <1>6, <3>1, <3>3 DEF Stored
    <3>. QED  BY <3>2, <3>3
  <2>3. ASSUME NEW v \in Workers, NEW f \in worker'[v].batch
        PROVE  f.attempts \notin delivered'[f.id]
    <3>1. CASE v = w
      <4>1. PICK j \in S : f = New(j)
        BY <1>9, <2>3, <3>1
      <4>2. f.id = j /\ f.attempts = jobs[j].attempts + 1
        BY <4>1
      <4>3. \A n \in delivered[j] : n \in Nat /\ n <= jobs[j].attempts
        BY <1>4 DEF OneMailPerAttempt, TypeOK
      <4>. QED  BY <1>2, <1>4, <4>2, <4>3
    <3>2. CASE v # w
      BY <1>2, <1>9, <2>3, <3>2 DEF OneMailPerAttempt
    <3>. QED  BY <3>1, <3>2
  <2>. QED  BY <2>1, <2>2, <2>3 DEF OneMailPerAttempt
<1>17. WorkersAreSound'
  <2>1. ASSUME NEW v \in Workers PROVE LocalOK(worker[v])'
    <3>1. CASE v = w
      BY <1>9, <3>1 DEF LocalOK
    <3>2. CASE v # w
      BY <1>2, <1>9, <3>2 DEF LocalOK, WorkersAreSound
    <3>. QED  BY <3>1, <3>2
  <2>. QED  BY <2>1 DEF WorkersAreSound
<1>. QED
  BY <1>11, <1>12, <1>13, <1>15, <1>16, <1>17 DEF IInv

\* A worker that is still busy keeps its entries.
LEMMA BusyStep ==
  ASSUME IInv, NEW w \in Workers, worker[w].pc = "sent", delivered' = delivered,
         Become(w, [worker[w] EXCEPT !.pc = "retryable"])
  PROVE  /\ worker' \in [Workers -> Local]
         /\ \A v \in Workers : /\ Entries(v)' \subseteq Entries(v)
                              /\ worker'[v].batch \subseteq worker[v].batch
                              /\ LocalOK(worker[v])'
<1>. TypeOK /\ WorkersAreSound
  BY DEF IInv
<1>1. PICK l : l = [worker[w] EXCEPT !.pc = "retryable"]
  OBVIOUS
<1>2. /\ l \in Local /\ l.pc = "retryable" /\ l.cur = worker[w].cur
      /\ l.batch = worker[w].batch
  BY <1>1 DEF TypeOK, Local
<1>3. /\ worker' \in [Workers -> Local] /\ worker'[w] = l
      /\ \A v \in Workers \ {w} : worker'[v] = worker[v]
  BY <1>1, <1>2 DEF Become, TypeOK
<1>4. worker[w].cur # None
  BY DEF WorkersAreSound, LocalOK
<1>5. ASSUME NEW v \in Workers
      PROVE  /\ Entries(v)' \subseteq Entries(v)
             /\ worker'[v].batch \subseteq worker[v].batch
             /\ LocalOK(worker[v])'
  <2>1. CASE v = w
    BY <1>2, <1>3, <1>4, <2>1 DEF Entries, LocalOK
  <2>2. CASE v # w
    BY <1>3, <2>2 DEF Entries, LocalOK, WorkersAreSound
  <2>. QED  BY <2>1, <2>2
<1>. QED
  BY <1>3, <1>5

\* What mark_sent writes is what WriteStep asks for.
LEMMA SentRow ==
  ASSUME IInv, NEW w \in Workers, worker[w].pc = "sent",
         NEW row, row = Closed(jobs[worker[w].cur.id], "sent")
  PROVE  /\ worker[w].cur # None
         /\ row \in Row /\ RowOK(row)
         /\ row.attempts = jobs[worker[w].cur.id].attempts
         /\ row.lease = None
         /\ row.status = "sent" => delivered[worker[w].cur.id] # {}
<1>1. worker[w].cur # None /\ delivered[worker[w].cur.id] # {}
  BY DEF IInv, WorkersAreSound, LocalOK
<1>2. PICK e \in Entry : e = worker[w].cur /\ e \in Entries(w)
  BY <1>1 DEF IInv, TypeOK, Local, Entries
<1>3. jobs[e.id] \in Row
  BY <1>2 DEF IInv, LeaseIsExclusive, Stored, TypeOK, Entry
<1>. QED
  BY <1>1, <1>2, <1>3, ClosedRow

\* What mark_dead and reschedule write is what WriteStep asks for.
LEMMA FailureRow ==
  ASSUME IInv, NEW w \in Workers, worker[w].pc \in {"retryable", "permanent"},
         NEW row, row = AfterFailure(w)
  PROVE  /\ worker[w].cur # None
         /\ LeaseHeld(worker[w].cur) =>
              /\ row \in Row /\ RowOK(row)
              /\ row.attempts = jobs[worker[w].cur.id].attempts
              /\ row.lease = None
              /\ row.status = "sent" => delivered[worker[w].cur.id] # {}
<1>1. worker[w].cur # None
  BY DEF IInv, WorkersAreSound, LocalOK
<1>2. PICK e \in Entry : e = worker[w].cur /\ e \in Entries(w)
  BY <1>1 DEF IInv, TypeOK, Local, Entries
<1>3. jobs[e.id] \in Row /\ RowOK(jobs[e.id])
  BY <1>2 DEF IInv, LeaseIsExclusive, Stored, TypeOK, Entry, RowsAreConsistent
<1>4. CASE row = Closed(jobs[e.id], "dead")
  BY <1>1, <1>2, <1>3, <1>4, ClosedRow
<1>5. CASE row = Rescheduled(jobs[e.id])
  <2>1. LeaseHeld(e) => jobs[e.id].status = "processing"
    BY DEF LeaseHeld
  <2>. QED  BY <1>1, <1>2, <1>3, <1>5, <2>1, RescheduledRow
<1>. QED
  BY <1>2, <1>4, <1>5 DEF AfterFailure

\* Empty tables and idle workers satisfy the invariant.
LEMMA InvInit == Init => IInv
<1>. SUFFICES ASSUME Init PROVE IInv
  OBVIOUS
<1>1. Idle \in Local
  BY DEF Idle, Local
<1>2. TypeOK
  BY <1>1 DEF Init, TypeOK
<1>3. \A j \in JobIds : ~Stored(j) /\ delivered[j] = {}
  BY DEF Init, Stored
<1>4. \A w \in Workers : Entries(w) = {} /\ worker[w].batch = {} /\ LocalOK(worker[w])
  BY DEF Init, Idle, Entries, LocalOK
<1>. QED
  BY <1>2, <1>3, <1>4 DEF IInv, RowsAreConsistent, LeaseIsExclusive,
       SentMeansDelivered, OneMailPerAttempt, WorkersAreSound

\* A step of the clock or of a request, which leaves the workers alone.
LEMMA RowStep ==
  ASSUME IInv, NEW j \in JobIds, Insert(j) \/ ComeDue(j) \/ Expire(j)
  PROVE  IInv'
<1>. TypeOK /\ RowsAreConsistent /\ SentMeansDelivered /\ WorkersAreSound
  BY DEF IInv
<1>1. cfg' \in Configs /\ worker' = worker /\ delivered' = delivered
  BY DEF Insert, ComeDue, Expire, TypeOK
<1>2. /\ worker' \in [Workers -> Local]
      /\ \A w \in Workers : /\ Entries(w)' \subseteq Entries(w)
                            /\ worker'[w].batch \subseteq worker[w].batch
                            /\ LocalOK(worker[w])'
  BY <1>1 DEF TypeOK, Entries, LocalOK, WorkersAreSound
<1>3. CASE Insert(j)
  <2>1. PICK r : r = [status |-> "pending", payload |-> TRUE, attempts |-> 0,
                      lease |-> None, due |-> TRUE, locked |-> FALSE]
    BY Zenon
  <2>2. r \in Row /\ RowOK(r) /\ r.attempts = 0 /\ r.status = "pending"
    BY <2>1, NewRow
  <2>3. ~Stored(j) /\ jobs' = [jobs EXCEPT ![j] = r]
    BY <1>3, <2>1 DEF Insert
  <2>4. /\ jobs' \in [JobIds -> Row \cup {None}] /\ jobs'[j] = r
        /\ \A i \in JobIds \ {j} : jobs'[i] = jobs[i]
    BY <2>2, <2>3 DEF TypeOK
  <2>5. RowOK(jobs'[j]) /\ jobs'[j].attempts = 0 /\ jobs'[j].status = "pending"
    BY <2>2, <2>4
  <2>. QED  BY <1>1, <1>2, <2>3, <2>4, <2>5, QuietStep
<1>4. CASE ComeDue(j) \/ Expire(j)
  <2>1. Stored(j) /\ jobs[j] \in Row /\ RowOK(jobs[j])
    BY <1>4 DEF ComeDue, Expire, TypeOK, Stored, RowsAreConsistent
  <2>2. PICK c : /\ c = [jobs[j] EXCEPT !.due = TRUE]
                    \/ c = [jobs[j] EXCEPT !.locked = FALSE]
                 /\ jobs' = [jobs EXCEPT ![j] = c]
    BY <1>4, Zenon DEF ComeDue, Expire
  <2>3. /\ c \in Row /\ RowOK(c) /\ c.attempts = jobs[j].attempts
        /\ c.lease = jobs[j].lease /\ c.status = jobs[j].status /\ c # None
    BY <2>1, <2>2, TimedRow, OutboxAssumption
  <2>4. /\ jobs' \in [JobIds -> Row \cup {None}] /\ jobs'[j] = c
        /\ \A i \in JobIds \ {j} : jobs'[i] = jobs[i]
    BY <2>2, <2>3 DEF TypeOK
  <2>5. /\ Stored(j) /\ jobs'[j] # None /\ RowOK(jobs'[j])
        /\ jobs'[j].attempts = jobs[j].attempts
        /\ jobs'[j].lease \in {jobs[j].lease, None}
        /\ jobs'[j].status = "sent" => delivered[j] # {}
    BY <2>1, <2>3, <2>4 DEF SentMeansDelivered
  <2>. QED  BY <1>1, <1>2, <2>4, <2>5, QuietStep
<1>. QED
  BY <1>3, <1>4

\* Every step preserves the invariant.
LEMMA InvNext == IInv /\ [Next]_vars => IInv'
<1>. SUFFICES ASSUME IInv, [Next]_vars PROVE IInv'
  OBVIOUS
<1>. TypeOK /\ WorkersAreSound
  BY DEF IInv
<1>1. ASSUME worker' = worker, delivered' = delivered
      PROVE  /\ worker' \in [Workers -> Local]
             /\ \A w \in Workers : /\ Entries(w)' \subseteq Entries(w)
                                  /\ worker'[w].batch \subseteq worker[w].batch
                                  /\ LocalOK(worker[w])'
  BY <1>1 DEF TypeOK, Entries, LocalOK, WorkersAreSound
<1>2. ASSUME NEW c \in Configs, Configure(c) PROVE IInv'
  BY <1>1, <1>2, QuietStep DEF Configure, TypeOK
<1>3. CASE UNCHANGED vars
  BY <1>1, <1>3, QuietStep DEF vars, TypeOK
<1>4. ASSUME NEW w \in Workers, MarkSent(w) PROVE IInv'
  <2>1. PICK row : row = Closed(jobs[worker[w].cur.id], "sent")
    OBVIOUS
  <2>2. /\ worker[w].pc = "sent" /\ Write(worker[w].cur, row) /\ Proceed(w)
        /\ cfg' \in Configs /\ delivered' = delivered
    BY <1>4, <2>1 DEF MarkSent, TypeOK
  <2>. QED  BY <2>1, <2>2, SentRow, ProceedsQuietly, WriteStep, Zenon
<1>5. ASSUME NEW w \in Workers, MarkSentFails(w) PROVE IInv'
  <2>1. PICK row : row = Closed(jobs[worker[w].cur.id], "sent")
    OBVIOUS
  <2>2. /\ worker[w].pc = "sent"
        /\ Write(worker[w].cur, row) \/ UNCHANGED jobs
        /\ Become(w, [worker[w] EXCEPT !.pc = "retryable"])
        /\ cfg' \in Configs /\ delivered' = delivered
    BY <1>5, <2>1 DEF MarkSentFails, TypeOK
  <2>. QED  BY <2>1, <2>2, SentRow, BusyStep, WriteStep, Zenon
<1>6. ASSUME NEW w \in Workers, RecordFailure(w) PROVE IInv'
  <2>1. PICK row : row = AfterFailure(w)
    OBVIOUS
  <2>2. /\ worker[w].pc \in {"retryable", "permanent"}
        /\ Write(worker[w].cur, row) /\ Proceed(w)
        /\ cfg' \in Configs /\ delivered' = delivered
    BY <1>6, <2>1 DEF RecordFailure, TypeOK
  <2>. QED  BY <2>1, <2>2, FailureRow, ProceedsQuietly, WriteStep, Zenon
<1>7. ASSUME NEW w \in Workers, RecordFailureFails(w) PROVE IInv'
  <2>1. /\ Proceed(w) /\ jobs' = jobs /\ cfg' \in Configs /\ delivered' = delivered
    BY <1>7 DEF RecordFailureFails, TypeOK
  <2>. QED  BY <2>1, ProceedsQuietly, QuietStep DEF TypeOK
<1>8. ASSUME NEW w \in Workers, Crash(w) PROVE IInv'
  <2>1. Idle \in Local
    BY DEF Idle, Local
  <2>2. /\ worker' = [worker EXCEPT ![w] = Idle] /\ jobs' = jobs
        /\ cfg' \in Configs /\ delivered' = delivered
    BY <1>8 DEF Crash, Become, TypeOK
  <2>3. /\ worker' \in [Workers -> Local] /\ worker'[w] = Idle
        /\ \A v \in Workers \ {w} : worker'[v] = worker[v]
    BY <2>1, <2>2 DEF TypeOK
  <2>4. ASSUME NEW v \in Workers
        PROVE  /\ Entries(v)' \subseteq Entries(v)
               /\ worker'[v].batch \subseteq worker[v].batch
               /\ LocalOK(worker[v])'
    <3>1. CASE v = w
      BY <2>3, <3>1 DEF Entries, LocalOK, Idle
    <3>2. CASE v # w
      BY <2>2, <2>3, <3>2 DEF Entries, LocalOK, WorkersAreSound
    <3>. QED  BY <3>1, <3>2
  <2>. QED  BY <2>2, <2>3, <2>4, QuietStep DEF TypeOK
<1>. QED
  BY <1>2, <1>3, <1>4, <1>5, <1>6, <1>7, <1>8, RowStep, ClaimStep, SendStep
     DEF Next, Tick

\* What a step may do to a stored row.
LEMMA RowChange ==
  ASSUME IInv, [Next]_vars, NEW j \in JobIds, Stored(j)
  PROVE  \/ jobs'[j] = jobs[j]
         \/ jobs'[j] = [jobs[j] EXCEPT !.due = TRUE]
         \/ jobs'[j] = [jobs[j] EXCEPT !.locked = FALSE]
         \/ Claimable(j) /\ \E l \in Leases : jobs'[j] = Claimed(jobs[j], l)
         \/ /\ jobs[j].status = "processing"
            /\ \/ \E s \in {"sent", "dead"} : jobs'[j] = Closed(jobs[j], s)
               \/ jobs'[j] = Rescheduled(jobs[j])
<1>. TypeOK
  BY DEF IInv
<1>. DEFINE Goal == \/ jobs'[j] = jobs[j]
                    \/ jobs'[j] = [jobs[j] EXCEPT !.due = TRUE]
                    \/ jobs'[j] = [jobs[j] EXCEPT !.locked = FALSE]
                    \/ Claimable(j) /\ \E l \in Leases : jobs'[j] = Claimed(jobs[j], l)
                    \/ /\ jobs[j].status = "processing"
                       /\ \/ \E s \in {"sent", "dead"} : jobs'[j] = Closed(jobs[j], s)
                          \/ jobs'[j] = Rescheduled(jobs[j])
<1>1. ASSUME NEW i \in JobIds, Insert(i) \/ ComeDue(i) \/ Expire(i) PROVE Goal
  BY <1>1, Zenon DEF Insert, ComeDue, Expire, TypeOK
<1>2. ASSUME NEW w \in Workers, ClaimBatch(w) PROVE Goal
  <2>1. PICK S \in SUBSET {i \in JobIds : Claimable(i)} : \E lease \in [S -> Leases] :
          jobs' = [i \in JobIds |-> IF i \in S THEN Claimed(jobs[i], lease[i])
                                   ELSE jobs[i]]
    BY <1>2 DEF ClaimBatch
  <2>2. PICK lease \in [S -> Leases] :
          jobs' = [i \in JobIds |-> IF i \in S THEN Claimed(jobs[i], lease[i])
                                   ELSE jobs[i]]
    BY <2>1
  <2>3. CASE j \in S
    BY <2>2, <2>3
  <2>4. CASE j \notin S
    BY <2>2, <2>4
  <2>. QED  BY <2>3, <2>4
<1>3. ASSUME NEW e \in Entry, NEW row, Write(e, row),
             \/ \E s \in {"sent", "dead"} : row = Closed(jobs[e.id], s)
             \/ row = Rescheduled(jobs[e.id])
      PROVE  Goal
  <2>1. CASE LeaseHeld(e) /\ e.id = j
    <3>1. jobs[j].status = "processing" /\ jobs'[j] = row
      BY <1>3, <2>1 DEF Write, LeaseHeld, TypeOK
    <3>. QED  BY <1>3, <2>1, <3>1
  <2>2. CASE ~(LeaseHeld(e) /\ e.id = j)
    BY <1>3, <2>2 DEF Write, TypeOK
  <2>. QED  BY <2>1, <2>2
<1>4. ASSUME NEW w \in Workers, worker[w].pc \in {"sent", "retryable", "permanent"}
      PROVE  worker[w].cur \in Entry
  BY <1>4 DEF IInv, WorkersAreSound, LocalOK, TypeOK, Local
<1>5. ASSUME NEW w \in Workers, MarkSent(w) \/ MarkSentFails(w) PROVE Goal
  <2>1. CASE UNCHANGED jobs
    BY <2>1
  <2>2. CASE Write(worker[w].cur, Closed(jobs[worker[w].cur.id], "sent"))
    <3>1. worker[w].cur \in Entry
      BY <1>4, <1>5 DEF MarkSent, MarkSentFails
    <3>. QED  BY <1>3, <2>2, <3>1, Zenon
  <2>. QED  BY <1>5, <2>1, <2>2 DEF MarkSent, MarkSentFails
<1>6. ASSUME NEW w \in Workers, RecordFailure(w) PROVE Goal
  <2>1. worker[w].cur \in Entry /\ Write(worker[w].cur, AfterFailure(w))
    BY <1>4, <1>6 DEF RecordFailure
  <2>2. \/ AfterFailure(w) = Closed(jobs[worker[w].cur.id], "dead")
        \/ AfterFailure(w) = Rescheduled(jobs[worker[w].cur.id])
    BY DEF AfterFailure
  <2>. QED  BY <1>3, <2>1, <2>2, Zenon
<1>7. ASSUME UNCHANGED jobs PROVE Goal
  BY <1>7
<1>8. ASSUME NEW w \in Workers, Send(w) \/ RecordFailureFails(w) \/ Crash(w)
      PROVE  Goal
  BY <1>7, <1>8, Zenon DEF Send, RecordFailureFails, Crash
<1>9. ASSUME NEW c \in Configs, Configure(c) PROVE Goal
  BY <1>7, <1>9 DEF Configure
<1>10. ASSUME UNCHANGED vars PROVE Goal
  BY <1>7, <1>10 DEF vars
<1>. HIDE DEF Goal
<1>11. Goal
  BY <1>1, <1>2, <1>5, <1>6, <1>8, <1>9, <1>10 DEF Next, Tick
<1>. QED
  BY <1>11 DEF Goal

\* The invariant holds throughout.
THEOREM Invariance == Spec => []IInv
BY InvInit, InvNext, PTL DEF Spec

\* The variables keep their types.
THEOREM TypeCorrect == Spec => []TypeOK
<1>1. IInv => TypeOK
  BY DEF IInv
<1>. QED
  BY <1>1, Invariance, PTL

\* A row has a lease exactly while it is in processing, and a payload exactly
\* until it is settled.
THEOREM RowsConsistent == Spec => []RowsAreConsistent
<1>1. IInv => RowsAreConsistent
  BY DEF IInv
<1>. QED
  BY <1>1, Invariance, PTL

\* Of all the workers that claimed a job only the last can write its result.
THEOREM Fencing == Spec => []LeaseIsExclusive
<1>1. IInv => LeaseIsExclusive
  BY DEF IInv
<1>. QED
  BY <1>1, Invariance, PTL

\* A job marked sent was delivered.
THEOREM NoFalseSent == Spec => []SentMeansDelivered
<1>1. IInv => SentMeansDelivered
  BY DEF IInv
<1>. QED
  BY <1>1, Invariance, PTL

\* A mail goes out at most once for each attempt of its job.
THEOREM MailsBounded == Spec => []OneMailPerAttempt
<1>1. IInv => OneMailPerAttempt
  BY DEF IInv
<1>. QED
  BY <1>1, Invariance, PTL

\* A settled job is never revived, and its payload stays cleared.
THEOREM Final == Spec => SettledIsFinal
<1>1. ASSUME IInv, [Next]_vars
      PROVE  \A j \in JobIds : Settled(j) => jobs'[j].status = jobs[j].status
                                            /\ ~jobs'[j].payload
  <2>. SUFFICES ASSUME NEW j \in JobIds, Settled(j)
                PROVE  jobs'[j].status = jobs[j].status /\ ~jobs'[j].payload
    OBVIOUS
  <2>1. /\ Stored(j) /\ jobs[j].status \in {"sent", "dead"} /\ jobs[j] \in Row
        /\ RowOK(jobs[j])
    BY <1>1 DEF Settled, Stored, IInv, TypeOK, RowsAreConsistent
  <2>2. ~jobs[j].payload
    BY <2>1 DEF RowOK
  <2>3. \/ jobs'[j] = jobs[j]
        \/ jobs'[j] = [jobs[j] EXCEPT !.due = TRUE]
        \/ jobs'[j] = [jobs[j] EXCEPT !.locked = FALSE]
    BY <1>1, <2>1, RowChange DEF Claimable
  <2>. QED  BY <2>1, <2>2, <2>3, TimedRow
<1>2. IInv /\ [Next]_vars =>
        [\A j \in JobIds : Settled(j) => jobs'[j].status = jobs[j].status
                                        /\ ~jobs'[j].payload]_vars
  BY <1>1
<1>. QED
  BY <1>2, Invariance, PTL DEF Spec, SettledIsFinal

\* Attempts are spent one at a time, on jobs nobody has locked, for good.
THEOREM Attempts == Spec => AttemptsOnlyGrow
<1>1. ASSUME IInv, [Next]_vars, NEW j \in JobIds, Stored(j)
      PROVE  /\ jobs'[j].attempts \in {jobs[j].attempts, jobs[j].attempts + 1}
             /\ jobs'[j].attempts # jobs[j].attempts => ~jobs[j].locked
  <2>1. jobs[j] \in Row /\ RowOK(jobs[j])
    BY <1>1 DEF Stored, IInv, TypeOK, RowsAreConsistent
  <2>2. CASE Claimable(j) /\ \E l \in Leases : jobs'[j] = Claimed(jobs[j], l)
    <3>1. ~jobs[j].locked /\ jobs[j].status \in {"pending", "processing"}
      BY <2>2 DEF Claimable
    <3>2. jobs'[j].attempts = jobs[j].attempts + 1
      BY <2>1, <2>2, <3>1, ClaimedRow
    <3>. QED  BY <3>1, <3>2
  <2>3. CASE ~(Claimable(j) /\ \E l \in Leases : jobs'[j] = Claimed(jobs[j], l))
    <3>1. \/ jobs'[j] = jobs[j]
          \/ jobs'[j] = [jobs[j] EXCEPT !.due = TRUE]
          \/ jobs'[j] = [jobs[j] EXCEPT !.locked = FALSE]
          \/ /\ jobs[j].status = "processing"
             /\ \/ \E s \in {"sent", "dead"} : jobs'[j] = Closed(jobs[j], s)
                \/ jobs'[j] = Rescheduled(jobs[j])
      BY <1>1, <2>3, RowChange
    <3>2. CASE \/ jobs'[j] = [jobs[j] EXCEPT !.due = TRUE]
               \/ jobs'[j] = [jobs[j] EXCEPT !.locked = FALSE]
      BY <2>1, <3>2, TimedRow
    <3>3. CASE \E s \in {"sent", "dead"} : jobs'[j] = Closed(jobs[j], s)
      BY <2>1, <3>3, ClosedRow
    <3>4. CASE jobs[j].status = "processing" /\ jobs'[j] = Rescheduled(jobs[j])
      BY <2>1, <3>4, RescheduledRow
    <3>. QED  BY <3>1, <3>2, <3>3, <3>4
  <2>. QED  BY <2>2, <2>3
<1>2. IInv /\ [Next]_vars =>
        [\A j \in JobIds : Stored(j) =>
           /\ jobs'[j].attempts \in {jobs[j].attempts, jobs[j].attempts + 1}
           /\ jobs'[j].attempts # jobs[j].attempts => ~jobs[j].locked]_vars
  BY <1>1
<1>. QED
  BY <1>2, Invariance, PTL DEF Spec, AttemptsOnlyGrow

\* A worker between two Ticks has no entries left.
IdleIsEmpty == \A w \in Workers : worker[w].pc = "idle" => Entries(w) = {}

\* Where a step leaves a worker that it gives the locals l.
LEMMA BecomeStep ==
  ASSUME TypeOK, NEW w \in Workers, NEW l, Become(w, l)
  PROVE  worker'[w] = l /\ \A v \in Workers \ {w} : worker'[v] = worker[v]
BY DEF Become, TypeOK

\* Proceed(w) drops the entry at hand and no other.
LEMMA ProceedDrops ==
  ASSUME TypeOK, NEW w \in Workers, Proceed(w)
  PROVE  /\ Entries(w)' = worker[w].batch
         /\ worker'[w].pc = "idle" => worker[w].batch = {}
<1>1. CASE worker[w].batch = {}
  <2>1. worker'[w] = Idle
    BY <1>1, BecomeStep DEF Proceed
  <2>. QED  BY <1>1, <2>1 DEF Entries, Idle
<1>2. CASE worker[w].batch # {}
  <2>1. PICK l : l = [worker[w] EXCEPT !.pc = "loop", !.cur = None]
    OBVIOUS
  <2>2. l.pc = "loop" /\ l.cur = None /\ l.batch = worker[w].batch
    BY <2>1, Zenon DEF TypeOK, Local
  <2>3. worker'[w] = l
    BY <1>2, <2>1, BecomeStep, Zenon DEF Proceed
  <2>. QED  BY <2>2, <2>3 DEF Entries
<1>. QED
  BY <1>1, <1>2

\* Send(w) moves an entry from the batch to the hand and drops none.
LEMMA SendKeeps ==
  ASSUME IInv, NEW w \in Workers, Send(w)
  PROVE  Entries(w)' = Entries(w) /\ worker'[w].pc # "idle"
<1>. TypeOK /\ WorkersAreSound
  BY DEF IInv
<1>1. PICK e \in worker[w].batch, outcome \in {"sent", "retryable", "permanent"} :
        Become(w, [worker[w] EXCEPT !.pc = outcome, !.cur = e,
                                    !.batch = worker[w].batch \ {e}])
  BY Zenon DEF Send
<1>2. PICK l : l = [worker[w] EXCEPT !.pc = outcome, !.cur = e,
                                     !.batch = worker[w].batch \ {e}]
  OBVIOUS
<1>3. l.pc = outcome /\ l.cur = e /\ l.batch = worker[w].batch \ {e}
  BY <1>2, Zenon DEF TypeOK, Local
<1>4. worker'[w] = l
  BY <1>1, <1>2, BecomeStep, Zenon
<1>5. worker[w].cur = None /\ e # None
  BY OutboxAssumption DEF Send, WorkersAreSound, LocalOK, TypeOK, Local
<1>. QED
  BY <1>1, <1>3, <1>4, <1>5 DEF Entries

\* A mark_sent that fails keeps the entry at hand.
LEMMA MarkSentFailsKeeps ==
  ASSUME TypeOK, NEW w \in Workers, MarkSentFails(w)
  PROVE  Entries(w)' = Entries(w) /\ worker'[w].pc # "idle"
<1>1. PICK l : l = [worker[w] EXCEPT !.pc = "retryable"]
  BY Zenon
<1>2. l.pc = "retryable" /\ l.cur = worker[w].cur /\ l.batch = worker[w].batch
  BY <1>1, Zenon DEF TypeOK, Local
<1>3. worker'[w] = l
  BY <1>1, BecomeStep, Zenon DEF MarkSentFails
<1>. QED
  BY <1>2, <1>3 DEF Entries

\* A claim gives its worker exactly the entries of the rows it claims, each of
\* them with the lease that the row now has.
LEMMA ClaimGives ==
  ASSUME IInv, NEW w \in Workers, ClaimBatch(w), NEW j \in JobIds
  PROVE  /\ worker'[w].pc # "idle"
         /\ \A v \in Workers \ {w} : Entries(v)' = Entries(v)
         /\ \/ jobs'[j] = jobs[j]
            \/ \E e \in Entries(w)' : e.id = j /\ LeaseHeld(e)'
<1>. TypeOK
  BY DEF IInv
<1>. DEFINE NewEntry(lease, i) == [id |-> i, lease |-> lease[i],
                                   attempts |-> jobs[i].attempts + 1]
<1>. DEFINE Takes(S, lease) ==
              /\ jobs' = [i \in JobIds |-> IF i \in S THEN Claimed(jobs[i], lease[i])
                                           ELSE jobs[i]]
              /\ Become(w, [pc |-> "loop", cur |-> None, max |-> cfg.max_attempts,
                            batch |-> {NewEntry(lease, i) : i \in S}])
<1>1. PICK S \in SUBSET {i \in JobIds : Claimable(i)} :
        \E lease \in [S -> Leases] : Takes(S, lease)
  BY Zenon DEF ClaimBatch
<1>2. PICK lease \in [S -> Leases] : Takes(S, lease)
  BY <1>1, Zenon
<1>. DEFINE B == {NewEntry(lease, i) : i \in S}
<1>3. /\ worker'[w].pc = "loop" /\ worker'[w].batch = B
      /\ \A v \in Workers \ {w} : worker'[v] = worker[v]
  <2>1. PICK l : l = [pc |-> "loop", cur |-> None, max |-> cfg.max_attempts,
                      batch |-> B]
    BY Zenon
  <2>2. Become(w, l)
    BY <1>2, <2>1
  <2>. QED  BY <2>1, <2>2, BecomeStep
<1>4. \A v \in Workers \ {w} : Entries(v)' = Entries(v)
  BY <1>3 DEF Entries
<1>5. CASE j \in S
  <2>1. jobs[j] \in Row /\ RowOK(jobs[j])
        /\ jobs[j].status \in {"pending", "processing"} /\ lease[j] \in Leases
    BY <1>1, <1>2, <1>5, Zenon DEF Claimable, Stored, IInv, TypeOK, RowsAreConsistent
  <2>2. jobs'[j].lease = lease[j] /\ jobs'[j].status = "processing"
    <3>1. PICK c : c = Claimed(jobs[j], lease[j])
      OBVIOUS
    <3>2. c.lease = lease[j] /\ c.status = "processing"
      BY <2>1, <3>1, ClaimedRow
    <3>. QED  BY <1>2, <1>5, <3>1, <3>2
  <2>3. PICK e : e = NewEntry(lease, j)
    BY Zenon
  <2>4. e \in Entries(w)' /\ e.id = j /\ e.lease = lease[j]
    BY <1>3, <1>5, <2>3 DEF Entries
  <2>. QED  BY <1>3, <1>4, <2>2, <2>4 DEF LeaseHeld
<1>6. CASE j \notin S
  BY <1>2, <1>3, <1>4, <1>6, Zenon
<1>. QED
  BY <1>5, <1>6

\* No step leaves an idle worker with an entry.
LEMMA IdleIsEmptyNext ==
  ASSUME IInv, IdleIsEmpty, [Next]_vars
  PROVE  IdleIsEmpty'
<1>. TypeOK /\ WorkersAreSound
  BY DEF IInv
<1>1. ASSUME NEW w \in Workers, worker'[w].pc = "idle" => Entries(w)' = {},
             \A v \in Workers \ {w} : worker'[v] = worker[v]
      PROVE  IdleIsEmpty'
  BY <1>1 DEF IdleIsEmpty, Entries
<1>2. ASSUME UNCHANGED worker PROVE IdleIsEmpty'
  BY <1>2 DEF IdleIsEmpty, Entries
<1>3. ASSUME NEW j \in JobIds, Insert(j) \/ ComeDue(j) \/ Expire(j)
      PROVE  IdleIsEmpty'
  BY <1>2, <1>3, Zenon DEF Insert, ComeDue, Expire
<1>4. ASSUME NEW w \in Workers, ClaimBatch(w) PROVE IdleIsEmpty'
  <2>1. \A v \in Workers \ {w} : worker'[v] = worker[v]
    BY <1>4, BecomeStep, Zenon DEF ClaimBatch
  <2>2. PICK j \in JobIds : Claimable(j)
    BY <1>4, Zenon DEF ClaimBatch
  <2>3. worker'[w].pc # "idle"
    BY <1>4, ClaimGives
  <2>. QED  BY <1>1, <2>1, <2>3
<1>5. ASSUME NEW w \in Workers, Send(w) PROVE IdleIsEmpty'
  <2>1. \A v \in Workers \ {w} : worker'[v] = worker[v]
    BY <1>5, BecomeStep, Zenon DEF Send
  <2>. QED  BY <1>1, <1>5, <2>1, SendKeeps
<1>6. ASSUME NEW w \in Workers, MarkSentFails(w) PROVE IdleIsEmpty'
  <2>1. \A v \in Workers \ {w} : worker'[v] = worker[v]
    BY <1>6, BecomeStep, Zenon DEF MarkSentFails
  <2>. QED  BY <1>1, <1>6, <2>1, MarkSentFailsKeeps
<1>7. ASSUME NEW w \in Workers, MarkSent(w) \/ RecordFailure(w) \/ RecordFailureFails(w)
      PROVE  IdleIsEmpty'
  <2>1. Proceed(w)
    BY <1>7 DEF MarkSent, RecordFailure, RecordFailureFails
  <2>2. \A v \in Workers \ {w} : worker'[v] = worker[v]
    BY <2>1, Proceeds
  <2>. QED  BY <1>1, <2>1, <2>2, ProceedDrops
<1>8. ASSUME NEW w \in Workers, Crash(w) PROVE IdleIsEmpty'
  <2>1. worker'[w] = Idle /\ \A v \in Workers \ {w} : worker'[v] = worker[v]
    BY <1>8, BecomeStep DEF Crash
  <2>. QED  BY <1>1, <2>1 DEF Entries, Idle
<1>. QED
  BY <1>2, <1>3, <1>4, <1>5, <1>6, <1>7, <1>8 DEF Next, Tick, Configure, vars

\* A worker that is between two Ticks owes nobody a result.
LEMMA IdleInvariance == Spec => []IdleIsEmpty
<1>1. Init => IdleIsEmpty
  BY DEF Init, IdleIsEmpty, Entries, Idle
<1>2. IInv /\ IdleIsEmpty /\ [Next]_vars => IdleIsEmpty'
  BY IdleIsEmptyNext
<1>. QED
  BY <1>1, <1>2, Invariance, PTL DEF Spec

\* A job is abandoned by a step that leaves its status, its attempts and its
\* lease alone only if the step takes an entry with that lease from a worker.
LEMMA EntryLost ==
  ASSUME NEW j \in JobIds, Abandoned(j)', ~Abandoned(j), cfg' = cfg, Stored(j),
         jobs'[j].status = jobs[j].status, jobs'[j].attempts = jobs[j].attempts,
         jobs'[j].lease = jobs[j].lease
  PROVE  \E w \in Workers : \E e \in Entries(w) :
           e.id = j /\ LeaseHeld(e) /\ e \notin Entries(w)'
BY DEF Abandoned, Stored, LeaseHeld

\* A result, once it is written with the lease, abandons no job.
LEMMA ResultsConclude ==
  ASSUME IInv, NEW w \in Workers, worker[w].cur \in Entry, NEW row,
         row.status # "processing",
         Write(worker[w].cur, row) \/ UNCHANGED jobs,
         cfg' = cfg, \A v \in Workers \ {w} : Entries(v)' = Entries(v),
         \/ Entries(w)' = Entries(w)
         \/ Write(worker[w].cur, row) /\ Entries(w)' = worker[w].batch,
         NEW j \in JobIds, Abandoned(j)', ~Abandoned(j)
  PROVE  FALSE
<1>. DEFINE c == worker[w].cur
<1>. TypeOK
  BY DEF IInv
<1>0. c.id \in JobIds
  BY DEF Entry
<1>1. CASE Write(c, row) /\ LeaseHeld(c) /\ c.id = j
  <2>1. jobs'[j] = row
    BY <1>1 DEF Write, TypeOK
  <2>. QED  BY <2>1, Zenon DEF Abandoned
<1>2. CASE ~(Write(c, row) /\ LeaseHeld(c) /\ c.id = j)
  <2>1. jobs'[j] = jobs[j]
    BY <1>0, <1>2 DEF Write, TypeOK
  <2>2. Stored(j)
    BY <2>1 DEF Abandoned, Stored
  <2>3. PICK v \in Workers : \E e \in Entries(v) :
          e.id = j /\ LeaseHeld(e) /\ e \notin Entries(v)'
    BY <2>1, <2>2, EntryLost
  <2>4. PICK e \in Entries(v) : e.id = j /\ LeaseHeld(e) /\ e \notin Entries(v)'
    BY <2>3
  <2>5. v = w /\ Write(c, row) /\ Entries(w)' = worker[w].batch
    BY <2>4
  <2>6. e = c
    BY <2>4, <2>5, Zenon DEF Entries
  <2>. QED  BY <1>2, <2>4, <2>5, <2>6
<1>. QED
  BY <1>1, <1>2

\* Only a crash in the middle of a batch, or a failure that cannot be written,
\* abandons a job, and only one whose lease its worker still held.
THEOREM Abandonment == Spec => OnlyFaultsAbandon
<1>. DEFINE Blamed(j) == \E w \in Workers :
                           /\ Crash(w) \/ RecordFailureFails(w)
                           /\ \E e \in Entries(w) : e.id = j /\ LeaseHeld(e)
<1>1. ASSUME IInv, IdleIsEmpty, Next, NEW j \in JobIds,
             Abandoned(j)', ~Abandoned(j), cfg' = cfg
      PROVE  Blamed(j)
  <2>. TypeOK /\ WorkersAreSound
    BY <1>1 DEF IInv
  <2>1. ASSUME NEW w \in Workers, worker[w].pc \in {"sent", "retryable", "permanent"}
        PROVE  worker[w].cur \in Entry
    BY <2>1 DEF WorkersAreSound, LocalOK, TypeOK, Local
  <2>2. ASSUME jobs'[j] = jobs[j]
        PROVE  \E w \in Workers : \E e \in Entries(w) :
                 e.id = j /\ LeaseHeld(e) /\ e \notin Entries(w)'
    <3>1. Stored(j)
      BY <1>1, <2>2 DEF Abandoned, Stored
    <3>. QED  BY <1>1, <2>2, <3>1, EntryLost
  <2>3. ASSUME NEW i \in JobIds, Insert(i) PROVE Blamed(j)
    <3>1. jobs' = [jobs EXCEPT ![i] =
                     [status |-> "pending", payload |-> TRUE, attempts |-> 0,
                      lease |-> None, due |-> TRUE, locked |-> FALSE]]
          /\ worker' = worker
      BY <2>3 DEF Insert
    <3>2. i # j
      BY <1>1, <3>1 DEF Abandoned, TypeOK
    <3>3. jobs'[j] = jobs[j]
      BY <3>1, <3>2 DEF TypeOK
    <3>. QED  BY <2>2, <3>1, <3>3 DEF Entries
  <2>4. ASSUME NEW i \in JobIds, ComeDue(i) \/ Expire(i) PROVE Blamed(j)
    <3>1. /\ worker' = worker
          /\ \/ jobs'[j] = jobs[j]
             \/ /\ Stored(j)
                /\ \/ jobs'[j] = [jobs[j] EXCEPT !.due = TRUE]
                   \/ jobs'[j] = [jobs[j] EXCEPT !.locked = FALSE]
      BY <2>4, Zenon DEF ComeDue, Expire, TypeOK
    <3>2. CASE jobs'[j] = jobs[j]
      BY <2>2, <3>1, <3>2 DEF Entries
    <3>3. CASE jobs'[j] # jobs[j]
      <4>1. jobs[j] \in Row /\ RowOK(jobs[j])
        BY <1>1, <3>1, <3>3 DEF Stored, TypeOK, IInv, RowsAreConsistent
      <4>2. /\ jobs'[j].status = jobs[j].status /\ jobs'[j].lease = jobs[j].lease
            /\ jobs'[j].attempts = jobs[j].attempts
        BY <3>1, <3>3, <4>1, TimedRow
      <4>. QED  BY <1>1, <3>1, <3>3, <4>2, EntryLost DEF Entries
    <3>. QED  BY <3>2, <3>3
  <2>5. ASSUME NEW w \in Workers, ClaimBatch(w) PROVE Blamed(j)
    <3>1. jobs'[j] = jobs[j] /\ \A v \in Workers \ {w} : Entries(v)' = Entries(v)
      BY <1>1, <2>5, ClaimGives DEF Abandoned
    <3>2. Entries(w) = {}
      BY <1>1, <2>5 DEF ClaimBatch, IdleIsEmpty
    <3>. QED  BY <2>2, <3>1, <3>2
  <2>6. ASSUME NEW w \in Workers, Send(w) PROVE Blamed(j)
    <3>1. \A v \in Workers \ {w} : worker'[v] = worker[v]
      BY <2>6, BecomeStep, Zenon DEF Send
    <3>2. jobs'[j] = jobs[j] /\ Entries(w)' = Entries(w)
      BY <1>1, <2>6, SendKeeps, Zenon DEF Send
    <3>. QED  BY <2>2, <3>1, <3>2, Zenon DEF Entries
  <2>7. ASSUME NEW w \in Workers, MarkSent(w) \/ MarkSentFails(w) PROVE Blamed(j)
    <3>1. worker[w].pc = "sent" /\ worker[w].cur \in Entry
      BY <2>1, <2>7 DEF MarkSent, MarkSentFails
    <3>2. PICK row : row = Closed(jobs[worker[w].cur.id], "sent")
      OBVIOUS
    <3>3. row.status # "processing"
      <4>1. jobs[worker[w].cur.id] \in Row
        BY <1>1, <3>1, OutboxAssumption
           DEF IInv, LeaseIsExclusive, Entries, Stored, TypeOK, Entry
      <4>. QED  BY <3>2, <4>1, Zenon DEF Closed, Row
    <3>4. CASE MarkSent(w)
      <4>1. Write(worker[w].cur, row) /\ Proceed(w)
        BY <3>2, <3>4, Zenon DEF MarkSent
      <4>2. \A v \in Workers \ {w} : Entries(v)' = Entries(v)
        BY <4>1, Proceeds DEF Entries
      <4>3. Entries(w)' = worker[w].batch
        BY <4>1, ProceedDrops
      <4>. QED  BY <1>1, <3>1, <3>3, <4>1, <4>2, <4>3, ResultsConclude
    <3>5. CASE MarkSentFails(w)
      <4>1. Write(worker[w].cur, row) \/ UNCHANGED jobs
        BY <3>2, <3>5 DEF MarkSentFails
      <4>2. \A v \in Workers \ {w} : worker'[v] = worker[v]
        BY <3>5, BecomeStep, Zenon DEF MarkSentFails
      <4>3. \A v \in Workers \ {w} : Entries(v)' = Entries(v)
        BY <4>2 DEF Entries
      <4>4. Entries(w)' = Entries(w)
        BY <3>5, MarkSentFailsKeeps
      <4>. QED  BY <1>1, <3>1, <3>3, <4>1, <4>3, <4>4, ResultsConclude, Zenon
    <3>. QED  BY <2>7, <3>4, <3>5
  <2>8. ASSUME NEW w \in Workers, RecordFailure(w) PROVE Blamed(j)
    <3>1. /\ worker[w].pc \in {"retryable", "permanent"} /\ worker[w].cur \in Entry
          /\ Proceed(w)
      BY <2>1, <2>8 DEF RecordFailure
    <3>2. PICK row : row = AfterFailure(w)
      OBVIOUS
    <3>3. Write(worker[w].cur, row)
      BY <2>8, <3>2, Zenon DEF RecordFailure
    <3>4. \A v \in Workers \ {w} : Entries(v)' = Entries(v)
      BY <3>1, Proceeds DEF Entries
    <3>5. Entries(w)' = worker[w].batch
      BY <3>1, ProceedDrops
    <3>6. jobs[worker[w].cur.id] \in Row
      BY <1>1, <3>1, OutboxAssumption
         DEF IInv, LeaseIsExclusive, Entries, Stored, TypeOK, Entry
    <3>7. row.status # "processing"
      <4>1. \/ row = Closed(jobs[worker[w].cur.id], "dead")
            \/ row = Rescheduled(jobs[worker[w].cur.id])
        BY <3>2 DEF AfterFailure
      <4>. QED  BY <3>6, <4>1, Zenon DEF Closed, Rescheduled, Row
    <3>. QED  BY <1>1, <3>1, <3>3, <3>4, <3>5, <3>7, ResultsConclude
  <2>9. ASSUME NEW w \in Workers, RecordFailureFails(w) \/ Crash(w) PROVE Blamed(j)
    <3>1. jobs'[j] = jobs[j] /\ \E l : Become(w, l)
      BY <2>9, Zenon DEF RecordFailureFails, Crash, Proceed
    <3>2. \A v \in Workers \ {w} : worker'[v] = worker[v]
      BY <3>1, BecomeStep, Zenon
    <3>3. \E e \in Entries(w) : e.id = j /\ LeaseHeld(e)
      BY <2>2, <3>1, <3>2 DEF Entries
    <3>. QED  BY <2>9, <3>3
  <2>10. ASSUME NEW c \in Configs, Configure(c) PROVE Blamed(j)
    BY <2>2, <2>10 DEF Configure, Entries
  <2>. HIDE DEF Blamed
  <2>. QED
    BY <1>1, <2>3, <2>4, <2>5, <2>6, <2>7, <2>8, <2>9, <2>10 DEF Next, Tick
<1>2. IInv /\ IdleIsEmpty /\ [Next]_vars =>
        [\A j \in JobIds : Abandoned(j)' /\ ~Abandoned(j) /\ UNCHANGED cfg =>
           \E w \in Workers :
             /\ Crash(w) \/ RecordFailureFails(w)
             /\ \E e \in Entries(w) : e.id = j /\ LeaseHeld(e)]_vars
  BY <1>1
<1>. QED
  BY <1>2, Invariance, IdleInvariance, PTL DEF Spec, OnlyFaultsAbandon
=============================================================================
