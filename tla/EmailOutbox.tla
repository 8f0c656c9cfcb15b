---------------------------- MODULE EmailOutbox ----------------------------
(***************************************************************************)
(* The email outbox: the table email_outbox and the workers of             *)
(* EmailOutboxProcessor, one in every instance of the service.             *)
(*                                                                         *)
(* A worker claims a batch in one transaction: every row gets a new lease  *)
(* and one attempt more.  It then sends the mails one by one and writes    *)
(* each result in a transaction of its own, WHERE lease_id is still the    *)
(* lease it was given.  A row whose locked_until has passed is claimed     *)
(* again by anybody, even while its first worker is still busy with it.    *)
(*                                                                         *)
(* There is no clock: next_attempt_at and locked_until are in the past or  *)
(* they are not (due, locked), and pass whenever they like.  This covers   *)
(* any delays, slow senders, and clocks that disagree between instances.   *)
(* Which of the due rows a batch takes is left open as well.               *)
(***************************************************************************)
EXTENDS Naturals, FiniteSets

CONSTANTS
  Workers,      \* instances of the service
  JobIds,       \* ids of rows
  Leases,       \* lease ids
  Configs,      \* the values of the dynamic config
  Faults,       \* what may fail: "crash", "database"
  None          \* an absent row, lease or entry

VARIABLES
  cfg,       \* the dynamic config
  jobs,      \* the table: a row or None for every id
  worker,    \* the locals of every worker's Tick
  delivered  \* for every job, the attempts whose mail was accepted

vars == <<cfg, jobs, worker, delivered>>

EmailOutboxRuntimeConfig ==
  [processing_enabled : BOOLEAN, batch_size : Nat \ {0},
   max_attempts : Nat \ {0}]

\* payload: TRUE until it is cleared.  due: next_attempt_at has come.
\* locked: locked_until has not.
Row ==
  [status : {"pending", "processing", "sent", "dead"}, payload : BOOLEAN,
   attempts : Nat, lease : Leases \cup {None}, due : BOOLEAN, locked : BOOLEAN]

\* What a worker keeps of a row it has claimed (EmailOutboxEntry).
Entry == [id : JobIds, lease : Leases, attempts : Nat]

\* batch: the entries still to be sent.  cur: the one whose result is to be
\* written.  max: max_attempts as the Tick read it.
Local ==
  [pc : {"idle", "loop", "sent", "retryable", "permanent"},
   batch : SUBSET Entry, cur : Entry \cup {None}, max : Nat]

Idle == [pc |-> "idle", batch |-> {}, cur |-> None, max |-> 0]

ASSUME OutboxAssumption ==
  /\ Configs \subseteq EmailOutboxRuntimeConfig
  /\ None \notin Row /\ None \notin Entry /\ None \notin Leases
-----------------------------------------------------------------------------
Stored(j) == jobs[j] # None
Settled(j) == Stored(j) /\ jobs[j].status \in {"sent", "dead"}

\* The entries of a Tick in progress.
Entries(w) == worker[w].batch \cup ({worker[w].cur} \ {None})

\* Mutant: one attempt too many.
ClaimableOnceMore(j) ==
  /\ Stored(j)
  /\ jobs[j].status \in {"pending", "processing"}
  /\ jobs[j].due /\ ~jobs[j].locked
  /\ jobs[j].attempts <= cfg.max_attempts

\* The WHERE of the candidates.
Claimable(j) ==
  /\ Stored(j)
  /\ jobs[j].status \in {"pending", "processing"}
  /\ jobs[j].due /\ ~jobs[j].locked
  /\ jobs[j].attempts < cfg.max_attempts

\* gen_random_uuid() never returns a lease anybody knows.
Fresh(l) ==
  /\ \A j \in JobIds : Stored(j) => jobs[j].lease # l
  /\ \A w \in Workers : \A e \in Entries(w) : e.lease # l

\* Mutant: a claim leaves the lease of a row that has one.
ClaimedSameLease(row, l) ==
  [row EXCEPT !.status = "processing", !.locked = TRUE,
              !.lease = IF row.lease = None THEN l ELSE row.lease,
              !.attempts = row.attempts + 1]

\* The SET of the claim.
Claimed(row, l) ==
  [row EXCEPT !.status = "processing", !.locked = TRUE, !.lease = l,
              !.attempts = row.attempts + 1]

\* Mutant: a sent mail keeps its payload.
ClosedKeepingPayload(row, status) ==
  [row EXCEPT !.status = status, !.locked = FALSE, !.lease = None]

\* The SET of mark_sent and mark_dead.
Closed(row, status) ==
  [row EXCEPT !.status = status, !.payload = FALSE, !.locked = FALSE,
              !.lease = None]

\* The SET of reschedule; next_attempt_at is in the future.
Rescheduled(row) ==
  [row EXCEPT !.status = "pending", !.due = FALSE, !.locked = FALSE,
              !.lease = None]

\* The WHERE of mark_sent, mark_dead and reschedule.
LeaseHeld(e) == jobs[e.id].lease = e.lease /\ jobs[e.id].status = "processing"

\* Mutant: the last attempt may be retried.
ShouldMarkDeadLater(attempt, max, retryable) ==
  ~retryable \/ attempt > max

ShouldMarkEmailOutboxDead(attempt, max, retryable) ==
  ~retryable \/ attempt >= max
-----------------------------------------------------------------------------
Become(w, local) == worker' = [worker EXCEPT ![w] = local]

\* Mutant: the Tick ends with its first entry.
ProceedOnce(w) == Become(w, Idle)

\* The next entry of the loop, or the end of the Tick.
Proceed(w) ==
  Become(w, IF worker[w].batch = {} THEN Idle
            ELSE [worker[w] EXCEPT !.pc = "loop", !.cur = None])

Init ==
  /\ cfg \in Configs
  /\ jobs = [j \in JobIds |-> None]
  /\ worker = [w \in Workers |-> Idle]
  /\ delivered = [j \in JobIds |-> {}]

\* A request's transaction commits the row that it inserted.
Insert(j) ==
  /\ ~Stored(j)
  /\ jobs' = [jobs EXCEPT ![j] =
                [status |-> "pending", payload |-> TRUE, attempts |-> 0,
                 lease |-> None, due |-> TRUE, locked |-> FALSE]]
  /\ UNCHANGED <<cfg, worker, delivered>>

\* next_attempt_at comes.
ComeDue(j) ==
  /\ Stored(j) /\ ~jobs[j].due
  /\ jobs' = [jobs EXCEPT ![j].due = TRUE]
  /\ UNCHANGED <<cfg, worker, delivered>>

\* locked_until passes.
Expire(j) ==
  /\ Stored(j) /\ jobs[j].locked
  /\ jobs' = [jobs EXCEPT ![j].locked = FALSE]
  /\ UNCHANGED <<cfg, worker, delivered>>

\* A new value of the dynamic config.
Configure(c) ==
  /\ cfg' = c
  /\ UNCHANGED <<jobs, worker, delivered>>

\* ClaimBatch and its commit: as many claimable rows as the batch holds.
ClaimBatch(w) ==
  LET due == {j \in JobIds : Claimable(j)} IN
  /\ worker[w].pc = "idle"
  /\ cfg.processing_enabled
  /\ \E S \in (SUBSET due) \ {{}} : \E lease \in [S -> Leases] :
       /\ Cardinality(S) <= cfg.batch_size
       /\ S # due => Cardinality(S) = cfg.batch_size
       /\ \A j \in S : Fresh(lease[j])
       /\ \A i, j \in S : i # j => lease[i] # lease[j]
       /\ jobs' = [j \in JobIds |-> IF j \in S THEN Claimed(jobs[j], lease[j])
                                    ELSE jobs[j]]
       /\ Become(w, [pc |-> "loop", cur |-> None, max |-> cfg.max_attempts,
                     batch |-> {[id |-> j, lease |-> lease[j],
                                 attempts |-> jobs[j].attempts + 1] : j \in S}])
  /\ UNCHANGED <<cfg, delivered>>

\* One round of the loop up to its result: the mail goes out, or the sender
\* throws, with a payload or template it cannot use (permanent) or while the
\* server may have accepted the mail already.
Send(w) ==
  /\ worker[w].pc = "loop"
  /\ \E e \in worker[w].batch, outcome \in {"sent", "retryable", "permanent"},
        accepted \in BOOLEAN :
       /\ outcome = "sent" => accepted
       /\ outcome = "permanent" => ~accepted
       /\ Become(w, [worker[w] EXCEPT !.pc = outcome, !.cur = e,
                                      !.batch = worker[w].batch \ {e}])
       /\ delivered' = IF accepted
                       THEN [delivered EXCEPT ![e.id] = @ \cup {e.attempts}]
                       ELSE delivered
  /\ UNCHANGED <<cfg, jobs>>

\* Mutant: no lease, no condition.
WriteUnfenced(e, row) == jobs' = [jobs EXCEPT ![e.id] = row]

\* One of the UPDATEs of a result; no row matches once the lease is lost.
Write(e, row) ==
  jobs' = IF LeaseHeld(e) THEN [jobs EXCEPT ![e.id] = row] ELSE jobs

MarkSent(w) ==
  /\ worker[w].pc = "sent"
  /\ Write(worker[w].cur, Closed(jobs[worker[w].cur.id], "sent"))
  /\ Proceed(w)
  /\ UNCHANGED <<cfg, delivered>>

\* mark_sent fails, perhaps after its commit took effect: the exception is no
\* EmailDeliveryError, so the mail counts as a retryable failure.
MarkSentFails(w) ==
  /\ "database" \in Faults
  /\ worker[w].pc = "sent"
  /\ \/ Write(worker[w].cur, Closed(jobs[worker[w].cur.id], "sent"))
     \/ UNCHANGED jobs
  /\ Become(w, [worker[w] EXCEPT !.pc = "retryable"])
  /\ UNCHANGED <<cfg, delivered>>

\* Mutant: a job without attempts left is marked sent.
AfterFailureSent(w) ==
  LET e == worker[w].cur IN
  IF ShouldMarkEmailOutboxDead(e.attempts, worker[w].max,
                               worker[w].pc = "retryable")
  THEN Closed(jobs[e.id], "sent")
  ELSE Rescheduled(jobs[e.id])

\* The row that the handler of a failure writes.
AfterFailure(w) ==
  LET e == worker[w].cur IN
  IF ShouldMarkEmailOutboxDead(e.attempts, worker[w].max,
                               worker[w].pc = "retryable")
  THEN Closed(jobs[e.id], "dead")
  ELSE Rescheduled(jobs[e.id])

\* MarkDead or Reschedule.
RecordFailure(w) ==
  /\ worker[w].pc \in {"retryable", "permanent"}
  /\ Write(worker[w].cur, AfterFailure(w))
  /\ Proceed(w)
  /\ UNCHANGED <<cfg, delivered>>

\* The failure cannot be written either; that exception is only logged.
RecordFailureFails(w) ==
  /\ "database" \in Faults
  /\ worker[w].pc \in {"retryable", "permanent"}
  /\ Proceed(w)
  /\ UNCHANGED <<cfg, jobs, delivered>>

\* The process ends in the middle of a Tick; another one starts.
Crash(w) ==
  /\ "crash" \in Faults
  /\ worker[w].pc # "idle"
  /\ Become(w, Idle)
  /\ UNCHANGED <<cfg, jobs, delivered>>

Tick(w) == ClaimBatch(w) \/ Send(w) \/ MarkSent(w) \/ RecordFailure(w)

Next ==
  \/ \E j \in JobIds : Insert(j) \/ ComeDue(j) \/ Expire(j)
  \/ \E c \in Configs : Configure(c)
  \/ \E w \in Workers : \/ Tick(w)
                         \/ MarkSentFails(w) \/ RecordFailureFails(w)
                         \/ Crash(w)

Spec == Init /\ [][Next]_vars

\* Time passes, and every worker's periodic task goes on.
FairSpec ==
  /\ Spec
  /\ \A j \in JobIds : WF_vars(ComeDue(j)) /\ WF_vars(Expire(j))
  /\ \A w \in Workers : WF_vars(Tick(w))
-----------------------------------------------------------------------------
\* The outbox table, the workers' entries and the mails delivered keep their
\* types: a claimed row always has an attempt number and a lease.
TypeOK ==
  /\ cfg \in Configs
  /\ jobs \in [JobIds -> Row \cup {None}]
  /\ worker \in [Workers -> Local]
  /\ delivered \in [JobIds -> SUBSET Nat]

RowOK(row) ==
  /\ row.status = "processing" <=> row.lease # None
  /\ row.locked => row.status = "processing"
  /\ row.payload <=> row.status \in {"pending", "processing"}

\* The CHECK of migration 0011, and a payload exactly as long as the job is
\* open: a retry always has its code, a settled job never has.
RowsAreConsistent == \A j \in JobIds : Stored(j) => RowOK(jobs[j])

\* Leases fence: two entries, of one worker or of two, never have the same
\* lease, nor the same attempt of a job, so of all the workers that ever had a
\* job at most one can still write its result, the one that claimed it last.
LeaseIsExclusive ==
  /\ \A w, v \in Workers : \A e \in Entries(w), f \in Entries(v) :
       <<w, e>> # <<v, f>> =>
         e.lease # f.lease /\ (e.id = f.id => e.attempts # f.attempts)
  /\ \A w \in Workers : \A e \in Entries(w) :
       /\ Stored(e.id)
       /\ e.attempts <= jobs[e.id].attempts
       /\ LeaseHeld(e) => e.attempts = jobs[e.id].attempts

\* A job that is marked sent was accepted by the mail server, even if several
\* workers had it and some of them failed.
SentMeansDelivered ==
  \A j \in JobIds : Stored(j) /\ jobs[j].status = "sent" => delivered[j] # {}

\* Every mail belongs to an attempt of its own: whatever is claimed again after
\* a crash or an expired lease, a job's mail goes out at most once for each
\* attempt, and so at most max_attempts times.
OneMailPerAttempt ==
  /\ \A j \in JobIds :
       /\ Stored(j) => \E c \in Configs : jobs[j].attempts <= c.max_attempts
       /\ \A n \in delivered[j] : Stored(j) /\ n <= jobs[j].attempts
  /\ \A w \in Workers : \A e \in worker[w].batch : e.attempts \notin delivered[e.id]

\* A settled job stays as it is: the late result of a worker that lost its
\* lease neither revives it nor changes the outcome.
SettledIsFinal ==
  [][\A j \in JobIds : Settled(j) => jobs'[j].status = jobs[j].status
                                     /\ ~jobs'[j].payload]_vars

\* An attempt is spent only on a job that nobody has locked, one at a time, and
\* no result of a worker, however late, gives one back.
AttemptsOnlyGrow ==
  [][\A j \in JobIds : Stored(j) =>
       /\ jobs'[j].attempts \in {jobs[j].attempts, jobs[j].attempts + 1}
       /\ jobs'[j].attempts # jobs[j].attempts => ~jobs[j].locked]_vars

\* No attempts are left, the last one was never concluded, and no worker can
\* conclude it any more.
Abandoned(j) ==
  /\ Stored(j) /\ jobs[j].status = "processing"
  /\ jobs[j].attempts >= cfg.max_attempts
  /\ \A w \in Workers : \A e \in Entries(w) : ~(e.id = j /\ LeaseHeld(e))

\* Only a worker that ends in the middle of its batch, or that cannot write
\* the result of a mail, abandons a job, and only a job on its last attempt.
\* (A max_attempts that is lowered may abandon jobs too.)
OnlyFaultsAbandon ==
  [][\A j \in JobIds : Abandoned(j)' /\ ~Abandoned(j) /\ UNCHANGED cfg =>
       \E w \in Workers :
         /\ Crash(w) \/ RecordFailureFails(w)
         /\ \E e \in Entries(w) : e.id = j /\ LeaseHeld(e)]_vars

\* Every job is settled in the end, or a crash or a failing write abandons it
\* on its last attempt, and so it stays: none is forgotten while it has
\* attempts left.
JobsSettle == \A j \in JobIds : <>[](Stored(j) => Settled(j) \/ Abandoned(j))

\* docs/security.html: payloads "are cleared after successful delivery".
DeliveredPayloadIsCleared ==
  \A j \in JobIds : delivered[j] # {} ~> Stored(j) /\ ~jobs[j].payload
=============================================================================
