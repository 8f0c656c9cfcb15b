--------------------------- MODULE ServiceProofs ---------------------------
(***************************************************************************)
(* Proofs about Service, for any settings, documents, addresses and schema *)
(* versions: what runs only touches components that are alive, an instance *)
(* serves only with a configuration its operations can work with, the      *)
(* probe's migration check passes only while the migration is in place,    *)
(* the retry delays of every snapshot grow from the shortest to the        *)
(* longest, and clients do not choose the address they are known by.       *)
(***************************************************************************)
EXTENDS Service, SequenceTheorems, WellFoundedInduction, TLAPS

(* The inductive invariant.                                                *)

\* Something runs that uses components.
Busy == server \/ request \/ task # "none" \/ probe.pc # "idle"

\* The components are all there from the end of the start to the last stop.
LifeOK ==
  /\ phase \in {"loading", "serving", "stopping", "clearing", "stopped"}
  /\ task \in {"none", "waiting", "ticking", "cancelled"}
  /\ server \in BOOLEAN /\ request \in BOOLEAN
  /\ phase = "serving" => alive = Components
  /\ Busy => phase \in {"serving", "stopping"} /\ alive = Components

\* A component that is alive was constructed from these settings.
AliveOK ==
  /\ settings \in Settings
  /\ alive \subseteq Components
  /\ \A c \in alive : Constructs(c)

\* A database the migrate tool tracks is at the version it says, unless dirty.
DatabaseOK ==
  /\ db \in [up : BOOLEAN, tracked : BOOLEAN, version : Int, dirty : BOOLEAN,
             applied : Int]
  /\ db.tracked /\ ~db.dirty => db.applied = db.version

ProbeOK ==
  /\ probe \in [pc : {"idle", "schema", "version", "dynamic_config"}, ok : BOOLEAN,
                answer : {"none", "ok", "degraded"}]
  /\ probe.pc = "version" => db.tracked

\* The delays of the outbox are in order.
SoundPolicy(cfg) ==
  /\ cfg.outbox_retry_base_delay \in Int64 /\ cfg.outbox_retry_max_delay \in Int64
  /\ 1 <= cfg.outbox_retry_base_delay
  /\ cfg.outbox_retry_base_delay <= cfg.outbox_retry_max_delay

IInv == LifeOK /\ AliveOK /\ DatabaseOK /\ ProbeOK /\ SoundPolicy(snapshot)
-----------------------------------------------------------------------------
(* The dynamic configuration.                                              *)

\* The fields of the dynamic configuration and their defaults.
LEMMA DefaultFields ==
  /\ DOMAIN Defaults = DOMAIN AuthDefaults \cup DOMAIN OutboxDefaults
  /\ \A f \in DOMAIN Defaults : Defaults[f] \in Int64
  /\ {"outbox_retry_base_delay", "outbox_retry_max_delay"} \subseteq DOMAIN Defaults
  /\ Defaults.outbox_retry_base_delay = 2 /\ Defaults.outbox_retry_max_delay = 600
<1>1. DOMAIN Defaults = DOMAIN AuthDefaults \cup DOMAIN OutboxDefaults
  BY DEF Defaults, Over
<1>2. \A f \in DOMAIN Defaults :
        Defaults[f] = IF f \in DOMAIN AuthDefaults THEN AuthDefaults[f] ELSE OutboxDefaults[f]
  BY DEF Defaults, Over
<1>3. \A f \in DOMAIN AuthDefaults : AuthDefaults[f] \in Int64
  BY IntAssumption DEF AuthDefaults, Int64
<1>4. \A f \in DOMAIN OutboxDefaults : OutboxDefaults[f] \in Int64
  BY IntAssumption DEF OutboxDefaults, Int64
<1>5. /\ {"outbox_retry_base_delay", "outbox_retry_max_delay"} \subseteq DOMAIN Defaults
      /\ {"outbox_retry_base_delay", "outbox_retry_max_delay"} \cap DOMAIN AuthDefaults = {}
  BY <1>1 DEF AuthDefaults, OutboxDefaults
<1>6. OutboxDefaults.outbox_retry_base_delay = 2 /\ OutboxDefaults.outbox_retry_max_delay = 600
  BY DEF OutboxDefaults
<1> QED
  BY <1>1, <1>2, <1>3, <1>4, <1>5, <1>6

\* A document that is not refused makes a sound policy, whatever it leaves out.
LEMMA ParsedIsSound ==
  ASSUME NEW doc \in Documents, Parse(doc) # Rejected
  PROVE  SoundPolicy(Parse(doc))
<1>1. DOMAIN Given(doc) = DOMAIN Defaults
  BY DEF Given
<1>2. \A f \in DOMAIN Defaults : Given(doc)[f] \in Int64
  BY DocumentsAssumption, DefaultFields DEF Given
<1>3. /\ Parse(doc) = Given(doc)
      /\ \A f \in DOMAIN Defaults : Given(doc)[f] >= Minimum(doc, f)
  BY DEF Parse
<1>4. /\ Minimum(doc, "outbox_retry_base_delay") = 1
      /\ Minimum(doc, "outbox_retry_max_delay") = Given(doc).outbox_retry_base_delay
  BY DEF Minimum, MayBeZero
<1> QED
  BY <1>1, <1>2, <1>3, <1>4, DefaultFields DEF SoundPolicy

-----------------------------------------------------------------------------
(* The start of an instance.                                               *)

\* Before the start nothing is alive and nothing runs.
LEMMA InitHolds == Init => IInv
<1> SUFFICES ASSUME Init PROVE IInv
  OBVIOUS
<1>1. LifeOK
  BY Zenon DEF Init, LifeOK, Busy, IdleProbe
<1>2. AliveOK
  BY DEF Init, AliveOK
<1>3. DatabaseOK
  <2>1. PICK last \in Int : last = CHOOSE v \in Versions : \A w \in Versions : w <= v
    BY VersionsAssumption, Zenon
  <2>2. PICK up \in BOOLEAN, tracked \in BOOLEAN, version \in Int, applied \in Int :
          /\ tracked => applied = version
          /\ db = [up |-> up, tracked |-> tracked, version |-> version, dirty |-> FALSE,
                   applied |-> applied]
    <3>1. CASE \E up \in BOOLEAN, v \in Versions :
                 db = [up |-> up, tracked |-> TRUE, version |-> v, dirty |-> FALSE,
                       applied |-> v]
      BY <3>1, VersionsAssumption, Zenon
    <3>2. CASE db = [up |-> TRUE, tracked |-> FALSE, version |-> 0, dirty |-> FALSE,
                     applied |-> last]
      <4>1. 0 \in Int /\ (FALSE => last = 0)
        OBVIOUS
      <4> QED
        BY <3>2, <4>1, Zenon
    <3> QED
      BY <3>1, <3>2, <2>1 DEF Init, Databases
  <2> QED
    BY <2>2 DEF DatabaseOK
<1>4. ProbeOK
  BY DEF Init, ProbeOK, IdleProbe
<1>5. SoundPolicy(snapshot)
  BY DefaultFields DEF Init, SoundPolicy
<1> QED
  BY <1>1, <1>2, <1>3, <1>4, <1>5 DEF IInv

-----------------------------------------------------------------------------
(* The steps.                                                              *)

\* The constructors that return are those of the same settings.
LEMMA SameConstructors ==
  ASSUME UNCHANGED settings
  PROVE  \A c \in Components : Constructs(c)' <=> Constructs(c)
  BY DEF Constructs

\* Construction, a constructor that throws and the end of the start keep the
\* invariant.
LEMMA StartKeeps ==
  ASSUME IInv, Start
  PROVE  IInv'
<1>1. UNCHANGED <<settings, db, probe, request, snapshot>>
  BY DEF Start, Construct, ConstructThrows, OnAllComponentsLoaded
<1>2. DatabaseOK' /\ ProbeOK'
  BY <1>1 DEF IInv, DatabaseOK, ProbeOK
<1>3. phase = "loading" /\ ~Busy
  BY DEF Start, Construct, ConstructThrows, Constructible, OnAllComponentsLoaded, IInv, LifeOK
<1>4. ASSUME NEW c \in Components, Construct(c)
      PROVE  LifeOK' /\ AliveOK'
  <2>1. LifeOK'
    BY <1>3, <1>4 DEF Construct, IInv, LifeOK, Busy
  <2>2. AliveOK'
    BY <1>4, SameConstructors DEF Construct, IInv, AliveOK
  <2> QED
    BY <2>1, <2>2
<1>5. ASSUME NEW c \in Components, ConstructThrows(c)
      PROVE  LifeOK' /\ AliveOK'
  <2>1. LifeOK'
    BY <1>3, <1>5 DEF ConstructThrows, IInv, LifeOK, Busy
  <2>2. AliveOK'
    BY <1>5, SameConstructors DEF ConstructThrows, IInv, AliveOK
  <2> QED
    BY <2>1, <2>2
<1>6. ASSUME OnAllComponentsLoaded
      PROVE  LifeOK' /\ AliveOK'
  <2>1. LifeOK'
    BY <1>3, <1>6 DEF OnAllComponentsLoaded, IInv, LifeOK, Busy
  <2>2. AliveOK'
    BY <1>6, SameConstructors DEF OnAllComponentsLoaded, IInv, AliveOK
  <2> QED
    BY <2>1, <2>2
<1> QED
  BY <1>1, <1>2, <1>4, <1>5, <1>6 DEF Start, IInv

\* The stop and the destructors keep the invariant.
LEMMA EndKeeps ==
  ASSUME IInv, End
  PROVE  IInv'
<1>1. UNCHANGED <<settings, db, snapshot>>
  BY DEF End, StopServer, StopWorker, Clear, Destroy
<1>2. probe' = probe \/ probe' = IdleProbe
  BY DEF End, StopServer, StopWorker, Clear, Destroy
<1>3. DatabaseOK' /\ ProbeOK'
  <2>1. DatabaseOK'
    BY <1>1 DEF IInv, DatabaseOK
  <2>2. CASE probe' = probe
    BY <1>1, <2>1, <2>2 DEF IInv, ProbeOK
  <2>3. CASE probe' = IdleProbe
    BY <2>1, <2>3 DEF ProbeOK, IdleProbe
  <2> QED
    BY <1>2, <2>2, <2>3
<1>4. AliveOK'
  <2>1. alive' \subseteq alive
    BY DEF End, StopServer, StopWorker, Clear, Destroy
  <2> QED
    BY <1>1, <2>1, SameConstructors DEF IInv, AliveOK
<1>5. ASSUME StopServer PROVE LifeOK'
  BY <1>5, Zenon DEF StopServer, IInv, LifeOK, Busy
<1>6. ASSUME StopWorker PROVE LifeOK'
  BY <1>6 DEF StopWorker, IInv, LifeOK, Busy
<1>7. ASSUME Clear PROVE LifeOK'
  BY <1>7 DEF Clear, StopReturns, IInv, LifeOK, Busy, IdleProbe
<1>8. ASSUME NEW c \in Components, Destroy(c)
      PROVE  LifeOK'
  <2>1. ~Busy /\ ~Busy'
    BY <1>8 DEF Destroy, IInv, LifeOK, Busy
  <2> QED
    BY <1>8, <2>1 DEF Destroy, IInv, LifeOK
<1>9. LifeOK'
  BY <1>5, <1>6, <1>7, <1>8 DEF End
<1> QED
  BY <1>1, <1>3, <1>4, <1>9 DEF IInv

\* Ticks and requests keep the invariant.
LEMMA RunKeeps ==
  ASSUME IInv, TickStart \/ TickEnd \/ RequestStart \/ RequestEnd
  PROVE  IInv'
<1>1. UNCHANGED <<settings, phase, alive, snapshot, db, probe>>
  BY DEF TickStart, TickEnd, RequestStart, RequestEnd
<1>2. DatabaseOK' /\ ProbeOK'
  BY <1>1 DEF IInv, DatabaseOK, ProbeOK
<1>3. AliveOK'
  BY <1>1, SameConstructors DEF IInv, AliveOK
<1>4. Busy
  BY DEF TickStart, TickEnd, RequestStart, RequestEnd, Busy
<1>5. task' \in {"none", "waiting", "ticking", "cancelled"} /\ server' \in BOOLEAN /\ request' \in BOOLEAN
  BY Zenon DEF TickStart, TickEnd, RequestStart, RequestEnd, IInv, LifeOK
<1>6. LifeOK'
  BY <1>1, <1>4, <1>5 DEF IInv, LifeOK
<1> QED
  BY <1>1, <1>2, <1>3, <1>6 DEF IInv

\* New documents, outages, migrations and a signal keep the invariant.
LEMMA EnvironmentKeeps ==
  ASSUME IInv, Environment
  PROVE  IInv'
<1>1. UNCHANGED <<settings, alive, task, server, request, probe>> /\ phase = "serving"
  BY Zenon DEF Environment, UpdateConfig, Outage, Migrate, Shutdown
<1>2. phase' \in {"serving", "stopping"}
  BY <1>1, Zenon DEF Environment, UpdateConfig, Outage, Migrate, Shutdown
<1>3. LifeOK'
  BY <1>1, <1>2 DEF IInv, LifeOK, Busy
<1>4. AliveOK'
  BY <1>1, SameConstructors DEF IInv, AliveOK
<1>5. SoundPolicy(snapshot')
  <2>1. ASSUME UpdateConfig PROVE SoundPolicy(snapshot')
    BY <2>1, ParsedIsSound DEF UpdateConfig, IInv
  <2> QED
    BY <2>1, Zenon DEF Environment, Outage, Migrate, Shutdown, IInv
<1>6. DatabaseOK' /\ db'.tracked = db.tracked
  <2>1. ASSUME Outage PROVE DatabaseOK' /\ db'.tracked = db.tracked
    BY <2>1, Zenon DEF Outage, IInv, DatabaseOK
  <2>2. ASSUME Migrate PROVE DatabaseOK' /\ db'.tracked = db.tracked
    <3>1. CASE ~db.dirty
      <4>1. PICK v \in Versions : db' = [db EXCEPT !.version = v, !.dirty = TRUE]
        BY <2>2, <3>1, Zenon DEF Migrate
      <4> QED
        BY <4>1, VersionsAssumption, Zenon DEF IInv, DatabaseOK
    <3>2. CASE db.dirty /\ db.applied # db.version
      <4>1. db' = [db EXCEPT !.applied = db.version]
        BY <2>2, <3>2 DEF Migrate
      <4> QED
        BY <4>1 DEF IInv, DatabaseOK
    <3>3. CASE db.dirty /\ db.applied = db.version
      <4>1. db' = [db EXCEPT !.dirty = FALSE]
        BY <2>2, <3>3 DEF Migrate
      <4> QED
        BY <3>3, <4>1, Zenon DEF IInv, DatabaseOK
    <3> QED
      BY <3>1, <3>2, <3>3
  <2>3. CASE UNCHANGED db
    BY <2>3 DEF IInv, DatabaseOK
  <2> QED
    BY <2>1, <2>2, <2>3 DEF Environment, UpdateConfig, Shutdown
<1>7. ProbeOK'
  BY <1>1, <1>6 DEF IInv, ProbeOK
<1> QED
  BY <1>3, <1>4, <1>5, <1>6, <1>7 DEF IInv

\* The steps of the readiness probe keep the invariant.
LEMMA ProbeKeeps ==
  ASSUME IInv, Probe
  PROVE  IInv'
<1>1. UNCHANGED <<settings, phase, alive, task, server, request, snapshot, db>>
  BY DEF Probe, CheckPostgres, CheckSchema, CheckVersion, CheckDynamicConfig
<1>2. DatabaseOK' /\ AliveOK'
  BY <1>1, SameConstructors DEF IInv, DatabaseOK, AliveOK
<1>3. Busy
  BY DEF Probe, CheckPostgres, CheckSchema, CheckVersion, CheckDynamicConfig, Busy
<1>4. LifeOK'
  BY <1>1, <1>3 DEF IInv, LifeOK
<1>5. ASSUME CheckPostgres PROVE ProbeOK'
  BY <1>5, Zenon DEF CheckPostgres, IInv, ProbeOK, DatabaseOK
<1>6. ASSUME CheckSchema PROVE ProbeOK'
  <2>1. CASE db.up /\ db.applied >= kExpectedSchemaVersion /\ db.tracked
    BY <1>6, <2>1 DEF CheckSchema, IInv, ProbeOK
  <2>2. CASE ~(db.up /\ db.applied >= kExpectedSchemaVersion /\ db.tracked)
    <3>1. PICK ok \in BOOLEAN : probe' = [probe EXCEPT !.pc = "dynamic_config", !.ok = ok]
      BY <1>6, <2>2, Zenon DEF CheckSchema
    <3> QED
      BY <3>1, Zenon DEF IInv, ProbeOK
  <2> QED
    BY <2>1, <2>2
<1>7. ASSUME CheckVersion PROVE ProbeOK'
  <2>1. PICK ok \in BOOLEAN : probe' = [probe EXCEPT !.pc = "dynamic_config", !.ok = ok]
    BY <1>7, Zenon DEF CheckVersion
  <2> QED
    BY <2>1, Zenon DEF IInv, ProbeOK
<1>8. ASSUME CheckDynamicConfig PROVE ProbeOK'
  BY <1>8 DEF CheckDynamicConfig, ProbeOK
<1> QED
  BY <1>1, <1>2, <1>4, <1>5, <1>6, <1>7, <1>8 DEF Probe, IInv

\* Every step keeps the invariant.
LEMMA NextKeeps == IInv /\ [Next]_vars => IInv'
<1> SUFFICES ASSUME IInv, [Next]_vars PROVE IInv'
  OBVIOUS
<1>1. CASE UNCHANGED vars
  <2>1. UNCHANGED <<settings, phase, alive, task, server, request, snapshot, db, probe>>
    BY <1>1 DEF vars
  <2>2. LifeOK' /\ AliveOK' /\ DatabaseOK' /\ ProbeOK'
    BY <2>1, SameConstructors DEF IInv, LifeOK, Busy, AliveOK, DatabaseOK, ProbeOK
  <2> QED
    BY <2>1, <2>2 DEF IInv
<1> QED
  BY <1>1, StartKeeps, EndKeeps, RunKeeps, EnvironmentKeeps, ProbeKeeps DEF Next

\* The invariant holds throughout.
THEOREM Invariance == Spec => []IInv
<1>1. Init => IInv
  BY InitHolds
<1>2. IInv /\ [Next]_vars => IInv'
  BY NextKeeps
<1> QED
  BY <1>1, <1>2, PTL DEF Spec
-----------------------------------------------------------------------------
(* The lifecycle.                                                          *)

\* A tick, a request and a probe only touch components that are alive,
\* however the stop interleaves with them (EmailOutboxProcessor::Stop).
THEOREM UsedAreAlive == Spec => []UsedComponentsAreAlive
<1>1. Components = {"postgres", "dynamic_config", "auth_infra", "auth_http", "auth_security",
                    "auth_service", "email_outbox_worker", "handlers", "health_ready"}
  BY DEF Components, Needs
<1>2. LifeOK => UsedComponentsAreAlive
  BY <1>1 DEF LifeOK, Busy, UsedComponentsAreAlive
<1> QED
  BY <1>2, Invariance, PTL DEF IInv

\* ValidateParams refuses what argon2 does.
LEMMA ValidatedParams ==
  ASSUME NEW params, ValidateParams(params),
         \A f \in Argon2idFields : ParseUint32(params[f])
  PROVE  /\ params.time_cost >= 1 /\ params.parallelism >= 1
         /\ params.memory_cost_kib >= 8 * params.parallelism
         /\ params.salt_length >= 8 /\ params.hash_length >= 4
<1>1. params.time_cost \in 1..Uint32Max /\ params.parallelism \in 1..Uint32Max
  BY ZenonT(60) DEF Argon2idFields, ParseUint32
<1>2. params.salt_length \in 8..1024 /\ params.hash_length \in 4..1024
  BY ZenonT(60) DEF ValidateParams
<1>3. params.memory_cost_kib >= 8 * params.parallelism
  BY DEF ValidateParams
<1>4. params.time_cost >= 1 /\ params.parallelism >= 1
  <2>1. PICK t \in 1..Uint32Max, p \in 1..Uint32Max :
          params.time_cost = t /\ params.parallelism = p
    BY <1>1, Zenon
  <2>2. t >= 1 /\ p >= 1
    BY Uint32Assumption
  <2> QED
    BY <2>1, <2>2, Zenon
<1>5. params.salt_length >= 8 /\ params.hash_length >= 4
  <2> DEFINE S == 8..1024  H == 4..1024
  <2>0. params.salt_length \in S /\ params.hash_length \in H
    BY <1>2, Zenon
  <2> HIDE DEF S, H
  <2>1. PICK s \in S, h \in H : params.salt_length = s /\ params.hash_length = h
    BY <2>0, Zenon
  <2>2. s >= 8 /\ h >= 4
    BY DEF S, H
  <2> QED
    BY <2>1, <2>2, Zenon
<1> QED
  BY <1>3, <1>4, <1>5, Zenon

\* The constructors refuse what Sound excludes.
LEMMA ConstructedIsSound ==
  ASSUME settings \in Settings,
         AuthSecurityConstructs(settings), AuthHttpConstructs(settings)
  PROVE  Sound(settings)
<1>1. /\ settings.argon2id.time_cost >= 1 /\ settings.argon2id.parallelism >= 1
      /\ settings.argon2id.memory_cost_kib >= 8 * settings.argon2id.parallelism
      /\ settings.argon2id.salt_length >= 8 /\ settings.argon2id.hash_length >= 4
  BY ValidatedParams, Zenon DEF AuthSecurityConstructs, ParseAuthSecuritySettings
<1>2. /\ settings.access_ttl > 0 /\ settings.refresh_ttl > 0
      /\ settings.public_key = "rsa" /\ settings.private_key \notin {"none", "empty"}
  BY DEF AuthSecurityConstructs, LoadJwtConfig, ValidateConfig, BuildPublicJwksJson
<1>3. settings.password_reset_token_bytes * 8 >= 128
  <2>1. PICK n \in Int : n = settings.password_reset_token_bytes
    BY SettingsAssumption
  <2>2. n >= 16
    BY <2>1 DEF AuthSecurityConstructs, kMinRandomTokenBytes
  <2>3. n * 8 >= 128
    BY <2>2
  <2> QED
    BY <2>1, <2>3
<1>4. \A cidr \in settings.cidrs : cidr.text.form # "bad"
  BY DEF AuthHttpConstructs, Networks, ParseTrustedProxyCidr, ParseIp
<1> QED
  BY <1>1, <1>2, <1>3, <1>4, Zenon DEF Sound

\* The server listens only once every constructor has accepted the settings;
\* none of them looks into the private key.
THEOREM Configured == Spec => []ServingIsConfigured
<1>1. IInv => ServingIsConfigured
  <2> SUFFICES ASSUME IInv, server PROVE Sound(settings)
    BY DEF ServingIsConfigured
  <2>1. alive = Components
    BY DEF IInv, LifeOK, Busy
  <2>2. {"auth_security", "auth_http"} \subseteq Components
    BY DEF Components, Needs
  <2>3. AuthSecurityConstructs(settings) /\ AuthHttpConstructs(settings)
    BY <2>1, <2>2 DEF IInv, AliveOK, Constructs
  <2> QED
    BY <2>3, ConstructedIsSound DEF IInv, AliveOK
<1> QED
  BY <1>1, Invariance, PTL

\* The probe's second query passes only while migration 11 is in place,
\* whatever the migrate tool did since the first (CheckMigrations).
THEOREM Migrated == Spec => ReadyMeansMigrated
<1> DEFINE Passes == probe.pc = "version" /\ probe'.pc = "dynamic_config" /\ probe'.ok
<1>1. ASSUME IInv, [Next]_vars, Passes
      PROVE  db.applied >= kExpectedSchemaVersion
  <2>1. CheckVersion
    BY <1>1, Zenon DEF Next, Start, End, Environment, Probe, Construct, ConstructThrows,
       OnAllComponentsLoaded, StopServer, StopWorker, Clear, Destroy, IdleProbe, UpdateConfig,
       Outage, Migrate, Shutdown, TickStart, TickEnd, RequestStart, RequestEnd,
       CheckPostgres, CheckSchema, CheckDynamicConfig, vars
  <2>2. ~db.dirty /\ db.version >= kExpectedSchemaVersion
    BY <1>1, <2>1 DEF CheckVersion, IInv, ProbeOK
  <2> QED
    BY <1>1, <2>2 DEF IInv, DatabaseOK, ProbeOK
<1>2. IInv /\ [Next]_vars => [Passes => db.applied >= kExpectedSchemaVersion]_vars
  BY <1>1
<1> QED
  BY <1>2, Invariance, PTL DEF Spec, ReadyMeansMigrated
-----------------------------------------------------------------------------
(* Powers of two.                                                          *)

\* A nonempty set of natural numbers has a least one.
LEMMA LeastExists ==
  ASSUME NEW T \in SUBSET Nat, T # {}
  PROVE  \E x \in T : \A y \in T : x <= y
<1>1. \E x \in T : \A y \in T : ~(<<y, x>> \in OpToRel(<, Nat))
  BY NatLessThanWellFounded, WFMin, Zenon
<1>2. ASSUME NEW x \in T, NEW y \in T, ~(<<y, x>> \in OpToRel(<, Nat)) PROVE x <= y
  BY <1>2 DEF OpToRel
<1> QED
  BY <1>1, <1>2, Zenon

\* Induction over the natural numbers, for a set.
LEMMA NatSetInduction ==
  ASSUME NEW S, 0 \in S, \A n \in Nat : n \in S => n + 1 \in S
  PROVE  Nat \subseteq S
<1> SUFFICES ASSUME Nat \ S # {} PROVE FALSE
  OBVIOUS
<1>1. PICK x \in Nat \ S : \A y \in Nat \ S : x <= y
  BY LeastExists, Zenon
<1>2. x # 0 /\ x - 1 \in Nat /\ x - 1 \in S
  BY <1>1
<1> QED
  BY <1>1, <1>2

\* The powers up to n.
Doubles(g, n) ==
  /\ g \in [0..n -> Nat] /\ g[0] = 1
  /\ \A k \in 1..n : g[k] = 2 * g[k - 1]

\* They exist for every n, and agree where they overlap.
LEMMA DoublesExist == \A n \in Nat : \E g : Doubles(g, n)
<1> DEFINE S == {n \in Nat : \E g : Doubles(g, n)}
<1>1. 0 \in S
  <2>1. Doubles([k \in 0..0 |-> 1], 0)
    BY DEF Doubles
  <2> QED
    BY <2>1
<1>2. ASSUME NEW n \in Nat, n \in S PROVE n + 1 \in S
  <2>1. PICK g : Doubles(g, n)
    BY <1>2
  <2> DEFINE h == [k \in 0..(n + 1) |-> IF k <= n THEN g[k] ELSE 2 * g[n]]
  <2>2. h \in [0..(n + 1) -> Nat]
    BY <2>1 DEF Doubles
  <2>3. h[0] = 1
    BY <2>1 DEF Doubles
  <2>4. \A k \in 1..(n + 1) : h[k] = 2 * h[k - 1]
    BY <2>1 DEF Doubles
  <2> HIDE DEF h
  <2>5. Doubles(h, n + 1)
    BY <2>2, <2>3, <2>4 DEF Doubles
  <2> QED
    BY <2>5
<1> HIDE DEF S
<1>3. Nat \subseteq S
  BY <1>1, <1>2, NatSetInduction
<1> QED
  BY <1>3 DEF S

\* Two tables of powers agree as far as both go.
LEMMA DoublesAgree ==
  ASSUME NEW g, NEW h, NEW n \in Nat, NEW m \in Nat, n <= m,
         Doubles(g, n), Doubles(h, m)
  PROVE  g[n] = h[n]
<1> DEFINE S == {k \in Nat : k <= n => g[k] = h[k]}
<1>1. 0 \in S
  BY DEF Doubles
<1>2. ASSUME NEW k \in Nat, k \in S PROVE k + 1 \in S
  <2> SUFFICES ASSUME k + 1 <= n PROVE g[k + 1] = h[k + 1]
    OBVIOUS
  <2>1. g[k] = h[k]
    BY <1>2
  <2>2. k + 1 \in 1..n /\ k + 1 \in 1..m /\ (k + 1) - 1 = k
    OBVIOUS
  <2> QED
    BY <2>1, <2>2 DEF Doubles
<1> HIDE DEF S
<1>3. Nat \subseteq S
  BY <1>1, <1>2, NatSetInduction
<1> QED
  BY <1>3 DEF S

\* The recursive definition of Pow2 has a solution.
LEMMA Pow2Def == Pow2 = [n \in Nat |-> IF n = 0 THEN 1 ELSE 2 * Pow2[n - 1]]
<1> DEFINE Up(n) == CHOOSE g : Doubles(g, n)
           f == [n \in Nat |-> Up(n)[n]]
<1>1. \A n \in Nat : Doubles(Up(n), n)
  BY DoublesExist
<1> HIDE DEF Up
<1>2. ASSUME NEW n \in Nat PROVE f[n] = IF n = 0 THEN 1 ELSE 2 * f[n - 1]
  <2>1. CASE n = 0
    BY <1>1, <2>1 DEF Doubles
  <2>2. CASE n # 0
    <3>1. n - 1 \in Nat /\ n \in 1..n
      BY <2>2
    <3>2. Up(n)[n] = 2 * Up(n)[n - 1]
      BY <1>1, <3>1 DEF Doubles
    <3>3. Up(n - 1)[n - 1] = Up(n)[n - 1]
      BY <1>1, <3>1, DoublesAgree
    <3> QED
      BY <2>2, <3>1, <3>2, <3>3
  <2> QED
    BY <2>1, <2>2
<1>3. f = [n \in Nat |-> IF n = 0 THEN 1 ELSE 2 * f[n - 1]]
  BY <1>2
<1> HIDE DEF f
<1> QED
  BY <1>3 DEF Pow2

\* Shifting by one more place doubles.
LEMMA Pow2Steps ==
  /\ Pow2[0] = 1
  /\ \A n \in Nat : Pow2[n] \in Nat /\ Pow2[n] >= 1 /\ Pow2[n + 1] = 2 * Pow2[n]
<1>1. Pow2[0] = 1
  BY Pow2Def
<1>2. \A n \in Nat : Pow2[n + 1] = 2 * Pow2[n]
  <2> SUFFICES ASSUME NEW n \in Nat PROVE Pow2[n + 1] = 2 * Pow2[n]
    OBVIOUS
  <2>1. n + 1 \in Nat /\ n + 1 # 0 /\ (n + 1) - 1 = n
    OBVIOUS
  <2> QED
    BY <2>1, Pow2Def
<1> DEFINE S == {n \in Nat : Pow2[n] \in Nat /\ Pow2[n] >= 1}
<1>3. 0 \in S
  BY <1>1
<1>4. \A n \in Nat : n \in S => n + 1 \in S
  BY <1>2
<1> HIDE DEF S
<1>5. Nat \subseteq S
  BY <1>3, <1>4, NatSetInduction
<1> QED
  BY <1>1, <1>2, <1>5 DEF S

\* A larger exponent is no smaller power.
LEMMA Pow2Grows ==
  ASSUME NEW n \in Nat, NEW m \in Nat, n <= m
  PROVE  Pow2[n] <= Pow2[m]
<1> DEFINE S == {k \in Nat : Pow2[n] <= Pow2[n + k]}
<1>1. 0 \in S
  BY Pow2Steps
<1>2. ASSUME NEW k \in Nat, k \in S PROVE k + 1 \in S
  <2>1. n + k \in Nat /\ n + (k + 1) = (n + k) + 1
    OBVIOUS
  <2> QED
    BY <1>2, <2>1, Pow2Steps
<1> HIDE DEF S
<1>3. Nat \subseteq S
  BY <1>1, <1>2, NatSetInduction
<1>4. m - n \in S /\ n + (m - n) = m
  BY <1>3
<1> QED
  BY <1>4 DEF S

\* Nor is its product with a base.
LEMMA ProductGrows ==
  ASSUME NEW b \in Nat, NEW p \in Nat, NEW q \in Nat, p <= q
  PROVE  b * p \in Nat /\ b * q \in Nat /\ b * p <= b * q
<1>1. b * (q - p) \in Nat /\ b * p \in Nat /\ b * q \in Nat
  OBVIOUS
<1>2. b * q = b * p + b * (q - p)
  OBVIOUS
<1> QED
  BY <1>1, <1>2

\* The exponent of the nth attempt, which stops at the largest.
Exponent(n) ==
  IF n <= 1 THEN 0 ELSE IF n - 1 >= MaxExponent THEN MaxExponent ELSE n - 1

\* The delay of the nth attempt.
LEMMA DelayIs ==
  ASSUME NEW n \in Nat, NEW cfg
  PROVE  /\ Product(n, cfg) = cfg.outbox_retry_base_delay * Pow2[Exponent(n)]
         /\ ComputeEmailOutboxRetryDelay(n, cfg)
              = LET d == Wrap(Product(n, cfg))
                IN  IF d < cfg.outbox_retry_max_delay THEN d ELSE cfg.outbox_retry_max_delay
<1>1. (IF (IF n = 0 THEN 0 ELSE n - 1) >= MaxExponent THEN Pow2[MaxExponent]
       ELSE Pow2[IF n = 0 THEN 0 ELSE n - 1]) = Pow2[Exponent(n)]
  BY ExponentAssumption DEF Exponent
<1> QED
  BY <1>1, Zenon DEF ComputeEmailOutboxRetryDelay, Product

\* A product that wraps is still a number, and one that fits is itself.
LEMMA WrapIs ==
  ASSUME NEW n \in Int
  PROVE  Wrap(n) \in Int /\ (n \in Int64 => Wrap(n) = n)
<1>1. n + IntHalf \in Int /\ 2 * IntHalf \in Nat \ {0}
  BY IntAssumption
<1>2. (n + IntHalf) % (2 * IntHalf) \in Int
  BY <1>1
<1> QED
  BY <1>2, IntAssumption DEF Wrap

\* Cut at the longest delay, products of the base delay stay in order.
LEMMA CutGrows ==
  ASSUME NEW b \in Nat, NEW x \in Nat, b <= x,
         NEW p \in Nat, NEW q \in Nat, 1 <= p, p <= q
  PROVE  LET Cut(d) == IF d < x THEN d ELSE x
         IN  Cut(b * p) \in b..x /\ Cut(b * p) <= Cut(b * q)
<1>1. b * p \in Nat /\ b * q \in Nat /\ b * p <= b * q
  BY ProductGrows
<1>2. b <= b * p
  <2>1. b * 1 <= b * p
    BY ProductGrows
  <2> QED
    BY <2>1
<1> QED
  BY <1>1, <1>2

\* The delays of a sound policy, as Grows states them.
LEMMA SoundPolicyGrows ==
  ASSUME NEW cfg, NEW attempts \in Nat, attempts > MaxExponent, SoundPolicy(cfg)
  PROVE  Grows(cfg, attempts)
<1>1. PICK b \in Nat, x \in Nat :
        /\ cfg.outbox_retry_base_delay = b /\ cfg.outbox_retry_max_delay = x
        /\ b <= x /\ b \in Int64
  BY IntAssumption DEF SoundPolicy, Int64
<1> DEFINE Cut(d) == IF d < x THEN d ELSE x
           Delay(n) == ComputeEmailOutboxRetryDelay(n, cfg)
           Prod(n) == Product(n, cfg)
<1>2. \A n \in Nat : Prod(n) = b * Pow2[Exponent(n)] /\ Delay(n) = Cut(Wrap(Prod(n)))
  BY <1>1, DelayIs, Zenon
<1>3. \A n \in Nat : /\ Exponent(n) \in Nat /\ Exponent(n + 1) \in Nat
                    /\ Exponent(n) <= Exponent(n + 1)
  BY ExponentAssumption DEF Exponent
<1>4. ASSUME NEW n \in Nat
      PROVE  /\ Prod(n) \in Nat /\ Prod(n + 1) \in Nat /\ Prod(n) <= Prod(n + 1)
             /\ Cut(Prod(n)) \in b..x /\ Cut(Prod(n)) <= Cut(Prod(n + 1))
  <2>1. PICK p \in Nat, q \in Nat :
          Pow2[Exponent(n)] = p /\ Pow2[Exponent(n + 1)] = q /\ 1 <= p /\ p <= q
    <3>1. PICK e \in Nat, f \in Nat : Exponent(n) = e /\ Exponent(n + 1) = f /\ e <= f
      BY <1>3, Zenon
    <3>2. Pow2[e] \in Nat /\ Pow2[f] \in Nat /\ 1 <= Pow2[e] /\ Pow2[e] <= Pow2[f]
      BY <3>1, Pow2Steps, Pow2Grows
    <3> QED
      BY <3>1, <3>2
  <2>2. Cut(b * p) \in b..x /\ Cut(b * p) <= Cut(b * q)
    BY <1>1, <2>1, CutGrows
  <2>3. b * p \in Nat /\ b * q \in Nat /\ b * p <= b * q
    BY <2>1, ProductGrows
  <2>4. Prod(n) = b * p /\ Prod(n + 1) = b * q
    <3>1. n + 1 \in Nat
      OBVIOUS
    <3> HIDE DEF Prod, Delay
    <3> QED
      BY <1>2, <2>1, <3>1, Zenon
  <2> HIDE DEF Cut, Prod
  <2> QED
    BY <2>2, <2>3, <2>4
<1>5. ASSUME NEW n \in Nat
      PROVE  /\ Delay(n) \in Int /\ Delay(n) <= x
             /\ Prod(n) \in Int64 => Delay(n) = Cut(Prod(n))
             /\ Prod(n + 1) \in Int64 => Prod(n) \in Int64
  <2>1. Prod(n) \in Nat /\ Prod(n + 1) \in Nat /\ Prod(n) <= Prod(n + 1)
    BY <1>4
  <2>2. Delay(n) = Cut(Wrap(Prod(n)))
    BY <1>2
  <2> HIDE DEF Prod, Delay
  <2>3. Wrap(Prod(n)) \in Int /\ (Prod(n) \in Int64 => Wrap(Prod(n)) = Prod(n))
    BY <2>1, WrapIs
  <2>4. Prod(n + 1) \in Int64 => Prod(n) \in Int64
    BY <2>1, IntAssumption DEF Int64
  <2>5. \A d \in Int : Cut(d) \in Int /\ Cut(d) <= x
    OBVIOUS
  <2> HIDE DEF Cut
  <2> QED
    BY <2>2, <2>3, <2>4, <2>5
<1>6. Delay(1) = b
  <2>1. Exponent(1) = 0 /\ b * Pow2[Exponent(1)] = b
    BY Pow2Steps DEF Exponent
  <2>2. Prod(1) = b
    <3> HIDE DEF Delay, Cut, Prod
    <3> QED
      BY <1>2, <2>1
  <2>3. Delay(1) = Cut(b)
    <3> HIDE DEF Delay, Cut, Prod
    <3> QED
      BY <1>1, <1>5, <2>2
  <2>4. Cut(b) = b
    BY <1>1
  <2> QED
    BY <2>3, <2>4, Zenon
<1>7. Prod(attempts) \in Int64 => Delay(attempts) \in {x, b * Pow2[MaxExponent]}
  <2>1. Exponent(attempts) = MaxExponent
    BY ExponentAssumption DEF Exponent
  <2>2. Prod(attempts) = b * Pow2[MaxExponent]
    BY <1>2, <2>1, Zenon
  <2>3. Prod(attempts) \in Int64 => Delay(attempts) = Cut(Prod(attempts))
    BY <1>5, Zenon
  <2> HIDE DEF Delay, Prod
  <2> QED
    BY <2>2, <2>3
<1>8. ASSUME NEW n \in 0..attempts
      PROVE  /\ Delay(n) <= x
             /\ Prod(n) \in Int64 => Delay(n) >= b
             /\ Prod(n + 1) \in Int64 => Delay(n) <= Delay(n + 1)
  <2>1. n \in Nat /\ n + 1 \in Nat
    OBVIOUS
  <2>2. /\ Delay(n) <= x
        /\ Prod(n) \in Int64 => Delay(n) = Cut(Prod(n))
        /\ Prod(n + 1) \in Int64 =>
             Delay(n) = Cut(Prod(n)) /\ Delay(n + 1) = Cut(Prod(n + 1))
    BY <1>5, <2>1, Zenon
  <2>3. Cut(Prod(n)) \in b..x /\ Cut(Prod(n)) <= Cut(Prod(n + 1))
    BY <1>4, <2>1, Zenon
  <2> HIDE DEF Delay, Prod, Cut
  <2> QED
    BY <2>2, <2>3
<1> HIDE DEF Delay, Prod
<1> QED
  BY <1>1, <1>6, <1>7, <1>8, Zenon DEF Grows, Delay, Prod

\* Whatever documents came and were refused, the retry delays start at the
\* base delay and stay under the longest, and never shrink while the product
\* fits its type (ComputeEmailOutboxRetryDelay and Parse).
THEOREM Policies == Spec => []PoliciesStaySound
<1>1. IInv => PoliciesStaySound
  BY SoundPolicyGrows, AttemptsAssumption DEF IInv, PoliciesStaySound
<1> QED
  BY <1>1, Invariance, PTL
-----------------------------------------------------------------------------
(* Addresses, bit by bit.                                                  *)

\* Bytes that agree on their first bits agree on one bit less.
LEMMA MaskedLess ==
  ASSUME NEW x \in Int, NEW y \in Int
  PROVE  \A bits \in 2..7 :
           Masked(x, bits) = Masked(y, bits) => Masked(x, bits - 1) = Masked(y, bits - 1)
<1>1. Masked(x, 2) = Masked(y, 2) => Masked(x, 1) = Masked(y, 1)
  BY DEF Masked, ByteBits
<1>2. Masked(x, 3) = Masked(y, 3) => Masked(x, 2) = Masked(y, 2)
  BY DEF Masked, ByteBits
<1>3. Masked(x, 4) = Masked(y, 4) => Masked(x, 3) = Masked(y, 3)
  BY DEF Masked, ByteBits
<1>4. Masked(x, 5) = Masked(y, 5) => Masked(x, 4) = Masked(y, 4)
  BY DEF Masked, ByteBits
<1>5. Masked(x, 6) = Masked(y, 6) => Masked(x, 5) = Masked(y, 5)
  BY DEF Masked, ByteBits
<1>6. Masked(x, 7) = Masked(y, 7) => Masked(x, 6) = Masked(y, 6)
  BY DEF Masked, ByteBits
<1> QED
  BY <1>1, <1>2, <1>3, <1>4, <1>5, <1>6

\* Bytes that agree on their first r + 1 bits agree on bit r.
LEMMA MaskedBit ==
  ASSUME NEW x \in Int, NEW y \in Int, NEW r \in 0..6,
         Masked(x, r + 1) = Masked(y, r + 1)
  PROVE  (x \div 2^(ByteBits - 1 - r)) % 2 = (y \div 2^(ByteBits - 1 - r)) % 2
<1>1. CASE r = 0
  <2>1. x - (x % 128) = y - (y % 128)
    BY <1>1 DEF Masked, ByteBits
  <2> QED
    BY <1>1, <2>1 DEF ByteBits
<1>2. CASE r = 1
  <2>1. x - (x % 64) = y - (y % 64)
    BY <1>2 DEF Masked, ByteBits
  <2> QED
    BY <1>2, <2>1 DEF ByteBits
<1>3. CASE r = 2
  <2>1. x - (x % 32) = y - (y % 32)
    BY <1>3 DEF Masked, ByteBits
  <2> QED
    BY <1>3, <2>1 DEF ByteBits
<1>4. CASE r = 3
  <2>1. x - (x % 16) = y - (y % 16)
    BY <1>4 DEF Masked, ByteBits
  <2> QED
    BY <1>4, <2>1 DEF ByteBits
<1>5. CASE r = 4
  <2>1. x - (x % 8) = y - (y % 8)
    BY <1>5 DEF Masked, ByteBits
  <2> QED
    BY <1>5, <2>1 DEF ByteBits
<1>6. CASE r = 5
  <2>1. x - (x % 4) = y - (y % 4)
    BY <1>6 DEF Masked, ByteBits
  <2> QED
    BY <1>6, <2>1 DEF ByteBits
<1>7. CASE r = 6
  <2>1. x - (x % 2) = y - (y % 2)
    BY <1>7 DEF Masked, ByteBits
  <2> QED
    BY <1>7, <2>1 DEF ByteBits
<1> QED
  BY <1>1, <1>2, <1>3, <1>4, <1>5, <1>6, <1>7

\* Bytes that agree on their first bits agree on each of them.
LEMMA MaskedBits ==
  ASSUME NEW x \in Int, NEW y \in Int, NEW bits \in 1..7, NEW r \in 0..(bits - 1),
         Masked(x, bits) = Masked(y, bits)
  PROVE  (x \div 2^(ByteBits - 1 - r)) % 2 = (y \div 2^(ByteBits - 1 - r)) % 2
<1>1. Masked(x, r + 1) = Masked(y, r + 1)
  <2> DEFINE E == {b \in 1..7 : Masked(x, b) = Masked(y, b)}
  <2>1. \A b \in 2..7 : b \in E => b - 1 \in E
    BY MaskedLess
  <2>2. bits \in E
    OBVIOUS
  <2> HIDE DEF E
  <2>3. /\ (7 \in E => 6 \in E) /\ (6 \in E => 5 \in E) /\ (5 \in E => 4 \in E)
        /\ (4 \in E => 3 \in E) /\ (3 \in E => 2 \in E) /\ (2 \in E => 1 \in E)
    BY <2>1
  <2>4. r + 1 \in E
    BY <2>2, <2>3
  <2> QED
    BY <2>4 DEF E
<1> QED
  BY <1>1, MaskedBit

\* The byte and the place of a bit.
LEMMA ByteAndPlace ==
  ASSUME NEW b \in Nat
  PROVE  \E q \in Nat, r \in 0..7 : q = b \div 8 /\ r = b % 8 /\ b = 8 * q + r
<1>1. b \div 8 \in Nat /\ b % 8 \in 0..7 /\ b = 8 * (b \div 8) + (b % 8)
  OBVIOUS
<1> QED
  BY <1>1

\* A bit of the prefix past its full bytes lies in the last byte of the prefix.
LEMMA LastByte ==
  ASSUME NEW n \in Nat, NEW q \in Nat, NEW r \in 0..7, NEW f \in Nat, NEW m \in 0..7,
         8 * q + r < 8 * f + m, 8 * f + m <= 8 * n, ~(q < f)
  PROVE  q = f /\ m \in 1..7 /\ r \in 0..(m - 1) /\ f + 1 \in 1..n
OBVIOUS

\* Byte strings PrefixMatches accepts agree on each bit of the prefix.
LEMMA MatchedBits ==
  ASSUME NEW n \in Nat, NEW p \in Nat, p <= 8 * n,
         NEW x \in [1..n -> Int], NEW y \in [1..n -> Int], PrefixMatches(x, y, p),
         NEW b \in Nat, b < p
  PROVE  Bit(x, b) = Bit(y, b)
<1>1. PICK q \in Nat, r \in 0..7 : q = b \div 8 /\ r = b % 8 /\ b = 8 * q + r
  BY ByteAndPlace, Zenon
<1>2. PICK f \in Nat, m \in 0..7 : f = p \div 8 /\ m = p % 8 /\ p = 8 * f + m
  BY ByteAndPlace
<1>3. /\ \A i \in 1..f : x[i] = y[i]
      /\ m = 0 \/ Masked(x[f + 1], m) = Masked(y[f + 1], m)
  BY <1>2 DEF PrefixMatches, ByteBits
<1>4. CASE q < f
  <2>1. q + 1 \in 1..f
    BY <1>4
  <2>2. x[q + 1] = y[q + 1]
    BY <1>3, <2>1
  <2> QED
    BY <1>1, <2>2 DEF Bit, ByteBits
<1>5. CASE ~(q < f)
  <2>1. q = f /\ m \in 1..7 /\ r \in 0..(m - 1) /\ f + 1 \in 1..n
    BY <1>1, <1>2, <1>5, LastByte
  <2>2. Masked(x[f + 1], m) = Masked(y[f + 1], m)
    BY <1>3, <2>1
  <2>3. x[f + 1] \in Int /\ y[f + 1] \in Int
    BY <2>1
  <2>4. (x[f + 1] \div 2^(ByteBits - 1 - r)) % 2 = (y[f + 1] \div 2^(ByteBits - 1 - r)) % 2
    BY <2>1, <2>2, <2>3, MaskedBits, Zenon
  <2> QED
    BY <1>1, <2>1, <2>4 DEF Bit, ByteBits
<1> QED
  BY <1>4, <1>5

\* An address PrefixMatches accepts lies in the network, bit by bit.
LEMMA MatchedIsIn ==
  ASSUME NEW network, NEW address, NEW n \in Nat,
         network.prefix_length \in 0..(ByteBits * n),
         network.bytes \in [1..n -> Int], address.bytes \in [1..n -> Int],
         network.version = address.version,
         PrefixMatches(network.bytes, address.bytes, network.prefix_length)
  PROVE  InNetwork(network, address)
<1>1. network.prefix_length \in Nat /\ network.prefix_length <= 8 * n
  BY DEF ByteBits
<1>2. ASSUME NEW b \in 0..(network.prefix_length - 1)
      PROVE  Bit(network.bytes, b) = Bit(address.bytes, b)
  <2>1. b \in Nat /\ b < network.prefix_length
    BY <1>1
  <2> QED
    BY <1>1, <2>1, MatchedBits, Zenon
<1> QED
  BY <1>2, Zenon DEF InNetwork

-----------------------------------------------------------------------------
(* The client's address.                                                   *)

\* A nonempty set of positions has a last one.
LEMMA LastExists ==
  ASSUME NEW n \in Nat, NEW U \in SUBSET (1..n), U # {}
  PROVE  \E i \in U : \A j \in U : j <= i
<1> DEFINE T == {t \in Nat : \E i \in U : t = n - i}
<1>1. \A i \in U : n - i \in T
  OBVIOUS
<1>2. T \in SUBSET Nat /\ T # {}
  BY <1>1, Zenon
<1>3. PICK t \in T : \A u \in T : t <= u
  BY <1>2, LeastExists, Zenon
<1>4. PICK i \in U : t = n - i
  OBVIOUS
<1> HIDE DEF T
<1>5. ASSUME NEW j \in U PROVE j <= i
  <2>1. n - i <= n - j
    BY <1>1, <1>3, <1>4
  <2>2. i \in Int /\ j \in Int
    OBVIOUS
  <2> QED
    BY <2>1, <2>2
<1> QED
  BY <1>5

\* The last untrusted hop stays the last whatever hops are put before.
LEMMA RightmostShift ==
  ASSUME NEW S, NEW proxies, NEW c \in Seq(S), NEW w \in Seq(S), NEW l \in Nat,
         Len(w) = l + Len(c), \A i \in 1..Len(c) : w[l + i] = c[i],
         NEW k \in 1..Len(c), ~IsTrustedProxy(proxies, c[k])
  PROVE  RightmostUntrusted(proxies, w) = RightmostUntrusted(proxies, c)
<1> DEFINE n == Len(c)
           Free(x) == ~IsTrustedProxy(proxies, x)
           U == {i \in 1..n : Free(c[i])}
           V == {i \in 1..(l + n) : Free(w[i])}
<1>1. n \in Nat /\ DOMAIN c = 1..n /\ DOMAIN w = 1..(l + n)
  BY LenProperties
<1>2. \A i \in 1..n : w[l + i] = c[i]
  OBVIOUS
<1>3. RightmostUntrusted(proxies, c)
        = IF U = {} THEN c[1] ELSE c[CHOOSE i \in U : \A j \in U : j <= i]
  BY <1>1 DEF RightmostUntrusted
<1>4. RightmostUntrusted(proxies, w)
        = IF V = {} THEN w[1]
          ELSE w[CHOOSE i \in V : \A j \in V : j <= i]
  BY <1>1 DEF RightmostUntrusted
<1> HIDE DEF n, Free
<1>5. k \in U
  BY DEF n, Free
<1>6. PICK i \in U : \A j \in U : j <= i
  BY <1>1, <1>5, LastExists, Zenon
<1>7. l + i \in V
  BY <1>1, <1>2
<1>8. ASSUME NEW j \in V PROVE j <= l + i
  <2>1. CASE j <= l
    BY <1>1, <2>1
  <2>2. CASE j > l
    <3>1. j - l \in 1..n /\ l + (j - l) = j
      BY <1>1, <2>2
    <3>2. j - l \in U
      BY <1>2, <3>1
    <3>3. j - l <= i /\ i \in Int /\ j \in Int
      BY <1>1, <1>6, <3>2
    <3> QED
      BY <1>1, <3>3
  <2> QED
    BY <1>1, <2>1, <2>2
<1>9. (CHOOSE h \in U : \A j \in U : j <= h) = i
  <2>1. \A h \in U : (\A j \in U : j <= h) => h = i
    BY <1>1, <1>6
  <2> QED
    BY <1>6, <2>1
<1>10. (CHOOSE h \in V : \A j \in V : j <= h) = l + i
  <2>1. \A h \in V : (\A j \in V : j <= h) => h = l + i
    BY <1>1, <1>7, <1>8
  <2> QED
    BY <1>7, <1>8, <2>1
<1>11. w[l + i] = c[i]
  BY <1>2
<1> HIDE DEF U, V
<1> QED
  BY <1>3, <1>4, <1>5, <1>7, <1>9, <1>10, <1>11, Zenon

\* A text that is an address.
IsGood(text) == IsText(text) /\ text.form # "bad"

\* Bytes are integers.
LEMMA BytesAreNumbers ==
  ASSUME NEW D, NEW f \in [D -> 0..255]
  PROVE  f \in [D -> Int]
OBVIOUS

\* An address has the bytes of its version.
LEMMA ParsedText ==
  ASSUME NEW text, IsGood(text)
  PROVE  /\ ParseIp(text) \in Addresses /\ ParseIp(text) # Nothing
         /\ ParseIp(text).bytes \in [1..AddressBytes[ParseIp(text).version] -> Int]
<1>1. ParseIp(text) = [version |-> Version(text), bytes |-> text.bytes]
  BY DEF ParseIp, IsGood
<1>2. Version(text) \in {4, 6}
  BY DEF Version
<1>3. text.bytes \in Seq(0..255) /\ Len(text.bytes) = AddressBytes[Version(text)]
  BY DEF IsGood, IsText
<1>4. ParseIp(text) \in Addresses
  BY <1>1, <1>2, <1>3 DEF Addresses
<1>5. text.bytes \in [1..AddressBytes[Version(text)] -> 0..255]
  <2>1. text.bytes \in [1..Len(text.bytes) -> 0..255]
    BY <1>3, LenProperties, ZenonT(60)
  <2> QED
    BY <1>3, <2>1, Zenon
<1>6. text.bytes \in [1..AddressBytes[Version(text)] -> Int]
  BY <1>5, BytesAreNumbers, Zenon
<1> QED
  BY <1>1, <1>4, <1>6, AddressAssumption

\* A network has the bytes of its version and at most their bits as prefix.
LEMMA ParsedNetwork ==
  ASSUME NEW cidr, IsText(cidr.text), NEW network,
         network = ParseTrustedProxyCidr(cidr), network # Nothing
  PROVE  /\ network.version \in {4, 6}
         /\ network.bytes \in [1..AddressBytes[network.version] -> Int]
         /\ network.prefix_length \in 0..(ByteBits * AddressBytes[network.version])
<1> DEFINE address == ParseIp(cidr.text)
           prefix == IF cidr.slash THEN ParsePrefixLength(cidr.prefix, address.version)
                     ELSE ByteBits * AddressBytes[address.version]
<1>1. /\ address # Nothing /\ prefix # Nothing
      /\ network = [version |-> address.version, bytes |-> address.bytes,
                    prefix_length |-> prefix]
  BY DEF ParseTrustedProxyCidr
<1>2. IsGood(cidr.text)
  BY <1>1 DEF IsGood, ParseIp
<1>3. /\ address \in Addresses
      /\ address.bytes \in [1..AddressBytes[address.version] -> Int]
  BY <1>2, ParsedText
<1> HIDE DEF address
<1>4. address.version \in {4, 6}
  BY <1>3 DEF Addresses
<1>5. prefix \in 0..(ByteBits * AddressBytes[address.version])
  <2>1. PICK n \in Nat : AddressBytes[address.version] = n
    BY <1>4, AddressAssumption
  <2>2. ByteBits * n \in 0..(ByteBits * n)
    BY DEF ByteBits
  <2> QED
    BY <1>1, <2>1, <2>2 DEF ParsePrefixLength
<1> HIDE DEF prefix
<1> QED
  BY <1>1, <1>3, <1>4, <1>5

\* IsTrustedProxy trusts only what lies in a trusted network.
LEMMA TrustedIsIn ==
  ASSUME NEW cfg, \A cidr \in cfg.cidrs : IsText(cidr.text), AuthHttpConstructs(cfg),
         NEW text, IsGood(text), IsTrustedProxy(Networks(cfg), ParseIp(text))
  PROVE  \E network \in Networks(cfg) : InNetwork(network, ParseIp(text))
<1>1. PICK network \in Networks(cfg) :
        /\ network.version = ParseIp(text).version
        /\ PrefixMatches(network.bytes, ParseIp(text).bytes, network.prefix_length)
  BY DEF IsTrustedProxy
<1>2. PICK cidr \in cfg.cidrs : network = ParseTrustedProxyCidr(cidr)
  BY <1>1 DEF Networks
<1>3. network # Nothing
  BY <1>1 DEF AuthHttpConstructs
<1>4. /\ network.version \in {4, 6}
      /\ network.bytes \in [1..AddressBytes[network.version] -> Int]
      /\ network.prefix_length \in 0..(ByteBits * AddressBytes[network.version])
  BY <1>2, <1>3, ParsedNetwork
<1>5. ParseIp(text).bytes \in [1..AddressBytes[network.version] -> Int]
  BY <1>1, ParsedText
<1>6. AddressBytes[network.version] \in Nat
  BY <1>4, AddressAssumption
<1> QED
  BY <1>1, <1>4, <1>5, <1>6, MatchedIsIn, ZenonT(60)

\* The chain of a header.
Parsed(header) == [i \in DOMAIN header |-> ParseIp(header[i])]

\* A header of addresses parses to the chain of them.
LEMMA ParsedChain ==
  ASSUME NEW T, NEW header \in Seq(T), \A i \in DOMAIN header : IsGood(header[i])
  PROVE  /\ Parsed(header) \in Seq(Addresses) /\ Len(Parsed(header)) = Len(header)
         /\ header # <<>> => /\ ParseForwardedFor(header) = Parsed(header)
                             /\ ParseForwardedFor(header) # Nothing
<1>1. DOMAIN header = 1..Len(header) /\ Len(header) \in Nat
  BY LenProperties
<1>2. \A i \in DOMAIN header : ParseIp(header[i]) \in Addresses /\ ParseIp(header[i]) # Nothing
  BY ParsedText
<1>3. Parsed(header) \in [1..Len(header) -> Addresses]
  BY <1>1, <1>2 DEF Parsed
<1>4. Parsed(header) \in Seq(Addresses) /\ Len(Parsed(header)) = Len(header)
  BY <1>1, <1>3
<1>5. ASSUME header # <<>> PROVE ParseForwardedFor(header) = Parsed(header)
  BY <1>2, <1>5 DEF ParseForwardedFor, Parsed
<1> QED
  BY <1>4, <1>5, AddressAssumption

\* Headers one after the other are chains one after the other.
LEMMA ParsedConcat ==
  ASSUME NEW T, NEW p \in Seq(T), NEW h \in Seq(T),
         \A i \in DOMAIN p : IsGood(p[i]), \A i \in DOMAIN h : IsGood(h[i])
  PROVE  /\ Parsed(p \o h) = Parsed(p) \o Parsed(h)
         /\ \A i \in DOMAIN (p \o h) : IsGood((p \o h)[i])
<1>1. /\ Len(p) \in Nat /\ DOMAIN p = 1..Len(p)
      /\ Len(h) \in Nat /\ DOMAIN h = 1..Len(h)
      /\ DOMAIN (p \o h) = 1..(Len(p) + Len(h))
  BY LenProperties, ConcatProperties
<1>2. /\ \A i \in 1..Len(p) : (p \o h)[i] = p[i]
      /\ \A i \in 1..(Len(p) + Len(h)) : i > Len(p) => (p \o h)[i] = h[i - Len(p)]
  BY <1>1, ConcatProperties
<1>3. \A i \in DOMAIN (p \o h) : i <= Len(p) \/ (i > Len(p) /\ i - Len(p) \in DOMAIN h)
  BY <1>1
<1>4. \A i \in DOMAIN (p \o h) : IsGood((p \o h)[i])
  BY <1>1, <1>2, <1>3
<1>5. /\ Parsed(p) \in Seq(Addresses) /\ Len(Parsed(p)) = Len(p)
      /\ Parsed(h) \in Seq(Addresses) /\ Len(Parsed(h)) = Len(h)
  BY ParsedChain
<1>6. /\ DOMAIN (Parsed(p) \o Parsed(h)) = 1..(Len(p) + Len(h))
      /\ \A i \in 1..(Len(p) + Len(h)) : (Parsed(p) \o Parsed(h))[i]
           = IF i <= Len(p) THEN Parsed(p)[i] ELSE Parsed(h)[i - Len(p)]
  <2>1. Len(Parsed(p) \o Parsed(h)) = Len(p) + Len(h)
    <3>1. Len(Parsed(p) \o Parsed(h)) = Len(Parsed(p)) + Len(Parsed(h))
      BY <1>5, ConcatProperties, Zenon
    <3> QED
      BY <1>5, <3>1
  <2>2. Parsed(p) \o Parsed(h) \in Seq(Addresses)
    BY <1>5, ConcatProperties
  <2>3. DOMAIN (Parsed(p) \o Parsed(h)) = 1..(Len(p) + Len(h))
    BY <2>1, <2>2, LenProperties
  <2> QED
    BY <1>5, <2>3, ConcatProperties
<1>7. ASSUME NEW i \in 1..(Len(p) + Len(h))
      PROVE  ParseIp((p \o h)[i]) = (Parsed(p) \o Parsed(h))[i]
  <2>1. CASE i <= Len(p)
    BY <1>1, <1>2, <1>6, <2>1 DEF Parsed
  <2>2. CASE ~(i <= Len(p))
    BY <1>1, <1>2, <1>3, <1>6, <2>2, Zenon DEF Parsed
  <2> QED
    BY <2>1, <2>2, Zenon
<1>8. Parsed(p \o h) = Parsed(p) \o Parsed(h)
  <2>1. Parsed(p) \o Parsed(h) \in Seq(Addresses)
    BY <1>5, ConcatProperties
  <2>2. Parsed(p) \o Parsed(h)
          = [i \in 1..(Len(p) + Len(h)) |-> (Parsed(p) \o Parsed(h))[i]]
    BY <1>6, <2>1, LenProperties, Zenon
  <2> QED
    BY <1>1, <1>7, <2>2, Zenon DEF Parsed
<1> QED
  BY <1>4, <1>8

\* The same with the peer as the last hop.
LEMMA RightmostAppend ==
  ASSUME NEW S, NEW proxies, NEW c \in Seq(S), NEW p \in Seq(S), NEW e \in S,
         NEW k \in 1..Len(c), ~IsTrustedProxy(proxies, c[k])
  PROVE  RightmostUntrusted(proxies, Append(p \o c, e))
           = RightmostUntrusted(proxies, Append(c, e))
<1>1. /\ Append(c, e) \in Seq(S) /\ Len(Append(c, e)) = Len(c) + 1
      /\ \A i \in 1..Len(c) : Append(c, e)[i] = c[i]
      /\ Append(c, e)[Len(c) + 1] = e
  BY AppendProperties
<1>2. /\ p \o c \in Seq(S) /\ Len(p \o c) = Len(p) + Len(c)
      /\ \A i \in 1..Len(c) : (p \o c)[Len(p) + i] = c[i]
  BY ConcatProperties, LenProperties
<1>3. /\ Append(p \o c, e) \in Seq(S) /\ Len(Append(p \o c, e)) = Len(p \o c) + 1
      /\ \A i \in 1..Len(p \o c) : Append(p \o c, e)[i] = (p \o c)[i]
      /\ Append(p \o c, e)[Len(p \o c) + 1] = e
  BY <1>2, AppendProperties
<1> DEFINE v == Append(c, e)  w == Append(p \o c, e)  l == Len(p)  n == Len(c)
<1>4. l \in Nat /\ n \in Nat
  BY LenProperties
<1>5. Len(v) = n + 1 /\ Len(w) = l + (n + 1)
  BY <1>1, <1>2, <1>3, <1>4
<1>6. \A i \in 1..(n + 1) : w[l + i] = v[i]
  <2>1. \A i \in 1..n : w[l + i] = v[i]
    BY <1>1, <1>2, <1>3, <1>4
  <2>2. w[l + (n + 1)] = v[n + 1]
    BY <1>1, <1>2, <1>3, <1>4
  <2> HIDE DEF v, w, l, n
  <2> QED
    BY <1>4, <2>1, <2>2
<1>7. k \in 1..Len(v) /\ v[k] = c[k] /\ v \in Seq(S) /\ w \in Seq(S)
  BY <1>1, <1>3, <1>4, <1>5
<1> HIDE DEF v, w, l, n
<1>8. RightmostUntrusted(proxies, w) = RightmostUntrusted(proxies, v)
  BY <1>4, <1>5, <1>6, <1>7, RightmostShift, Zenon
<1> QED
  BY <1>8 DEF v, w

\* Once a hop lies in no trusted network, hops before it change nothing, in
\* chains of any length (ClientIpExtractor::Extract).
THEOREM PrefixChangesNothing ==
  ASSUME NEW cfg, \A cidr \in cfg.cidrs : IsText(cidr.text), AuthHttpConstructs(cfg),
         NEW T, \A text \in T : IsText(text),
         NEW req \in [remote : T, xff : Seq(T), xri : T],
         NEW prefix \in Seq(T)
  PROVE  PrefixIsIgnored(Networks(cfg), req, prefix)
<1> DEFINE proxies == Networks(cfg)
           hops == Append(req.xff, req.remote)
           Trusted(text) == \E network \in proxies : InNetwork(network, ParseIp(text))
           other == [req EXCEPT !.xff = prefix \o req.xff]
<1> SUFFICES ASSUME \A i \in DOMAIN prefix : prefix[i].form # "bad",
                    \A i \in DOMAIN hops : hops[i].form # "bad",
                    \E i \in DOMAIN hops : ~Trusted(hops[i])
             PROVE  Extract(proxies, other) = Extract(proxies, req)
  BY Zenon DEF PrefixIsIgnored
<1> DEFINE x == req.xff  R == ParseIp(req.remote)
<1>1. /\ x \in Seq(T) /\ req.remote \in T
      /\ other.remote = req.remote /\ other.xri = req.xri /\ other.xff = prefix \o x
  OBVIOUS
<1>2. /\ Len(x) \in Nat /\ DOMAIN x = 1..Len(x) /\ DOMAIN hops = 1..(Len(x) + 1)
      /\ \A i \in 1..Len(x) : hops[i] = x[i]
      /\ hops[Len(x) + 1] = req.remote
  BY <1>1, LenProperties, AppendProperties
<1>3. IsGood(req.remote) /\ \A i \in DOMAIN x : IsGood(x[i])
  <2>1. /\ \A i \in DOMAIN x : IsText(x[i]) /\ x[i].form # "bad"
        /\ IsText(req.remote) /\ req.remote.form # "bad"
    BY <1>1, <1>2
  <2> QED
    BY <2>1, Zenon DEF IsGood
<1>4. \A i \in DOMAIN prefix : IsGood(prefix[i])
  BY DEF IsGood
<1> HIDE DEF hops, other, x, R, Trusted
<1>5. R \in Addresses /\ R # Nothing
  BY <1>3, ParsedText DEF R
<1>6. CASE ~IsTrustedProxy(proxies, R)
  BY <1>1, <1>5, <1>6, Zenon DEF Extract, R
<1>7. CASE IsTrustedProxy(proxies, R)
  <2>1. \A text : (IsGood(text) /\ IsTrustedProxy(proxies, ParseIp(text))) => Trusted(text)
    BY TrustedIsIn, Zenon DEF Trusted
  <2> HIDE DEF proxies
  <2>2. PICK k \in 1..Len(x) : ~Trusted(x[k])
    <3>1. Trusted(hops[Len(x) + 1])
      BY <1>2, <1>3, <1>7, <2>1, Zenon DEF R
    <3>2. PICK k \in 1..(Len(x) + 1) : ~Trusted(hops[k])
      BY <1>2, Zenon
    <3>3. k \in 1..Len(x)
      BY <1>2, <3>1, <3>2
    <3> QED
      BY <1>2, <3>2, <3>3, Zenon
  <2>3. ~IsTrustedProxy(proxies, ParseIp(x[k]))
    BY <1>2, <1>3, <2>1, <2>2, Zenon
  <2>4. x # <<>> /\ prefix \o x # <<>>
    BY <1>1, <2>2, ConcatEqualIffEmpty
  <2>5. /\ ParseForwardedFor(x) = Parsed(x) /\ ParseForwardedFor(x) # Nothing
        /\ Parsed(x) \in Seq(Addresses) /\ Len(Parsed(x)) = Len(x)
    BY <1>1, <1>3, <2>4, ParsedChain
  <2>6. /\ Parsed(prefix \o x) = Parsed(prefix) \o Parsed(x)
        /\ \A i \in DOMAIN (prefix \o x) : IsGood((prefix \o x)[i])
    BY <1>1, <1>3, <1>4, ParsedConcat, Zenon
  <2>7. /\ ParseForwardedFor(prefix \o x) = Parsed(prefix) \o Parsed(x)
        /\ ParseForwardedFor(prefix \o x) # Nothing
    <3>1. prefix \o x \in Seq(T)
      BY <1>1, ConcatProperties
    <3> QED
      BY <2>4, <2>6, <3>1, ParsedChain, Zenon
  <2>8. Parsed(prefix) \in Seq(Addresses)
    BY <1>4, ParsedChain
  <2>9. ~IsTrustedProxy(proxies, Parsed(x)[k]) /\ k \in 1..Len(Parsed(x))
    <3>1. Parsed(x)[k] = ParseIp(x[k])
      BY <1>2, Zenon DEF Parsed
    <3> QED
      BY <2>3, <2>5, <3>1, Zenon
  <2>10. RightmostUntrusted(proxies, Append(Parsed(prefix) \o Parsed(x), R))
           = RightmostUntrusted(proxies, Append(Parsed(x), R))
    <3> DEFINE c == Parsed(x)  p == Parsed(prefix)
    <3>1. c \in Seq(Addresses) /\ p \in Seq(Addresses)
      BY <2>5, <2>8, Zenon
    <3>2. k \in 1..Len(c) /\ ~IsTrustedProxy(proxies, c[k])
      BY <2>9, Zenon
    <3> HIDE DEF c, p
    <3>3. RightmostUntrusted(proxies, Append(p \o c, R))
            = RightmostUntrusted(proxies, Append(c, R))
      BY <1>5, <3>1, <3>2, RightmostAppend
    <3> QED
      BY <3>3, Zenon DEF c, p
  <2>11. Extract(proxies, req) = RightmostUntrusted(proxies, Append(Parsed(x), R))
    BY <1>5, <1>7, <2>5, Zenon DEF Extract, R, x
  <2>12. Extract(proxies, other)
           = RightmostUntrusted(proxies, Append(Parsed(prefix) \o Parsed(x), R))
    BY <1>1, <1>5, <1>7, <2>7, Zenon DEF Extract, R
  <2> QED
    BY <2>10, <2>11, <2>12, Zenon
<1> QED
  BY <1>6, <1>7, Zenon

\* A header with an entry that is no address is no header.
LEMMA MalformedChangesNothing ==
  ASSUME NEW proxies, NEW T, NEW req \in [remote : T, xff : Seq(T), xri : T],
         NEW prefix \in Seq(T)
  PROVE  MalformedIsDropped(proxies, req, prefix)
<1> DEFINE x == prefix \o req.xff
           r == [req EXCEPT !.xff = x]
           n == [req EXCEPT !.xff = <<>>]
<1> SUFFICES ASSUME NEW i \in DOMAIN prefix, prefix[i].form = "bad"
             PROVE  Extract(proxies, r) = Extract(proxies, n)
  BY Zenon DEF MalformedIsDropped
<1>1. i \in DOMAIN x /\ x[i].form = "bad"
  <2>1. req.xff \in Seq(T)
    OBVIOUS
  <2> QED
    BY <2>1, ConcatProperties, LenProperties
<1>2. /\ r.remote = req.remote /\ r.xff = x /\ r.xri = req.xri
      /\ n.remote = req.remote /\ n.xff = <<>> /\ n.xri = req.xri
  OBVIOUS
<1> HIDE DEF r, n, x
<1>3. ParseForwardedFor(x) = Nothing /\ ParseForwardedFor(<<>>) = Nothing
  BY <1>1, Zenon DEF ParseForwardedFor, ParseIp
<1> QED
  BY <1>2, <1>3, Zenon DEF Extract

\* Texts that mean the same address are the same client.
LEMMA NotationChangesNothing ==
  ASSUME NEW proxies, NEW T, NEW X, NEW req \in [remote : T, xff : X, xri : T], NEW other
  PROVE  NotationIsIgnored(proxies, req, other)
<1> SUFFICES ASSUME SameAddress(req.remote, other)
             PROVE  Extract(proxies, [req EXCEPT !.remote = other]) = Extract(proxies, req)
  BY DEF NotationIsIgnored
<1>1. ParseIp(other) = ParseIp(req.remote)
  BY DEF ParseIp, SameAddress
<1> DEFINE r == [req EXCEPT !.remote = other]
<1>2. r.remote = other /\ r.xff = req.xff /\ r.xri = req.xri
  OBVIOUS
<1> HIDE DEF r
<1>3. Extract(proxies, r) = Extract(proxies, req)
  BY <1>1, <1>2, Zenon DEF Extract
<1> QED
  BY <1>3 DEF r

\* Once a hop is no trusted proxy, addresses a client writes before it do not
\* change the address the service stores and limits by; anything else written
\* there leaves what the request gives without the header; and the notation
\* of the peer's address changes nothing (ClientIpExtractor::Extract).
THEOREM Clients == Spec => []ClientsDoNotChooseTheirAddress
<1>1. ASSUME IInv PROVE ClientsDoNotChooseTheirAddress
  <2> SUFFICES ASSUME Built, NEW req \in Requests, NEW text \in Texts
               PROVE  /\ PrefixIsIgnored(Networks(settings), req, <<text>>)
                      /\ MalformedIsDropped(Networks(settings), req, <<text>>)
                      /\ NotationIsIgnored(Networks(settings), req, text)
    BY Zenon DEF ClientsDoNotChooseTheirAddress
  <2>1. settings \in Settings /\ AuthHttpConstructs(settings)
    <3>1. "auth_http" \in alive
      BY Zenon DEF Built, Components, Needs
    <3> QED
      BY <1>1, <3>1 DEF IInv, AliveOK, Constructs
  <2>2. req \in [remote : Texts, xff : Seq(Texts), xri : Texts]
    <3>1. \A n \in 0..2 : [1..n -> Texts] \subseteq Seq(Texts)
      OBVIOUS
    <3>2. ForwardedFor \subseteq Seq(Texts)
      BY <3>1, Zenon DEF ForwardedFor
    <3> QED
      BY <3>2 DEF Requests
  <2>3. /\ \A cidr \in settings.cidrs : IsText(cidr.text)
        /\ \A t \in Texts : IsText(t)
    BY <2>1, TextsAssumption
  <2>4. /\ PrefixIsIgnored(Networks(settings), req, <<text>>)
        /\ MalformedIsDropped(Networks(settings), req, <<text>>)
    <3> DEFINE prefix == <<text>>
    <3>1. prefix \in Seq(Texts)
      OBVIOUS
    <3> HIDE DEF prefix
    <3>2. /\ PrefixIsIgnored(Networks(settings), req, prefix)
          /\ MalformedIsDropped(Networks(settings), req, prefix)
      BY <2>1, <2>2, <2>3, <3>1, PrefixChangesNothing, MalformedChangesNothing, ZenonT(60)
    <3> QED
      BY <3>2 DEF prefix
  <2>5. NotationIsIgnored(Networks(settings), req, text)
    BY <2>2, NotationChangesNothing
  <2> QED
    BY <2>4, <2>5
<1> QED
  BY <1>1, Invariance, PTL
=============================================================================
