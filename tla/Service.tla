------------------------------ MODULE Service ------------------------------
(***************************************************************************)
(* One instance of the service from its start to its end: the components   *)
(* of src/main.cpp constructed in the order of their dependencies, the     *)
(* outbox worker's periodic task, the readiness probe against a database   *)
(* that is being migrated, and updates of the dynamic configuration.       *)
(*                                                                         *)
(* External, from how the code uses them: the userver component manager    *)
(* (a component is constructed once those it finds are, a constructor that *)
(* throws ends the start, a component is destroyed after those that found  *)
(* it), PeriodicTask, the HTTP server, and the migrate tool (it marks the  *)
(* version dirty, changes the schema, then marks it clean).                *)
(***************************************************************************)
EXTENDS Integers, Sequences, FiniteSets, StaticConfig, RuntimeConfig

CONSTANTS
    Settings,       \* the static configurations the service is started with
    Documents,      \* the documents a config update may bring
    Versions,       \* the schema versions the migrate tool moves between
    MaxUpdates,     \* bound: updates of the dynamic configuration
    MaxAttempts,    \* bound: the attempts whose retry delay is compared
    Texts           \* the addresses a request may carry

VARIABLES
    settings,       \* the static configuration of this start
    phase,          \* loading, serving, stopping, clearing, stopped
    alive,          \* the components constructed and not yet destroyed
    task,           \* the periodic task: none, waiting, ticking, cancelled
    server,         \* whether the HTTP server accepts requests
    request,        \* whether an auth request is being handled
    snapshot,       \* the dynamic configuration
    updates,        \* the updates there were
    db,             \* [up, tracked, version, dirty, applied]
    probe           \* the readiness probe: [pc, ok, answer]

vars == <<settings, phase, alive, task, server, request, snapshot, updates,
          db, probe>>

\* Settings, requests and documents hold what the code reads them as.
ASSUME SettingsAssumption ==
    \A s \in Settings : s.password_reset_token_bytes \in Int

ASSUME TextsAssumption ==
    /\ \A text \in Texts : IsText(text)
    /\ \A s \in Settings : \A cidr \in s.cidrs : IsText(cidr.text)

ASSUME DocumentsAssumption ==
    \A doc \in Documents : \A f \in DOMAIN doc : doc[f] \in Int64

\* The compared attempts go past the last doubling.
ASSUME AttemptsAssumption == MaxAttempts \in Nat /\ MaxAttempts > MaxExponent

\* There is a last migration.
ASSUME VersionsAssumption ==
    Versions \subseteq Int /\ \E v \in Versions : \A w \in Versions : w <= v

-----------------------------------------------------------------------------
(***************************************************************************)
(* The components, and what each finds when it is constructed.             *)
(***************************************************************************)
AuthInfraFinds == {"postgres"}

AuthApplicationFinds == {"auth_infra", "auth_security", "dynamic_config"}

EmailOutboxWorkerFinds == {"auth_infra", "dynamic_config"}

ReadinessFinds == {"postgres", "dynamic_config"}

\* The handlers of the API together.
HandlersFind == {"auth_service", "auth_http", "auth_security"}

\* Mutant: the repositories find the worker that already finds them.
NeedsInACircle ==
    [postgres |-> {}, dynamic_config |-> {},
     auth_infra |-> AuthInfraFinds \cup {"email_outbox_worker"},
     auth_http |-> {}, auth_security |-> {},
     auth_service |-> AuthApplicationFinds,
     email_outbox_worker |-> EmailOutboxWorkerFinds,
     handlers |-> HandlersFind,
     health_ready |-> ReadinessFinds]

Needs ==
    [postgres |-> {}, dynamic_config |-> {},
     auth_infra |-> AuthInfraFinds,
     auth_http |-> {}, auth_security |-> {},
     auth_service |-> AuthApplicationFinds,
     email_outbox_worker |-> EmailOutboxWorkerFinds,
     handlers |-> HandlersFind,
     health_ready |-> ReadinessFinds]

Components == DOMAIN Needs

\* Whether the constructor of c returns.
Constructs(c) ==
    CASE c = "auth_security" -> AuthSecurityConstructs(settings)
      [] c = "auth_http" -> AuthHttpConstructs(settings)
      [] c = "email_outbox_worker" -> EmailOutboxWorkerConstructs(settings)
      [] OTHER -> TRUE

IdleProbe == [pc |-> "idle", ok |-> TRUE, answer |-> "none"]

\* A tracked database is at any version; one without schema_migrations was
\* made by applying every migration file.
Databases ==
    {[up |-> up, tracked |-> TRUE, version |-> v, dirty |-> FALSE,
      applied |-> v] : up \in BOOLEAN, v \in Versions}
    \cup {[up |-> TRUE, tracked |-> FALSE, version |-> 0, dirty |-> FALSE,
           applied |-> CHOOSE v \in Versions : \A w \in Versions : w <= v]}

Init ==
    /\ settings \in Settings
    /\ phase = "loading"
    /\ alive = {}
    /\ task = "none"
    /\ server = FALSE
    /\ request = FALSE
    /\ snapshot = Defaults
    /\ updates = 0
    /\ db \in Databases
    /\ probe = IdleProbe

-----------------------------------------------------------------------------
(***************************************************************************)
(* Start.                                                                  *)
(***************************************************************************)
Constructible(c) ==
    /\ phase = "loading"
    /\ c \notin alive
    /\ Needs[c] \subseteq alive

Construct(c) ==
    /\ Constructible(c)
    /\ Constructs(c)
    /\ alive' = alive \cup {c}
    /\ UNCHANGED <<settings, phase, task, server, request, snapshot, updates,
                   db, probe>>

\* A constructor throws: what was constructed is stopped and destroyed.
ConstructThrows(c) ==
    /\ Constructible(c)
    /\ ~Constructs(c)
    /\ phase' = "stopping"
    /\ UNCHANGED <<settings, alive, task, server, request, snapshot, updates,
                   db, probe>>

\* OnAllComponentsLoaded: the worker starts its task, unless it is disabled,
\* and the server listens.
OnAllComponentsLoaded ==
    /\ phase = "loading"
    /\ alive = Components
    /\ phase' = "serving"
    /\ server' = TRUE
    /\ task' = IF settings.worker_enabled THEN "waiting" ELSE "none"
    /\ UNCHANGED <<settings, alive, request, snapshot, updates, db, probe>>

-----------------------------------------------------------------------------
(***************************************************************************)
(* The periodic task and a request of the API.                             *)
(***************************************************************************)
TickStart ==
    /\ task = "waiting"
    /\ task' = "ticking"
    /\ UNCHANGED <<settings, phase, alive, server, request, snapshot, updates,
                   db, probe>>

TickEnd ==
    /\ task \in {"ticking", "cancelled"}
    /\ task' = IF task = "cancelled" THEN "none" ELSE "waiting"
    /\ UNCHANGED <<settings, phase, alive, server, request, snapshot, updates,
                   db, probe>>

RequestStart ==
    /\ server
    /\ ~request
    /\ request' = TRUE
    /\ UNCHANGED <<settings, phase, alive, task, server, snapshot, updates, db,
                   probe>>

RequestEnd ==
    /\ request
    /\ request' = FALSE
    /\ UNCHANGED <<settings, phase, alive, task, server, snapshot, updates, db,
                   probe>>

-----------------------------------------------------------------------------
(***************************************************************************)
(* The environment while the instance serves: a config update, which an    *)
(* invalid document leaves without effect; an outage; the migrate tool.    *)
(* Before and after, nothing looks at them.                                *)
(***************************************************************************)
UpdateConfig ==
    /\ phase = "serving"
    /\ updates < MaxUpdates
    /\ updates' = updates + 1
    /\ \E doc \in Documents :
           snapshot' = IF Parse(doc) = Rejected THEN snapshot ELSE Parse(doc)
    /\ UNCHANGED <<settings, phase, alive, task, server, request, db, probe>>

Outage ==
    /\ phase = "serving"
    /\ db' = [db EXCEPT !.up = ~db.up]
    /\ UNCHANGED <<settings, phase, alive, task, server, request, snapshot,
                   updates, probe>>

\* migrate up or down by one: dirty first, then the file, then clean.
Migrate ==
    /\ phase = "serving"
    /\ db.up /\ db.tracked
    /\ \/ /\ ~db.dirty
          /\ \E v \in Versions \cap {db.version - 1, db.version + 1} :
                 db' = [db EXCEPT !.version = v, !.dirty = TRUE]
       \/ /\ db.dirty /\ db.applied # db.version
          /\ db' = [db EXCEPT !.applied = db.version]
       \/ /\ db.dirty /\ db.applied = db.version
          /\ db' = [db EXCEPT !.dirty = FALSE]
    /\ UNCHANGED <<settings, phase, alive, task, server, request, snapshot,
                   updates, probe>>

-----------------------------------------------------------------------------
(***************************************************************************)
(* The readiness probe: ReadinessHandler runs its queries one after the    *)
(* other, and the database may change between them.                        *)
(***************************************************************************)
\* Mutant: the binary expects a migration that does not exist.
kExpectedSchemaVersionAhead == 13

kExpectedSchemaVersion == 11

CheckPostgres ==
    /\ server
    /\ probe.pc = "idle"
    /\ probe' = [probe EXCEPT !.pc = "schema", !.ok = db.up]
    /\ UNCHANGED <<settings, phase, alive, task, server, request, snapshot,
                   updates, db>>

\* CheckMigrations, first query: the tables, and the column migration 11 adds.
\* Without schema_migrations that is all there is to check.
CheckSchema ==
    LET schema_ready == db.applied >= kExpectedSchemaVersion
    IN  /\ probe.pc = "schema"
        /\ probe' = IF db.up /\ schema_ready /\ db.tracked
                    THEN [probe EXCEPT !.pc = "version"]
                    ELSE [probe EXCEPT !.pc = "dynamic_config",
                                       !.ok = probe.ok /\ db.up /\ schema_ready]
        /\ UNCHANGED <<settings, phase, alive, task, server, request, snapshot,
                       updates, db>>

\* Mutant: a dirty version counts.
CheckVersionOnly ==
    /\ probe.pc = "version"
    /\ probe' = [probe EXCEPT !.pc = "dynamic_config",
                              !.ok = /\ probe.ok /\ db.up
                                     /\ db.version >= kExpectedSchemaVersion]
    /\ UNCHANGED <<settings, phase, alive, task, server, request, snapshot,
                   updates, db>>

\* CheckMigrations, second query: the version, and that it is clean.
CheckVersion ==
    /\ probe.pc = "version"
    /\ probe' = [probe EXCEPT !.pc = "dynamic_config",
                              !.ok = /\ probe.ok /\ db.up
                                     /\ ~db.dirty
                                     /\ db.version >= kExpectedSchemaVersion]
    /\ UNCHANGED <<settings, phase, alive, task, server, request, snapshot,
                   updates, db>>

\* CheckDynamicConfig, and the answer: 200 or 503.
CheckDynamicConfig ==
    /\ probe.pc = "dynamic_config"
    /\ probe' =
         LET ok == /\ probe.ok
                   /\ snapshot.sign_in_window > 0
                   /\ snapshot.outbox_batch_size # 0
         IN  [pc |-> "idle", ok |-> TRUE,
              answer |-> IF ok THEN "ok" ELSE "degraded"]
    /\ UNCHANGED <<settings, phase, alive, task, server, request, snapshot,
                   updates, db>>

Probe == CheckPostgres \/ CheckSchema \/ CheckVersion \/ CheckDynamicConfig

-----------------------------------------------------------------------------
(***************************************************************************)
(* The end: a signal, the stopping of what runs, the destructors.          *)
(***************************************************************************)
Shutdown ==
    /\ phase = "serving"
    /\ phase' = "stopping"
    /\ UNCHANGED <<settings, alive, task, server, request, snapshot, updates,
                   db, probe>>

StopServer ==
    /\ phase = "stopping"
    /\ server
    /\ server' = FALSE
    /\ UNCHANGED <<settings, phase, alive, task, request, snapshot, updates, db,
                   probe>>

\* OnAllComponentsAreStopping, and Stop of the processor: no tick starts any
\* more, and one that runs is waited for.
StopWorker ==
    /\ phase = "stopping"
    /\ task \in {"waiting", "ticking"}
    /\ task' = IF task = "ticking" THEN "cancelled" ELSE "none"
    /\ UNCHANGED <<settings, phase, alive, server, request, snapshot, updates,
                   db, probe>>

\* Mutant: Stop does not wait for the tick.
StopReturnsAtOnce == task # "waiting"

\* Stop returns, to OnAllComponentsAreStopping and to the destructor.
StopReturns == task = "none"

\* Every OnAllComponentsAreStopping has returned.
Clear ==
    /\ phase = "stopping"
    /\ ~server /\ ~request /\ probe.pc = "idle"
    /\ StopReturns
    /\ phase' = IF alive = {} THEN "stopped" ELSE "clearing"
    /\ probe' = IdleProbe
    /\ UNCHANGED <<settings, alive, task, server, request, snapshot, updates,
                   db>>

Destroy(c) ==
    /\ phase = "clearing"
    /\ c \in alive
    /\ \A d \in alive : c \notin Needs[d]
    /\ c = "email_outbox_worker" => StopReturns
    /\ alive' = alive \ {c}
    /\ phase' = IF alive' = {} THEN "stopped" ELSE phase
    /\ UNCHANGED <<settings, task, server, request, snapshot, updates, db, probe>>

-----------------------------------------------------------------------------
Start ==
    \/ \E c \in Components : Construct(c) \/ ConstructThrows(c)
    \/ OnAllComponentsLoaded

End ==
    StopServer \/ StopWorker \/ Clear \/ \E c \in Components : Destroy(c)

Environment == UpdateConfig \/ Outage \/ Migrate \/ Shutdown

Next ==
    \/ Start \/ End \/ Environment \/ Probe
    \/ TickStart \/ TickEnd \/ RequestStart \/ RequestEnd

Spec == Init /\ [][Next]_vars

\* The component manager goes on, ticks and requests end, and the probe is
\* polled; nothing forces an update, an outage, a migration or a shutdown.
FairSpec ==
    /\ Spec
    /\ WF_vars(Start) /\ WF_vars(End)
    /\ WF_vars(Probe) /\ WF_vars(TickEnd) /\ WF_vars(RequestEnd)

-----------------------------------------------------------------------------
(***************************************************************************)
(* Safety of the lifecycle.                                                *)
(***************************************************************************)
\* A tick of the outbox worker, a request and a readiness probe only touch
\* components that are alive, however the stop and the destructors interleave
\* with them: EmailOutboxProcessor::Stop waits for the tick.
UsedComponentsAreAlive ==
    /\ task \in {"ticking", "cancelled"} =>
           {"email_outbox_worker", "auth_infra", "postgres", "dynamic_config"}
             \subseteq alive
    /\ request =>
           {"handlers", "auth_service", "auth_http", "auth_security",
            "auth_infra", "postgres", "dynamic_config"} \subseteq alive
    /\ probe.pc # "idle" =>
           {"health_ready", "postgres", "dynamic_config"} \subseteq alive

\* No instance serves with argon2 parameters, lifetimes, a reset token length,
\* a public key or proxies that its operations cannot work with: some
\* constructor refuses them, and the start is undone.  Of the private key only
\* an empty text is refused: an instance serves with any other in its place.
ServingIsConfigured == server => Sound(settings)

\* A snapshot, whatever documents came and were refused before it, makes the
\* outbox's retry delays start at the base delay and stay under the longest;
\* they never shrink while base * 2^n fits 64 bits, which nothing but the
\* document ensures: Parse gives the delays no upper bound.
PoliciesStaySound == phase = "serving" => Grows(snapshot, MaxAttempts)

\* The probe's migration check passes only while migration 11 is in place,
\* though it looks twice and the migrate tool may work in between.
ReadyMeansMigrated ==
    [][(/\ probe.pc = "version" /\ probe'.pc = "dynamic_config" /\ probe'.ok)
       => db.applied >= kExpectedSchemaVersion]_vars

-----------------------------------------------------------------------------
(***************************************************************************)
(* The address a request is taken to come from, once all components are    *)
(* constructed.                                                            *)
(***************************************************************************)
Built == phase = "loading" /\ alive = Components

\* The header names up to two addresses.
ForwardedFor == UNION {[1..n -> Texts] : n \in 0..2}

Requests == [remote : Texts, xff : ForwardedFor, xri : Texts]

\* Once a hop is not a trusted proxy, addresses a client writes into
\* X-Forwarded-For before it do not change the address the service stores
\* and limits by.  Anything else it writes there makes the service take what
\* it takes without the header, X-Real-IP or the proxy: never what was
\* written.  And an IPv4 peer is the same client and the same proxy in both
\* notations (ClientIpExtractor::Extract).
ClientsDoNotChooseTheirAddress ==
    Built => \A req \in Requests, text \in Texts :
        /\ PrefixIsIgnored(Networks(settings), req, <<text>>)
        /\ MalformedIsDropped(Networks(settings), req, <<text>>)
        /\ NotationIsIgnored(Networks(settings), req, text)

-----------------------------------------------------------------------------
(***************************************************************************)
(* Liveness.                                                               *)
(***************************************************************************)
\* Every start ends in serving or in a clean stop, and every stop ends: no
\* component waits for one that waits for it.
StartsAndStops ==
    /\ phase = "loading" ~> phase \in {"serving", "stopped"}
    /\ phase = "stopping" ~> phase = "stopped"

\* Once the database is up and migrated for good, the probe keeps answering
\* ok, whatever documents arrive.
EventuallyReady ==
    <>[](phase = "serving" /\ db.up /\ ~db.dirty
           /\ (db.tracked => db.version >= 11) /\ db.applied >= 11)
    => []<>(probe.answer = "ok" \/ phase # "serving")
=============================================================================
