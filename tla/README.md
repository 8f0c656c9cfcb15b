# smirkly-auth: a TLA+ model

smirkly-auth is an authentication service in C++ (userver) over PostgreSQL.
What is hard to get right in it, and hard to test, is concurrency: several
instances of the service run many request handlers at once, a handler reads
outside any transaction and writes inside one, browsers lose and reorder
answers, and a background worker in every instance sends the mails that requests
leave in a table. This project models those parts in TLA+, checks small instances
with TLC, and proves every safety property that holds with TLAPS, for every
number of handlers, sessions, browsers, accounts, codes, scopes, jobs and workers
and for texts, secrets and header chains of every length.

Paths below are relative to the repository; `usecases/` is
`src/auth/services/usecases/`, `pg/` is `src/auth/infra/db/pg/`. `PROJECT.json`
has the line ranges behind every definition.

## The system and its parts

| part | code | model |
|---|---|---|
| sessions and token families: sign-in, refresh rotation, reuse detection, authentication, revocation | `usecases/authentication_service.cpp`, `usecases/session_service.cpp`, `pg/repositories/postgres_session_repository.cpp`, `sql/auth/*/sessions` | `Sessions`; its promise: `TokenFamily` |
| passwords: change, reset request, reset confirmation | `usecases/password_service.cpp`, `pg/repositories/postgres_password_reset_repository.cpp` | `Sessions` |
| attempt limiter: four tables with one protocol | `pg/repositories/postgres_sign_in_attempt_repository.cpp` and its siblings, `sql/auth/write/*attempts*` | `AttemptLimiter` |
| sign-up, email verification, resending | `usecases/identity_service.cpp`, `pg/repositories/postgres_user_repository.cpp`, `pg/repositories/postgres_email_verification_repository.cpp` | `Accounts`; its promise: `OneTimeCode` |
| validation and normalisation | `src/auth/services/validation`, `src/auth/domain/value_objects` | `Validation` |
| email outbox | `src/auth/infra/workers/email_outbox_processor.cpp`, `pg/repositories/postgres_email_outbox_repository.cpp` | `EmailOutbox` |
| SMTP senders | `src/auth/infra/messaging/smtp`, `src/auth/infra/providers/email` | `Mail`; its outcomes in `EmailOutbox` |
| access and refresh tokens | `src/auth/infra/security/jwt` | `Tokens` |
| HTTP handlers, bodies, error mapping | `src/auth/api/v0` | `HttpApi`, `HttpBodies`, `HttpErrors` |
| client address extraction | `src/auth/infra/http` | `ClientAddress` |
| random tokens and codes | `src/auth/infra/security/token`, `src/auth/infra/security/verification` | `Encoding` |
| static and dynamic config | `src/auth/config`, `src/auth/infra/workers/email_outbox_retry_policy.cpp` | `StaticConfig`, `RuntimeConfig` |
| components, start and stop, readiness | `src/main.cpp`, `src/auth/components`, `src/auth/api/health` | `Service`, `ServiceContent` |
| transactions | `pg/transactions` | inside `Sessions`, `AttemptLimiter`, `Accounts` |
| devices, mappers, metrics | `pg/mappers`, `src/auth/infra/mapping`, `src/auth/infra/observability` | not modelled |

The parts meet in three places. In the database: a handler passes the limiter,
reads and writes users, sessions, codes and resets, and inserts outbox jobs in
the transaction of the change that they announce. At the session store: `HttpApi`
is written over the atomic token book of `TokenFamily`, and `Sessions` is shown,
by TLC and by proof, to implement that book, so what holds of browsers over the
book holds over the transactions too. In the process: `Service` constructs
the components from `StaticConfig`, takes updates of `RuntimeConfig`, and runs
the extractor of `ClientAddress` once it is constructed; `ServiceContent` does the
same for the objects of `Mail` and `Encoding`.

Modules `MC...` hold the values of the constants for TLC, modules `...Proofs` (and
`AccountsLocals`) the proofs. A definition commented `Mutant:` is a wrong version
of the one after it, used to see that a property notices.

## Sessions

State: the tables `users.password_hash` (`password`), `sessions` and
`password_resets` (`resets`) as committed, the clock, and for every request
handler (`task`) its locals and its open transaction.

Transactions run at READ COMMITTED, the default isolation of `Begin`. The model
spells out what follows from it: a read sees committed rows and is never
repeated; an UPDATE picks its rows in a snapshot (`RevokeStart`), locks them one
at a time in any order, waits for a row that another transaction holds and
re-checks its WHERE clause on what it finds (`RevokeRow`); writes take effect at
commit. A transaction that only inserts, or that updates one row, is one step.

| actions | code |
|---|---|
| `SignInVerify`, `SignInCommit` | `AuthenticationService::SignIn`: the hash is verified before the transaction |
| `RefreshRotate`, `RevokeAndReplace`, `RefreshCommit` | `Refresh`, the rotation |
| `RefreshReuse` | `Refresh`, the branch of a revoked session |
| `Authenticate`, `UpdateLastUsed` | `AuthenticateAccessToken`, first step of every protected handler |
| `RevokeSession`, `RevokeByUserId`, `RevokeAllSessions`, `AnswerRead` | `SessionService` and the read-only requests |
| `ChangePassword` | `PasswordService::ChangePassword` up to its transaction |
| `RequestReset`, `RequestLock`, `SupersedeStart`, `Supersede`, `RequestCommit` | `PasswordService::RequestReset`: clock and user; the advisory locks of `TryRecordAttempt`, held until the commit; the snapshot and the row of `MarkActiveUsedByUserId`; the new token and the commit |
| `ConfirmReset`, `ConfirmAttempt`, `ConfirmResetVerify`, `ConfirmResetWrong`, `ConfirmResetRefuse`, `IncrementAttempts`, `MarkUsed` | `PasswordService::ConfirmReset`: the right token, a wrong one and its counter, none |
| `UpdatePasswordHash`, `RevokeStart`, `RevokeRow`, `RevokeCommit` | the end that password changes, resets, revoke-all and reuse detection share |
| `Rollback` | an exception, a lost connection, a deadlock victim, a crash |

Abstractions. A token is the id of the session it was issued for; its hash, user
and family are functions of that id (`HttpApi` has tokens with claims). A password
hash is the password it verifies. A request refused before it writes is a
stuttering step. The few instructions between the read of a refresh and the start
of its transaction use one clock value. Requests that name one user share the
locks of their address and user; the lock on the address of the client, which only
makes requests wait more, is left out, as are the limits themselves
(`AttemptLimiter` has both) beyond the refusal, which is `Rollback`. The check for
a verified email and the outbox job of a reset token are left out: the first only
refuses, the second is a row that no handler reads.

| property | meaning |
|---|---|
| `OneLiveSessionPerFamily` | rotation never forks a family |
| `FamilyIsChain` | `replaced_by_session_id` makes every family one chain |
| `HandlersAreIsolated` | handlers share no locked row and no id, and what they read and rely on stays true |
| `BulkRevokeCoversSnapshot` | a bulk revocation revokes every session that it saw live, busy ones included |
| `ImplementsTokenFamily` | together the handlers do nothing to tokens but open a family, rotate its good token, and revoke |
| `LastUsedNeverGoesBack` | late activity updates do not move `last_used_at` back |
| `OneActiveReset` | at most one reset token of a user is active, so that the unique index on them never turns a request into an internal error: the advisory locks alone keep two requests from inserting one each |
| `ResetTokenIsConsumedOnce` | a token is unused, not expired for its request, and within its tries up to the commit that sets the password, and used from then on |
| `RequestsFinish` | every handler ends, also when bulk revocations deadlock |

Refinement: session `s` is the token `book[s]`, good while its row is live. A
rotation maps to `Rotate` at its commit, a bulk revocation to `Revoke` of the rows
it holds at its commit, and every other step to a stutter.

Runs (module `MCSessions`): `sessions_tokens` (one user, two families, four
sessions, three handlers: enough for two rotations of one token against a bulk
revocation), `sessions_passwords` (two resets that expire, one try, three
handlers: two confirmations, or two requests, race while a third handler counts a
wrong token or replaces the token), and `sessions_liveness` (two handlers, two sessions of
two families: the smallest deadlock of two bulk revocations; clock 0..3 and
lifetime 3, so sessions expire and activity updates are applied in both orders).
The clock of the last run ends and sessions run out, which is a stop of the
bounded system and no deadlock; a handler that never ends would violate
`RequestsFinish`.

Two runs document where the code does less than its documentation says. Each
expects a violation.

- `sessions_reuse`: the documentation says "Detected refresh-token reuse revokes
  the whole token family." (`docs/security.html:88`). A rotation that commits
  while the UPDATE of the reuse branch waits for its row inserts a session
  outside the snapshot of the UPDATE; it stays live. The same statement over
  another set serves `PasswordService` (`password_service.cpp:81`), where
  `docs/architecture.html:111` says "revokes all active sessions".
- `sessions_stale_sign_in`: "Password change revokes active sessions so clients
  must sign in again." (`docs/security.html:89`). A sign-in that verified the
  old hash inserts its session after the change has committed.

`BulkRevokeCoversSnapshot` is the statement that does hold.

## AttemptLimiter

A request has up to three scopes (identifier or email, user, address). A scope is
a key, numbered in the order of `ORDER BY lock_key`. `LockScope` takes the
advisory locks in that order, `TryRecord` is the counting INSERT, `Commit` makes
the row visible and releases the locks. `SignIn` and `SignInCheck` are the
unlocked count that only sign-in makes before it verifies a password;
`RecordFirst` is the start of the other five operations. The clock is read at
the start, so `attempted_at` may be older than rows already in the table.

`WindowLimit` says that no window of time, wherever it starts, holds more
attempts of a scope than its limit. `CountStaysTrue` says that the count is still
true at the commit. `RequestsFinish` says that all handlers get through;
`NoCircularWait`, in `AttemptLimiterProofs`, is the part of it that needs no
fairness.

Run `limiter` (module `MCAttemptLimiter`): three handlers, sets of scopes that form
a cycle (the smallest in which a wrong lock order deadlocks), limits 2, 1, 1 and
none, window 1, clock 0..1, with the pre-check of `sign_in_attempts` and without it,
fair.

## Accounts and Validation

State: the tables `users`, `email_verifications` (`codes`) and the verification
jobs of `email_outbox` as committed, the clock, and the locals of every handler.
Isolation is that of `Sessions`.

| actions | code |
|---|---|
| `SignUp`, `CheckExists`, `InsertKey`, `SignUpCommit` | `IdentityService::SignUp`: validation; `ExistsBy...` on a replica, which may lag behind by any number of commits; the INSERT, which enters its keys into the unique indexes one by one and waits for an open transaction with the same key; account, code and job in one transaction |
| `VerifyEmail`, `FindActive`, `IncrementAttempts`, `MarkUsed`, `VerifyCommit` | `IdentityService::VerifyEmail` |
| `Resend`, `ResendLock`, `SupersedeStart`, `Supersede`, `ResendCommit` | `IdentityService::ResendEmailVerification`, under the advisory locks of the limiter |
| `Rollback` | an exception at any step |

`Validation` is the value objects and validators, over sequences of characters of
an alphabet with a member of every class the code tells apart. A code stands for its
hash, which is bound to its account (`Encoding`).

| property | meaning |
|---|---|
| `UniqueAccounts` | no two accounts share a username, address or phone number, whatever the spelling and however stale the replica |
| `OwnersFindTheirAccounts` | what a client typed to open an account signs in to it and to no other, by any one of its fields: the two validators agree, at the limits too, and the lookup finds that row |
| `OneUnusedCode` | an account never has two unused codes |
| `CodesAreMailed` | every account with an address has a code, and every code its mail |
| `OnlyLastMailVerifies` | an account is verified only by the code of the last mail to it |
| `ImplementsOneTimeCode` | the code in force verifies once, while it has tries left, and no interleaving gives a try back |
| `RequestsFinish` | handlers that wait for keys, rows and locks all end |

Run `accounts` (module `MCAccounts`): two handlers, four sign-up requests with
colliding spellings, two spellings to verify and resend with, two accounts, three
codes of two values, one try, lifetime 1, clock 0..1. Two sign-ups can collide in
either of two fields, and a verification can meet a resend of the same account,
an expired code and a used one. The bounds end, so the run may stop.

## EmailOutbox

`ClaimBatch` is the claim and its commit: every row gets a new lease and one more
attempt. `Send` is one round of the loop with any outcome of the sender,
including an error after the server has accepted the mail. `MarkSent`,
`RecordFailure` and their failing forms write the result under the lease.
`Crash` is the end of the process or `Stop()`. A claim whose commit is reported
as failed but took effect is `ClaimBatch` followed by `Crash`.

There is no clock: `next_attempt_at` and `locked_until` pass when they like
(`ComeDue`, `Expire`). This covers every delay, slow senders whose batch outlives
its lease, and clocks that disagree. Which due rows a batch takes is left open,
so nothing depends on its ORDER BY.

| property | meaning |
|---|---|
| `RowsAreConsistent` | the CHECK of migration 0011, and a payload exactly while the job is open |
| `LeaseIsExclusive` | of all workers that claimed a job only the last can write its result |
| `SentMeansDelivered` | a job marked sent was accepted by the server |
| `OneMailPerAttempt` | at most one mail per attempt, at most `max_attempts` in all |
| `SettledIsFinal` | late results do not change a settled job |
| `OnlyFaultsAbandon` | while the config stays, only a crash or a write that fails leaves a job unsettled, and only on its last attempt |
| `JobsSettle` | under all faults, every job is sent, dead, or abandoned on its last attempt in the end, and stays so |

Runs (module `MCEmailOutbox`): `outbox_safety` (two workers, two jobs, all faults,
config changes between three values), `outbox_liveness` (two workers, two jobs of
two attempts, all faults, fair), and `outbox_payload`, which expects a violation:
the documentation says that payloads "are cleared after successful delivery or
terminal failure" (`docs/security.html:97`), but when the process ends between the
delivery of the last attempt and `mark_sent`, the row stays in `processing` with
its payload and is never claimed again. Four leases are one for every attempt of
two jobs.

## HttpApi, HttpBodies, HttpErrors, Tokens

Browsers with one or two tabs call the eight endpoints that need or issue tokens. A
browser has a cookie jar and an access token; requests and answers wait on the
wire, are lost (`Lose`), and are received in any order (`Receive`). A tab may
present either token, or none. `Authenticate` is the first step of a protected
handler, and the handler acts in a second step, so other requests are served in
between. `Tick` lets tokens and sessions expire and `Redeploy` changes the
signing key. A token is the record of its claims and key; `Tokens` has the two
generators and parsers. `HttpErrors` is the class hierarchy of the exceptions and
the mapper's table, in its order; `HttpBodies` the endpoints with a body and no
token, over bodies at and beyond the limits of every member.

| property | meaning |
|---|---|
| `ApiFollowsItsDocument` | every answer has a status that the OpenAPI document lists for the endpoint, but for the two 500s below, and no handler refuses a body that the document allows |
| `BrowsersDontShareFamilies` | no browser's refresh is taken for a reuse of another's token |
| `SpentCookieOnlyByLoss` | a browser keeps a spent cookie beside a good one only if an answer was lost |
| `TokensStayInTheirPlace` | a request is let in only with an access token, and rotated only with a refresh token, of the running key and of a session live at that moment |

Two kinds of request that the document does not allow end in a 500 that it does
not list (`ServerError`): DELETE of a session id that is no UUID, where the
database refuses the cast and the mapper rethrows, and a change-password body with
a member that is no string, which is converted outside the handler's try block.
`ApiFollowsItsDocument` says that these are all.

Run `api` (module `MCHttpApi`): two tabs in one browser or in two, two users, two
sessions, two keys, lifetimes 1, clock 0..1. Two sessions are a sign-in and a
rotation, or two sign-ins. Deadlock is checked: signing in with refused credentials
stays possible.

## Service and the modules it is made of

One instance from start to end. `Construct`, `ConstructThrows`,
`OnAllComponentsLoaded` follow the order of dependencies; `TickStart`, `TickEnd`,
`RequestStart`, `RequestEnd` are the worker and a request; `CheckPostgres`,
`CheckSchema`, `CheckVersion`, `CheckDynamicConfig` the steps of the readiness
probe, between which `Outage`, `Migrate` and `UpdateConfig` change what it looks at;
`Shutdown`, `StopServer`, `StopWorker`, `Clear`, `Destroy` the end. The component
manager, `PeriodicTask`, the server and the migrate tool are external, modelled
from how the code uses them.

| property | meaning |
|---|---|
| `UsedComponentsAreAlive` | a tick, a request and a probe only touch components that are alive |
| `ServingIsConfigured` | no instance serves with argon2 parameters, lifetimes, a token length, a public key or proxies that its operations cannot work with, or with an empty private key |
| `PoliciesStaySound` | whatever documents came, retry delays start at the base and stay under the maximum, and while the product fits 64 bits they never shrink or fall under the base |
| `ClientsDoNotChooseTheirAddress` | addresses that a client writes before the first untrusted hop do not change its address, a text that is no address makes the header count for nothing, and the notation of an IPv4 peer changes nothing |
| `DeliveredMailIsWellFormed` | an accepted mail has the headers of the code and no other, CRLF lines, and the secret; any other text is refused for good |
| `SecretsAreFaithful` | base64url loses nothing, digits are uniform, codes of two users never hash the same text |
| `ReadyMeansMigrated` | the migration check passes only while migration 11 is in place |
| `StartsAndStops` | every start ends in serving or in a clean stop, every stop ends |
| `EventuallyReady` | with a database that is up and migrated for good the probe answers ok again and again |

`ClientAddress`, `Mail`, `Encoding` and `RuntimeConfig` are pure algorithms, compared
with reference definitions (bit by bit membership of a network, a decoder of
base64, the list of header lines) for every setting and config the service meets.
The properties of mails and secrets are in `ServiceContent`, apart from `Service`,
as they do not depend on what an instance does once it is constructed. The loops of
the code over a text or a buffer are functions of the place the loop has reached.

Run `service` (module `MCService`): one sound setting, one with the worker off, one
with a private key of another kind, which nothing checks, and eleven that differ in
one value a constructor refuses; versions 10..12 around the
expected 11; documents that are refused as a whole, only in combination, or not at
all; addresses of two and three bytes with a prefix inside a byte; texts with every
order of CR and LF up to three characters that matters; byte strings up to length
4, past one group of base64. The delay is a product of signed 64-bit numbers that
the build wraps: `IntHalf` is 2^63 in the code and 2^23 in the run, where one of
the documents has a base delay whose product wraps, as `Parse` gives it no
upper bound. The exponent is capped before the shift.
An instance stops in the end, so the run may too.

## Fairness

- `Sessions`, `AttemptLimiter`, `Accounts`: a handler that need not wait goes on
  (weak fairness; coroutines are scheduled). One that waits for a lock, a row or a
  key gets it if it is free again and again (strong fairness; PostgreSQL queues
  waiters). In `Sessions` the deadlock detector ends a cycle of waiting
  transactions (weak fairness). No fairness on arrivals, the clock or other
  rollbacks. `AttemptLimiter` and `Accounts` need no detector: locks are taken in
  the order of their keys, keys are entered in the order of the indexes, and locks
  are taken before rows (proved, `NoDeadlock` of either).
- `EmailOutbox`: time passes (`ComeDue`, `Expire`) and the periodic task of every
  worker goes on. No fairness on inserts, config changes and faults.
- `Service`: the component manager goes on, ticks and requests end, and the
  readiness probe is polled. No fairness on updates, outages, migrations and
  shutdown.

## Proofs

Each proof proves `Spec => []IInv` from `Init => IInv` and
`IInv /\ [Next]_vars => IInv'`, one step per action; the listed theorems follow
from it.

- `SessionsProofs`: `IInv` is the type invariant, `HandlersAreIsolated`,
  `FamilyIsChain`, `ResetsAreIsolated`, `RequestsAreSerial` and `OneActiveReset`.
  `OneLiveSessionPerFamily` alone is not inductive: that a rotation may insert its
  session rests on the old row being live and locked by it alone until the
  commit, and on the new id being nobody else's. Given the chain it is short: a
  live session has no replacement, and a family has one such session.
  `ResetsAreIsolated` says that confirmations never share a reset and that a row
  one has marked stays usable for it; `SingleUse` follows with expiry and tries.
  `RequestsAreSerial` says that of the requests for one user only one holds the
  advisory locks, and that from its snapshot on no token of the user is active but
  the one it is about to close. `OneActiveReset` alone is not inductive: the commit
  of a request inserts a token, and needs that no other appeared after the snapshot.
  The action properties (`Final`, `LastUsedMonotone`, `BulkRevoke`, `SingleUse`)
  and `Refinement` (`ImplementsTokenFamily`) use the same invariant.
- `AttemptLimiterProofs`: `IInv` is the type invariant, `CountStaysTrue`,
  `WindowLimit` and the finiteness of the table. When an attempt is added, a window
  that contains it starts no earlier than the attempt's own `since`, so it is a
  subset of the rows that were counted, plus one. `NoDeadlock` (`NoCircularWait`)
  has an invariant of its own, `LocksAscend`: the locks a handler has are those of
  its first scopes. Of any handlers at their locks, the one that needs the greatest
  key next then waits for none of the others.
- `EmailOutboxProofs`: `IInv` is the type invariant, the four state invariants and
  `WorkersAreSound` (a worker that is to write "sent" has an accepted mail). The
  core is that leases are fresh, so an entry whose lease is still in the row is
  the entry of the row's last attempt. `Abandonment` (`OnlyFaultsAbandon`) needs
  one fact more, `IdleIsEmpty`: a worker between two Ticks has no entry, so its
  next claim forgets none. A job is then abandoned only by a step that takes the
  entry with its lease from a worker, and every step but `Crash` and
  `RecordFailureFails` either keeps that entry or has written its result.
- `AccountsProofs`, for whatever clients send: `Unique`, `OwnersFind`,
  `SingleUnused`, `Mailed`, `LastMail` and `Refinement`
  (`ImplementsOneTimeCode`). `IInv` says, beside the
  types, that the keys an open INSERT has entered are in no row and in no other
  open INSERT (`KeysAreHeld`), that what a handler read or holds is so
  (`LocalOK`), that no two handlers hold one account's lock or one code's row
  (`LocksAreExclusive`), that an unused code is the newest of its account
  (`UnusedIsNewest`), that codes and jobs match, and that the bound on accounts
  leaves room for the sign-ups under way. `UniqueAccounts` alone is not inductive:
  the commit of a sign-up needs that its keys are still in no row. `OneUnusedCode`
  alone is not either: the UPDATE of a resend picks its row in a snapshot, and only
  the advisory lock keeps a second code from appearing after it. The argument is
  split by what a step changes: `AccountsLocals` (the invariant, the operators, and
  the steps that change only a handler's own locals), `AccountsProofs` (the
  commits, the theorems and the refinement). `OwnersFind` adds
  `ValidatorsAgree` to `Unique`: whatever sign-up accepts, sign-in with one field of
  it accepts, with the same normal form, so the lookup finds the row with that
  value, and it is the only one. `NoDeadlock` needs only the types: a handler that blocks another and is
  itself blocked is at a later index, or at a row where the other is at the locks.
- `HttpApiProofs`: `Families`, `SpentCookies`, `Documents` and `Places`. `IInv` says
  that every token that is in a jar or on the wire is one of the store's
  (`RowsOK`, `JarsOK`, `WireOK`), that a family has one good session (`OneGood`)
  and one browser (`OneHolder`), and that a token still on its way has been seen by
  nobody and is the last of its family (`UnseenIsLast`). The last one carries the
  proof: without it two answers of one family could be on their way at once, and
  the older could overwrite the newer. A browser counts as the holder of a family
  while its token is in the jar, in an answer to it, or in a request from it, as a
  refresh may be served after the jar was cleared. Steps are grouped into three
  kinds (a message changes, a session is issued, an answer is taken in), and the
  invariant is shown once for each. `Documents` compares the mapper's table, row by
  row, with the statuses of the document, and the checks of the handlers with its
  limits of length; an answer without a fault is documented, one with a fault is not.
- `ServiceProofs`: `UsedAreAlive`, `Configured`, `Migrated`, `Policies`, `Clients` and
  `PrefixChangesNothing`. `IInv` says that all components are alive while anything
  runs (`LifeOK`), that a component that is alive was constructed from these
  settings (`AliveOK`), that a database the migrate tool tracks is at the version
  it says unless it is dirty (`DatabaseOK`), that a probe past its first look is
  at such a database (`ProbeOK`), and that the delays of the snapshot are in order
  (`SoundPolicy`). `Policies` rests on powers of two being monotone, by induction
  over a set of numbers, and on a product that fits its type not being wrapped. `Clients` rests on `MatchedIsIn`, that the byte by byte
  match of the code with its masked last byte is membership bit by bit, for every
  prefix length, and on `RightmostAppend`, that what is put before a chain with an
  untrusted hop does not move the last such hop; `MalformedChangesNothing` is the
  other half, for entries that are no address. `PrefixChangesNothing` is the
  same for chains of any length, where the run has two hops.
- `ContentProofs`: `SecretsStayFaithful` and `MailStaysWellFormed`, and what they rest
  on, each for inputs of any length. A loop of the code is a function that is
  defined by its own values, so a proof first shows that such a function exists
  (`LoopExists`: one that is right up to place k can be made right at k + 1; for the
  upload it is given) and then argues along its places, by induction over a set of
  numbers.
  `EncodingIsLossless`: the four sextets of a group and the three bytes are the same
  24 bits, the last group is cut where its bytes end, and the padding that
  `Base64UrlEncode` strips is what the other encoder never writes.
  `HashedTextIsScoped`: a user id has no zero byte, so the second zero of the text
  ends it. `CodeIsExact`: after every byte the code holds the usable bytes so far,
  counted up to its length. `CodeIsUniform`: of the bytes below 250, 25 end in each
  digit. `UploadIsWhole`: what the callback has handed out and what is left are
  always the payload. `BodyIsCrLfText`: no prefix of the body that is written has a
  bare line feed. `MailIsWellFormed` puts them together: the first empty line of the
  text is the one after the eight headers, because no header value has a line end,
  so these are all the headers and the secret lies behind them.

The assumptions are the named ASSUMEs of the modules: `None` and the other marks of
absence are no value of the other kinds, limits, times, documents and versions are
numbers, the config has positive sizes, the integers hold the defaults and every number of
a document (`IntAssumption`, `DocumentsAssumption`), the handlers of `Accounts` are
finitely many, a sign-up names a user and the shortest password has a character
(`AccountsAssumption`; the handler and the constructor of the validator refuse the
others), a text is bad or has as many bytes as its version, mails are texts of
`Characters` and secrets are drawn in bytes, and there is a last
migration. TLC evaluates them in the runs.

Proved but in no run: `RevocationIsFinal`, `ResetsAreIsolated` and
`RequestsAreSerial` of `Sessions`,
`AttemptsOnlyGrow` of `EmailOutbox`, `NoCircularWait` of `AttemptLimiter` and of
`Accounts`, and the type invariants of `AttemptLimiter` and `EmailOutbox`.

Only model-checked:

- the liveness properties (`RequestsFinish`, `JobsSettle`, `StartsAndStops`,
  `EventuallyReady`): fairness and ENABLED are out of the prover's reach;
- the three documented disagreements, which are counterexamples.

## Not modelled

- Argon2, HMAC, the signatures of JWTs and random numbers are external: a hash is
  the value it verifies, a signature the key it was made with. The JWKS document
  is only built or not built. Of the private key the start checks only that its
  file can be read and is not empty: an instance with any other text there serves,
  and fails when it first signs a token.
- The SMTP conversation is libcurl and the network; `Mail` has what goes in and what
  is made of the result, `EmailOutbox` every outcome it can have.
- Devices: a row that sign-in inserts in the transaction of its session and that
  nothing reads to decide anything. Row and DTO mappers are field by field copies.
  Metrics are counters that no decision depends on.
- The answers that userver gives by itself, to a body that is no JSON or no object
  and when the database fails. `HttpApi` has the two 500s that a handler causes.
- The splitting of `X-Forwarded-For` into texts.
- A logout that races a refresh of the same session revokes the old row and leaves
  the replacement. The documentation promises the end of the current session only,
  so there is no statement to check.
- Readiness expects version 11 and does not ask for `sign_up_attempts` of migration
  0012. `ReadyMeansMigrated` is stated for what the probe expects.
- Reading YAML, secrets and files; the layout of answers and logs.
