--------------------------- MODULE RuntimeConfig ---------------------------
(***************************************************************************)
(* The dynamic configuration: what config/auth_dynamic_config.cpp makes of *)
(* a document, and the retry delay the outbox computes from the snapshot   *)
(* that config/runtime_config_providers.cpp hands to it.                   *)
(*                                                                         *)
(* A document is a function from the fields it gives to their values; the  *)
(* fields of the two configs are told apart by their first word.           *)
(***************************************************************************)
EXTENDS Integers

CONSTANTS
    MaxExponent,    \* 30 in the code: where the doubling of the delay stops
    IntHalf,        \* 2^63 in the code: half the values of std::int64_t
    Rejected        \* the throw of Parse

ASSUME ExponentAssumption == MaxExponent \in Nat

\* The defaults fit.
ASSUME IntAssumption == IntHalf \in Nat /\ IntHalf > 900

(***************************************************************************)
(* The fields, their defaults and their minimums.                          *)
(***************************************************************************)
AuthDefaults ==
    [sign_up_window |-> 900, sign_up_per_ip |-> 20,
     sign_in_window |-> 900, sign_in_per_identifier |-> 10,
     sign_in_per_user |-> 10, sign_in_per_ip |-> 50,
     session_activity_threshold |-> 300,
     verification_code_ttl |-> 900, verification_max_code_attempts |-> 5,
     verification_window |-> 900, verification_per_email |-> 5,
     verification_per_user |-> 5, verification_per_ip |-> 50,
     reset_token_ttl |-> 900, reset_max_token_attempts |-> 5,
     reset_window |-> 900, reset_per_email |-> 5, reset_per_user |-> 5,
     reset_per_ip |-> 50]

OutboxDefaults ==
    [outbox_batch_size |-> 20, outbox_max_attempts |-> 10,
     outbox_stuck_timeout |-> 300, outbox_retry_base_delay |-> 2,
     outbox_retry_max_delay |-> 600]

\* f where it is defined, and g elsewhere.
Over(f, g) ==
    [x \in DOMAIN f \cup DOMAIN g |-> IF x \in DOMAIN f THEN f[x] ELSE g[x]]

Defaults == Over(AuthDefaults, OutboxDefaults)

\* A limit of 0 means no limit, a threshold of 0 that every use is recorded.
MayBeZero ==
    {"sign_up_per_ip", "sign_in_per_identifier", "sign_in_per_user",
     "sign_in_per_ip", "session_activity_threshold", "verification_per_email",
     "verification_per_user", "verification_per_ip", "reset_per_email",
     "reset_per_user", "reset_per_ip"}

\* Fields the parsers do not read are ignored.
Given(doc) ==
    [f \in DOMAIN Defaults |-> IF f \in DOMAIN doc THEN doc[f] ELSE Defaults[f]]

\* Mutant: the longest delay only has to be positive.
MinimumEach(doc, field) == IF field \in MayBeZero THEN 0 ELSE 1

\* ParseSize and ParseSeconds: the longest delay is at least the shortest.
Minimum(doc, field) ==
    CASE field \in MayBeZero -> 0
      [] field = "outbox_retry_max_delay" -> Given(doc).outbox_retry_base_delay
      [] OTHER -> 1

Parse(doc) ==
    IF \A field \in DOMAIN Defaults : Given(doc)[field] >= Minimum(doc, field)
    THEN Given(doc)
    ELSE Rejected

-----------------------------------------------------------------------------
(***************************************************************************)
(* ComputeEmailOutboxRetryDelay.                                           *)
(***************************************************************************)
\* 1ULL << n, of exponents too small to overflow.
Pow2[n \in Nat] == IF n = 0 THEN 1 ELSE 2 * Pow2[n - 1]

\* std::int64_t: the build wraps a product that does not fit.
Int64 == (-IntHalf)..(IntHalf - 1)

Wrap(n) ==
    IF n \in Int64 THEN n ELSE ((n + IntHalf) % (2 * IntHalf)) - IntHalf

Product(attempt, cfg) ==
    LET exponent == IF attempt = 0 THEN 0 ELSE attempt - 1
        pow2 == IF exponent >= MaxExponent THEN Pow2[MaxExponent] ELSE Pow2[exponent]
    IN  cfg.outbox_retry_base_delay * pow2

ComputeEmailOutboxRetryDelay(attempt, cfg) ==
    LET delay == Wrap(Product(attempt, cfg))
    IN  IF delay < cfg.outbox_retry_max_delay THEN delay
        ELSE cfg.outbox_retry_max_delay

\* The first delay is the shortest and none is over the longest; as long as
\* the product fits its type, none is under the shortest or shrinks, and the
\* last is the longest or a whole number of doublings.
Grows(cfg, attempts) ==
    LET Delay(n) == ComputeEmailOutboxRetryDelay(n, cfg)
        Fits(n) == Product(n, cfg) \in Int64
    IN  /\ Delay(1) = cfg.outbox_retry_base_delay
        /\ \A n \in 0..attempts :
             /\ Delay(n) <= cfg.outbox_retry_max_delay
             /\ Fits(n) => Delay(n) >= cfg.outbox_retry_base_delay
             /\ Fits(n + 1) => Delay(n) <= Delay(n + 1)
        /\ Fits(attempts) =>
             Delay(attempts) \in {cfg.outbox_retry_max_delay,
                                 cfg.outbox_retry_base_delay * Pow2[MaxExponent]}
=============================================================================
