---------------------------- MODULE StaticConfig ----------------------------
(***************************************************************************)
(* The static configuration and what each component's constructor refuses  *)
(* of it: config/auth_security_config.cpp, email_outbox_worker_config.cpp  *)
(* and auth_http_config.cpp, and the constructors they feed.               *)
(*                                                                         *)
(* `settings' is a record of the fields that decide: numbers as read, the  *)
(* texts that must not be empty by their lengths, a task processor by      *)
(* whether it is configured, a key file by what it holds: "none" when it   *)
(* cannot be opened, "empty", "rsa", or "other", which is no RSA key; and  *)
(* of private keys "foreign", an RSA key that is not the public key's.     *)
(***************************************************************************)
EXTENDS Integers, ClientAddress

CONSTANT Uint32Max      \* 2^32 - 1 in the code

ASSUME Uint32Assumption == Uint32Max \in Nat

(***************************************************************************)
(* auth-security.                                                          *)
(***************************************************************************)
ParseUint32(value) == value \in 1..Uint32Max

Argon2idFields ==
    {"time_cost", "memory_cost_kib", "parallelism", "salt_length", "hash_length"}

ParseAuthSecuritySettings(settings) ==
    /\ \A f \in Argon2idFields : ParseUint32(settings.argon2id[f])
    /\ settings.hashing_processor # "empty"
    /\ settings.password_reset_token_bytes > 0
    /\ settings.refresh_token_pepper > 0
    /\ settings.verification_code_pepper > 0

\* LoadJwtConfig and ReadTextFile.
LoadJwtConfig(settings) ==
    settings.private_key # "none" /\ settings.public_key # "none"

\* Mutant: the lifetimes are taken as they are.
ValidateConfigKeysOnly(settings) ==
    /\ settings.private_key # "empty" /\ settings.public_key # "empty"
    /\ settings.key_id > 0 /\ settings.issuer > 0 /\ settings.audience > 0

ValidateConfig(settings) ==
    /\ settings.private_key # "empty" /\ settings.public_key # "empty"
    /\ settings.key_id > 0 /\ settings.issuer > 0 /\ settings.audience > 0
    /\ settings.access_ttl > 0 /\ settings.refresh_ttl > 0

\* ExtractRsaPublicNumbers throws unless the text is an RSA public key.
BuildPublicJwksJson(settings) == settings.public_key = "rsa"

ValidateParams(params) ==
    /\ params.time_cost # 0 /\ params.parallelism # 0
    /\ params.memory_cost_kib >= 8 * params.parallelism
    /\ params.salt_length \in 8..1024
    /\ params.hash_length \in 4..1024

kMinRandomTokenBytes == 16

AuthSecurityConstructs(settings) ==
    /\ ParseAuthSecuritySettings(settings)
    /\ LoadJwtConfig(settings)
    /\ ValidateConfig(settings)
    /\ BuildPublicJwksJson(settings)
    /\ settings.hashing_processor = "configured"
    /\ ValidateParams(settings.argon2id)
    /\ settings.password_reset_token_bytes >= kMinRandomTokenBytes

-----------------------------------------------------------------------------
(***************************************************************************)
(* auth-http and email-outbox-worker.                                      *)
(***************************************************************************)
Networks(settings) == {ParseTrustedProxyCidr(cidr) : cidr \in settings.cidrs}

AuthHttpConstructs(settings) == Nothing \notin Networks(settings)

ParseTlsMode(value) == value \in {"none", "starttls", "tls"}

\* A disabled worker reads nothing of its smtp section.
EmailOutboxWorkerConstructs(settings) ==
    settings.worker_enabled =>
        /\ ParseTlsMode(settings.tls_mode)
        /\ settings.smtp_given
        /\ settings.worker_processor = "configured"

-----------------------------------------------------------------------------
\* What is checked of what the operations rely on: argon2 accepts its
\* parameters, a session and its token are not born expired, a reset token
\* cannot be guessed, the key set can be published, every trusted proxy is a
\* network.  Of the private key only that there is a text is checked: what
\* is no RSA key, or another's, is found out by the first token it signs.
Sound(settings) ==
    /\ settings.argon2id.time_cost >= 1 /\ settings.argon2id.parallelism >= 1
    /\ settings.argon2id.memory_cost_kib >= 8 * settings.argon2id.parallelism
    /\ settings.argon2id.salt_length >= 8 /\ settings.argon2id.hash_length >= 4
    /\ settings.access_ttl > 0 /\ settings.refresh_ttl > 0
    /\ settings.password_reset_token_bytes * 8 >= 128
    /\ settings.public_key = "rsa" /\ settings.private_key \notin {"none", "empty"}
    /\ \A cidr \in settings.cidrs : cidr.text.form # "bad"
=============================================================================
