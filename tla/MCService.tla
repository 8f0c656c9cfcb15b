----------------------------- MODULE MCService -----------------------------
(***************************************************************************)
(* Small instances of the service: one good static configuration, those    *)
(* that differ from it in one setting, which a constructor refuses or not, *)
(* addresses of two and three bytes, and short texts.                      *)
(***************************************************************************)
EXTENDS ServiceContent

SmallAddresses == [v \in {4, 6} |-> IF v = 4 THEN 2 ELSE 3]

Text(form, bytes) == [form |-> form, bytes |-> bytes]

\* 1.128.0.0/9 written with its slash, and one IPv6 proxy without.
Proxies ==
    {[text |-> Text("v4", <<1, 128>>), slash |-> TRUE, prefix |-> 9],
     [text |-> Text("v6", <<0, 0, 1>>), slash |-> FALSE, prefix |-> 0]}

SomeTexts ==
    {Text("v4", <<1, 200>>), Text("mapped", <<1, 200>>), Text("v4", <<1, 5>>),
     Text("mapped", <<1, 5>>), Text("v6", <<0, 0, 1>>), Text("v6", <<0, 1, 5>>),
     Text("bad", <<>>)}

Good ==
    [argon2id |-> [time_cost |-> 2, memory_cost_kib |-> 32, parallelism |-> 4,
                   salt_length |-> 16, hash_length |-> 32],
     hashing_processor |-> "configured", password_reset_token_bytes |-> 32,
     refresh_token_pepper |-> 1, verification_code_pepper |-> 1,
     private_key |-> "rsa", public_key |-> "rsa",
     key_id |-> 1, issuer |-> 1, audience |-> 1,
     access_ttl |-> 1, refresh_ttl |-> 2, cidrs |-> Proxies,
     worker_enabled |-> TRUE, worker_processor |-> "configured",
     tls_mode |-> "starttls", smtp_given |-> TRUE]

SomeSettings ==
    {Good,
     [Good EXCEPT !.worker_enabled = FALSE, !.smtp_given = FALSE],
     [Good EXCEPT !.argon2id.memory_cost_kib = 31],
     [Good EXCEPT !.argon2id.time_cost = 0],
     [Good EXCEPT !.argon2id.salt_length = 7],
     [Good EXCEPT !.refresh_ttl = 0],
     [Good EXCEPT !.password_reset_token_bytes = 15],
     [Good EXCEPT !.verification_code_pepper = 0],
     [Good EXCEPT !.public_key = "other"],
     [Good EXCEPT !.private_key = "none"],
     [Good EXCEPT !.private_key = "empty"],
     [Good EXCEPT !.private_key = "other"],
     [Good EXCEPT !.cidrs = {[text |-> Text("v4", <<1, 2>>), slash |-> TRUE,
                              prefix |-> 17]}],
     [Good EXCEPT !.tls_mode = "ssl"]}

\* Defaults, three documents that are refused, and three that are not, the
\* last with a base delay whose 2^8-fold no longer fits 24 bits.
SomeDocuments ==
    {<<>>,
     [outbox_batch_size |-> 0], [sign_in_window |-> 0],
     [outbox_retry_base_delay |-> 700],
     [outbox_retry_base_delay |-> 5, outbox_retry_max_delay |-> 5],
     [outbox_retry_max_delay |-> 1000000, sign_in_per_ip |-> 0],
     [outbox_retry_base_delay |-> 40000, outbox_retry_max_delay |-> 8000000]}

SequencesOf(S, n) == UNION {[1..k -> S] : k \in 0..n}

SomeStrings == {<<>>, <<"a">>, <<"q">>, <<"lf">>, <<"a", "cr">>,
                <<"cr", "lf", "a">>, <<"a", "lf", "lf">>}

SomeByteStrings == SequencesOf({0, 1, 63, 251, 255}, 4)

SomeBuffers == SequencesOf([1..2 -> {0, 9, 249, 250, 255}], 2)
=============================================================================
