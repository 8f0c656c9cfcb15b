--------------------------- MODULE ServiceContent ---------------------------
(***************************************************************************)
(* What an instance of the service sends out, once its components are all  *)
(* constructed: the mails of its outbox worker and the secrets they carry. *)
(***************************************************************************)
EXTENDS Service, Mail, Encoding

CONSTANTS
    Strings,        \* the texts a mail may be made of
    ByteStrings,    \* the byte strings that are encoded
    Buffers         \* the sequences of random buffers a code is drawn from

ASSUME ContentAssumption ==
    /\ Strings \subseteq Seq(Characters)
    /\ ByteStrings \subseteq Seq(Bytes)
    /\ Buffers \subseteq Seq(Seq(Bytes))

Client == [host |-> TRUE, username |-> TRUE, app_password |-> TRUE]

\* What the header fields of a mail must be.
Acceptable(from, name, to) ==
    /\ from # <<>> /\ to # <<>>
    /\ \A text \in {from, name, to} : ~ContainsCrlf(text)

MailsAreWellFormed ==
    \A from \in Strings, name \in Strings, to \in Strings, secret \in Strings,
       cap \in {1, 4} :
        LET result == SendSecret(Client, from, name, to, secret,
                                 [code |-> "OK", cap |-> cap])
        IN  /\ result.ok => WellFormed(result.wire, BodyLines(secret))
            /\ Outcome(result) = IF Acceptable(from, name, to) THEN "sent"
                                 ELSE "permanent"

\* A mail that is accepted arrives whole: CRLF lines, the eight headers the
\* code writes and no other, the secret in the body, whatever line ends the
\* secret has.  Only one with no sender or receiver, or a line end in a header
\* field, is refused, and that for good (SmtpEmailSender, CurlSmtpClient).
DeliveredMailIsWellFormed == Built => MailsAreWellFormed

AllLossless == \A bytes \in ByteStrings : Lossless(bytes)

AllExact == Uniform /\ \A buffers \in Buffers, n \in 1..3 : Exact(n, buffers)

AllScoped ==
    LET ids == {bytes \in ByteStrings :
                    Len(bytes) <= 2 /\ \A i \in DOMAIN bytes : bytes[i] # Nul}
        codes == {bytes \in ByteStrings : Len(bytes) <= 2}
    IN  \A id \in ids, other_id \in ids, code \in codes, other \in codes :
            Scoped(id, code, other_id, other)

\* Secrets keep what was drawn for them: distinct random bytes are distinct
\* tokens in both base64url encoders; a verification code has its length and
\* each of its digits is equally likely; and no code of one user hashes the
\* same text as a code of another (BuildScopedValue).
SecretsAreFaithful == Built => AllLossless /\ AllExact /\ AllScoped
=============================================================================
