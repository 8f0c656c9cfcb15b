-------------------------------- MODULE Mail --------------------------------
(***************************************************************************)
(* What one delivery attempt of the outbox puts on the wire and answers:   *)
(* infra/messaging/smtp (SmtpEmailSender over CurlSmtpClient) and the      *)
(* sender of infra/providers/email that turns its answer into the outcome  *)
(* EmailOutbox.tla starts from.                                            *)
(*                                                                         *)
(* A text is a sequence of the characters "cr", "lf", "a" (a letter, which *)
(* a display name may hold) and "q" (any other).  A header is its name,    *)
(* "q", and its value.                                                     *)
(***************************************************************************)
EXTENDS Integers, Sequences, FiniteSets

Characters == {"cr", "lf", "a", "q"}

CrLf == <<"cr", "lf">>

(***************************************************************************)
(* SmtpEmailSender.                                                        *)
(***************************************************************************)
ContainsCrlf(text) == \E i \in DOMAIN text : text[i] \in {"cr", "lf"}

FormatMailbox(email, name) ==
    IF name = <<>> \/ \E i \in DOMAIN name : name[i] # "a" THEN email
    ELSE name \o <<"q">> \o email \o <<"q">>

Header(value) == <<"q">> \o value \o CrLf

\* What is written for character i of the body: a bare line feed gets its
\* carriage return.
BodyChar(body, i) ==
    IF body[i] = "lf" /\ (IF i = 1 THEN TRUE ELSE body[i - 1] # "cr")
    THEN CrLf ELSE <<body[i]>>

\* The loop over the body: out[i] is what its first i characters give.
BodyLines(body) ==
    LET out[i \in 0..Len(body)] ==
            IF i = 0 THEN <<>> ELSE out[i - 1] \o BodyChar(body, i)
    IN  out[Len(body)]

\* Date, Message-ID and the three MIME headers, whose values the code makes.
Fixed == Header(<<"a">>)

\* Before them From, To and Subject.
BuildPlaintextRfc822(from, name, to, subject, body) ==
    Header(FormatMailbox(from, name)) \o Header(to) \o Header(subject)
      \o Fixed \o Fixed \o Fixed \o Fixed \o Fixed
      \o CrLf \o BodyLines(body) \o CrLf

HeaderCount == 8

-----------------------------------------------------------------------------
(***************************************************************************)
(* CurlSmtpClient.  The answer is [ok, retryable], the text that reached   *)
(* the server in `wire'.                                                   *)
(***************************************************************************)
LooksLikeCrLfText(text) ==
    \A i \in DOMAIN text :
        text[i] = "lf" => IF i = 1 THEN FALSE ELSE text[i - 1] = "cr"

\* The upload callback: at most cap characters of what is left.
ReadCallback(left, cap) ==
    LET n == IF Len(left) < cap THEN Len(left) ELSE cap
    IN  [chunk |-> SubSeq(left, 1, n), left |-> SubSeq(left, n + 1, Len(left))]

\* libcurl calls the callback until it returns nothing: Rest[n] is what it
\* gets from the last n characters.
Upload(payload, cap) ==
    LET Rest[n \in 0..Len(payload)] ==
            LET read == ReadCallback(
                            SubSeq(payload, Len(payload) - n + 1, Len(payload)), cap)
            IN  IF read.chunk = <<>> THEN <<>>
                ELSE read.chunk \o Rest[Len(read.left)]
    IN  Rest[Len(payload)]

Refused == [ok |-> FALSE, retryable |-> FALSE, wire |-> <<>>]

RetryableCodes == {"OPERATION_TIMEDOUT", "COULDNT_CONNECT",
                   "COULDNT_RESOLVE_HOST", "RECV_ERROR", "SEND_ERROR",
                   "SSL_CONNECT_ERROR", "other"}

MapCurlError(code, wire) ==
    [ok |-> code = "OK", retryable |-> code \in RetryableCodes, wire |-> wire]

\* A client is [host, username, app_password], each given or not; a session
\* is what libcurl does: its code and the size of its reads.
Send(client, recipients, payload, session) ==
    IF \/ ~client.host \/ ~client.username \/ ~client.app_password
       \/ recipients = <<>> \/ payload = <<>> \/ ~LooksLikeCrLfText(payload)
    THEN Refused
    ELSE IF session.code = "no_handle"
    THEN [ok |-> FALSE, retryable |-> TRUE, wire |-> <<>>]
    ELSE MapCurlError(session.code, Upload(payload, session.cap))

\* Mutant: line ends in the header fields are not refused.
SendPlaintextUnchecked(client, from, name, to, subject, body, session) ==
    IF from = <<>> \/ to = <<>> THEN Refused
    ELSE Send(client, <<to>>, BuildPlaintextRfc822(from, name, to, subject, body),
              session)

SendPlaintext(client, from, name, to, subject, body, session) ==
    IF from = <<>> \/ to = <<>> THEN Refused
    ELSE IF \/ ContainsCrlf(from) \/ ContainsCrlf(to)
            \/ ContainsCrlf(subject) \/ ContainsCrlf(name)
    THEN Refused
    ELSE Send(client, <<to>>, BuildPlaintextRfc822(from, name, to, subject, body),
              session)

\* The verification mail and the reset mail: fixed text around the secret.
SendSecret(client, from, name, to, secret, session) ==
    SendPlaintext(client, from, name, to, <<"a">>,
                  <<"a">> \o secret \o CrLf \o CrLf \o <<"a">> \o CrLf, session)

\* SmtpEmailVerificationSender: EmailDeliveryError(retryable) unless ok.
Outcome(result) ==
    IF result.ok THEN "sent" ELSE IF result.retryable THEN "retryable"
    ELSE "permanent"

-----------------------------------------------------------------------------
(***************************************************************************)
(* What a delivered message must be.                                       *)
(***************************************************************************)
\* The headers of a text: the lines before its first empty line.
BlankLine(text) ==
    CHOOSE i \in DOMAIN text :
        /\ SubSeq(text, i, i + 3) = CrLf \o CrLf
        /\ \A j \in 1..(i - 1) : SubSeq(text, j, j + 3) # CrLf \o CrLf

Headers(text) ==
    Cardinality({i \in 1..(BlankLine(text) + 1) : text[i] = "lf"})

\* The text arrives as it was built, in CRLF lines, under our headers only,
\* with the secret in its body.
WellFormed(text, secret) ==
    /\ LooksLikeCrLfText(text)
    /\ Headers(text) = HeaderCount
    /\ \E i \in BlankLine(text)..Len(text) :
           SubSeq(text, i, i + Len(secret) - 1) = secret
=============================================================================
