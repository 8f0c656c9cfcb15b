----------------------------- MODULE HttpBodies -----------------------------
(***************************************************************************)
(* The handlers of the endpoints that take a JSON body and no token: which *)
(* bodies they refuse themselves, and the status they answer with.         *)
(*                                                                         *)
(* A body is a function from its members to values.  Of a string the       *)
(* handlers look at the length, at whether it has an '@' and at whether it *)
(* is all digits.  An outcome is the exception of the service call, or     *)
(* Success.                                                                *)
(***************************************************************************)
EXTENDS HttpErrors

Success == ""

\* A value that is neither a string nor null, and GetString's std::nullopt.
NotString == [kind |-> "other"]

Null == [kind |-> "null"]

GetString(body, member) ==
  IF member \in DOMAIN body /\ body[member].kind = "string"
    THEN body[member] ELSE NotString

IsString(value) == value.kind = "string"

BadRequest == 400

\* The end of every handler: the status of success, or what the mapper says.
Answer(outcome, status) ==
  IF outcome = Success THEN status ELSE AuthErrorResponse(outcome)
-----------------------------------------------------------------------------
\* SignUpRequest::FromJson does not throw.
SignUpFromJson(body) ==
  /\ \A member \in {"phone", "email"} \cap DOMAIN body : IsString(body[member])
  /\ {"username", "password"} \subseteq DOMAIN body
  /\ IsString(body["username"]) /\ IsString(body["password"])
  /\ {"phone", "email"} \cap DOMAIN body # {}

SignUpHandler(body, outcome) ==
  IF SignUpFromJson(body) THEN Answer(outcome, 201) ELSE BadRequest

\* Parse of SignInRequest does not throw: an optional member may be null.
SignInParses(body) ==
  /\ \A member \in {"username", "email", "phone"} \cap DOMAIN body :
       body[member] = Null \/ IsString(body[member])
  /\ IsString(GetString(body, "password"))

SignInHandler(body, outcome) ==
  IF SignInParses(body) THEN Answer(outcome, 200) ELSE BadRequest

IsValidEmailShape(email) == email.len \in 1..320 /\ email.at

kVerificationCodeLength == 6

\* AlreadyVerified is caught before the mapper sees it.
VerifyEmailHandler(body, outcome) ==
  LET email == GetString(body, "email")
      code  == GetString(body, "code")
  IN  IF \/ NotString \in {email, code} \/ email.len = 0 \/ code.len = 0
         \/ ~IsValidEmailShape(email)
         \/ code.len # kVerificationCodeLength \/ ~code.digits
        THEN BadRequest
        ELSE IF outcome = "AlreadyVerified" THEN 204 ELSE Answer(outcome, 204)

ResendEmailVerificationHandler(body, outcome) ==
  LET email == GetString(body, "email")
  IN  IF email = NotString \/ ~IsValidEmailShape(email)
        THEN BadRequest ELSE Answer(outcome, 204)

PasswordResetRequestHandler(body, outcome) ==
  LET email == GetString(body, "email")
  IN  IF email = NotString \/ ~IsValidEmailShape(email)
        THEN BadRequest ELSE Answer(outcome, 204)

PasswordResetConfirmHandler(body, outcome) ==
  LET email == GetString(body, "email")
      token == GetString(body, "token")
  IN  IF \/ NotString \in {email, token, GetString(body, "new_password")}
         \/ ~IsValidEmailShape(email)
         \/ token.len = 0 \/ token.len > 512
        THEN BadRequest ELSE Answer(outcome, 204)

Handler(endpoint, body, outcome) ==
  CASE endpoint = "sign_up"       -> SignUpHandler(body, outcome)
    [] endpoint = "sign_in"       -> SignInHandler(body, outcome)
    [] endpoint = "verify_email"  -> VerifyEmailHandler(body, outcome)
    [] endpoint = "resend"        -> ResendEmailVerificationHandler(body, outcome)
    [] endpoint = "reset_request" -> PasswordResetRequestHandler(body, outcome)
    [] endpoint = "reset_confirm" -> PasswordResetConfirmHandler(body, outcome)
-----------------------------------------------------------------------------
(* The OpenAPI document.                                                   *)

\* The responses it lists.
Documented ==
  [sign_up |-> {201, 400, 409, 429}, verify_email |-> {204, 400, 404, 410, 429},
   resend |-> {204, 400, 429}, reset_request |-> {204, 400, 429},
   reset_confirm |-> {204, 400, 410, 429}, sign_in |-> {200, 400, 401, 403, 429},
   refresh |-> {200, 401}, logout |-> {204, 401}, me |-> {200, 401},
   sessions |-> {200, 401}, revoke_all |-> {204, 401},
   revoke_session |-> {204, 401, 403, 404}, change_password |-> {204, 400, 401}]

Members ==
  [sign_up |-> {"username", "email", "phone", "password"},
   sign_in |-> {"username", "email", "phone", "password"},
   verify_email |-> {"email", "code"}, resend |-> {"email"},
   reset_request |-> {"email"},
   reset_confirm |-> {"email", "token", "new_password"}]

\* The lengths on both sides of every limit.
TextsOf(member) ==
  LET Text(n, at, digits) ==
        [kind |-> "string", len |-> n, at |-> at, digits |-> digits]
  IN  {NotString, Null} \cup
      (CASE member = "email" -> {Text(n, at, FALSE) : n \in {0, 3, 320, 321}, at \in BOOLEAN}
         [] member = "code"  -> {Text(n, FALSE, digits) : n \in {0, 5, 6, 7}, digits \in BOOLEAN}
         [] member = "token" -> {Text(n, FALSE, FALSE) : n \in {0, 1, 512, 513}}
         [] OTHER            -> {Text(8, FALSE, FALSE)})

\* Every body made of these texts and of no others.
Bodies(endpoint) ==
  UNION {{body \in [sent -> UNION {TextsOf(member) : member \in sent}] :
            \A member \in sent : body[member] \in TextsOf(member)} :
         sent \in SUBSET Members[endpoint]}

\* The schema of the endpoint's body allows it.
Conforms(endpoint, body) ==
  LET required == CASE endpoint = "sign_up" -> {"username", "password"}
                    [] endpoint = "sign_in" -> {"password"}
                    [] OTHER -> Members[endpoint]
      contacts == CASE endpoint = "sign_up" -> {"email", "phone"}
                    [] endpoint = "sign_in" -> {"email", "phone", "username"}
                    [] OTHER -> {"email"}
  IN  /\ required \subseteq DOMAIN body /\ contacts \cap DOMAIN body # {}
      /\ \A member \in DOMAIN body : LET text == body[member] IN
           /\ IsString(text)
           /\ member = "email" => text.at /\ text.len \in 1..320
           /\ member = "code"  => text.digits /\ text.len = 6
           /\ member = "token" => text.len \in 1..512

\* The answers of the handlers here, whatever the body and the outcome.
AnswersFollowTheDocument ==
  \A endpoint \in DOMAIN Members : \A body \in Bodies(endpoint) :
    \A outcome \in {Success} \cup Throws[endpoint] :
      Handler(endpoint, body, outcome) \in Documented[endpoint]

BodiesFollowTheDocument ==
  \A endpoint \in DOMAIN Members : \A body \in Bodies(endpoint) :
    Conforms(endpoint, body) => Handler(endpoint, body, Success) # BadRequest
=============================================================================
