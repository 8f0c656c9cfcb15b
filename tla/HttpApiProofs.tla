---------------------------- MODULE HttpApiProofs ---------------------------
(***************************************************************************)
(* Proofs about HttpApi: the tokens browsers hold are those of the store,  *)
(* no two browsers hold tokens of one family, a spent cookie stays only by *)
(* the loss of an answer, a request is let in only with the right token,   *)
(* and every answer but a server error is a documented one.                *)
(*                                                                         *)
(* Every step is of one of three kinds: the message of a tab changes and   *)
(* perhaps sessions end; a session is issued and its tokens are put into   *)
(* an answer; a browser takes in an answer.  The inductive invariant is    *)
(* shown once for each kind.                                               *)
(***************************************************************************)
EXTENDS HttpApi, TLAPS

(* The inductive invariant.                                                *)

AccessToken ==
  [key : Keys, sub : Users, sid : SessionIds, fam : {NoClaim}, type : {"access"}, exp : Nat]

RefreshToken ==
  [key : Keys, sub : Users, sid : SessionIds, fam : SessionIds, type : {"refresh"}, exp : Nat]

Issued(s) == s \in SessionIds /\ book[s] # None

SameFamily(s, r) == book[s].family = book[r].family

\* x is the refresh token, or an access token, of an issued session.
IsRefresh(x) == Issued(x.sid) /\ x = row[x.sid].hash

IsAccess(x) == x \in AccessToken /\ Issued(x.sid) /\ book[x.sid].user = x.sub

\* The answer to tab t sets the refresh token of session s; its request asks
\* to refresh with it.
Carries(t, s) == wire[t].stage = "answer" /\ wire[t].cookie = row[s].hash

Asks(t, s) == wire[t].stage = "sent" /\ wire[t].token = row[s].hash

HasCookie(j, s) == jar[j].cookie = row[s].hash

\* Browser j has the token of s, is about to have it, or has just sent it.
Has(j, s) ==
  \/ HasCookie(j, s)
  \/ \E t \in Tabs : jarOf[t] = j /\ (Carries(t, s) \/ Asks(t, s))

StateOK ==
  /\ now \in Nat /\ key \in Keys
  /\ book \in [SessionIds -> Store!Token \cup {None}]
  /\ DOMAIN row = SessionIds
  /\ jarOf \in [Tabs -> Jars]
  /\ DOMAIN jar = Jars /\ DOMAIN wire = Tabs

\* The row of a session holds its refresh token.
RowsOK ==
  \A s \in SessionIds : Issued(s) =>
    /\ row[s].expiresAt \in Nat
    /\ row[s].hash \in RefreshToken
    /\ row[s].hash.sid = s
    /\ row[s].hash.fam = book[s].family
    /\ row[s].hash.sub = book[s].user

JarsOK ==
  \A j \in Jars :
    /\ jar[j].cookie = None \/ IsRefresh(jar[j].cookie)
    /\ jar[j].access = None \/ IsAccess(jar[j].access)

\* An answer carries both tokens of one session, or neither.
AnswerOK(m) ==
  /\ m.documented <=> ~m.fault
  /\ \/ m.cookie \in {KeepCookie, ClearCookie} /\ m.access = None
     \/ IsRefresh(m.cookie) /\ IsAccess(m.access) /\ m.access.sid = m.cookie.sid

MessageOK(m) ==
  /\ m.stage = "sent"   => m.token = None \/ IsRefresh(m.token) \/ IsAccess(m.token)
  /\ m.stage = "authed" => /\ m.endpoint \in BearerEndpoints
                           /\ IsAccess(m.token)
  /\ m.stage = "answer" => AnswerOK(m)

WireOK == \A t \in Tabs : MessageOK(wire[t])

\* A family has at most one good session.
OneGood ==
  \A s, n \in SessionIds : Store!Good(s) /\ Store!Good(n) /\ SameFamily(s, n) => s = n

\* A token that is still on its way has been seen by no browser, and so no
\* other session of its family is good: the last one is the one on its way.
UnseenIsLast ==
  \A t \in Tabs, s \in SessionIds : Issued(s) /\ Carries(t, s) =>
    /\ \A j \in Jars : ~HasCookie(j, s)
    /\ \A u \in Tabs : ~Asks(u, s) /\ (Carries(u, s) => u = t)
    /\ \A n \in SessionIds : Store!Good(n) /\ SameFamily(s, n) => n = s

\* A family stays with the browser that signed in.
OneHolder ==
  \A i, j \in Jars, s, n \in SessionIds :
    Issued(s) /\ Issued(n) /\ Has(i, s) /\ Has(j, n) /\ SameFamily(s, n) => i = j

SpentByLoss ==
  \A j \in Jars, s, n \in SessionIds :
    Issued(s) /\ HasCookie(j, s) /\ Store!Good(n) /\ n # s /\ SameFamily(s, n) =>
      n \in lost \/ \E t \in Tabs : jarOf[t] = j /\ Carries(t, n)

IInv ==
  /\ StateOK /\ RowsOK /\ JarsOK /\ WireOK
  /\ OneGood /\ UnseenIsLast /\ OneHolder /\ SpentByLoss
-----------------------------------------------------------------------------
(* The mapper of exceptions.                                               *)

Class(i) == AuthErrorTable[i][1]

Code(i) == AuthErrorTable[i][2]

\* The answer is the status of the first class of the table the exception is
\* an instance of (TryMapAuthError).
LEMMA FirstHit ==
  ASSUME NEW error, NEW i \in 1..25, Class(i) \in Bases(error),
         \A j \in 1..25 : j < i => Class(j) \notin Bases(error)
  PROVE  AuthErrorResponse(error) = Code(i)
<1> DEFINE hits == {k \in DOMAIN AuthErrorTable : AuthErrorTable[k][1] \in Bases(error)}
<1>1. DOMAIN AuthErrorTable = 1..25
  BY DEF AuthErrorTable
<1>2. i \in hits /\ \A j \in hits : i <= j
  BY <1>1 DEF Class
<1>3. \A k \in hits : (\A j \in hits : k <= j) => k = i
  BY <1>1, <1>2
<1>4. (CHOOSE k \in hits : \A j \in hits : k <= j) = i
  BY <1>2, <1>3
<1> QED
  BY <1>2, <1>4, ZenonT(60) DEF AuthErrorResponse, Code

\* The classes of the table are told apart.
LEMMA ClassesDiffer ==
  \A i, j \in 1..25 : Class(i) = Class(j) => i = j
  BY DEF AuthErrorTable, Class

\* The entries of the base classes.
LEMMA BaseEntries ==
  /\ Class(14) = "VerifyEmailError" /\ Code(14) = 400
  /\ Class(22) = "AccessTokenError" /\ Code(22) = 401
  /\ Class(25) = "RefreshError" /\ Code(25) = 401
  BY DEF AuthErrorTable, Class, Code

\* An exception that the table names comes before its base class.
LEMMA EntryBases ==
  ASSUME NEW i \in 1..25
  PROVE  \/ Bases(Class(i)) = {Class(i)}
         \/ Bases(Class(i)) = {Class(i), Class(14)} /\ i < 14
         \/ Bases(Class(i)) = {Class(i), Class(22)} /\ i < 22
<1>1. Class(i) \in VerifyEmailErrors => i < 14
  BY DEF AuthErrorTable, VerifyEmailErrors, Class
<1>2. Class(i) \in AccessTokenErrors => i < 22
  BY DEF AuthErrorTable, AccessTokenErrors, Class
<1>3. Class(i) \notin RefreshErrors
  BY DEF AuthErrorTable, RefreshErrors, Class
<1> QED
  BY <1>1, <1>2, <1>3, BaseEntries DEF Bases

\* An exception the table names is answered with the status beside it.
LEMMA NamedErrors ==
  ASSUME NEW i \in 1..25
  PROVE  AuthErrorResponse(Class(i)) = Code(i)
<1>1. Class(i) \in Bases(Class(i))
  BY EntryBases
<1>2. ASSUME NEW j \in 1..25, j < i
      PROVE  Class(j) \notin Bases(Class(i))
  <2>1. Class(j) # Class(i)
    BY <1>2, ClassesDiffer
  <2>2. i < 14 => Class(j) # Class(14)
    BY <1>2, ClassesDiffer
  <2>3. i < 22 => Class(j) # Class(22)
    BY <1>2, ClassesDiffer
  <2> QED
    BY <2>1, <2>2, <2>3, EntryBases
<1> QED
  BY <1>1, <1>2, FirstHit

\* One it does not name is answered with the status of its base class.
LEMMA DerivedErrors ==
  ASSUME NEW error, NEW i \in 1..25, Bases(error) = {error, Class(i)},
         \A j \in 1..25 : Class(j) # error
  PROVE  AuthErrorResponse(error) = Code(i)
<1>1. ASSUME NEW j \in 1..25, j < i
      PROVE  Class(j) \notin Bases(error)
  BY <1>1, ClassesDiffer
<1> QED
  BY <1>1, FirstHit

\* Whatever AuthenticateAccessToken throws is answered with 401.
LEMMA AccessStatus ==
  ASSUME NEW error \in AccessTokenErrors
  PROVE  AuthErrorResponse(error) = 401
<1>1. CASE error = "MissingAccessToken"
  <2>1. Class(19) = error /\ Code(19) = 401
    BY <1>1 DEF AuthErrorTable, Class, Code
  <2>2. AuthErrorResponse(Class(19)) = Code(19)
    BY NamedErrors
  <2> QED
    BY <2>1, <2>2
<1>2. CASE error # "MissingAccessToken"
  <2>1. Bases(error) = {error, Class(22)}
    BY BaseEntries DEF Bases, AccessTokenErrors, VerifyEmailErrors, RefreshErrors
  <2>2. \A j \in 1..25 : Class(j) # error
    BY <1>2 DEF AuthErrorTable, AccessTokenErrors, Class
  <2>3. 22 \in 1..25
    OBVIOUS
  <2>4. AuthErrorResponse(error) = Code(22)
    BY <2>1, <2>2, <2>3, DerivedErrors, Zenon
  <2> QED
    BY <2>4, BaseEntries
<1> QED
  BY <1>1, <1>2

\* Whatever Refresh throws is answered with 401.
LEMMA RefreshStatus ==
  ASSUME NEW error \in RefreshErrors
  PROVE  AuthErrorResponse(error) = 401
<1>1. Bases(error) = {error, Class(25)}
  BY BaseEntries DEF Bases, AccessTokenErrors, VerifyEmailErrors, RefreshErrors
<1>2. \A j \in 1..25 : Class(j) # error
  BY DEF AuthErrorTable, RefreshErrors, Class
<1>3. 25 \in 1..25
  OBVIOUS
<1>4. AuthErrorResponse(error) = Code(25)
  BY <1>1, <1>2, <1>3, DerivedErrors, Zenon
<1> QED
  BY <1>4, BaseEntries

\* AlreadyVerified would be a 400, were it not caught before.
LEMMA VerifyStatus ==
  ASSUME NEW error \in VerifyEmailErrors
  PROVE  AuthErrorResponse(error) \in {400, 404, 410, 429}
<1>1. CASE error = "AlreadyVerified"
  <2>1. Bases(error) = {error, Class(14)}
    BY BaseEntries DEF Bases, AccessTokenErrors, VerifyEmailErrors, RefreshErrors
  <2>2. \A j \in 1..25 : Class(j) # error
    BY <1>1 DEF AuthErrorTable, Class
  <2>3. 14 \in 1..25
    OBVIOUS
  <2>4. AuthErrorResponse(error) = Code(14)
    BY <2>1, <2>2, <2>3, DerivedErrors, Zenon
  <2> QED
    BY <2>4, BaseEntries
<1>2. CASE error # "AlreadyVerified"
  <2>1. PICK i \in 10..13 : error = Class(i)
    BY <1>2 DEF AuthErrorTable, VerifyEmailErrors, Class
  <2>2. Code(i) \in {400, 404, 410, 429}
    BY DEF AuthErrorTable, Code
  <2> QED
    BY <2>1, <2>2, NamedErrors
<1> QED
  BY <1>1, <1>2

\* The exceptions of sign-up, sign-in, the resets and a change of password,
\* and those of RevokeSession.
LEMMA NamedStatus ==
  /\ \A error \in SignUpErrors : AuthErrorResponse(error) \in {400, 409, 429}
  /\ \A error \in SignInErrors : AuthErrorResponse(error) \in {400, 401, 403, 429}
  /\ \A error \in PasswordResetErrors : AuthErrorResponse(error) \in {400, 410, 429}
  /\ \A error \in ChangePasswordErrors : AuthErrorResponse(error) \in {400, 401}
  /\ AuthErrorResponse("SessionForbidden") = 403
  /\ AuthErrorResponse("SessionNotFound") = 404
<1>1. ASSUME NEW error \in SignUpErrors PROVE AuthErrorResponse(error) \in {400, 409, 429}
  <2>1. PICK i \in 1..5 : error = Class(i)
    BY DEF AuthErrorTable, SignUpErrors, Class
  <2>2. Code(i) \in {400, 409, 429}
    BY DEF AuthErrorTable, Code
  <2> QED
    BY <2>1, <2>2, NamedErrors
<1>2. ASSUME NEW error \in SignInErrors PROVE AuthErrorResponse(error) \in {400, 401, 403, 429}
  <2>1. PICK i \in 6..9 : error = Class(i)
    BY DEF AuthErrorTable, SignInErrors, Class
  <2>2. Code(i) \in {400, 401, 403, 429}
    BY DEF AuthErrorTable, Code
  <2> QED
    BY <2>1, <2>2, NamedErrors
<1>3. ASSUME NEW error \in PasswordResetErrors PROVE AuthErrorResponse(error) \in {400, 410, 429}
  <2>1. PICK i \in 15..18 : error = Class(i)
    BY DEF AuthErrorTable, PasswordResetErrors, Class
  <2>2. Code(i) \in {400, 410, 429}
    BY DEF AuthErrorTable, Code
  <2> QED
    BY <2>1, <2>2, NamedErrors
<1>4. ASSUME NEW error \in ChangePasswordErrors PROVE AuthErrorResponse(error) \in {400, 401}
  <2>1. PICK i \in 20..21 : error = Class(i)
    BY DEF AuthErrorTable, ChangePasswordErrors, Class
  <2>2. Code(i) \in {400, 401}
    BY DEF AuthErrorTable, Code
  <2> QED
    BY <2>1, <2>2, NamedErrors
<1>5. /\ Class(23) = "SessionForbidden" /\ Code(23) = 403
      /\ Class(24) = "SessionNotFound" /\ Code(24) = 404
  BY DEF AuthErrorTable, Class, Code
<1>6. AuthErrorResponse("SessionForbidden") = 403 /\ AuthErrorResponse("SessionNotFound") = 404
  BY <1>5, NamedErrors
<1> QED
  BY <1>1, <1>2, <1>3, <1>4, <1>6

\* Too many attempts are a 429.
LEMMA TooManyStatus ==
  /\ AuthErrorResponse("TooManyVerificationAttempts") = 429
  /\ AuthErrorResponse("TooManyPasswordResetAttempts") = 429
<1>1. /\ Class(12) = "TooManyVerificationAttempts" /\ Code(12) = 429
      /\ Class(16) = "TooManyPasswordResetAttempts" /\ Code(16) = 429
  BY DEF AuthErrorTable, Class, Code
<1> QED
  BY <1>1, NamedErrors
-----------------------------------------------------------------------------
(* The handlers that take a body.                                          *)

\* The six endpoints whose requests have a body.
LEMMA BodyEndpoints ==
  DOMAIN Members =
    {"sign_up", "sign_in", "verify_email", "resend", "reset_request", "reset_confirm"}
  BY DEF Members

\* A handler that takes a body answers with a status the document lists,
\* whatever the body and whatever the service throws.
LEMMA HandlersFollowTheDocument ==
  ASSUME NEW endpoint \in DOMAIN Members, NEW body,
         NEW outcome \in {Success} \cup Throws[endpoint]
  PROVE  Handler(endpoint, body, outcome) \in Documented[endpoint]
<1>1. CASE endpoint = "sign_up"
  <2>1. Handler(endpoint, body, outcome) = SignUpHandler(body, outcome)
    BY <1>1 DEF Handler
  <2>2. outcome = Success \/ outcome \in SignUpErrors
    BY <1>1 DEF Throws
  <2>3. Documented[endpoint] = {201, 400, 409, 429}
    BY <1>1 DEF Documented
  <2>4. QED
    BY <2>1, <2>2, <2>3, NamedStatus DEF SignUpHandler, Answer, BadRequest
<1>2. CASE endpoint = "sign_in"
  <2>1. Handler(endpoint, body, outcome) = SignInHandler(body, outcome)
    BY <1>2 DEF Handler
  <2>2. outcome = Success \/ outcome \in SignInErrors
    BY <1>2 DEF Throws
  <2>3. Documented[endpoint] = {200, 400, 401, 403, 429}
    BY <1>2 DEF Documented
  <2>4. QED
    BY <2>1, <2>2, <2>3, NamedStatus DEF SignInHandler, Answer, BadRequest
<1>3. CASE endpoint = "verify_email"
  <2>1. Handler(endpoint, body, outcome) = VerifyEmailHandler(body, outcome)
    BY <1>3 DEF Handler
  <2>2. outcome = Success \/ outcome \in VerifyEmailErrors
    BY <1>3 DEF Throws
  <2>3. Documented[endpoint] = {204, 400, 404, 410, 429}
    BY <1>3 DEF Documented
  <2>4. QED
    BY <2>1, <2>2, <2>3, VerifyStatus DEF VerifyEmailHandler, Answer, BadRequest
<1>4. CASE endpoint = "resend"
  <2>1. Handler(endpoint, body, outcome) = ResendEmailVerificationHandler(body, outcome)
    BY <1>4 DEF Handler
  <2>2. outcome = Success \/ outcome \in {"TooManyVerificationAttempts"}
    BY <1>4 DEF Throws
  <2>3. Documented[endpoint] = {204, 400, 429}
    BY <1>4 DEF Documented
  <2>4. QED
    BY <2>1, <2>2, <2>3, TooManyStatus DEF ResendEmailVerificationHandler, Answer, BadRequest
<1>5. CASE endpoint = "reset_request"
  <2>1. Handler(endpoint, body, outcome) = PasswordResetRequestHandler(body, outcome)
    BY <1>5 DEF Handler
  <2>2. outcome = Success \/ outcome \in {"TooManyPasswordResetAttempts"}
    BY <1>5 DEF Throws
  <2>3. Documented[endpoint] = {204, 400, 429}
    BY <1>5 DEF Documented
  <2>4. QED
    BY <2>1, <2>2, <2>3, TooManyStatus DEF PasswordResetRequestHandler, Answer, BadRequest
<1>6. CASE endpoint = "reset_confirm"
  <2>1. Handler(endpoint, body, outcome) = PasswordResetConfirmHandler(body, outcome)
    BY <1>6 DEF Handler
  <2>2. outcome = Success \/ outcome \in PasswordResetErrors
    BY <1>6 DEF Throws
  <2>3. Documented[endpoint] = {204, 400, 410, 429}
    BY <1>6 DEF Documented
  <2>4. QED
    BY <2>1, <2>2, <2>3, NamedStatus DEF PasswordResetConfirmHandler, Answer, BadRequest
<1> QED
  BY <1>1, <1>2, <1>3, <1>4, <1>5, <1>6, BodyEndpoints

\* A handler lets through to the service every body the schema allows.
LEMMA HandlersAcceptWhatConforms ==
  ASSUME NEW endpoint \in DOMAIN Members, NEW body, Conforms(endpoint, body)
  PROVE  Handler(endpoint, body, Success) # BadRequest
<1>1. CASE endpoint = "sign_up"
  BY <1>1 DEF Conforms, Handler, SignUpHandler, SignUpFromJson, Answer, BadRequest, IsString
<1>2. CASE endpoint = "sign_in"
  BY <1>2 DEF Conforms, Handler, SignInHandler, SignInParses, Answer, BadRequest, GetString, IsString, NotString
<1>3. CASE endpoint = "verify_email"
  BY <1>3 DEF Conforms, Handler, Members, VerifyEmailHandler, IsValidEmailShape, kVerificationCodeLength,
            Answer, BadRequest, GetString, IsString, NotString
<1>4. CASE endpoint = "resend"
  BY <1>4 DEF Conforms, Handler, Members, ResendEmailVerificationHandler, IsValidEmailShape,
            Answer, BadRequest, GetString, IsString, NotString
<1>5. CASE endpoint = "reset_request"
  BY <1>5 DEF Conforms, Handler, Members, PasswordResetRequestHandler, IsValidEmailShape,
            Answer, BadRequest, GetString, IsString, NotString
<1>6. CASE endpoint = "reset_confirm"
  BY <1>6 DEF Conforms, Handler, Members, PasswordResetConfirmHandler, IsValidEmailShape,
            Answer, BadRequest, GetString, IsString, NotString
<1> QED
  BY <1>1, <1>2, <1>3, <1>4, <1>5, <1>6, BodyEndpoints
-----------------------------------------------------------------------------
(* The kinds of steps.                                                     *)

\* Of the messages only that of tab t changes.
OnlyTab(t) == DOMAIN wire' = Tabs /\ \A u \in Tabs : u # t => wire'[u] = wire[u]

\* Session s keeps its user and its family, and is not made good again.
Stays(s) ==
  /\ book'[s] = None <=> book[s] = None
  /\ book[s] # None => /\ book'[s].user = book[s].user
                       /\ book'[s].family = book[s].family
                       /\ book'[s].good => book[s].good

ClockStep == now' \in Nat /\ key' \in Keys

BookStep == book' \in [SessionIds -> Store!Token \cup {None}]

\* No token is issued: the message of t changes, and sessions may end.
MessageStep(t) ==
  /\ ClockStep /\ BookStep /\ OnlyTab(t)
  /\ \A s \in SessionIds : Stays(s)
  /\ UNCHANGED <<row, jar, jarOf>>
  /\ MessageOK(wire'[t])
  /\ wire'[t].stage = "answer" => wire'[t].cookie \in {KeepCookie, ClearCookie}
  /\ wire'[t].stage = "sent" =>
       wire'[t].token \in {None, jar[jarOf[t]].cookie, jar[jarOf[t]].access}
  /\ lost \subseteq lost'
  /\ \A s \in SessionIds : Issued(s) /\ Carries(t, s) => s \in lost'

\* Session s of family f is issued in the place of a good one that t asked to
\* refresh, or in a new family, and the answer to t carries its tokens.
IssueStep(t, s, f) ==
  /\ ClockStep /\ BookStep /\ OnlyTab(t)
  /\ book[s] = None /\ book'[s] # None /\ book'[s].family = f
  /\ \A o \in SessionIds : o # s => Stays(o) /\ row'[o] = row[o]
  /\ DOMAIN row' = SessionIds
  /\ row'[s].expiresAt \in Nat
  /\ row'[s].hash \in RefreshToken
  /\ row'[s].hash.sid = s /\ row'[s].hash.fam = f /\ row'[s].hash.sub = book'[s].user
  /\ wire[t].stage # "answer" /\ wire'[t].stage = "answer" /\ wire'[t].documented /\ ~wire'[t].fault
  /\ wire'[t].cookie = row'[s].hash
  /\ wire'[t].access \in AccessToken
  /\ wire'[t].access.sid = s /\ wire'[t].access.sub = book'[s].user
  /\ UNCHANGED <<jar, jarOf, lost>>
  /\ \/ \A o \in SessionIds : Issued(o) => book[o].family # f
     \/ \E old \in SessionIds : /\ Store!Good(old) /\ Asks(t, old)
                                /\ book[old].family = f /\ ~book'[old].good

\* The browser of t takes in the answer to t.
ReceiveStep(t) ==
  /\ ClockStep /\ OnlyTab(t)
  /\ wire[t].stage = "answer" /\ wire'[t] = Nothing
  /\ DOMAIN jar' = Jars
  /\ \A j \in Jars : j # jarOf[t] => jar'[j] = jar[j]
  /\ jar'[jarOf[t]].cookie = CASE wire[t].cookie = ClearCookie -> None
                                [] wire[t].cookie = KeepCookie -> jar[jarOf[t]].cookie
                                [] OTHER -> wire[t].cookie
  /\ jar'[jarOf[t]].access \in {jar[jarOf[t]].access, wire[t].access}
  /\ UNCHANGED <<book, row, jarOf, lost>>

\* What no step undoes: an issued session stays issued, to the same user, in
\* the same family and with the same row.
Kept ==
  \A s \in SessionIds : Issued(s) => Issued(s)' /\ Stays(s) /\ row'[s] = row[s]

\* No token is None or stands for "keep" or "clear".
LEMMA TokensAreReal ==
  ASSUME NEW x \in AccessToken \cup RefreshToken
  PROVE  x \notin {None, KeepCookie, ClearCookie}
<1>1. x \in JsonWebToken
  BY DEF AccessToken, RefreshToken, JsonWebToken
<1> QED
  BY <1>1, AbsentAssumption

\* The refresh token of a session is that of no other, and no access token.
LEMMA RefreshTokensAreReal ==
  ASSUME RowsOK, NEW s \in SessionIds, Issued(s)
  PROVE  /\ row[s].hash \notin {None, KeepCookie, ClearCookie}
         /\ row[s].hash \notin AccessToken
         /\ IsRefresh(row[s].hash)
         /\ \A n \in SessionIds : Issued(n) /\ row[n].hash = row[s].hash => n = s
<1>1. row[s].hash \in RefreshToken /\ row[s].hash.sid = s
  BY DEF RowsOK
<1>2. row[s].hash \notin {None, KeepCookie, ClearCookie}
  BY <1>1, TokensAreReal
<1>3. row[s].hash \notin AccessToken
  BY <1>1 DEF RefreshToken, AccessToken
<1>4. \A n \in SessionIds : Issued(n) /\ row[n].hash = row[s].hash => n = s
  BY <1>1 DEF RowsOK
<1> QED
  BY <1>1, <1>2, <1>3, <1>4 DEF IsRefresh

\* A token stays what it is.
LEMMA KeptTokens ==
  ASSUME Kept, NEW x
  PROVE  /\ IsRefresh(x) => IsRefresh(x)'
         /\ IsAccess(x) => IsAccess(x)'
  BY DEF Kept, IsRefresh, IsAccess, Issued, Stays

\* A message stays right.
LEMMA KeptMessages ==
  ASSUME Kept, NEW m, MessageOK(m)
  PROVE  MessageOK(m)'
  BY KeptTokens DEF MessageOK, AnswerOK
-----------------------------------------------------------------------------
(* A step that issues no token keeps the invariant: what browsers hold can *)
(* only become less.                                                       *)

\* A step that changes one message and issues no token keeps the invariant.
LEMMA MessageStepKeeps ==
  ASSUME IInv, NEW t \in Tabs, MessageStep(t)
  PROVE  IInv'
<1>1. Kept
  BY DEF MessageStep, Kept, Issued, Stays
<1>2. StateOK'
  BY DEF IInv, StateOK, MessageStep, ClockStep, BookStep, OnlyTab
<1>3. RowsOK'
  BY <1>1 DEF IInv, RowsOK, MessageStep, Kept, Issued, Stays
<1>4. JarsOK'
  BY <1>1, KeptTokens DEF IInv, JarsOK, MessageStep
<1>5. WireOK'
  <2> SUFFICES ASSUME NEW u \in Tabs PROVE MessageOK(wire[u])'
    BY DEF WireOK
  <2>1. MessageOK(wire'[u])
    BY DEF IInv, WireOK, MessageStep, OnlyTab
  <2> QED
    BY <2>1, <1>1, KeptMessages
<1>6. ASSUME NEW s \in SessionIds, Issued(s)'
      PROVE  /\ Issued(s)
             /\ Store!Good(s)' => Store!Good(s)
             /\ \A j \in Jars : HasCookie(j, s)' <=> HasCookie(j, s)
             /\ \A u \in Tabs : Carries(u, s)' => u # t /\ Carries(u, s)
             /\ \A u \in Tabs : u # t /\ Carries(u, s) => Carries(u, s)'
             /\ \A u \in Tabs : Asks(u, s)' => Asks(u, s) \/ HasCookie(jarOf[u], s)
             /\ \A j \in Jars : Has(j, s)' => Has(j, s)
  <2>1. Issued(s)
    BY <1>6 DEF MessageStep, Stays, Issued
  <2>2. Store!Good(s)' => Store!Good(s)
    BY DEF MessageStep, Stays, Store!Good
  <2>3. \A j \in Jars : HasCookie(j, s)' <=> HasCookie(j, s)
    BY DEF MessageStep, HasCookie
  <2>4. row'[s].hash = row[s].hash /\ row[s].hash \notin {None, KeepCookie, ClearCookie}
        /\ row[s].hash \notin AccessToken
    BY <2>1, RefreshTokensAreReal DEF IInv, MessageStep
  <2>5. \A u \in Tabs : Carries(u, s)' => u # t /\ Carries(u, s)
    BY <2>4 DEF MessageStep, OnlyTab, Carries
  <2>6. \A u \in Tabs : u # t /\ Carries(u, s) => Carries(u, s)'
    BY <2>4 DEF MessageStep, OnlyTab, Carries
  <2>7. jar[jarOf[t]].access # row[s].hash
    BY <2>4 DEF IInv, StateOK, JarsOK, IsAccess
  <2>8. \A u \in Tabs : Asks(u, s)' => Asks(u, s) \/ HasCookie(jarOf[u], s)
    BY <2>4, <2>7 DEF MessageStep, OnlyTab, Asks, HasCookie
  <2>9. jarOf' = jarOf
    BY DEF MessageStep
  <2>10. \A j \in Jars : Has(j, s)' => Has(j, s)
    BY <2>3, <2>5, <2>8, <2>9 DEF Has
  <2> QED
    BY <2>1, <2>2, <2>3, <2>5, <2>6, <2>8, <2>10
<1>7. ASSUME NEW s \in SessionIds, NEW n \in SessionIds, Issued(s)', Issued(n)'
      PROVE  SameFamily(s, n)' <=> SameFamily(s, n)
  BY <1>7, <1>6 DEF MessageStep, Stays, SameFamily, Issued
<1>8. \A s \in SessionIds : Store!Good(s)' => Issued(s)'
  BY DEF Store!Good, Issued
<1>9. OneGood'
  BY <1>6, <1>7, <1>8 DEF IInv, OneGood
<1>10. UnseenIsLast'
  <2> SUFFICES ASSUME NEW u \in Tabs, NEW s \in SessionIds, Issued(s)', Carries(u, s)'
               PROVE  /\ \A j \in Jars : ~HasCookie(j, s)'
                      /\ \A v \in Tabs : ~Asks(v, s)' /\ (Carries(v, s)' => v = u)
                      /\ \A n \in SessionIds : Store!Good(n)' /\ SameFamily(s, n)' => n = s
    BY DEF UnseenIsLast
  <2>1. Issued(s) /\ Carries(u, s)
    BY <1>6
  <2>2. /\ \A j \in Jars : ~HasCookie(j, s)
        /\ \A v \in Tabs : ~Asks(v, s) /\ (Carries(v, s) => v = u)
        /\ \A n \in SessionIds : Store!Good(n) /\ SameFamily(s, n) => n = s
    BY <2>1 DEF IInv, UnseenIsLast
  <2>3. \A v \in Tabs : jarOf[v] \in Jars
    BY DEF IInv, StateOK
  <2>4. \A v \in Tabs : ~Asks(v, s)' /\ (Carries(v, s)' => v = u)
    BY <2>2, <2>3, <1>6
  <2>5. \A n \in SessionIds : Store!Good(n)' /\ SameFamily(s, n)' => n = s
    BY <2>2, <1>6, <1>7, <1>8
  <2> QED
    BY <2>2, <2>4, <2>5, <1>6
<1>11. OneHolder'
  BY <1>6, <1>7 DEF IInv, OneHolder
<1>12. SpentByLoss'
  <2> SUFFICES ASSUME NEW j \in Jars, NEW s \in SessionIds, NEW n \in SessionIds,
                      Issued(s)', HasCookie(j, s)', Store!Good(n)', n # s, SameFamily(s, n)'
               PROVE  n \in lost' \/ \E u \in Tabs : jarOf'[u] = j /\ Carries(u, n)'
    BY DEF SpentByLoss
  <2>1. Issued(n)' /\ Issued(n)
    BY <1>6, <1>8
  <2>2. n \in lost \/ \E u \in Tabs : jarOf[u] = j /\ Carries(u, n)
    BY <2>1, <1>6, <1>7 DEF IInv, SpentByLoss
  <2>3. ASSUME NEW u \in Tabs, jarOf[u] = j, Carries(u, n)
        PROVE  n \in lost' \/ (jarOf'[u] = j /\ Carries(u, n)')
    <3>1. CASE u = t
      <4>1. Carries(t, n)
        BY <3>1, <2>3, ZenonT(60)
      <4> QED
        BY <4>1, <2>1 DEF MessageStep
    <3>2. CASE u # t
      BY <3>2, <2>1, <2>3, <1>6 DEF MessageStep
    <3> QED
      BY <3>1, <3>2
  <2> QED
    BY <2>2, <2>3 DEF MessageStep
<1> QED
  BY <1>2, <1>3, <1>4, <1>5, <1>9, <1>10, <1>11, <1>12 DEF IInv
-----------------------------------------------------------------------------
(* A step that issues a token keeps the invariant: the token is new, and   *)
(* its family is new or that of the browser that asked.                    *)

\* A step that issues the tokens of a new session keeps the invariant.
LEMMA IssueStepKeeps ==
  ASSUME IInv, NEW t \in Tabs, NEW s \in SessionIds, NEW f, IssueStep(t, s, f)
  PROVE  IInv'
<1>1. ~Issued(s) /\ Issued(s)'
  BY DEF IssueStep, Issued
<1>2. Kept
  BY <1>1 DEF IssueStep, Kept, Issued, Stays
<1>3. StateOK'
  BY ZenonT(60) DEF IInv, StateOK, IssueStep, ClockStep, BookStep, OnlyTab
<1>4. RowsOK'
  BY DEF IInv, RowsOK, IssueStep, Issued, Stays
<1>5. JarsOK'
  BY <1>2, KeptTokens, Zenon DEF IInv, JarsOK, IssueStep
<1>6. row'[s].hash \notin {None, KeepCookie, ClearCookie} /\ row'[s].hash \notin AccessToken
  BY TokensAreReal, Zenon DEF IssueStep, RefreshToken, AccessToken
<1>7. WireOK'
  <2> SUFFICES ASSUME NEW u \in Tabs PROVE MessageOK(wire[u])'
    BY DEF WireOK
  <2>1. CASE u # t
    BY <2>1, <1>2, KeptMessages, ZenonT(60) DEF IInv, WireOK, IssueStep, OnlyTab
  <2>2. CASE u = t
    <3>1. IsRefresh(wire[t].cookie)' /\ IsAccess(wire[t].access)'
      BY <1>1, ZenonT(60) DEF IssueStep, IsRefresh, IsAccess
    <3> QED
      BY <2>2, <3>1, ZenonT(60) DEF IssueStep, MessageOK, AnswerOK
  <2> QED
    BY <2>1, <2>2
<1>8. ASSUME NEW o \in SessionIds, o # s, Issued(o)'
      PROVE  /\ Issued(o)
             /\ Store!Good(o)' => Store!Good(o)
             /\ book'[o].family = book[o].family
             /\ \A j \in Jars : HasCookie(j, o)' <=> HasCookie(j, o)
             /\ \A u \in Tabs : Carries(u, o)' <=> Carries(u, o)
             /\ \A u \in Tabs : Asks(u, o)' => Asks(u, o)
             /\ \A j \in Jars : Has(j, o)' => Has(j, o)
  <2>1. Issued(o) /\ book'[o].family = book[o].family
    BY <1>8, ZenonT(60) DEF IssueStep, Issued, Stays
  <2>2. Store!Good(o)' => Store!Good(o)
    BY <1>8, ZenonT(60) DEF IssueStep, Store!Good, Stays
  <2>3. row'[o].hash = row[o].hash /\ row[o].hash # row'[s].hash
    BY <2>1, <1>8 DEF IssueStep, IInv, RowsOK
  <2>4. \A j \in Jars : HasCookie(j, o)' <=> HasCookie(j, o)
    BY <2>3, Zenon DEF IssueStep, HasCookie
  <2>5. \A u \in Tabs : Carries(u, o)' <=> Carries(u, o)
    BY <2>3 DEF IssueStep, OnlyTab, Carries
  <2>6. \A u \in Tabs : Asks(u, o)' => Asks(u, o)
    BY <2>3 DEF IssueStep, OnlyTab, Asks
  <2>7. \A j \in Jars : Has(j, o)' => Has(j, o)
    BY <2>4, <2>5, <2>6, Zenon DEF IssueStep, Has
  <2> QED
    BY <2>1, <2>2, <2>4, <2>5, <2>6, <2>7
<1>9. /\ \A j \in Jars : ~HasCookie(j, s)'
      /\ Carries(t, s)' /\ \A u \in Tabs : Carries(u, s)' => u = t
      /\ \A u \in Tabs : ~Asks(u, s)'
      /\ \A j \in Jars : Has(j, s)' => j = jarOf[t]
  <2>1. \A x : IsRefresh(x) => x # row'[s].hash
    BY <1>1 DEF IsRefresh, IssueStep
  <2>2. \A x : IsAccess(x) => x # row'[s].hash
    BY <1>6, ZenonT(60) DEF IsAccess
  <2>3. \A j \in Jars : ~HasCookie(j, s)'
    BY <2>1, <1>6 DEF IInv, JarsOK, IssueStep, HasCookie
  <2>4. Carries(t, s)'
    BY Zenon DEF IssueStep, Carries
  <2>5. ASSUME NEW u \in Tabs, Carries(u, s)' PROVE u = t
    <3> SUFFICES ASSUME u # t PROVE FALSE
      BY Zenon
    <3>1. wire[u].stage = "answer" /\ wire[u].cookie = row'[s].hash
      BY <2>5, ZenonT(60) DEF IssueStep, OnlyTab, Carries
    <3>2. wire[u].cookie \in {KeepCookie, ClearCookie} \/ IsRefresh(wire[u].cookie)
      BY <3>1 DEF IInv, WireOK, MessageOK, AnswerOK
    <3> QED
      BY <3>1, <3>2, <2>1, <1>6
  <2>6. ASSUME NEW u \in Tabs, Asks(u, s)' PROVE FALSE
    <3>1. u # t
      BY <2>6 DEF IssueStep, Asks
    <3>2. wire[u].stage = "sent" /\ wire[u].token = row'[s].hash
      BY <2>6, <3>1 DEF IssueStep, OnlyTab, Asks
    <3>3. wire[u].token = None \/ IsRefresh(wire[u].token) \/ IsAccess(wire[u].token)
      BY <3>2 DEF IInv, WireOK, MessageOK
    <3> QED
      BY <3>2, <3>3, <2>1, <2>2, <1>6
  <2>7. \A j \in Jars : Has(j, s)' => j = jarOf[t]
    BY <2>3, <2>5, <2>6, Zenon DEF Has, IssueStep
  <2> QED
    BY <2>3, <2>4, <2>5, <2>6, <2>7
<1>10. ASSUME NEW o \in SessionIds, o # s, Issued(o)', book'[o].family = f
       PROVE  /\ ~Store!Good(o)'
              /\ \A u \in Tabs : ~Carries(u, o)
              /\ \A j \in Jars : Has(j, o) => j = jarOf[t]
  <2>1. Issued(o) /\ book[o].family = f
    BY <1>8, <1>10
  <2>2. PICK old \in SessionIds : /\ Store!Good(old) /\ Asks(t, old)
                                 /\ book[old].family = f /\ ~book'[old].good
    BY <2>1, Zenon DEF IssueStep
  <2>3. Issued(old) /\ SameFamily(o, old) /\ SameFamily(old, o)
    BY <2>1, <2>2 DEF Store!Good, Issued, SameFamily
  <2>4. ASSUME Store!Good(o)' PROVE FALSE
    <3>1. Store!Good(o)
      BY <2>4, <1>8, <1>10
    <3>2. o = old
      BY <3>1, <2>2, <2>3 DEF IInv, OneGood
    <3> QED
      BY <3>2, <2>2, <2>4 DEF Store!Good
  <2>5. ASSUME NEW u \in Tabs, Carries(u, o) PROVE FALSE
    <3>1. old = o
      BY <2>5, <2>1, <2>2, <2>3 DEF IInv, UnseenIsLast
    <3>2. ~Asks(t, o)
      BY <2>5, <2>1 DEF IInv, UnseenIsLast
    <3> QED
      BY <3>1, <3>2, <2>2
  <2>6. ASSUME NEW j \in Jars, Has(j, o) PROVE j = jarOf[t]
    <3>1. jarOf[t] \in Jars /\ Has(jarOf[t], old)
      BY <2>2 DEF IInv, StateOK, Has
    <3> QED
      BY <3>1, <2>1, <2>3, <2>6 DEF IInv, OneHolder
  <2> QED
    BY <2>4, <2>5, <2>6
<1>11. book'[s].family = f
  BY Zenon DEF IssueStep
<1>12. \A o \in SessionIds : Store!Good(o)' => Issued(o)'
  BY DEF Store!Good, Issued
<1>13. ASSUME NEW o \in SessionIds, NEW n \in SessionIds, o # s, n # s, Issued(o)', Issued(n)'
       PROVE  SameFamily(o, n)' <=> SameFamily(o, n)
  BY <1>8, <1>13, Zenon DEF SameFamily
<1>14. OneGood'
  <2> SUFFICES ASSUME NEW o \in SessionIds, NEW n \in SessionIds,
                      Store!Good(o)', Store!Good(n)', SameFamily(o, n)'
               PROVE  o = n
    BY DEF OneGood
  <2>1. CASE o = s \/ n = s
    BY <2>1, <1>10, <1>11, <1>12 DEF SameFamily
  <2>2. CASE o # s /\ n # s
    BY <2>2, <1>8, <1>12, <1>13, Zenon DEF IInv, OneGood
  <2> QED
    BY <2>1, <2>2
<1>15. UnseenIsLast'
  <2> SUFFICES ASSUME NEW u \in Tabs, NEW o \in SessionIds, Issued(o)', Carries(u, o)'
               PROVE  /\ \A j \in Jars : ~HasCookie(j, o)'
                      /\ \A v \in Tabs : ~Asks(v, o)' /\ (Carries(v, o)' => v = u)
                      /\ \A n \in SessionIds : Store!Good(n)' /\ SameFamily(o, n)' => n = o
    BY DEF UnseenIsLast
  <2>1. CASE o = s
    <3>1. \A n \in SessionIds : Store!Good(n)' /\ SameFamily(o, n)' => n = o
      BY <2>1, <1>10, <1>11, <1>12 DEF SameFamily
    <3>2. u = t
      BY <2>1, <1>9, Zenon
    <3> QED
      BY <2>1, <3>1, <3>2, <1>9
  <2>2. CASE o # s
    <3>1. Issued(o) /\ Carries(u, o) /\ book'[o].family # f
      BY <2>2, <1>8, <1>10, Zenon
    <3>2. /\ \A j \in Jars : ~HasCookie(j, o)
          /\ \A v \in Tabs : ~Asks(v, o) /\ (Carries(v, o) => v = u)
          /\ \A n \in SessionIds : Store!Good(n) /\ SameFamily(o, n) => n = o
      BY <3>1 DEF IInv, UnseenIsLast
    <3>3. ASSUME NEW n \in SessionIds, Store!Good(n)', SameFamily(o, n)' PROVE n = o
      <4>1. n # s
        BY <3>1, <3>3, <1>11 DEF SameFamily
      <4> QED
        BY <4>1, <2>2, <3>2, <3>3, <1>8, <1>12, <1>13, Zenon
    <3> QED
      BY <2>2, <3>2, <3>3, <1>8, Zenon
  <2> QED
    BY <2>1, <2>2
<1>16. OneHolder'
  <2> SUFFICES ASSUME NEW i \in Jars, NEW j \in Jars, NEW o \in SessionIds, NEW n \in SessionIds,
                      Issued(o)', Issued(n)', Has(i, o)', Has(j, n)', SameFamily(o, n)'
               PROVE  i = j
    BY DEF OneHolder
  <2>1. \A k \in Jars, r \in SessionIds :
          Issued(r)' /\ Has(k, r)' /\ book'[r].family = f => k = jarOf[t]
    BY <1>8, <1>9, <1>10, Zenon
  <2>2. CASE book'[o].family = f
    BY <2>1, <2>2, Zenon DEF SameFamily
  <2>3. CASE book'[o].family # f
    <3>1. o # s /\ n # s
      BY <2>3, <1>11 DEF SameFamily
    <3> QED
      BY <3>1, <1>8, <1>13, Zenon DEF IInv, OneHolder
  <2> QED
    BY <2>2, <2>3
<1>17. SpentByLoss'
  <2> SUFFICES ASSUME NEW j \in Jars, NEW o \in SessionIds, NEW n \in SessionIds,
                      Issued(o)', HasCookie(j, o)', Store!Good(n)', n # o, SameFamily(o, n)'
               PROVE  n \in lost' \/ \E u \in Tabs : jarOf'[u] = j /\ Carries(u, n)'
    BY ZenonT(60) DEF SpentByLoss
  <2>1. o # s /\ Issued(o) /\ HasCookie(j, o)
    BY <1>8, <1>9, ZenonT(60)
  <2>2. CASE n = s
    <3>1. Has(j, o) /\ book'[o].family = f
      BY <2>1, <2>2, <1>11 DEF Has, SameFamily
    <3>2. j = jarOf[t]
      BY <3>1, <2>1, <1>10
    <3> QED
      BY <3>2, <2>2, <1>9, Zenon DEF IssueStep
  <2>3. CASE n # s
    <3>1. n \in lost \/ \E u \in Tabs : jarOf[u] = j /\ Carries(u, n)
      BY <2>1, <2>3, <1>8, <1>12, <1>13, Zenon DEF IInv, SpentByLoss
    <3> QED
      BY <3>1, <2>3, <1>8, <1>12, Zenon DEF IssueStep
  <2> QED
    BY <2>2, <2>3
<1> QED
  BY <1>3, <1>4, <1>5, <1>7, <1>14, <1>15, <1>16, <1>17, SMTT(60) DEF IInv
-----------------------------------------------------------------------------
(* A browser that takes in an answer keeps the invariant: the token it     *)
(* gets is the last of its family.                                         *)

\* A browser that takes an answer keeps the invariant.
LEMMA ReceiveStepKeeps ==
  ASSUME IInv, NEW t \in Tabs, ReceiveStep(t)
  PROVE  IInv'
<1> DEFINE b == jarOf[t]
<1>1. Kept
  BY DEF ReceiveStep, Kept, Issued, Stays
<1>2. StateOK' /\ b \in Jars
  BY DEF IInv, StateOK, ReceiveStep, ClockStep, OnlyTab
<1>3. RowsOK'
  BY DEF IInv, RowsOK, ReceiveStep, Issued
<1>4. AnswerOK(wire[t])
  BY DEF IInv, WireOK, MessageOK, ReceiveStep
<1>5. JarsOK'
  <2> SUFFICES ASSUME NEW j \in Jars
               PROVE  /\ jar'[j].cookie = None \/ IsRefresh(jar'[j].cookie)
                      /\ jar'[j].access = None \/ IsAccess(jar'[j].access)
    BY <1>1, KeptTokens, Zenon DEF JarsOK
  <2>1. CASE j # b
    BY <2>1 DEF ReceiveStep, IInv, JarsOK
  <2>2. CASE j = b
    <3>1. jar'[b].cookie = None \/ IsRefresh(jar'[b].cookie)
      BY <1>2, <1>4 DEF ReceiveStep, AnswerOK, IInv, JarsOK
    <3>2. jar'[b].access = None \/ IsAccess(jar'[b].access)
      BY <1>2, <1>4 DEF ReceiveStep, AnswerOK, IInv, JarsOK
    <3> QED
      BY <2>2, <3>1, <3>2
  <2> QED
    BY <2>1, <2>2
<1>6. WireOK'
  <2> SUFFICES ASSUME NEW u \in Tabs PROVE MessageOK(wire[u])'
    BY DEF WireOK
  <2>1. CASE u # t
    BY <2>1, <1>1, KeptMessages DEF IInv, WireOK, ReceiveStep, OnlyTab
  <2>2. CASE u = t
    BY <2>2 DEF ReceiveStep, Nothing, MessageOK
  <2> QED
    BY <2>1, <2>2
<1>7. ASSUME NEW s \in SessionIds
      PROVE  /\ Issued(s)' <=> Issued(s)
             /\ Store!Good(s)' <=> Store!Good(s)
             /\ \A n \in SessionIds : SameFamily(s, n)' <=> SameFamily(s, n)
  BY DEF ReceiveStep, Issued, Store!Good, SameFamily
<1>8. ASSUME NEW s \in SessionIds, Issued(s)
      PROVE  /\ \A j \in Jars : j # b => (HasCookie(j, s)' <=> HasCookie(j, s))
             /\ HasCookie(b, s)' => Carries(t, s) \/ HasCookie(b, s)
             /\ Carries(t, s) => HasCookie(b, s)'
             /\ \A u \in Tabs : Carries(u, s)' <=> u # t /\ Carries(u, s)
             /\ \A u \in Tabs : Asks(u, s)' => Asks(u, s)
             /\ \A j \in Jars : Has(j, s)' => Has(j, s)
  <2>1. row[s].hash \notin {None, KeepCookie, ClearCookie} /\ row' = row
    BY <1>8, RefreshTokensAreReal DEF IInv, ReceiveStep
  <2>2. \A j \in Jars : j # b => (HasCookie(j, s)' <=> HasCookie(j, s))
    BY <2>1 DEF ReceiveStep, HasCookie
  <2>3. jar'[b].cookie = CASE wire[t].cookie = ClearCookie -> None
                           [] wire[t].cookie = KeepCookie -> jar[b].cookie
                           [] OTHER -> wire[t].cookie
    BY DEF ReceiveStep
  <2>4. HasCookie(b, s)' => Carries(t, s) \/ HasCookie(b, s)
    <3> SUFFICES ASSUME jar'[b].cookie = row[s].hash
                 PROVE  wire[t].cookie = row[s].hash \/ jar[b].cookie = row[s].hash
      BY <1>2, <2>1 DEF ReceiveStep, HasCookie, Carries
    <3> QED
      BY <2>1, <2>3, AbsentAssumption
  <2>5. Carries(t, s) => HasCookie(b, s)'
    <3> SUFFICES ASSUME wire[t].cookie = row[s].hash
                 PROVE  jar'[b].cookie = row[s].hash
      BY <1>2, <2>1 DEF ReceiveStep, HasCookie, Carries
    <3> QED
      BY <2>1, <2>3
  <2>6. \A u \in Tabs : Carries(u, s)' <=> u # t /\ Carries(u, s)
    BY <2>1 DEF ReceiveStep, OnlyTab, Nothing, Carries
  <2>7. \A u \in Tabs : Asks(u, s)' => Asks(u, s)
    BY <2>1 DEF ReceiveStep, OnlyTab, Nothing, Asks
  <2>8. jarOf' = jarOf
    BY DEF ReceiveStep
  <2>9. \A j \in Jars : Has(j, s)' => Has(j, s)
    BY <2>2, <2>4, <2>6, <2>7, <2>8 DEF Has
  <2> QED
    BY <2>2, <2>4, <2>5, <2>6, <2>7, <2>9, Zenon
<1>9. jarOf' = jarOf
  BY DEF ReceiveStep
<1>10. OneGood'
  BY <1>7 DEF IInv, OneGood
<1>11. UnseenIsLast'
  <2> SUFFICES ASSUME NEW u \in Tabs, NEW s \in SessionIds, Issued(s), Carries(u, s)'
               PROVE  /\ \A j \in Jars : ~HasCookie(j, s)'
                      /\ \A v \in Tabs : ~Asks(v, s)' /\ (Carries(v, s)' => v = u)
                      /\ \A n \in SessionIds : Store!Good(n)' /\ SameFamily(s, n)' => n = s
    BY <1>7 DEF UnseenIsLast
  <2>1. u # t /\ Carries(u, s)
    BY <1>8, Zenon
  <2>2. /\ \A j \in Jars : ~HasCookie(j, s)
        /\ \A v \in Tabs : ~Asks(v, s) /\ (Carries(v, s) => v = u)
        /\ \A n \in SessionIds : Store!Good(n) /\ SameFamily(s, n) => n = s
    BY <2>1 DEF IInv, UnseenIsLast
  <2>3. ASSUME NEW j \in Jars, HasCookie(j, s)' PROVE FALSE
    <3>1. j = b /\ HasCookie(b, s)'
      BY <2>2, <2>3, <1>8, <1>9, ZenonT(60)
    <3>2. Carries(t, s)
      BY <3>1, <2>2, <1>2, <1>8
    <3> QED
      BY <3>2, <2>1, <2>2
  <2> QED
    BY <2>2, <2>3, <1>7, <1>8, Zenon
<1>12. OneHolder'
  BY <1>7, <1>8, Zenon DEF IInv, OneHolder
<1>13. SpentByLoss'
  <2> SUFFICES ASSUME NEW j \in Jars, NEW s \in SessionIds, NEW n \in SessionIds,
                      Issued(s), HasCookie(j, s)', Store!Good(n), n # s, SameFamily(s, n)
               PROVE  n \in lost' \/ \E u \in Tabs : jarOf'[u] = j /\ Carries(u, n)'
    BY <1>7 DEF SpentByLoss
  <2>1. Issued(n)
    BY DEF Store!Good, Issued
  <2>2. ~Carries(t, s)
    BY DEF IInv, UnseenIsLast
  <2>3. HasCookie(j, s)
    <3>1. CASE j # b
      BY <3>1, <1>8, ZenonT(60)
    <3>2. CASE j = b
      <4>1. HasCookie(b, s)'
        BY <3>2, <1>9
      <4> QED
        BY <3>2, <4>1, <2>2, <1>8, Zenon
    <3> QED
      BY <3>1, <3>2, ZenonT(60)
  <2>4. n \in lost \/ \E u \in Tabs : jarOf[u] = j /\ Carries(u, n)
    BY <2>3 DEF IInv, SpentByLoss
  <2>5. ASSUME NEW u \in Tabs, jarOf[u] = j, Carries(u, n) PROVE u # t
    <3> SUFFICES ASSUME u = t PROVE FALSE
      OBVIOUS
    <3>1. Carries(t, n) /\ j = b
      BY <2>5, ZenonT(60)
    <3>2. HasCookie(b, n)'
      BY <3>1, <2>1, <1>8
    <3>3. row'[n].hash = row'[s].hash
      BY <3>1, <3>2, <1>9, Zenon DEF HasCookie
    <3> QED
      BY <3>3, <2>1, RefreshTokensAreReal DEF ReceiveStep, IInv
  <2> QED
    BY <2>1, <2>4, <2>5, <1>8 DEF ReceiveStep
<1> QED
  BY <1>2, <1>3, <1>5, <1>6, <1>10, <1>11, <1>12, <1>13 DEF IInv
-----------------------------------------------------------------------------
(* The initial states.                                                     *)

\* Without sessions, cookies and messages the invariant holds.
LEMMA InitHolds == Init => IInv
<1> SUFFICES ASSUME Init PROVE IInv
  OBVIOUS
<1>1. key \in Keys
  BY DEF Init
<1>2. \A s \in SessionIds : ~Issued(s) /\ ~Store!Good(s)
  BY DEF Init, Store!Init, Issued, Store!Good
<1>3. StateOK
  BY <1>1, HttpAssumption DEF Init, Store!Init, StateOK
<1>4. RowsOK
  BY <1>2 DEF RowsOK
<1>5. JarsOK
  BY Zenon DEF Init, JarsOK
<1>6. WireOK
  BY DEF Init, WireOK, MessageOK, Nothing
<1>7. OneGood /\ UnseenIsLast /\ OneHolder /\ SpentByLoss
  BY <1>2 DEF OneGood, UnseenIsLast, OneHolder, SpentByLoss
<1> QED
  BY <1>3, <1>4, <1>5, <1>6, <1>7 DEF IInv
-----------------------------------------------------------------------------
(* The actions are of these kinds.                                         *)

\* A revocation ends sessions and does nothing else to them.
LEMMA RevokeEnds ==
  ASSUME StateOK, NEW S, Store!Revoke(S) \/ UNCHANGED book
  PROVE  BookStep /\ \A s \in SessionIds : Stays(s)
<1>1. CASE UNCHANGED book
  BY <1>1 DEF StateOK, BookStep, Stays
<1>2. CASE Store!Revoke(S)
  <2> SUFFICES ASSUME NEW s \in SessionIds
               PROVE  book'[s] \in Store!Token \cup {None} /\ Stays(s)
    BY <1>2, Zenon DEF BookStep, Store!Revoke
  <2>1. CASE s \notin S
    BY <1>2, <2>1 DEF StateOK, Store!Revoke, Stays
  <2>2. CASE s \in S
    <3>1. book[s] \in Store!Token /\ book'[s] = [book[s] EXCEPT !.good = FALSE]
      BY <1>2, <2>2 DEF StateOK, Store!Revoke, Store!Good
    <3>2. /\ book'[s] \in Store!Token /\ ~book'[s].good
          /\ book'[s].user = book[s].user /\ book'[s].family = book[s].family
      BY <3>1, ZenonT(60) DEF Store!Token
    <3> QED
      BY <3>1, <3>2, AbsentAssumption, Zenon DEF Stays
  <2> QED
    BY <2>1, <2>2
<1> QED
  BY <1>1, <1>2

Others == <<now, key, row, jar, jarOf, lost>>

\* An answer without tokens, with a documented status.
LEMMA BareAnswer ==
  ASSUME StateOK, NEW t \in Tabs, NEW endpoint, NEW status \in Documented[endpoint],
         NEW cookie \in {KeepCookie, ClearCookie},
         AnswerWith(t, endpoint, status, cookie, None),
         wire[t].stage # "answer", UNCHANGED Others,
         BookStep, \A s \in SessionIds : Stays(s)
  PROVE  MessageStep(t)
<1>1. ClockStep
  BY Zenon DEF ClockStep, Others, StateOK
<1>2. OnlyTab(t) /\ wire'[t] = [stage |-> "answer", documented |-> TRUE, fault |-> FALSE,
                                cookie |-> cookie, access |-> None]
  BY ZenonT(60) DEF AnswerWith, OnlyTab, StateOK
<1>3. /\ wire'[t].stage = "answer" /\ wire'[t].documented /\ ~wire'[t].fault
      /\ wire'[t].cookie = cookie /\ wire'[t].access = None
  <2>1. PICK r : r = wire'[t] /\ r = [stage |-> "answer", documented |-> TRUE, fault |-> FALSE,
                                     cookie |-> cookie, access |-> None]
    BY <1>2, Zenon
  <2>2. r.stage = "answer" /\ r.cookie = cookie /\ r.access = None
    BY <2>1
  <2>3. r.documented /\ ~r.fault
    BY <2>1
  <2> QED
    BY <2>1, <2>2, <2>3, Zenon
<1>4. MessageOK(wire'[t])
  BY <1>3, Zenon DEF MessageOK, AnswerOK
<1> QED
  BY <1>1, <1>2, <1>3, <1>4 DEF MessageStep, Carries, Others

\* A step that leaves the book alone is one of its steps.
LEMMA QuietBook ==
  ASSUME StateOK, UNCHANGED book
  PROVE  BookStep /\ \A s \in SessionIds : Stays(s)
  BY DEF StateOK, BookStep, Stays

\* An exception that no handler maps: the document lists no 500.
LEMMA ServerErrorStep ==
  ASSUME IInv, NEW t \in Tabs, NEW endpoint \in {"revoke_session", "change_password"},
         ServerError(t, endpoint),
         wire[t].stage # "answer", UNCHANGED Others, UNCHANGED book
  PROVE  MessageStep(t)
<1>1. StateOK /\ BookStep /\ \A s \in SessionIds : Stays(s)
  BY QuietBook DEF IInv
<1>2. ClockStep
  BY <1>1, Zenon DEF ClockStep, Others, StateOK
<1>3. (500 \in Documented[endpoint]) = FALSE
  BY DEF Documented
<1>4. OnlyTab(t) /\ wire'[t] = [stage |-> "answer", documented |-> FALSE, fault |-> TRUE,
                                cookie |-> KeepCookie, access |-> None]
  BY <1>1, <1>3, ZenonT(60) DEF ServerError, OnlyTab, StateOK
<1>5. /\ wire'[t].stage = "answer" /\ ~wire'[t].documented /\ wire'[t].fault
      /\ wire'[t].cookie = KeepCookie /\ wire'[t].access = None
  BY <1>4
<1>6. MessageOK(wire'[t])
  BY <1>5, Zenon DEF MessageOK, AnswerOK
<1> QED
  BY <1>1, <1>2, <1>4, <1>5, <1>6 DEF MessageStep, Carries, Others

\* An answer without a token leaves the cookie or clears it.
LEMMA CookieOfKind ==
  ASSUME NEW endpoint
  PROVE  CookieOf(endpoint) \in {KeepCookie, ClearCookie}
  BY DEF CookieOf

\* Both checks of a token find nothing or one of the exceptions they declare.
LEMMA TokenErrors ==
  ASSUME NEW token
  PROVE  /\ RefreshError(token) \in RefreshErrors \cup {""}
         /\ AccessError(token) \in AccessTokenErrors \cup {""}
  BY SMTT(60) DEF RefreshError, AccessError, RefreshErrors, AccessTokenErrors

\* The statuses the document lists for the endpoints here.
LEMMA DocumentedStatuses ==
  /\ {200, 400, 401, 403, 429} \subseteq Documented["sign_in"]
  /\ {200, 401} \subseteq Documented["refresh"]
  /\ {200, 401} \subseteq Documented["me"] /\ {200, 401} \subseteq Documented["sessions"]
  /\ {204, 401} \subseteq Documented["logout"] /\ {204, 401} \subseteq Documented["revoke_all"]
  /\ {204, 401, 403, 404} \subseteq Documented["revoke_session"]
  /\ {204, 400, 401} \subseteq Documented["change_password"]
  /\ \A endpoint \in BearerEndpoints : 401 \in Documented[endpoint]
  BY DEF Documented, BearerEndpoints

\* A refusal with the status of an exception.
LEMMA FailStep ==
  ASSUME StateOK, NEW t \in Tabs, NEW endpoint, NEW error,
         AuthErrorResponse(error) \in Documented[endpoint],
         Fail(t, endpoint, error),
         wire[t].stage # "answer", UNCHANGED Others,
         BookStep, \A s \in SessionIds : Stays(s)
  PROVE  MessageStep(t)
  BY CookieOfKind, BareAnswer, ZenonT(60) DEF Fail

\* A browser sends the cookie it has.
LEMMA SendRefreshStep ==
  ASSUME IInv, NEW t \in Tabs, NEW token, SendRefresh(t, token)
  PROVE  MessageStep(t)
<1>1. StateOK /\ jarOf[t] \in Jars
  BY DEF IInv, StateOK
<1>2. ClockStep /\ BookStep /\ \A s \in SessionIds : Stays(s)
  BY <1>1, QuietBook DEF SendRefresh, ClockStep, StateOK
<1>3. OnlyTab(t) /\ wire'[t] = [stage |-> "sent", endpoint |-> "refresh", token |-> token]
  BY <1>1 DEF SendRefresh, OnlyTab, StateOK
<1>4. token = None \/ IsRefresh(token) \/ IsAccess(token)
  BY <1>1 DEF SendRefresh, Presents, IInv, JarsOK
<1>5. MessageOK(wire'[t])
  BY <1>3, <1>4, SMTT(60) DEF MessageOK
<1>6. wire[t].stage = "none"
  BY DEF SendRefresh, Free, Nothing
<1> QED
  <2>1. UNCHANGED <<row, jar, jarOf, lost>>
    BY Zenon DEF SendRefresh
  <2>2. wire'[t].stage = "sent" /\ wire'[t].token = token
    BY <1>3
  <2>3. token \in {None, jar[jarOf[t]].cookie, jar[jarOf[t]].access}
    BY Zenon DEF SendRefresh, Presents
  <2>4. \A s \in SessionIds : ~Carries(t, s)
    BY <1>6 DEF Carries
  <2> QED
    BY <1>2, <1>3, <1>5, <2>1, <2>2, <2>3, <2>4 DEF MessageStep

\* A message is lost, and its token is remembered as lost.
LEMMA LoseStep ==
  ASSUME IInv, NEW t \in Tabs, Lose(t)
  PROVE  MessageStep(t)
<1>1. StateOK
  BY DEF IInv
<1>2. ClockStep /\ BookStep /\ \A s \in SessionIds : Stays(s)
  BY <1>1, QuietBook DEF Lose, ClockStep, StateOK
<1>3. OnlyTab(t) /\ wire'[t].stage = "none"
  BY <1>1 DEF Lose, OnlyTab, StateOK, Nothing
<1>4. MessageOK(wire'[t])
  BY <1>3 DEF MessageOK
<1>5. ASSUME NEW s \in SessionIds, Issued(s), Carries(t, s) PROVE s \in lost'
  <2>1. wire[t].stage = "answer" /\ wire[t].cookie = row[s].hash /\ AnswerOK(wire[t])
    BY <1>5, SMTT(60) DEF Carries, IInv, WireOK, MessageOK
  <2>2. row[s].hash \notin {KeepCookie, ClearCookie} /\ row[s].hash.sid = s
    BY <1>5, RefreshTokensAreReal DEF IInv, RowsOK
  <2>3. IsAccess(wire[t].access) /\ wire[t].access.sid = s
    BY <2>1, <2>2, Zenon DEF AnswerOK
  <2>4. wire[t].access # None
    BY <2>3, TokensAreReal DEF IsAccess
  <2> QED
    BY <2>1, <2>3, <2>4, SMTT(60) DEF Lose
<1> QED
  BY <1>2, <1>3, <1>4, <1>5, Zenon DEF MessageStep, Lose

\* A refused sign-in answers without a token.
LEMMA SignInRefusedStep ==
  ASSUME IInv, NEW t \in Tabs, SignInRefused(t)
  PROVE  MessageStep(t)
<1>1. StateOK /\ UNCHANGED Others /\ BookStep /\ \A s \in SessionIds : Stays(s)
  BY QuietBook DEF IInv, SignInRefused, Others
<1>2. wire[t].stage # "answer"
  BY DEF SignInRefused, Free, Nothing
<1>3. CASE AnswerWith(t, "sign_in", 400, KeepCookie, None)
  BY <1>1, <1>2, <1>3, BareAnswer, DocumentedStatuses
<1>4. CASE \E error \in SignInErrors : Fail(t, "sign_in", error)
  BY <1>1, <1>2, <1>4, FailStep, NamedStatus, DocumentedStatuses
<1> QED
  BY <1>3, <1>4 DEF SignInRefused

\* A refused refresh answers without a token, and may revoke the family.
LEMMA RefreshRefusedStep ==
  ASSUME IInv, NEW t \in Tabs, RefreshRefused(t)
  PROVE  MessageStep(t)
<1>1. StateOK /\ UNCHANGED Others
  BY Zenon DEF IInv, RefreshRefused, Others
<1>2. BookStep /\ \A s \in SessionIds : Stays(s)
  BY <1>1, RevokeEnds, Zenon DEF RefreshRefused
<1>3. wire[t].stage # "answer"
  BY Zenon DEF RefreshRefused
<1>4. PICK error \in RefreshErrors : Fail(t, "refresh", error)
  BY TokenErrors, Zenon DEF RefreshRefused
<1> QED
  BY <1>1, <1>2, <1>3, <1>4, FailStep, RefreshStatus, DocumentedStatuses

\* The bearer check lets a request in or answers it.
LEMMA AuthenticateStep ==
  ASSUME IInv, NEW t \in Tabs, NEW endpoint \in BearerEndpoints, NEW token, NEW target,
         Authenticate(t, endpoint, token, target)
  PROVE  MessageStep(t)
<1>1. StateOK /\ UNCHANGED Others /\ BookStep /\ \A s \in SessionIds : Stays(s)
  BY QuietBook, Zenon DEF IInv, Authenticate, Others
<1>2. wire[t].stage = "none"
  <2>1. wire[t] = Nothing
    BY Zenon DEF Authenticate, Free
  <2> QED
    BY <2>1 DEF Nothing
<1>3. CASE AccessError(token) # "" /\ Fail(t, endpoint, AccessError(token))
  <2>1. PICK error \in AccessTokenErrors : Fail(t, endpoint, error)
    BY <1>3, TokenErrors, Zenon
  <2>2. AuthErrorResponse(error) \in Documented[endpoint]
    BY AccessStatus, DocumentedStatuses, SMTT(60)
  <2> QED
    BY <1>1, <1>2, <2>1, <2>2, FailStep, Zenon
<1>4. CASE /\ AccessError(token) = ""
           /\ wire' = [wire EXCEPT ![t] =
                [stage |-> "authed", endpoint |-> endpoint, token |-> token, target |-> target]]
  <2>1. OnlyTab(t) /\ wire'[t] = [stage |-> "authed", endpoint |-> endpoint,
                                  token |-> token, target |-> target]
    BY <1>1, <1>4, Zenon DEF OnlyTab, StateOK
  <2>2. jarOf[t] \in Jars /\ token # None /\ token.type = "access"
    BY <1>1, <1>4, Zenon DEF StateOK, AccessError, ParseAccessToken
  <2>3. token \in {jar[jarOf[t]].cookie, jar[jarOf[t]].access}
    BY <2>2, ZenonT(60) DEF Authenticate, Presents
  <2>4. ~IsRefresh(token)
    BY <2>2 DEF IInv, RowsOK, IsRefresh, RefreshToken, Issued
  <2>5. IsAccess(token)
    BY <2>2, <2>3, <2>4, ZenonT(60) DEF IInv, JarsOK
  <2>6. MessageOK(wire'[t])
    <3>1. /\ wire'[t].stage = "authed" /\ wire'[t].endpoint = endpoint
          /\ wire'[t].token = token
      BY <2>1
    <3> QED
      BY <2>5, <3>1 DEF MessageOK
  <2>7. ClockStep
    BY <1>1, SMTT(60) DEF ClockStep, StateOK, Others
  <2> QED
    BY <1>1, <1>2, <2>1, <2>6, <2>7 DEF MessageStep, Carries, Others
<1>5. CASE endpoint = "change_password" /\ AnswerWith(t, endpoint, 400, KeepCookie, None)
  BY <1>1, <1>2, <1>5, BareAnswer, DocumentedStatuses
<1>6. CASE endpoint = "change_password" /\ ServerError(t, endpoint)
  <2>1. UNCHANGED book
    BY Zenon DEF Authenticate
  <2> QED
    BY <1>1, <1>2, <1>6, <2>1, ServerErrorStep
<1> QED
  BY <1>3, <1>4, <1>5, <1>6, Zenon DEF Authenticate

\* A handler that only reads.
LEMMA ReadStep ==
  ASSUME IInv, NEW t \in Tabs, Me(t) \/ Sessions(t)
  PROVE  MessageStep(t)
<1>1. StateOK /\ UNCHANGED Others /\ BookStep /\ \A s \in SessionIds : Stays(s)
  BY QuietBook DEF IInv, Me, Sessions, Others
<1>2. wire[t].stage # "answer"
  BY Zenon DEF Me, Sessions, Serves
<1>3. AnswerWith(t, "me", 200, KeepCookie, None) \/ AnswerWith(t, "sessions", 200, KeepCookie, None)
  BY SMTT(60) DEF Me, Sessions
<1> QED
  BY <1>1, <1>2, <1>3, BareAnswer, DocumentedStatuses

\* RevokeSession, of the session of the token when it is a logout: then the
\* session is there and is the user's, so that no exception is thrown that
\* the document of the endpoint does not list.
LEMMA RevokeStep ==
  ASSUME IInv, NEW t \in Tabs, Logout(t) \/ RevokeSession(t)
  PROVE  MessageStep(t)
<1>1. StateOK /\ wire[t].stage = "authed" /\ IsAccess(wire[t].token)
  BY ZenonT(60) DEF IInv, WireOK, MessageOK, Logout, RevokeSession, Serves
<1>0. CASE ServerError(t, "revoke_session") /\ UNCHANGED <<now, key, book, row, jar, lost, jarOf>>
  BY <1>0, <1>1, ServerErrorStep, ZenonT(60) DEF Others
<1>. SUFFICES ASSUME \/ Logout(t)
                     \/ wire[t].endpoint = "revoke_session" /\ Revoke(t, wire[t].target)
              PROVE  MessageStep(t)
  BY <1>0, Zenon DEF RevokeSession, Serves
<1>2. PICK s : /\ Revoke(t, s)
               /\ \/ wire[t].endpoint = "logout" /\ s = wire[t].token.sid
                  \/ wire[t].endpoint = "revoke_session"
  BY Zenon DEF Logout, Serves
<1>3. UNCHANGED Others /\ BookStep /\ \A o \in SessionIds : Stays(o)
  BY <1>1, <1>2, RevokeEnds, ZenonT(60) DEF Revoke, Others
<1>4. CASE AnswerWith(t, wire[t].endpoint, 204, CookieOf(wire[t].endpoint), None)
  <2>1. 204 \in Documented[wire[t].endpoint]
    BY <1>2, DocumentedStatuses
  <2> QED
    BY <1>1, <1>3, <1>4, <2>1, BareAnswer, CookieOfKind, Zenon
<1>5. CASE ~AnswerWith(t, wire[t].endpoint, 204, CookieOf(wire[t].endpoint), None)
  <2>1. PICK error \in {"SessionNotFound", "SessionForbidden"} : Fail(t, wire[t].endpoint, error)
    BY <1>2, <1>5, Zenon DEF Revoke
  <2>2. wire[t].endpoint = "revoke_session"
    BY <1>1, <1>2, <1>5, Zenon DEF Revoke, IsAccess, Issued
  <2> QED
    BY <1>1, <1>3, <2>1, <2>2, FailStep, NamedStatus, DocumentedStatuses
<1> QED
  BY <1>4, <1>5, ZenonT(60)

\* Ending all sessions of a user answers without a token.
LEMMA EndSessionsStep ==
  ASSUME IInv, NEW t \in Tabs, RevokeAll(t) \/ ChangePassword(t)
  PROVE  MessageStep(t)
<1>1. StateOK /\ UNCHANGED Others /\ wire[t].stage = "authed"
  BY DEF IInv, RevokeAll, ChangePassword, Serves, Others
<1>2. wire[t].endpoint \in {"revoke_all", "change_password"}
  BY DEF RevokeAll, ChangePassword, Serves
<1>3. CASE EndSessions(t)
  <2>1. BookStep /\ \A s \in SessionIds : Stays(s)
    BY <1>1, <1>3, RevokeEnds, Zenon DEF EndSessions
  <2> QED
    BY <1>1, <1>2, <1>3, <2>1, BareAnswer, DocumentedStatuses DEF EndSessions
<1>4. CASE (\E error \in ChangePasswordErrors : Fail(t, "change_password", error)) /\ UNCHANGED book
  <2>1. PICK error \in ChangePasswordErrors : Fail(t, "change_password", error)
    BY <1>4, Zenon
  <2>2. BookStep /\ \A s \in SessionIds : Stays(s)
    BY <1>1, <1>4, QuietBook, Zenon
  <2> QED
    BY <1>1, <1>4, <2>1, <2>2, FailStep, NamedStatus, DocumentedStatuses, SMTT(60)
<1> QED
  BY <1>3, <1>4 DEF RevokeAll, ChangePassword

\* The tokens of session s, in its row and in the answer to t.
TokensIssued(t, s, user, fam) ==
  /\ OnlyTab(t) /\ DOMAIN row' = SessionIds
  /\ \A o \in SessionIds : o # s => row'[o] = row[o]
  /\ row'[s].expiresAt \in Nat
  /\ row'[s].hash \in RefreshToken
  /\ row'[s].hash.sid = s /\ row'[s].hash.fam = fam /\ row'[s].hash.sub = user
  /\ wire'[t].stage = "answer" /\ wire'[t].documented /\ ~wire'[t].fault
  /\ wire'[t].cookie = row'[s].hash
  /\ wire'[t].access \in AccessToken
  /\ wire'[t].access.sid = s /\ wire'[t].access.sub = user

\* Both tokens that an answer carries are for the session just opened.
LEMMA IssuedTokens ==
  ASSUME StateOK, NEW t \in Tabs, NEW endpoint \in {"sign_in", "refresh"},
         NEW s \in SessionIds, NEW user \in Users, NEW fam \in SessionIds,
         IssueTokens(t, endpoint, s, user, fam)
  PROVE  TokensIssued(t, s, user, fam)
<1> DEFINE access == GenerateAccessToken(key, user, s, now)
           refresh == GenerateRefreshToken(key, user, s, fam, now)
<1>1. now \in Nat /\ key \in Keys /\ {AccessTtl, RefreshTtl, SessionTtl} \subseteq Nat
  BY HttpAssumption DEF StateOK
<1>2. access \in AccessToken /\ access.sid = s /\ access.sub = user
  BY <1>1 DEF GenerateAccessToken, GenerateToken, AccessToken
<1>3. refresh \in RefreshToken /\ refresh.sid = s /\ refresh.sub = user /\ refresh.fam = fam
  BY <1>1 DEF GenerateRefreshToken, GenerateToken, RefreshToken
<1>4. row' = [row EXCEPT ![s] = [expiresAt |-> now + SessionTtl, hash |-> refresh]]
  BY Zenon DEF IssueTokens, GenerateTokens
<1>5. wire' = [wire EXCEPT ![t] = [stage |-> "answer", documented |-> TRUE, fault |-> FALSE,
                                   cookie |-> refresh, access |-> access]]
  <2>1. wire' = [wire EXCEPT ![t] = [stage |-> "answer", documented |-> 200 \in Documented[endpoint], fault |-> FALSE,
                                     cookie |-> refresh, access |-> access]]
    BY Zenon DEF IssueTokens, GenerateTokens, AnswerWith
  <2>2. (200 \in Documented[endpoint]) = TRUE
    BY DocumentedStatuses
  <2> QED
    BY <2>1, <2>2, Zenon
<1> HIDE DEF access, refresh
<1>6. OnlyTab(t) /\ wire'[t] = [stage |-> "answer", documented |-> TRUE, fault |-> FALSE,
                                cookie |-> refresh, access |-> access]
  BY <1>5, SMTT(60) DEF StateOK, OnlyTab
<1>7. /\ DOMAIN row' = SessionIds /\ \A o \in SessionIds : o # s => row'[o] = row[o]
      /\ row'[s].hash = refresh /\ row'[s].expiresAt \in Nat
  BY <1>1, <1>4 DEF StateOK
<1> QED
  BY <1>2, <1>3, <1>6, <1>7 DEF TokensIssued

\* A sign-in issues the tokens of a session that begins a family.
LEMMA SignInStep ==
  ASSUME IInv, NEW t \in Tabs, SignIn(t)
  PROVE  \E s \in SessionIds : IssueStep(t, s, s)
<1>1. StateOK
  BY DEF IInv
<1>2. PICK s \in SessionIds, u \in Users : Store!Open(s, u, s) /\ IssueTokens(t, "sign_in", s, u, s)
  BY DEF SignIn
<1>3. UNCHANGED <<now, key, jar, jarOf, lost>> /\ wire[t].stage # "answer"
  <2>1. UNCHANGED <<now, key, jar, jarOf, lost>> /\ wire[t] = Nothing
    BY Zenon DEF SignIn, Free
  <2>2. Nothing.stage = "none"
    BY DEF Nothing
  <2> QED
    BY <2>1, <2>2, Zenon
<1>4. ClockStep
  BY <1>1, <1>3 DEF StateOK, ClockStep
<1>5. /\ book[s] = None
      /\ \A o \in SessionIds : Issued(o) => book[o].family # s
      /\ book' = [book EXCEPT ![s] = [user |-> u, family |-> s, good |-> TRUE]]
  BY <1>2 DEF Store!Open, Issued
<1>6. [user |-> u, family |-> s, good |-> TRUE] \in Store!Token
  BY DEF Store!Token
<1>7. /\ BookStep /\ book'[s] # None /\ book'[s].user = u /\ book'[s].family = s
      /\ \A o \in SessionIds : o # s => Stays(o)
  BY <1>1, <1>5, <1>6, AbsentAssumption, Zenon DEF StateOK, BookStep, Stays
<1>8. TokensIssued(t, s, u, s)
  BY <1>1, <1>2, IssuedTokens
<1>9. IssueStep(t, s, s)
  BY <1>3, <1>4, <1>5, <1>7, <1>8, Zenon DEF IssueStep, TokensIssued
<1> QED
  BY <1>9

\* What has not expired lies ahead.
LEMMA NotExpired ==
  ASSUME NEW expiresAt \in Nat, NEW at \in Nat, ~(expiresAt <= at)
  PROVE  at < expiresAt
  OBVIOUS

\* What Refresh has checked when it rotates.
LEMMA RefreshChecks ==
  ASSUME IInv, NEW t \in Tabs, wire[t].stage = "sent", RefreshError(wire[t].token) = ""
  PROVE  /\ wire[t].token.sid \in SessionIds
         /\ Asks(t, wire[t].token.sid)
         /\ Store!Good(wire[t].token.sid)
         /\ wire[t].token.type = "refresh" /\ wire[t].token.key = key
         /\ now < row[wire[t].token.sid].expiresAt
<1> DEFINE x == wire[t].token
<1>1. /\ x # None /\ x.type = "refresh" /\ x.key = key /\ book[x.sid] # None /\ book[x.sid].good
      /\ ~(row[x.sid].expiresAt <= now)
  BY DEF RefreshError, ParseRefreshToken, Decodes
<1>2. ~IsAccess(x)
  BY <1>1, Zenon DEF IsAccess, AccessToken
<1>3. IsRefresh(x)
  BY <1>1, <1>2, Zenon DEF IInv, WireOK, MessageOK
<1>4. now < row[x.sid].expiresAt
  <2>1. row[x.sid].expiresAt \in Nat /\ now \in Nat
    BY <1>3, Zenon DEF IsRefresh, IInv, StateOK, RowsOK, Issued
  <2>2. ~(row[x.sid].expiresAt <= now)
    BY <1>1, Zenon
  <2> QED
    BY <2>1, <2>2, NotExpired, Zenon
<1>5. x.sid \in SessionIds /\ x = row[x.sid].hash
  BY <1>3, Zenon DEF IsRefresh, Issued
<1>6. Asks(t, x.sid)
  BY <1>5, Zenon DEF Asks
<1>7. Store!Good(x.sid)
  BY <1>1, Zenon DEF Store!Good
<1> QED
  BY <1>1, <1>4, <1>5, <1>6, <1>7, ZenonT(60)

\* A refresh issues the tokens of a session in the family of the old one.
LEMMA RefreshStep ==
  ASSUME IInv, NEW t \in Tabs, Refresh(t)
  PROVE  \E n \in SessionIds, f \in SessionIds : IssueStep(t, n, f)
<1> DEFINE old == wire[t].token.sid
<1>1. StateOK /\ wire[t].stage = "sent" /\ UNCHANGED <<now, key, jar, jarOf, lost>>
  BY Zenon DEF IInv, Refresh
<1>2. old \in SessionIds /\ Asks(t, old) /\ Store!Good(old)
  BY RefreshChecks, Zenon DEF Refresh
<1>3. PICK n \in SessionIds : /\ Store!Rotate(old, n)
                             /\ IssueTokens(t, "refresh", n, book[old].user, book[old].family)
  BY ZenonT(60) DEF Refresh
<1> HIDE DEF old
<1>4. book[old] \in Store!Token /\ book[old].user \in Users /\ book[old].family \in SessionIds
  BY <1>1, <1>2 DEF StateOK, Store!Good, Store!Token
<1>5. /\ book[n] = None /\ n # old
      /\ book' = [book EXCEPT ![old] = [book[old] EXCEPT !.good = FALSE], ![n] = book[old]]
  BY <1>2, <1>3 DEF Store!Rotate, Store!Good
<1>6. PICK ended : ended = [book[old] EXCEPT !.good = FALSE]
  BY Zenon
<1>7. /\ ended \in Store!Token /\ ended.user = book[old].user
      /\ ended.family = book[old].family /\ ~ended.good
  BY <1>4, <1>6, Zenon DEF Store!Token
<1>8. book' = [book EXCEPT ![old] = ended, ![n] = book[old]]
  BY <1>5, <1>6
<1>9. /\ BookStep /\ book'[n] = book[old] /\ book'[old] = ended
      /\ \A o \in SessionIds : o # n /\ o # old => book'[o] = book[o]
  BY <1>1, <1>2, <1>4, <1>5, <1>7, <1>8, ZenonT(60) DEF StateOK, BookStep
<1>10. \A o \in SessionIds : o # n => Stays(o)
  BY <1>2, <1>7, <1>9, AbsentAssumption DEF Stays, Store!Good
<1>11. ClockStep
  BY <1>1 DEF StateOK, ClockStep
<1>12. book'[n] # None /\ ~book'[old].good
  BY <1>2, <1>7, <1>9, SMTT(60) DEF Store!Good
<1>13. TokensIssued(t, n, book[old].user, book[old].family)
  BY <1>1, <1>3, <1>4, IssuedTokens
<1>14. IssueStep(t, n, book[old].family)
  BY <1>1, <1>2, <1>5, <1>9, <1>10, <1>11, <1>12, <1>13, Zenon DEF IssueStep, TokensIssued
<1> QED
  BY <1>4, <1>14

\* A browser that receives an answer stores or clears its cookie.
LEMMA ReceiveIsStep ==
  ASSUME IInv, NEW t \in Tabs, Receive(t)
  PROVE  ReceiveStep(t)
<1>1. StateOK /\ jarOf[t] \in Jars
  BY DEF IInv, StateOK
<1>2. ClockStep /\ OnlyTab(t) /\ wire'[t] = Nothing
  BY <1>1 DEF Receive, StateOK, ClockStep, OnlyTab
<1>3. PICK cookie, access :
        /\ jar' = [jar EXCEPT ![jarOf[t]] = [cookie |-> cookie, access |-> access]]
        /\ cookie = CASE wire[t].cookie = ClearCookie -> None
                      [] wire[t].cookie = KeepCookie -> jar[jarOf[t]].cookie
                      [] OTHER -> wire[t].cookie
        /\ access \in {jar[jarOf[t]].access, wire[t].access}
  BY ZenonT(60) DEF Receive
<1> QED
  BY <1>1, <1>2, <1>3 DEF Receive, ReceiveStep, StateOK

\* What AuthenticateAccessToken has checked when it lets a request in.
LEMMA AccessChecks ==
  ASSUME IInv, NEW token, IsAccess(token), AccessError(token) = ""
  PROVE  /\ token.type = "access" /\ token.key = key
         /\ Store!Good(token.sid)
         /\ now < row[token.sid].expiresAt
<1>1. /\ token.type = "access" /\ token.key = key
      /\ book[token.sid] # None /\ book[token.sid].good
      /\ ~(row[token.sid].expiresAt <= now)
  BY DEF AccessError, ParseAccessToken, Decodes
<1>2. row[token.sid].expiresAt \in Nat /\ now \in Nat
  BY Zenon DEF IsAccess, IInv, StateOK, RowsOK, Issued
<1>3. now < row[token.sid].expiresAt
  <2>1. ~(row[token.sid].expiresAt <= now)
    BY <1>1, Zenon
  <2> QED
    BY <1>2, <2>1, NotExpired, Zenon
<1> QED
  BY <1>1, <1>3, Zenon DEF Store!Good

\* The clock and a deployment touch nothing else.
LEMMA ClockStepKeeps ==
  ASSUME IInv, ClockStep, UNCHANGED <<book, row, jarOf, jar, wire, lost>>
  PROVE  IInv'
<1>1. Kept
  BY ZenonT(60) DEF Kept, Issued, Stays
<1>2. StateOK' /\ RowsOK'
  BY SMTT(60) DEF IInv, StateOK, RowsOK, Issued, ClockStep
<1>3. JarsOK' /\ WireOK'
  BY <1>1, KeptTokens, KeptMessages DEF IInv, JarsOK, WireOK
<1>4. OneGood'
  BY SMTT(60) DEF IInv, OneGood, Store!Good, SameFamily
<1>5. UnseenIsLast'
  BY SMTT(60) DEF IInv, UnseenIsLast, Issued, Carries, Asks, HasCookie, Store!Good, SameFamily
<1>6. OneHolder'
  BY SMTT(60) DEF IInv, OneHolder, Issued, Has, Carries, Asks, HasCookie, SameFamily
<1>7. SpentByLoss'
  BY DEF IInv, SpentByLoss, Issued, Carries, HasCookie, Store!Good, SameFamily
<1> QED
  BY <1>2, <1>3, <1>4, <1>5, <1>6, <1>7 DEF IInv

\* What a handler does is of one of the kinds.
LEMMA HandleStep ==
  ASSUME IInv, NEW t \in Tabs, Handle(t)
  PROVE  MessageStep(t) \/ \E s \in SessionIds, f \in SessionIds : IssueStep(t, s, f)
<1>1. CASE SignIn(t) \/ Refresh(t)
  BY <1>1, SignInStep, RefreshStep
<1>2. CASE SignInRefused(t) \/ RefreshRefused(t)
  BY <1>2, SignInRefusedStep, RefreshRefusedStep
<1>3. CASE Me(t) \/ Sessions(t) \/ Logout(t) \/ RevokeSession(t) \/ RevokeAll(t) \/ ChangePassword(t)
  BY <1>3, ReadStep, RevokeStep, EndSessionsStep
<1>4. ASSUME NEW token, SendRefresh(t, token) PROVE MessageStep(t)
  BY <1>4, SendRefreshStep
<1>5. ASSUME NEW token, NEW endpoint \in BearerEndpoints,
             Authenticate(t, endpoint, token, None)
      PROVE  MessageStep(t)
  BY <1>5, AuthenticateStep
<1>6. ASSUME NEW token, NEW s \in SessionIds, Authenticate(t, "revoke_session", token, s)
      PROVE  MessageStep(t)
  <2>1. "revoke_session" \in BearerEndpoints
    BY DEF BearerEndpoints
  <2> QED
    BY <1>6, <2>1, AuthenticateStep
<1> QED
  BY <1>1, <1>2, <1>3, <1>4, <1>5, <1>6, Zenon DEF Handle

\* Every step keeps the invariant.
LEMMA NextKeeps == IInv /\ [Next]_vars => IInv'
<1> SUFFICES ASSUME IInv, [Next]_vars PROVE IInv'
  OBVIOUS
<1>1. now \in Nat /\ key \in Keys
  BY DEF IInv, StateOK
<1>2. CASE Tick \/ UNCHANGED vars
  BY <1>1, <1>2, ClockStepKeeps DEF Tick, vars, ClockStep
<1>3. ASSUME NEW k \in Keys, Redeploy(k) PROVE IInv'
  BY <1>1, <1>3, ClockStepKeeps DEF Redeploy, ClockStep
<1>4. ASSUME NEW t \in Tabs, Handle(t) PROVE IInv'
  BY <1>4, HandleStep, MessageStepKeeps, IssueStepKeeps
<1>5. ASSUME NEW t \in Tabs, Receive(t) PROVE IInv'
  BY <1>5, ReceiveIsStep, ReceiveStepKeeps
<1>6. ASSUME NEW t \in Tabs, Lose(t) PROVE IInv'
  BY <1>6, LoseStep, MessageStepKeeps
<1> QED
  BY <1>2, <1>3, <1>4, <1>5, <1>6 DEF Next

\* The invariant holds throughout.
LEMMA Invariance == Spec => []IInv
  BY InitHolds, NextKeeps, PTL DEF Spec
-----------------------------------------------------------------------------
(* The theorems.                                                           *)

\* A refresh token of a browser is the token of an issued session that the
\* browser has.
LEMMA TokensOfBrowser ==
  ASSUME IInv, NEW j \in Jars, NEW x \in RefreshTokensOf(j)
  PROVE  /\ x.sid \in SessionIds /\ Issued(x.sid) /\ x = row[x.sid].hash
         /\ x.fam = book[x.sid].family /\ Has(j, x.sid)
<1>1. x \notin {None, KeepCookie, ClearCookie}
  BY DEF RefreshTokensOf
<1>2. \/ x = jar[j].cookie
      \/ \E t \in Tabs : jarOf[t] = j /\ wire[t].stage = "answer" /\ x = wire[t].cookie
  BY SMTT(60) DEF RefreshTokensOf
<1>3. IsRefresh(x)
  BY <1>1, <1>2 DEF IInv, JarsOK, WireOK, MessageOK, AnswerOK
<1>4. x.sid \in SessionIds /\ Issued(x.sid) /\ x = row[x.sid].hash
  BY <1>3 DEF IsRefresh, Issued
<1>5. Has(j, x.sid)
  BY <1>2, <1>4 DEF Has, HasCookie, Carries
<1>6. x.fam = book[x.sid].family
  BY <1>4 DEF IInv, RowsOK
<1> QED
  BY <1>4, <1>5, <1>6

\* A browser refreshing is never taken for a reuse of another browser's token:
\* in no reachable state do two browsers hold refresh tokens of one family.
THEOREM Families == Spec => []BrowsersDontShareFamilies
<1>1. IInv => BrowsersDontShareFamilies
  BY TokensOfBrowser DEF IInv, OneHolder, SameFamily, BrowsersDontShareFamilies
<1> QED
  BY <1>1, Invariance, PTL

\* A browser is left with a spent cookie, while its family has a good token,
\* only while the answer with that token is on its way or because it was lost.
THEOREM SpentCookies == Spec => []SpentCookieOnlyByLoss
<1>1. ASSUME IInv PROVE SpentCookieOnlyByLoss
  <2> SUFFICES ASSUME NEW j \in Jars, NEW n \in SessionIds,
                      jar[j].cookie # None, Store!Good(n), jar[j].cookie.sid # n,
                      book[n].family = jar[j].cookie.fam
               PROVE  n \in lost \/ \E x \in RefreshTokensOf(j) : x.sid = n
    BY DEF SpentCookieOnlyByLoss
  <2>1. IsRefresh(jar[j].cookie)
    BY <1>1 DEF IInv, JarsOK
  <2>2. PICK s \in SessionIds : Issued(s) /\ jar[j].cookie = row[s].hash
    BY <2>1 DEF IsRefresh, Issued
  <2>3. HasCookie(j, s) /\ n # s /\ SameFamily(s, n)
    BY <1>1, <2>2, SMTT(60) DEF HasCookie, SameFamily, IInv, RowsOK
  <2>4. n \in lost \/ \E t \in Tabs : jarOf[t] = j /\ Carries(t, n)
    BY <1>1, <2>2, <2>3 DEF IInv, SpentByLoss
  <2>5. ASSUME NEW t \in Tabs, jarOf[t] = j, Carries(t, n)
        PROVE  \E x \in RefreshTokensOf(j) : x.sid = n
    <3>1. Issued(n)
      BY SMTT(60) DEF Store!Good, Issued
    <3>2. row[n].hash.sid = n /\ row[n].hash \notin {None, KeepCookie, ClearCookie}
      BY <1>1, <3>1, RefreshTokensAreReal, SMTT(60) DEF IInv, RowsOK
    <3>3. row[n].hash \in RefreshTokensOf(j)
      BY <2>5, <3>2 DEF RefreshTokensOf, Carries
    <3> QED
      BY <3>2, <3>3
  <2> QED
    BY <2>4, <2>5
<1> QED
  BY <1>1, Invariance, PTL

\* Every answer is one the OpenAPI document lists for its endpoint, except
\* the 500 after a session id that is no UUID or a password that is no string,
\* and no handler refuses a body that the document allows.
THEOREM Documents == Spec => []ApiFollowsItsDocument
<1>1. IInv => \A t \in Tabs : wire[t].stage = "answer" => (wire[t].documented <=> ~wire[t].fault)
  BY DEF IInv, WireOK, MessageOK, AnswerOK
<1>2. AnswersFollowTheDocument /\ BodiesFollowTheDocument
  BY HandlersFollowTheDocument, HandlersAcceptWhatConforms
     DEF AnswersFollowTheDocument, BodiesFollowTheDocument
<1>3. IInv => ApiFollowsItsDocument
  BY <1>1, <1>2 DEF ApiFollowsItsDocument
<1> QED
  BY <1>3, Invariance, PTL

\* Only AuthenticateAccessToken lets a request in, and only Refresh rotates.
LEMMA OnlyChecksAdmit ==
  ASSUME IInv, NEW t \in Tabs, Handle(t) \/ Receive(t) \/ Lose(t), Admits(t)
  PROVE  \/ wire'[t].stage = "authed" /\ AccessError(wire'[t].token) = ""
         \/ /\ wire[t].stage = "sent" /\ wire'[t].stage # "authed"
            /\ RefreshError(wire[t].token) = ""
<1>1. DOMAIN wire = Tabs
  BY SMTT(60) DEF IInv, StateOK
<1>2. ASSUME NEW endpoint, NEW status, NEW cookie, AnswerWith(t, endpoint, status, cookie, None)
      PROVE  FALSE
  BY <1>1, <1>2 DEF AnswerWith, Admits
<1>3. ASSUME NEW endpoint, NEW error, Fail(t, endpoint, error) \/ ServerError(t, endpoint)
      PROVE  FALSE
  <2>1. CASE Fail(t, endpoint, error)
    BY <1>2, <2>1, SMTT(60) DEF Fail
  <2>2. CASE ServerError(t, endpoint)
    BY <1>1, <2>2 DEF ServerError, Admits
  <2> QED  BY <1>3, <2>1, <2>2
<1>4. CASE Refresh(t)
  <2>1. wire[t].stage = "sent" /\ RefreshError(wire[t].token) = ""
    BY <1>4, Zenon DEF Refresh
  <2>2. PICK cookie, access, documented : wire' = [wire EXCEPT ![t] =
          [stage |-> "answer", documented |-> documented, fault |-> FALSE,
           cookie |-> cookie, access |-> access]]
    BY <1>4, ZenonT(60) DEF Refresh, IssueTokens, AnswerWith
  <2>3. wire'[t].stage = "answer"
    BY <2>2, <1>1
  <2> QED
    BY <2>1, <2>3, Zenon
<1>5. CASE SignIn(t)
  <2>1. wire[t] = Nothing
    BY <1>5, Zenon DEF SignIn, Free
  <2>2. PICK cookie, access, documented : wire' = [wire EXCEPT ![t] =
          [stage |-> "answer", documented |-> documented, fault |-> FALSE,
           cookie |-> cookie, access |-> access]]
    BY <1>5, ZenonT(60) DEF SignIn, IssueTokens, AnswerWith
  <2>3. wire[t].stage = "none"
    BY <2>1 DEF Nothing
  <2>4. wire'[t].stage = "answer"
    BY <2>2, <1>1
  <2> QED
    BY <2>3, <2>4 DEF Admits
<1>6. CASE SignInRefused(t) \/ RefreshRefused(t)
  BY <1>6, <1>2, <1>3, Zenon DEF SignInRefused, RefreshRefused
<1>7. CASE Me(t) \/ Sessions(t) \/ RevokeAll(t) \/ ChangePassword(t)
  BY <1>7, <1>2, <1>3, Zenon DEF Me, Sessions, RevokeAll, ChangePassword, EndSessions
<1>8. CASE Logout(t) \/ RevokeSession(t)
  BY <1>8, <1>2, <1>3, Zenon DEF Logout, RevokeSession, Revoke
<1>9. ASSUME NEW token, SendRefresh(t, token) PROVE FALSE
  BY <1>9, <1>1, Zenon DEF SendRefresh, Free, Nothing, Admits
<1>10. ASSUME NEW endpoint, NEW token, NEW target, Authenticate(t, endpoint, token, target)
       PROVE  wire'[t].stage = "authed" /\ AccessError(wire'[t].token) = ""
  <2>1. /\ AccessError(token) = ""
        /\ wire' = [wire EXCEPT ![t] =
             [stage |-> "authed", endpoint |-> endpoint, token |-> token, target |-> target]]
    BY <1>10, <1>2, <1>3, Zenon DEF Authenticate
  <2> QED
    BY <2>1, <1>1, Zenon
<1>11. CASE Receive(t) \/ Lose(t)
  <2>1. wire' = [wire EXCEPT ![t] = Nothing]
    BY <1>11, Zenon DEF Receive, Lose
  <2>2. wire'[t].stage = "none"
    BY <2>1, <1>1 DEF Nothing
  <2> QED
    BY <2>2, Zenon DEF Admits
<1> QED
  BY <1>4, <1>5, <1>6, <1>7, <1>8, <1>9, <1>10, <1>11, Zenon DEF Handle

\* The token a step lets in or rotates is of the type that belongs there, of
\* the running key, and of a session neither revoked nor expired.
LEMMA AdmitsChecked ==
  ASSUME IInv, NEW t \in Tabs, Handle(t) \/ Receive(t) \/ Lose(t), Admits(t)
  PROVE  \/ /\ wire'[t].stage = "authed"
            /\ wire'[t].token.type = "access" /\ wire'[t].token.key = key
            /\ Store!Good(wire'[t].token.sid) /\ now < row[wire'[t].token.sid].expiresAt
         \/ /\ wire'[t].stage # "authed"
            /\ wire[t].token.type = "refresh" /\ wire[t].token.key = key
            /\ Store!Good(wire[t].token.sid) /\ now < row[wire[t].token.sid].expiresAt
<1>1. CASE wire'[t].stage = "authed" /\ AccessError(wire'[t].token) = ""
  <2>1. MessageStep(t)
    <3>1. ~ \E s \in SessionIds, f \in SessionIds : IssueStep(t, s, f)
      BY <1>1, Zenon DEF IssueStep
    <3>2. ASSUME Receive(t) PROVE FALSE
      <4>1. wire'[t] = Nothing
        BY <3>2, ReceiveIsStep DEF ReceiveStep
      <4>2. wire'[t].stage = "none"
        BY <4>1 DEF Nothing
      <4> QED
        BY <1>1, <4>2, Zenon
    <3> QED
      BY <3>1, <3>2, HandleStep, LoseStep
  <2>2. IsAccess(wire'[t].token)
    BY <1>1, <2>1, Zenon DEF MessageStep, MessageOK
  <2> QED
    BY <1>1, <2>2, AccessChecks, Zenon
<1>2. CASE /\ wire[t].stage = "sent" /\ wire'[t].stage # "authed"
           /\ RefreshError(wire[t].token) = ""
  BY <1>2, RefreshChecks, Zenon
<1> QED
  BY <1>1, <1>2, OnlyChecksAdmit, Zenon

\* No request gets in with a refresh token, no refresh rotates with an access
\* token, and neither with a token of another key or of a session that is
\* revoked or expired at the moment of the check.
THEOREM Places == Spec => TokensStayInTheirPlace
<1> DEFINE Placed(t) ==
      Admits(t) =>
        LET x == IF wire'[t].stage = "authed" THEN wire'[t].token ELSE wire[t].token
        IN  /\ x.type = IF wire'[t].stage = "authed" THEN "access" ELSE "refresh"
            /\ Store!Good(x.sid) /\ x.key = key /\ now < row[x.sid].expiresAt
<1>1. ASSUME IInv, [Next]_vars PROVE [\A t \in Tabs : Placed(t)]_vars
  <2> SUFFICES ASSUME Next, NEW t \in Tabs, Admits(t) PROVE Placed(t)
    BY <1>1, SMTT(60)
  <2>1. CASE Tick \/ \E k \in Keys : Redeploy(k)
    BY <2>1 DEF Tick, Redeploy, Admits
  <2>2. CASE \E u \in Tabs : Handle(u) \/ Receive(u) \/ Lose(u)
    <3>1. PICK u \in Tabs : Handle(u) \/ Receive(u) \/ Lose(u)
      BY <2>2
    <3>2. OnlyTab(u)
      BY <1>1, <3>1, HandleStep, ReceiveIsStep, LoseStep DEF MessageStep, IssueStep, ReceiveStep
    <3>3. u = t
      BY <3>2 DEF OnlyTab, Admits
    <3>4. Handle(t) \/ Receive(t) \/ Lose(t)
      BY <3>1, <3>3
    <3> QED
      BY <1>1, <3>4, AdmitsChecked, Zenon
  <2> QED
    BY <2>1, <2>2, ZenonT(60) DEF Next
<1> QED
  BY <1>1, Invariance, PTL DEF Spec, TokensStayInTheirPlace
=============================================================================
