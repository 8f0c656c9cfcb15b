------------------------------- MODULE HttpApi ------------------------------
(***************************************************************************)
(* The HTTP handlers between browsers and the services.  A browser keeps   *)
(* one cookie jar and one access token for all its tabs; each tab has at   *)
(* most one request under way.  Requests and answers are delayed and lost, *)
(* and a browser may present either token where the other belongs.         *)
(*                                                                         *)
(* The session store is the atomic token book of TokenFamily, which module *)
(* Sessions shows the transactions implement.  A handler that needs an     *)
(* access token authenticates in one step and acts in another, and other   *)
(* requests are served in between.                                         *)
(***************************************************************************)
EXTENDS Tokens, HttpBodies

CONSTANTS
  Users,       \* user ids
  SessionIds,  \* session ids, numbers in the order they are generated
  Jars,        \* browsers
  Tabs,        \* tabs
  Layouts,     \* the ways the tabs may belong to browsers
  Keys,        \* signing keys, numbers in the order they are deployed
  SessionTtl,  \* SessionPolicy::refresh_token_ttl
  KeepCookie, ClearCookie,  \* an answer without Set-Cookie, with Max-Age=0
  Endpoints,   \* the endpoints the tabs call
  None,        \* an absent row, token or header
  MaxNow       \* bound on the clock

VARIABLES
  now,   \* the system clock
  key,   \* the key of the running deployment
  book,  \* the tokens of TokenFamily; a family is named for its first session
  row,   \* row[s]: expires_at and refresh_token_hash of session s
  jarOf, \* jarOf[t]: the browser tab t belongs to
  jar,   \* jar[j]: the refresh cookie and the access token of browser j
  wire,  \* wire[t]: the request or the answer of tab t under way
  lost   \* history: sessions whose tokens were lost with an answer

vars == <<now, key, book, row, jarOf, jar, wire, lost>>

Store == INSTANCE TokenFamily WITH Families <- SessionIds

BearerEndpoints ==
  {"me", "sessions", "logout", "revoke_all", "revoke_session", "change_password"}

Nothing == [stage |-> "none"]

\* What both parsers make of a signed token.
JsonWebToken ==
  [key : Keys, sub : Users, sid : SessionIds, fam : SessionIds \cup {NoClaim},
   type : {"access", "refresh"}, exp : Nat]

ASSUME HttpAssumption ==
  /\ SessionIds \subseteq Nat /\ Keys \subseteq Nat
  /\ Layouts \subseteq [Tabs -> Jars]
  /\ Endpoints \subseteq BearerEndpoints \cup {"sign_in", "refresh"}
  /\ {AccessTtl, RefreshTtl, SessionTtl} \subseteq Nat

\* What is absent, kept or cleared is no token.
ASSUME AbsentAssumption ==
  /\ None \notin Store!Token
  /\ {None, KeepCookie, ClearCookie} \cap JsonWebToken = {}
  /\ None \notin {KeepCookie, ClearCookie} /\ KeepCookie # ClearCookie

Init ==
  /\ now = 0
  /\ key \in Keys /\ \A o \in Keys : key <= o
  /\ Store!Init
  /\ row = [s \in SessionIds |-> None]
  /\ jarOf \in Layouts
  /\ jar = [j \in Jars |-> [cookie |-> None, access |-> None]]
  /\ wire = [t \in Tabs |-> Nothing]
  /\ lost = {}
-----------------------------------------------------------------------------
(* Answers.                                                                *)

\* cookie: the token Set-Cookie sets, ClearCookie or KeepCookie.  Of the
\* status only one thing matters later: whether it is a documented one.
\* fault: the answer is the server's, after an exception no handler maps.
AnswerWith(t, endpoint, status, cookie, access) ==
  wire' = [wire EXCEPT ![t] =
    [stage |-> "answer", documented |-> status \in Documented[endpoint], fault |-> FALSE,
     cookie |-> cookie, access |-> access]]

\* A request the document does not allow meets an exception that is not one
\* of the services: it leaves the handler, and the server answers 500.
ServerError(t, endpoint) ==
  wire' = [wire EXCEPT ![t] =
    [stage |-> "answer", documented |-> 500 \in Documented[endpoint], fault |-> TRUE,
     cookie |-> KeepCookie, access |-> None]]

\* ClearRefreshCookie comes first in the handlers that end sessions, so that
\* their error answers clear the cookie too.
CookieOf(endpoint) ==
  IF endpoint \in {"logout", "revoke_all"} THEN ClearCookie ELSE KeepCookie

Fail(t, endpoint, error) ==
  AnswerWith(t, endpoint, AuthErrorResponse(error), CookieOf(endpoint), None)

Free(t, endpoint) == wire[t] = Nothing /\ endpoint \in Endpoints

Serves(t, endpoints) == wire[t].stage = "authed" /\ wire[t].endpoint \in endpoints

\* What a browser may present: nothing, or a token it has, the right one or not.
Presents(t, token) == token \in {None, jar[jarOf[t]].cookie, jar[jarOf[t]].access}
-----------------------------------------------------------------------------
(* Browsers and the network.                                               *)

\* A refresh sets out with the cookie of the moment.
SendRefresh(t, token) ==
  /\ Free(t, "refresh") /\ Presents(t, token)
  /\ wire' = [wire EXCEPT ![t] = [stage |-> "sent", endpoint |-> "refresh", token |-> token]]
  /\ UNCHANGED <<now, key, book, row, jar, lost, jarOf>>

Receive(t) ==
  LET j == jarOf[t]
      a == wire[t]
  IN  /\ a.stage = "answer"
      /\ jar' = [jar EXCEPT ![j] =
           [cookie |-> CASE a.cookie = ClearCookie -> None
                         [] a.cookie = KeepCookie  -> jar[j].cookie
                         [] OTHER -> a.cookie,
            access |-> IF a.access = None THEN jar[j].access ELSE a.access]]
      /\ wire' = [wire EXCEPT ![t] = Nothing]
      /\ UNCHANGED <<now, key, book, row, lost, jarOf>>

\* The request or the answer does not arrive.
Lose(t) ==
  /\ wire[t].stage \in {"sent", "answer"}
  /\ lost' = IF wire[t].stage = "answer" /\ wire[t].access # None
               THEN lost \cup {wire[t].access.sid} ELSE lost
  /\ wire' = [wire EXCEPT ![t] = Nothing]
  /\ UNCHANGED <<now, key, book, row, jar, jarOf>>

Tick ==
  /\ now < MaxNow /\ now' = now + 1
  /\ UNCHANGED <<key, book, row, jar, wire, lost, jarOf>>

\* A deployment with a new key pair and key id.
Redeploy(k) ==
  /\ k > key /\ key' = k
  /\ UNCHANGED <<now, book, row, jar, wire, lost, jarOf>>
-----------------------------------------------------------------------------
(* Sign-in and refresh.                                                    *)

Unused == {s \in SessionIds : book[s] = None}

\* Ids come from the generator; the model hands them out in order.
NextId(s) == s \in Unused /\ \A o \in Unused : s <= o

\* Both tokens of session s, its row and the answer that carries them.
IssueTokens(t, endpoint, s, user, fam) ==
  LET tokens == GenerateTokens(key, user, s, fam, now)
  IN  /\ row' = [row EXCEPT ![s] = [expiresAt |-> now + SessionTtl, hash |-> tokens.refresh]]
      /\ AnswerWith(t, endpoint, 200, tokens.refresh, tokens.access)

\* Mutant: a sign-in joins the family of a session the user already has.
SignInSharingFamily(t) ==
  /\ Free(t, "sign_in")
  /\ \E s \in SessionIds, u \in Users, f \in SessionIds :
       /\ NextId(s) /\ (f # s => book[f] # None /\ book[f].user = u)
       /\ book' = [book EXCEPT ![s] = [user |-> u, family |-> f, good |-> TRUE]]
       /\ IssueTokens(t, "sign_in", s, u, f)
  /\ UNCHANGED <<now, key, jar, lost, jarOf>>

SignIn(t) ==
  /\ Free(t, "sign_in")
  /\ \E s \in SessionIds, u \in Users :
       /\ NextId(s)
       /\ Store!Open(s, u, s)
       /\ IssueTokens(t, "sign_in", s, u, s)
  /\ UNCHANGED <<now, key, jar, lost, jarOf>>

\* A malformed body, or what AuthenticationService::SignIn throws.
SignInRefused(t) ==
  /\ Free(t, "sign_in")
  /\ \/ AnswerWith(t, "sign_in", 400, KeepCookie, None)
     \/ \E error \in SignInErrors : Fail(t, "sign_in", error)
  /\ UNCHANGED <<now, key, book, row, jar, lost, jarOf>>

\* What Refresh finds wrong with the token presented, in its order; "" if
\* nothing is.
RefreshError(token) ==
  LET s == token.sid
  IN  IF token = None THEN "InvalidRefreshToken"
      ELSE IF ~ParseRefreshToken(token, key, now) THEN "InvalidRefreshToken"
      ELSE IF book[s] = None THEN "RefreshSessionNotFound"
      ELSE IF book[s].user # token.sub \/ book[s].family # token.fam
             THEN "InvalidRefreshToken"
      ELSE IF ~book[s].good
             THEN IF row[s].hash = token THEN "RefreshTokenReuseDetected"
                  ELSE "RefreshSessionRevoked"
      ELSE IF row[s].expiresAt <= now THEN "RefreshSessionExpired"
      ELSE IF row[s].hash # token THEN "InvalidRefreshToken"
      ELSE ""

GoodOf(u) == {s \in SessionIds : Store!Good(s) /\ book[s].user = u}

RefreshRefused(t) ==
  LET token == wire[t].token
      error == RefreshError(token)
  IN  /\ wire[t].stage = "sent"
      /\ error # ""
      /\ IF error = "RefreshTokenReuseDetected"
           THEN Store!Revoke({s \in GoodOf(token.sub) : book[s].family = token.fam})
           ELSE UNCHANGED book
      /\ Fail(t, "refresh", error)
      /\ UNCHANGED <<now, key, row, jar, lost, jarOf>>

\* Mutant: the answer carries the access token and no Set-Cookie.
RefreshWithoutCookie(t) ==
  LET old == wire[t].token.sid
  IN  /\ wire[t].stage = "sent"
      /\ RefreshError(wire[t].token) = ""
      /\ \E n \in SessionIds :
           /\ NextId(n) /\ Store!Rotate(old, n)
           /\ row' = [row EXCEPT ![n] =
                [expiresAt |-> now + SessionTtl, hash |->
                 GenerateRefreshToken(key, book[old].user, n, book[old].family, now)]]
           /\ AnswerWith(t, "refresh", 200, KeepCookie,
                         GenerateAccessToken(key, book[old].user, n, now))
      /\ UNCHANGED <<now, key, jar, lost, jarOf>>

Refresh(t) ==
  LET old == wire[t].token.sid
  IN  /\ wire[t].stage = "sent"
      /\ RefreshError(wire[t].token) = ""
      /\ \E n \in SessionIds :
           /\ NextId(n) /\ Store!Rotate(old, n)
           /\ IssueTokens(t, "refresh", n, book[old].user, book[old].family)
      /\ UNCHANGED <<now, key, jar, lost, jarOf>>
-----------------------------------------------------------------------------
(* The handlers that need an access token.                                 *)

AccessError(token) ==
  LET s == token.sid
  IN  IF token = None THEN "MissingAccessToken"
      ELSE IF ~ParseAccessToken(token, key, now) THEN "InvalidAccessToken"
      ELSE IF book[s] = None THEN "AuthSessionNotFound"
      ELSE IF book[s].user # token.sub THEN "InvalidAccessToken"
      ELSE IF ~book[s].good THEN "AuthSessionRevoked"
      ELSE IF row[s].expiresAt <= now THEN "AuthSessionExpired"
      ELSE ""

\* ExtractBearerToken and AuthenticateAccessToken.  The handler of
\* change-password looks at the body in between: a member that is missing is
\* refused, one that is no string makes As<std::string> throw, outside the
\* try.  target: the session id of the path, None when it is no UUID or the
\* endpoint has none.
Authenticate(t, endpoint, token, target) ==
  LET error == AccessError(token)
  IN  /\ Free(t, endpoint) /\ Presents(t, token)
      /\ \/ error # "" /\ Fail(t, endpoint, error)
         \/ error = "" /\ wire' = [wire EXCEPT ![t] =
              [stage |-> "authed", endpoint |-> endpoint, token |-> token, target |-> target]]
         \/ /\ endpoint = "change_password" /\ token # None
            /\ AnswerWith(t, endpoint, 400, KeepCookie, None) \/ ServerError(t, endpoint)
      /\ UNCHANGED <<now, key, book, row, jar, lost, jarOf>>

\* GetCurrentUser
Me(t) ==
  /\ Serves(t, {"me"})
  /\ AnswerWith(t, "me", 200, KeepCookie, None)
  /\ UNCHANGED <<now, key, book, row, jar, lost, jarOf>>

Sessions(t) ==
  /\ Serves(t, {"sessions"})
  /\ AnswerWith(t, "sessions", 200, KeepCookie, None)
  /\ UNCHANGED <<now, key, book, row, jar, lost, jarOf>>

\* SessionService::RevokeSession of session s, for the user of the token.
Revoke(t, s) ==
  LET l     == wire[t]
      error == IF book[s] = None THEN "SessionNotFound"
               ELSE IF book[s].user # l.token.sub THEN "SessionForbidden" ELSE ""
  IN  /\ IF error = ""
           THEN /\ Store!Revoke({s} \cap GoodOf(l.token.sub))
                /\ AnswerWith(t, l.endpoint, 204, CookieOf(l.endpoint), None)
           ELSE Fail(t, l.endpoint, error) /\ UNCHANGED book
      /\ UNCHANGED <<now, key, row, jar, lost, jarOf>>

Logout(t) == Serves(t, {"logout"}) /\ Revoke(t, wire[t].token.sid)

\* PostgreSQL refuses to compare the id of a row with what is no UUID, and
\* the mapper does not know its exception.
RevokeSession(t) ==
  /\ Serves(t, {"revoke_session"})
  /\ \/ wire[t].target # None /\ Revoke(t, wire[t].target)
     \/ /\ wire[t].target = None /\ ServerError(t, "revoke_session")
        /\ UNCHANGED <<now, key, book, row, jar, lost, jarOf>>

\* The sessions of the user of the token, and the cookie, are gone.
EndSessions(t) ==
  /\ Store!Revoke(GoodOf(wire[t].token.sub))
  /\ AnswerWith(t, wire[t].endpoint, 204, ClearCookie, None)

RevokeAll(t) ==
  /\ Serves(t, {"revoke_all"})
  /\ EndSessions(t)
  /\ UNCHANGED <<now, key, row, jar, lost, jarOf>>

\* Both passwords are accepted, or one is not.
ChangePassword(t) ==
  /\ Serves(t, {"change_password"})
  /\ \/ EndSessions(t)
     \/ /\ \E error \in ChangePasswordErrors : Fail(t, "change_password", error)
        /\ UNCHANGED book
  /\ UNCHANGED <<now, key, row, jar, lost, jarOf>>
-----------------------------------------------------------------------------
Handle(t) ==
  \/ SignIn(t) \/ SignInRefused(t) \/ Refresh(t) \/ RefreshRefused(t)
  \/ Me(t) \/ Sessions(t) \/ Logout(t) \/ RevokeSession(t) \/ RevokeAll(t)
  \/ ChangePassword(t)
  \/ \E token \in {None} \cup {jar[j].cookie : j \in Jars} \cup {jar[j].access : j \in Jars} :
       \/ SendRefresh(t, token)
       \/ \E endpoint \in BearerEndpoints : Authenticate(t, endpoint, token, None)
       \/ \E s \in SessionIds : Authenticate(t, "revoke_session", token, s)

Next ==
  \/ Tick
  \/ \E k \in Keys : Redeploy(k)
  \/ \E t \in Tabs : Handle(t) \/ Receive(t) \/ Lose(t)

Spec == Init /\ [][Next]_vars
-----------------------------------------------------------------------------
(* Properties.                                                             *)

\* Every request a handler completes is answered with a status the OpenAPI
\* document lists for the endpoint, but for two: DELETE of a session id that
\* is no UUID and a change-password body with a member that is no string,
\* neither of which the document allows, end in a 500 it does not list.  No
\* exception of a service escapes the mapper.  And a handler never refuses a
\* body the document allows, at the limits of its lengths included.
ApiFollowsItsDocument ==
  /\ \A t \in Tabs : wire[t].stage = "answer" => (wire[t].documented <=> ~wire[t].fault)
  /\ AnswersFollowTheDocument
  /\ now = 0 => BodiesFollowTheDocument

\* The step lets in the request of tab t, or rotates for it.
Admits(t) ==
  /\ wire'[t] # wire[t]
  /\ \/ wire'[t].stage = "authed"
     \/ wire[t].stage = "sent" /\ wire'[t].stage = "answer" /\ wire'[t].access # None

\* A request is let in only with an access token, and a refresh rotates only
\* with a refresh token, signed with the running key, for a session that is
\* neither revoked nor expired at that moment.
TokensStayInTheirPlace ==
  [][\A t \in Tabs : Admits(t) =>
       LET x == IF wire'[t].stage = "authed" THEN wire'[t].token ELSE wire[t].token
       IN  /\ x.type = IF wire'[t].stage = "authed" THEN "access" ELSE "refresh"
           /\ Store!Good(x.sid) /\ x.key = key /\ now < row[x.sid].expiresAt]_vars

\* The refresh tokens of browser j, those on their way to it included.
RefreshTokensOf(j) ==
  ({jar[j].cookie} \cup
   {wire[t].cookie : t \in {t \in Tabs : jarOf[t] = j /\ wire[t].stage = "answer"}})
    \ {None, KeepCookie, ClearCookie}

\* Two browsers never hold refresh tokens of one family, so that one of them
\* refreshing is never taken for a reuse of the other's token.
BrowsersDontShareFamilies ==
  \A i, j \in Jars : i # j =>
    \A x \in RefreshTokensOf(i), y \in RefreshTokensOf(j) : x.fam # y.fam

\* A browser keeps a spent token while its family has a good one only if the
\* answer with the good one is on its way to it or was lost: answers never
\* overtake one another in a way that leaves an old cookie in place.
SpentCookieOnlyByLoss ==
  \A j \in Jars, n \in SessionIds : LET c == jar[j].cookie IN
    /\ c # None /\ Store!Good(n)
    /\ c.sid # n /\ book[n].family = c.fam
    => \/ n \in lost
       \/ \E x \in RefreshTokensOf(j) : x.sid = n
=============================================================================
