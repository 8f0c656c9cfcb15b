---------------------------- MODULE TokenFamily -----------------------------
(***************************************************************************)
(* What the session store promises to the handlers above it, without tasks *)
(* or transactions: a sign-in opens a family with one good refresh token;  *)
(* a refresh puts a new token of the same family and user in the place of  *)
(* the good one; a revocation ends good tokens for ever.  Nothing else     *)
(* happens to the tokens, each of these at once.                           *)
(***************************************************************************)
CONSTANTS Users, SessionIds, Families, None

VARIABLE book  \* book[s]: the token issued for session s, or None

Token == [user : Users, family : Families, good : BOOLEAN]

Good(s) == book[s] # None /\ book[s].good

Init == book = [s \in SessionIds |-> None]

Open(s, u, f) ==
  /\ book[s] = None
  /\ \A o \in SessionIds : book[o] # None => book[o].family # f
  /\ book' = [book EXCEPT ![s] = [user |-> u, family |-> f, good |-> TRUE]]

Rotate(s, n) ==
  /\ Good(s) /\ book[n] = None
  /\ book' = [book EXCEPT ![s] = [book[s] EXCEPT !.good = FALSE], ![n] = book[s]]

Revoke(S) ==
  /\ \A s \in S : Good(s)
  /\ book' = [s \in SessionIds |->
                IF s \in S THEN [book[s] EXCEPT !.good = FALSE] ELSE book[s]]

Next ==
  \/ \E s \in SessionIds, u \in Users, f \in Families : Open(s, u, f)
  \/ \E s, n \in SessionIds : Rotate(s, n)
  \/ \E S \in SUBSET SessionIds : Revoke(S)

Spec == Init /\ [][Next]_book
=============================================================================
