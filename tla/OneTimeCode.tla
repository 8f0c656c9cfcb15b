---------------------------- MODULE OneTimeCode -----------------------------
(***************************************************************************)
(* What e-mail verification promises, without transactions, locks or       *)
(* clocks: an account waiting for verification has at most one code in     *)
(* force; a code is put in force once, in the order the codes are issued;  *)
(* only the code in force can verify the account, and doing so ends it;    *)
(* each wrong answer uses up one of its tries and nothing gives one back.  *)
(***************************************************************************)
EXTENDS Naturals

CONSTANTS Accounts, Tries

VARIABLES
  inForce,   \* inForce[u]: the number of the code in force, 0 if there is none
  issued,    \* the number of codes issued so far
  tries,     \* tries[u]: the wrong answers the code in force still allows
  verified   \* the accounts verified

vars == <<inForce, issued, tries, verified>>

Init ==
  /\ inForce = [u \in Accounts |-> 0]
  /\ issued = 0
  /\ tries = [u \in Accounts |-> 0]
  /\ verified = {}

\* A new code takes the place of the one in force.
Issue(u) ==
  /\ issued' = issued + 1
  /\ inForce' = [inForce EXCEPT ![u] = issued']
  /\ tries' = [tries EXCEPT ![u] = Tries]
  /\ UNCHANGED verified

\* A wrong answer.
Miss(u) ==
  /\ inForce[u] # 0 /\ tries[u] > 0
  /\ tries' = [tries EXCEPT ![u] = @ - 1]
  /\ UNCHANGED <<inForce, issued, verified>>

\* The right answer, while tries are left.
Verify(u) ==
  /\ inForce[u] # 0 /\ tries[u] > 0
  /\ verified' = verified \cup {u}
  /\ inForce' = [inForce EXCEPT ![u] = 0]
  /\ tries' = [tries EXCEPT ![u] = 0]
  /\ UNCHANGED issued

Next == \E u \in Accounts : Issue(u) \/ Miss(u) \/ Verify(u)

Spec == Init /\ [][Next]_vars
=============================================================================
