----------------------------- MODULE MCAccounts -----------------------------
(* Instances of Accounts for TLC.                                          *)
EXTENDS Accounts

\* The shortest and the longest the policy accepts.
Password == <<"a", "B", "1">>
LongPassword == <<"a", "B", "1", "-">>

\* One address in two spellings, under two names; one name in two spellings,
\* the second with a phone number; and one request no policy accepts.
SomeCommands ==
  {[username |-> <<"a", "b">>, email |-> <<" ", "a", "@", "b", ".", "c">>,
    phone |-> None, password |-> Password],
   [username |-> <<"b", "1">>, email |-> <<"A", "@", "b", ".", "C">>,
    phone |-> None, password |-> LongPassword],
   [username |-> <<"A", "b", "\t">>, email |-> None,
    phone |-> <<"+", "1", "-", "2">>, password |-> Password],
   [username |-> <<"_", "b">>, email |-> <<"a", "@", "b">>,
    phone |-> None, password |-> <<"a">>]}

\* As stored, and as typed with the other case.
SomeSpellings == {<<"a", "@", "b", ".", "c">>, <<"A", "@", "b", ".", "c">>}
=============================================================================
