----------------------------- MODULE MCSessions -----------------------------
(* Instances of Sessions for TLC.                                          *)
EXTENDS Sessions, TLC

\* Sessions never compares, orders or chooses among the members of these sets.
Symmetry ==
  Permutations(SessionIds) \cup Permutations(Families) \cup
  Permutations(Tasks) \cup Permutations(ResetIds) \cup Permutations(Passwords)

\* Rotation, authentication and every way to revoke.
TokenRequests ==
  {"sign_in", "refresh", "authenticate", "revoke_session", "revoke_all"}

\* What touches a password, and the sign-ins that depend on it.
PasswordRequests ==
  {"sign_in", "authenticate", "change_password", "password_reset"}

RefreshOnly == {"sign_in", "refresh"}

SignInAndChange == {"sign_in", "authenticate", "change_password"}
=============================================================================
