--------------------------- MODULE MCEmailOutbox ---------------------------
(***************************************************************************)
(* Instances of EmailOutbox for TLC.                                       *)
(***************************************************************************)
EXTENDS EmailOutbox, TLC

\* The actions tell workers, ids and leases apart only by equality.
Symmetry ==
  Permutations(Workers) \cup Permutations(JobIds) \cup Permutations(Leases)

Config(enabled, size, max) ==
  [processing_enabled |-> enabled, batch_size |-> size, max_attempts |-> max]

\* The config is changed and processing switched off at any time.
AllConfigs == {Config(TRUE, 2, 1), Config(TRUE, 1, 2), Config(FALSE, 1, 1)}

\* Processing stays on.
TwoAttempts == {Config(TRUE, 2, 2)}
OneAttempt == {Config(TRUE, 1, 1)}
=============================================================================
