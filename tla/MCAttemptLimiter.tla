-------------------------- MODULE MCAttemptLimiter --------------------------
(* Instances of AttemptLimiter for TLC.                                    *)
EXTENDS AttemptLimiter, TLC

\* Three scopes in pairs, as a cycle, and a fourth without a limit.
Cycle == {{1, 2}, {2, 3}, {1, 3, 4}}

SmallLimits == 1 :> 2 @@ 2 :> 1 @@ 3 :> 1 @@ 4 :> 0
=============================================================================
