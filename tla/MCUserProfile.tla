--------------------------- MODULE MCUserProfile ---------------------------
(* Instantiation of UserProfile for TLC.                                   *)
EXTENDS UserProfileWeights, TLC

CONSTANTS a1, a2, a3

MCAccounts == {a1, a2}

\* Three accounts, for chains of renames (MCUserProfile_Chains.cfg).
MCAccounts3 == {a1, a2, a3}
AccountSymmetry3 == Permutations(MCAccounts3)

\* No avatar or bio vector: update_profile may only leave or clear them.
MCNoText == {}

\* update_stats arguments that give all four fields the same value or leave
\* them all: the fields are written independently by the same code
\* (lines 265-276), so one value per call shows each write.
MCStatsArg == {[f \in StatFields |-> v] : v \in Option(StatValues)}

\* Under the mock runtime's bounds (32 and 256) the usernames are too many to
\* enumerate; the keys are the empty default and the two literals the
\* benchmarks pass (MCUserProfile_Benchmarks.cfg).
MCMockUsernames == {<<>>, BenchName, BenchNewName}

\* AccountIds are opaque keys: permuting them maps behaviours to behaviours.
AccountSymmetry == Permutations(MCAccounts)
=============================================================================
