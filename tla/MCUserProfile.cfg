\* Two accounts, usernames <<>>, <<"x">>, <<"y">> and one over-long name,
\* avatar and bio at their longest valid and shortest over-long lengths,
\* stat values {0} and two blocks.
CONSTANTS
  a1 = a1
  a2 = a2
  a3 = a3
  Accounts <- MCAccounts
  NameBytes = {"x", "y"}
  TextBytes = {"t"}
  MaxUsernameLength = 1
  MaxBioLength = 2
  StatValues = {0}
  MaxBlock = 1
  None = None
  StatsArg <- MCStatsArg
SYMMETRY AccountSymmetry
SPECIFICATION Spec
INVARIANT TypeOK
INVARIANT IndexBijection
INVARIANT ProfilesHaveStats
INVARIANT IdempotentSetUsername
PROPERTY RecordsPersist
PROPERTY RegistryRefined
