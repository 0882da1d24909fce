\* Events against storage: two accounts, stat values {0, 1} given to all
\* four fields at once, one block (created_at plays no role here).
CONSTANTS
  a1 = a1
  a2 = a2
  a3 = a3
  Accounts <- MCAccounts
  NameBytes = {"x", "y"}
  TextBytes = {"t"}
  MaxUsernameLength = 1
  MaxBioLength = 2
  StatValues = {0, 1}
  MaxBlock = 0
  None = None
  StatsArg <- MCStatsArg
SYMMETRY AccountSymmetry
SPECIFICATION Spec
INVARIANT EventMatchesStorage
