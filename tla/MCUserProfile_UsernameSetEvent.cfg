\* Checks the doc comment of Event::UsernameSet against what the code does.
CONSTANTS
  a1 = a1
  a2 = a2
  a3 = a3
  Accounts <- MCAccounts
  NameBytes = {"x", "y"}
  TextBytes = {"t"}
  MaxUsernameLength = 1
  MaxBioLength = 2
  StatValues = {0, 1}
  MaxBlock = 0
  None = None
  StatsArg <- MCStatsArg
SYMMETRY AccountSymmetry
SPECIFICATION Spec
PROPERTY UsernameSetOnlyOnCreation
