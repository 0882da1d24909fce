\* Checks one statement of the spec against what the code does.
CONSTANTS
  a1 = a1
  a2 = a2
  a3 = a3
  Accounts <- MCAccounts
  NameBytes = {"x", "y"}
  TextBytes = {"t"}
  MaxUsernameLength = 1
  MaxBioLength = 2
  StatValues = {0}
  MaxBlock = 1
  None = None
SYMMETRY AccountSymmetry
SPECIFICATION Spec
PROPERTY SetUsernameKeepsAvatarBio
