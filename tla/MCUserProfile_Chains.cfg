\* Three accounts contending for the usernames <<>>, <<"x">>, <<"y">>, <<"z">>: the
\* avatar, bio and stats arguments are narrowed to leaving or clearing the
\* field, since this run is about the index; one block.
CONSTANTS
  a1 = a1
  a2 = a2
  a3 = a3
  Accounts <- MCAccounts3
  NameBytes = {"x", "y", "z"}
  TextBytes = {"t"}
  MaxUsernameLength = 1
  MaxBioLength = 2
  StatValues = {0}
  MaxBlock = 0
  None = None
  AvatarArg <- MCNoText
  BioArg <- MCNoText
SYMMETRY AccountSymmetry3
SPECIFICATION Spec
INVARIANT IndexBijection
PROPERTY RegistryRefined
