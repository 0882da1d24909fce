\* The benchmarks under the mock runtime they run in: MaxUsernameLength 32
\* and MaxBioLength 256 (mock.rs), the
\* benchmarks' literal usernames as the keys, avatars and bios of 32/33 and
\* 256/257 bytes; two accounts, one block, one stat value (the accesses
\* depend on which entries exist, not on their values).
CONSTANTS
  a1 = a1
  a2 = a2
  a3 = a3
  Accounts <- MCAccounts
  NameBytes = {"x"}
  TextBytes = {"t"}
  MaxUsernameLength <- MockMaxUsernameLength
  MaxBioLength <- MockMaxBioLength
  StatValues = {0}
  MaxBlock = 0
  None = None
  Username <- MCMockUsernames
  StatsArg <- MCStatsArg
SYMMETRY AccountSymmetry
SPECIFICATION Spec
INVARIANT BenchmarksMeasureHeaviestPath
