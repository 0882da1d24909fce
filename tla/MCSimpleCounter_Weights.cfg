\* The counter's declared weights against the storage accesses of each
\* path, over a 7-bit counter so that the overflow path is reached.
CONSTANTS
  a1 = a1
  a2 = a2
  Accounts <- MCAccounts
  CounterBits = 7
  None = None
SYMMETRY AccountSymmetry
SPECIFICATION Spec
INVARIANT WeightCoversEveryPath
