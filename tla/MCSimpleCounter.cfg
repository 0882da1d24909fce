\* A 7-bit counter (maximum 127) signed for by two accounts.
CONSTANTS
  a1 = a1
  a2 = a2
  Accounts <- MCAccounts
  CounterBits = 7
  None = None
SYMMETRY AccountSymmetry
SPECIFICATION Spec
INVARIANT TypeOK
PROPERTY CounterOnlyDropsOnReset
PROPERTY OverflowOnlyAtMax
