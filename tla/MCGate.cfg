CONSTANTS
  Callers = {c1, c2, c3, c4}
  Limit = 2
SPECIFICATION FairSpec
INVARIANTS
  NoLostTurn
PROPERTIES
  OnlyAnOvertakeOverfills
  IsATurnstile
  EveryWaiterIsServed
