CONSTANTS
  Exchanges = {e1, e2, e3}
  Seats = {s1, s2}
  NoSeat = NoSeat
  AtMostExchanges = 2
  AtMostInFlight = 1
  AtMostAttempts = 2
SPECIFICATION Spec
SYMMETRY Symmetry
INVARIANTS
  OnlyTheGoneDialWithoutATurn
  OnlyALateLeaverKeepsItsSlot
  OneRowPerRequest
