CONSTANTS
  Exchanges = {e1, e2}
  Seats = {s1, s2}
  NoSeat = NoSeat
  AtMostExchanges = 1
  AtMostInFlight = 1
  AtMostAttempts = 2
SPECIFICATION FairSpec
PROPERTIES
  EveryRequestGetsItsTurn
