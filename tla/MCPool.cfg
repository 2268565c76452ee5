CONSTANTS
  Requests = {x1, x2}
  Seats = {s1, s2}
  NoSeat = NoSeat
  Direct = direct
  Refuse = refuse
  Unknown = unknown
  Ways = {direct, proxy, refuse}
  Socks = {}
  Readings = {1, 2}
SPECIFICATION Spec
INVARIANTS
  NoSeatGoesRound
  OnlyADialReadAnewIsOtherwise
