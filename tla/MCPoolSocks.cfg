CONSTANTS
  Requests = {x1, x2}
  Seats = {s1}
  NoSeat = NoSeat
  Direct = direct
  Refuse = refuse
  Unknown = unknown
  Ways = {direct, refuse, socksA, socksB}
  Socks = {socksA, socksB}
  Readings = {1, 2}
SPECIFICATION Spec
INVARIANTS
  AChangedRouteIsNotReused
