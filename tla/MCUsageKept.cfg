CONSTANTS
  Seats = {s1}
  NoSeat = NoSeat
  Models = {m1}
  NoModel = NoModel
  Windows = {fiveHour}
  FiveHour = fiveHour
  None = None
  Cooldown = 1
  AtMostCooldown = 2
  FiveHours = 2
  Askers = {k1}
  Heard <- SomeReplies
  Logins <- OneLogin
  Times = {1, 2}
  AtMostQueued = 2
SPECIFICATION Spec
PROPERTIES
  AReadingTakenIsKept
