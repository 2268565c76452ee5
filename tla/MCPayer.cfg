CONSTANTS
  Seats = {s1, s2}
  NoSeat = NoSeat
  Models = {m1}
  NoModel = NoModel
  Windows = {fiveHour}
  FiveHour = fiveHour
  None = None
  Cooldown = 1
  AtMostCooldown = 2
  FiveHours = 2
  Requests = {r1}
  Facts <- OneFact
  Heard <- SomeReplies
  Orders <- SomeOrders
  AtMostAttempts = 3
  Modes = {"auto", "off"}
  Picked = {s1}
  Moving = {s2}
  Times = {1, 2}
SPECIFICATION Spec
INVARIANTS
  TheUserIsObeyed
  NobodyWalksBackIntoTheWall
