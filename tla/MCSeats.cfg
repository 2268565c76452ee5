CONSTANTS
  a = a
  b = b
  s = s
  o1 = o1
  o2 = o2
  ann = ann
  bob = bob
  collect = collect
  other = other
  None = None
  Torn = Torn
  Names <- SomeNames
  Organizations = {o1, o2}
  OrganizationOf <- TheirOrganizations
  Accounts = {ann, bob}
  AccountOf <- TheirAccounts
  Multiplier <- TheirMultipliers
  Processes = {collect, other}
  Collect = collect
  Machines <- AnyMachine
  AtFirst = {s}
  Readings <- AllOfThem
  Wishes <- SomeWishes
  Passphrases = {"enter", "short", "good"}
  MostWrites = 1
  MostSittings = 1
  MostCommands = 1
SPECIFICATION Spec
INVARIANTS
  EveryTokenPaysForItsSeat
  AMovedLoginEndsTheSitting
PROPERTIES
  ATokenIsNotDropped
CHECK_DEADLOCK FALSE
