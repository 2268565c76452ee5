\* Three Seats and two workers, so that a worker takes a second Seat; a snapshot and a
\* Window with two accounts; two rows kept at once beside a tidy and a power failure; a
\* log of two lines a file, with a line that fills one; two paths, one of them apart, and
\* two commands; two shapes and two figures, two askings at once and a fall of the relay.
SPECIFICATION Spec
CONSTANTS
  a = a  b = b  c = c  claude = claude  other = other  session = session  place = place
  None = None
  Seats = {a, b, c}  Rounds = {1}  AtATime = 2  KnownAtFirst <- SomeUsage
  Snapshots = {"snapshot"}  Windows = {"window"}  Accounts = {"ann", "bob"}  Organizations = {"org"}
  MostSignIns = 2  MostReadings = 1  MostChanges = 1
  Facts <- SomeFacts  Prices <- SomePrices  Sessions <- SomeSessions
  Keepers = {1, 2}  MostRows = 3  MostCrashes = 1  MostTidies = 1
  MostLines = 5  SizeOf <- SomeSizes  LiveAtMost = 2  MostRestarts = 1
  Paths = {"plain", "cowork"}  Apart = {"cowork"}  MostCommands = 2  MostRequests = 2  MostSessions = 1
  Shapes = {"bare", "full"}  Figures = {1, 2}  Slots = {1, 2}  MostTurns = 3  MostFalls = 1
INVARIANTS
  ARoundAddsUp
  AKeptLoginIsItsProfiles OnlyAnAnswerMakesASeatVanish
  OnlyARewriteLosesARow
  TheTwoFilesAreTheEnd
  ACopyIsNotUndone
PROPERTIES
  EveryRoundEnds ThePageCatchesUp
  CoveredWasPaidByASeat
CHECK_DEADLOCK FALSE
