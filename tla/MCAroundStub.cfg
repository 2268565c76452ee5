\* The same small instances, asked the one thing watch.ts says of a token.
SPECIFICATION Spec
CONSTANTS
  c1 = c1  p = p  q = q  s = s  t = t  m = m  mine = mine  proxyUrl = proxyUrl  trust = trust
  k1 = k1  k2 = k2  k3 = k3  v = v  w = w
  None = None  MostCommands = 3
  Ours = {proxyUrl, trust}  Theirs = {mine}  MostMints = 4  MostEdits = 1
  Ports = {p, q}  Pids = {1, 2, 3, 4, 5}  MostDeaths = 1
  Link = "link"  Half = "half"  Rest = "rest"  LineEnd = "nl"  Esc = "esc"  EscEnd = "m"
  Scripts <- SomeScripts  MostDraws = 2
  Folders = {0, 1, 2}  NameFor <- SomeNames  UsersOwn = 0  Viewers = {v, w}  Clicks = {c1}  MostComings = 1
  AtFirst = {{0, 2}, {0, 1, 2}}  MostWindows = 1
  Seats = {s, t}  NoSeat = NoSeat  Models = {m}  Percents = {0, 98, 100}  FiveHours = 2
  RestsFor = 1  Resets = {1}  LastMoment = 4  MostNews = 2
  Callers = {k1, k2, k3}
  NameLengths = {0, 3}  Heads = {4}  Payload = 2
  Pieces = 5  Limit = 2  Attempts = 2
  Replies <- SomeReplies  CarryBytes = 8
INVARIANT NoStubIsTaken
CHECK_DEADLOCK FALSE
