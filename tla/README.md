# A verification development of the relay

This directory holds TLA+ models of the relay in `src/`, the TLC configurations
that check them on small instances, and proofs that TLAPS checks for every value
of the constants. Paths below are those of the repository, under `src/`, so the
relay's own source is `src/src/...` and its scripts are `src/scripts/...`.

The program sits between a desktop client and one host, opens the requests
addressed to that host, decides which account (a *Seat*, or nobody: the *Window*
account) pays for each, and sends it on. It is one Node.js process: handlers run
to their next `await` without interruption, so every hazard sits between two
awaits, or between this process and something outside it (the operating system,
an upstream, a caller, another command of the same program).

## 1. Inventory

The full list, with sources and status, is `components` in `PROJECT.json`; every
place hard to test is a line of `hazards` there. What follows says what each
part keeps, does and must get right.

| Part | State it keeps | Operations | Correct when | Module |
|---|---|---|---|---|
| **gate** (`relay/internal/gate.ts`) | `inFlight`, `queue` | `enter`, the continuation of a waiter, the turn it returns, `release` | turns are counted once, a return always wakes the front of the queue, nobody waits for ever | `Gate` |
| **opened exchange** (`relay/internal/open.ts`) | per exchange: slot, turn, `callerWentAway`, attempts, current request | take a slot and a turn, hold the body, ask who pays, send, weigh a Refusal and send again, stream, report, time out | both gates are given back on every path, dials are bounded, one row per request | `Forward` |
| **held body** (`body.ts`) | the pieces read | hold, write on, send again | no piece is left out of what goes up | `Body` |
| **connection pool, dialler** (`pool.ts`, `dial.ts`) | agents per Seat and port, the last described route | `forSeat`, `createConnection`, `dialUpstream`, `hangUpOnEverything` | a Seat's credential goes only the way the machine said; what is warm goes the way of the route in force, unless its dial read a newer one | `Pool` |
| **cached way out** (`scripts/serve.ts`, `window/internal/machine-proxy.ts`) | `known` for one minute, the reading in hand | `egressNow`, `readItAgain` | whoever joins a reading is answered; what was forgotten does not return | `Egress` |
| **relay front** (`relay/index.ts`, `tunnel.ts`) | open sockets, tunnels | accept, CONNECT, blind tunnel, `close` | whoever leaves takes the other side along | `Front` |
| **SOCKS client, CONNECT** (`socks/`, `dial.ts`, `head.ts`) | one handshake | greet, authenticate, connect | no byte read past the answer | `Handshake` |
| **payer** (`payer/`) | the choice (a file), the standing Payer | `decide`, `insteadOf`, `pickPayer`, a Mode switch | the user's choice is never overridden; a refused Seat is not asked again at once | `Payer` |
| **chooser** (`chooser/`) | none | `choose`, `consider`, `bestFirst` | who is spent or resting is ruled out, and comes back | `Allowance` |
| **usage memory** (`usage/`) | each Seat's windows and cooldowns | `rememberExchange`, `rememberReading`, `known`, in the service and the refresh command | the newest reading wins, no update is lost, cooldowns end | `Memory`, `Usage` |
| **usage round** (`usage/internal/refresh.ts`) | a queue of stale Seats | four workers, each ask under a clock | the round ends and its summary adds up | `Round` |
| **seats, json file** (`seats/`, `json-file/`) | a file and a vault | `add`, `update`, `list`, `remove`, `sendTokenFor`; write beside and move, copy over | a token is under its own Seat and is not dropped, whoever dies where | `Seats` |
| **sitting, worklist** (`sitting/`, `worklist/`, `scripts/collect-seats.ts`) | the Worklist file, a sitting | walk, mint, prove, store, back up, adopt, undo | a step that fails leaves what the next run can take up | `Sitting` |
| **logins** (`stats-login/`, `cli-login/`) | the logins kept | read the profiles, keep, refresh | a login is kept under its own profile, silence is not absence | `Logins` |
| **minting** (`minting/`) | what a child has said | follow a link, wait, take the token | the token taken is whole | `Minting` |
| **history, journal** (`history/`, `journal/`) | append-only files, folded and rotated | `keep`, `fold`, `nameProjects`, `say`, `close` | no row is lost to a rewrite or a half-written line | `History`, `Journal` |
| **token scanner** (`tokens/`) | the figures found, the carry-over | `take`, `counts` | the same figures wherever the stream is cut | `Scan` |
| **coverage** (`coverage/`, `scripts/prove.ts`, `verify/`) | the path under way, what is covered | set up, start, finish, copy a login | covered only where a Seat paid through the relay | `Proving` |
| **control, certificate, store** (`control/`, `certificate/`, `window/`) | what is installed | install, uninstall, mint what is missing | the user's own variables stay; no Window is left without a way out unsaid | `Machine` |
| **Windows login item** (`service/internal/startup-item.ts`) | scripts and processes | install, uninstall, restart | the relay comes back, and stays gone once taken off | `Startup` |
| **profiles, windows** (`profiles/`, `window/`) | folders found, for half a minute | find, name, show, open | a click opens what was shown | `Profiles` |
| **page, tray** (`page/`) | none; the open tab | draw, ask again, reload | tells the same story as the chooser; catches up | `Page`, `Live` |
| conversation, Linux port | none of their own | pure reading; a second assembly | not modelled, section 7 | |

How they interact:

    client --CONNECT--> relay front --opened--> exchange ==slot==> gate (exchanges, outer)
                                                   |     ==turn==> gate (dials, inner)
                                                   |--decide / insteadOf--> payer --> usage, seats, chooser
                                                   |--forSeat--> pool --egressNow--> cached way out --> the machine
                                                   |             `--createConnection--> dialler --egressNow--> ...
                                                   `--report--> config.ts --> hangUpOnEverything, readItAgain,
                                                                              history, journal, usage
    service  --timer--> usage round --> seats, usage         page --every 5 s--> service
    commands (collect-seats, refresh, back-up-seats, history, prove, install, uninstall)
             --> the same files, with no lock between them and the service

Behaviours that are hard: the gap between a promise being resolved and its
continuation running; a caller that leaves while the program is between two
awaits; a Refusal weighed while its connection dies; one exchange's notice that
destroys the connections of every other; a reading of the operating system that
settles after it was declared void; a route read twice for one request; a decision
that reads the choice, the Seats, what is known and the token at four moments;
processes that each keep a picture of one file, and stop between any two writes; a
stream cut anywhere; an answer from before a reload.

## 2. Modules

One action is one uninterrupted run of JavaScript: from an event or the return
of an `await` to the next `await`.

**The exchange and its gates**

| Module | Models | Its state and the code's |
|---|---|---|
| `Turnstile` | what a gate promises, abstractly | `inside`: who holds a turn; `line`: who waits, in order |
| `Gate` | `gate.ts`, whole | `inFlight` and `queue` are the two variables of the closure; `woken` the waiters whose promise is resolved and whose continuation is still to run; `turn[c]` what caller `c` holds of it |
| `Forward` | `forward` and `sendOnce` of `open.ts` | two instances of `Gate`, `Slot` for `wiring.exchanges` and `Turn` for `wiring.gate`; `pc[e]` the await an exchange stands at; `wentAway` is `callerWentAway`; `there` whether `response` is not destroyed; `conn` the current request; `told` the calls of `reportFinished` |
| `Egress` | `egressNow` and `readItAgain` of `serve.ts` | `known`, `asking` as in the code; `running` the readings not settled; `waits` and `answer` the callers' side of the awaits |
| `Pool` | `forSeat`, the agents and `dialUpstream` | an instance of `Egress`; `route` the last `describe()`; `warm` the idle connections of the agents in hand; `req[x]` what a request has in hand |

**Who pays**

| Module | Models | Its state and the code's |
|---|---|---|
| `Allowance` | the pure rules of `known.ts`, and who `rank.ts` rules out | no variables: a Seat's memory is a record of its windows' readings and its models' cooldowns |
| `Ledger` | what the usage memory promises, abstractly: every call takes effect when it is made | `ledger`: everything told so far; `promised`: what each asker is to be told; `open`: the file has been read |
| `Memory` | `memory.ts`, as one process opens it | `held` as in the code; `jobs` the work queued behind `tail`; `saving` the picture on its way to `file`; `answer` what `known()` resolved to |
| `Usage` | the usage file between the service and `scripts/refresh.ts` | two instances of `Memory` over one `file`; `cmd` the command's run |
| `Payer` | `decide`, `insteadOf` and `Auto` of `payer/`, over an instance of `Ledger` | `req[r]`: the await a request stands at and what it has read; `choice` the file; `hand` a Mode switch between its read and its write; `able` the Seats that are listed and have a token; `settled` is `auto.standing()`, `said` the last `onSwitch` |

**The Seats on disk**

| Module | Models | Its state and the code's |
|---|---|---|
| `Seats` | `seats/internal/store.ts` with its vaults, and the writer of `json-file` | `file` the names in the Seat file, or torn; `vault` the token under each; `call[p]` how far a process is in a call of the store, an await apart; processes stop anywhere |
| `Sitting` | `collect-seats`, `refresh`, `back-up-seats` and `uninstall`, over an instance of `Seats` | `sit` the sitting in hand, from the login read before a mint to the backup after it; `cmd` what each other process does; `login` how often the user's own login was written; `archive` today's backup |

**What is kept up between requests**, composed by `Upkeep`

| Module | Models | Its state and the code's |
|---|---|---|
| `Round` | `refreshStaleSeats` | `round` the queue, the workers and the summary; `ask` each ask with its dial, its answer and its clock |
| `Logins` | `stats-login` (profiles, kept logins) and what `relay refresh` does to the Seats | `holds` the login in each profile, `kept` the file of those kept, `run` a reading in hand, `held` the Multipliers of the Seats |
| `History` | `history/internal/store.ts` in the service and in `relay history --tidy` | `file` the rows in it and `ended` whether its last line is whole; `keep` each append in hand; `tidy` the rewrite in hand; `fate` remembers what was kept to the end |
| `Journal` | `openJournal` of `bounded.ts` | `file`, `old` and `live` (the bytes counted) as in the code; `sizes` what the file system says of the two; `queue` and `turn` the work behind its promise |
| `Proving` | `scripts/prove.ts` with the verdict of `coverage` | `store` and `window` what the Proving Window's store holds and what it started with; `started`, `covered` the two files; `logged` what the log says since the start |
| `Live` | `page/live.js` beside `page/internal/serve.ts` | `document` what the tab holds; `polls` the askings under way and their answers; `truth` what `pageState` would answer now |

**What stands around the relay**, composed by `Around`

| Module | Models | Its state and the code's |
|---|---|---|
| `Machine` | `control/internal/machine.ts` with `certificate/mint.ts`, `launchd.ts`, `environment-store.ts` | the files, the job, the relay and the app's store; `at` the next step of the command under way |
| `Startup` | `startup-item.ts` | `process` every supervisor and relay by pid; `doing` the command with the list it has read |
| `Minting` | `minting/` under `expect` and under the Windows console | `script` what the child says, escapes included, `said` what has arrived, `loop` where `mintOneToken` waits; `driver`, `screen` and `seen` the console's side |
| `Profiles` | `profiles/` with `window/` | `past` the folders there were, moment by moment; `held` and `fresh` the list last found; `asks` how far each viewer's or click's asking is; `lists` those that were shown, `click` a name on its way back |
| `Page` | `page/internal/state.ts`, `tray.ts`, beside `chooser` | `week`, `five`, `until` what is known of a Seat; the page and the tray are operators of the state |
| `Front` | `startRelay`, `tunnel.ts`, and the close of `open.ts` | `client`, `upstream` the two sides of each tunnel; `tunnels` as in the code; `hears` whose leaving closes the other side |
| `Handshake` | `socks/` and CONNECT | `step` what is read, `have` and `taken` how many bytes of it |
| `Body` | `holdBody` and the writing of each attempt | `readSoFar`, `unread`, `written` the pieces |
| `Scan` | `tokens/internal/scan.ts` and its tap | `passed`, `carry` the window; `most` the largest count |

`GateProofs`, `ForwardProofs`, `PoolProofs`, `UsageProofs`, `PayerProofs`,
`SittingProofs`, `UpkeepProofs` and `AroundProofs` hold the theorems about the modules
they are named for, the last three about the parts under them too; `MCGate`,
`MCForward`, `MCPool`, `MCUsage`, `MCPayer`, `MCSeats`, `MCUpkeep` and `MCAround`
the symmetry sets and the inputs worth telling apart.

`Forward` and `Pool` meet at one step. `Forward!PoolAnswers` takes as a free
choice what `Pool` computes (warm or not, route changed or not), so `Forward`
holds for whatever the pool does, and `Pool` leaves the request's life outside
the pool to one step, `Done`. `Forward!ProxyGone` and `Forward!Silent` are the
other side of `Pool!HangUpOnEverything`. In the same way `Forward` takes whether a
body may be sent again as a choice, which is `Body`'s answer.

`Payer` stands on the abstract `Ledger` instead of the queue, loads and saves of
`Memory`: the run `usage` shows that `Memory` implements it, from the moment its
file has been read. So what `Payer` shows is for a service that has read its file;
before that a failed read makes a decision rank the Seats as if nothing were known.
What `Forward` takes from the payer as a free choice, `Payer` computes, and
`Payer!HeadArrives` is `Forward!HeadArrives` from the payer's side.

The parts of `Upkeep`, and those of `Around`, share no state in the code. A
behaviour of either module is one of one part, chosen at the start, while the others
stand still: their interleavings would multiply states and nothing else, and
everything that does interact is inside one part.

A comment that begins with *Fault:* introduces what is not part of a specification: the
definition after it, as a plausible bug would have it, and records which property
such a bug breaks (`mutants` in `PROJECT.json`).

### What the models abstract

* **Gate.** Nothing of the code. `Forget` lets a caller that is through ask
  again, so that runs do not simply end. `Release` is the shutdown.
* **Forward.** A body is whether it may be sent again (`refusedAndWhole` of
  `HeadArrives` folds `canBeSentAgain`, the status and the Refusal into one
  choice). The payer answers anything. The woken continuation may run after any
  other job, which allows more interleavings than Node's microtask queue does.
  The ceiling's `response.destroy()` and the close event it causes are one step.
  The pool's destroying of agents destroys busy sockets too, which is Node's
  behaviour. `close()` at shutdown is not here. `Renew` stands for a new request.
* **Egress, Pool.** `whenTheProxyIsGone` has its default, `"refuse"`. What a
  reading says is a free choice among `Ways`. CONNECT and the SOCKS handshake
  connect or fail (`Handshake` has their bytes). Keep-alive idles in `warm` until
  `IdleCloses`; two like connections of one Seat are one element, and `Reuse` may
  leave it there.
* **Allowance.** A Utilization is spent or not, since nobody is ruled in or out by
  anything finer; the score, a floating-point number, is any order of the Seats,
  with 0 for nothing left. Seconds are units of the cooldown. Reply headers are
  the figures and resets read off them.
* **Memory, Usage.** A write is one step into place or fails. The command's memory
  is the same code; where a failed step would throw it ends, which is `Ends`. The
  refresh round's probes are among the replies heard.
* **Payer.** A reply is an element of `Heard`. The list of Seats is read at one
  moment, where the code reads the file and then the vault for each; `able` is
  what both together say. Conversations are counted only for a line of text and
  left out. Writing the standing Payer follows at once what is said.
* **Seats, Sitting.** A token is the Organization it pays for. The Keychain answers
  for every name asked or for none. Backups of one day are one file, the later in
  the place of the earlier. The mint folder, which holds nothing once a mint is
  over, is left out, and so are two profiles of one Seat name in `buildWorklist`.
* **Round, Logins.** Ages are fresh or stale. A login is a number with an account;
  cookies and their encryption are left out. What is kept is locked and opened by
  index, as the code does it, in whatever order the file has its names; a file that
  cannot be read is one of which nothing opens.
* **History, Journal.** A row is a number of a small set of facts, its tokens one
  count and its price a whole number; a rewrite's temporary file is its process's
  own. The file is the set of its rows: in what order they stand is left out, since
  every reading sorts them and adds up, and so is a line that does not parse, which
  every reading skips and no rewrite writes back. A log line is its size. Whatever was
  written is on the disk, though the code never flushes it: a power failure breaks the
  line being written and no other. An append that fails, in a process that lives on,
  leaves nothing of its line.
* **Proving.** A verdict is covered or not; the four others are told apart only on
  paper. One command is typed after another. The two generations of the log are read in
  one step, where `prove.ts:254-257` opens one and then the other. An empty `ended.txt`,
  here and in `Minting`, reads as the code 0.
* **Live.** A page is its shape and its figures. A handler that could not gather
  its figures at all, which answers 500, is not here. No static file changes.
* **Machine, Startup.** One command at a time runs on a machine; `launchctl
  bootout` has taken effect when it returns. A pid is not given away again between
  the reading of a list and the end of what is in it.
* **Minting.** The console's picture is taken as the file is filled; what the
  person does is coming back from the link, or not, or failing. The link and either
  half of a token are one mark each, and so is the beginning of an escape sequence and
  its end; a console keeps no escapes. A screen that cannot be written is passed over,
  as in the code; where it is the child's end that cannot be written, that is an end
  which is never said.
* **Profiles.** A list is told by the moment its folders were read at, all of them at
  once. Names whose plain form is another's numbered form are left out. What else a
  list says of a profile (whether it is open, relayed, signed in) decides no click.
* **Page.** A percentage is one of a few about the thresholds, a moment an hour;
  Seats have a Multiplier above nought. The order among Seats that score is left
  out, for both sides take it from the chooser.
* **Front, Handshake, Body, Scan.** A half-closed connection is left out. Bytes are
  numbers of bytes, pieces of one size, or marks; addresses are their lengths.

## 3. Runs

| Run | Instance | Distinct states | Asks |
|---|---|---|---|
| `gate` | 4 callers, limit 2 | about 400 | is a turn ever lost, is the limit ever exceeded but by an overtake, is the gate the turnstile it promises (`IsATurnstile`, a refinement), is everybody served |
| `forward` | 3 exchanges, 2 slots, 1 turn, 2 Seats, 2 attempts | about 650 000 | are turns, slots and rows right whatever callers, upstream and proxy do |
| `forward_live` | 2 exchanges, 1 slot, 1 turn | about 36 000 | does every queued request get its turn though everything outside may hang |
| `pool` | 2 requests, 2 Seats and nobody, 3 ways, 2 readings | about 2 100 000 | does a Seat's connection ever go another way, what may stay warm and go another way than the route in force; deadlock is checked |
| `usage` | 1 Seat, 1 model, 1 window, 1 asker, 2 in line, 2 moments | about 74 000 | is the memory a ledger (`IsALedger`, a refinement), does it age, retire a Seat or learn from others, is every asker answered; deadlock is checked |
| `payer` | 1 request of up to 3 attempts, 2 Seats, 2 moments, other replies heard | about 1 000 000 | is the user obeyed, is a refused Seat asked again |
| `seats` | 3 Seat names of 2 Organizations and 2 accounts, 2 vaults, 1 sitting beside 1 command | about 3 100 000 | does a token end up under another's Seat, is one dropped, does a sitting go on after the login moved |
| `upkeep` | six parts, below | about 670 000 | the figures, logins, rows, lines, verdicts and the page |
| `around` | nine parts, below | about 480 000 | installing, the login item, minting, profiles, the page's story, the door, bytes |
| `pool_socks`, `usage_kept`, `mint_stub` | the same modules | | statements of the comments that the code does not keep: section 5 |

**The pool.** `NoSeatGoesRound` is ADR 0011. `OnlyADialReadAnewIsOtherwise` is what is
true of letting go of everything when the route changes: whatever is warm was asked for
under the route in force, and goes its way unless the dial, which reads the route once
more (`dial.ts:183`), read a newer one than `forSeat` had.

**An exchange.** `OnlyTheGoneDialWithoutATurn` is what is true of the bound on
dials: an attempt for a caller who is still there holds its turn; one whose caller
left between two awaits does not. `OnlyALateLeaverKeepsItsSlot` and
`OneRowPerRequest` name the only exchanges that wait for the ceiling, and the only
one that is never reported. `EveryRequestGetsItsTurn` is why two bounded queues, one
inside the other, cannot wait on each other.

**Memory and payer.** `IsALedger` is why a decision cannot miss the Refusal that was
told before it asked, although telling is never awaited by the relay.
`NoSeatIsRetired` is ADR 0005. `NobodyWalksBackIntoTheWall` follows a request over
all its attempts: a Seat that refused it is picked again only as of a later moment,
whatever other replies do to its cooldown (they may shorten it) and however a header
states a reset that has passed. `TheUserIsObeyed` allows exactly the Seats some
choice in force since the request began allowed, so a pick or an Off made before it
is absolute.

**Seats.** `EveryTokenPaysForItsSeat` relates the vault and the archive to the
Organizations, through mints on the wrong Organization, adoptions, restores and
crashes. `ATokenIsNotDropped` is about steps: with the Keychain a token leaves its
name only when the user asked an undo to forget it or another Seat holds one like
it. `AMovedLoginEndsTheSitting`: no further Seat is begun once a mint wrote the
user's own login, also where the login could not be read before or after.

**Upkeep.** `ARoundAddsUp` and `EveryRoundEnds`: a round that is over asked every
stale Seat once, and it ends whatever dials and servers leave undone.
`AKeptLoginIsItsProfiles`: lists that run beside each other, any of which may have gaps,
never slip, neither as logins are locked and kept nor as they are opened and read. `OnlyAnAnswerMakesASeatVanish`: silence about an account is
not taken for its absence. `OnlyARewriteLosesARow` names the two ways a kept row is
lost (appended beside a rewrite, or to a line a crash broke) and excludes all others,
and compares what a fold is about to write with the rows it replaces.
`TheTwoFilesAreTheEnd`: the log's two files are a suffix of what was written, and neither
is over its half of the bound but for a line that is by itself, through rotations that
fail and restarts.
`CoveredWasPaidByASeat` and `ACopyIsNotUndone` name when a verdict and a copied login
may be wrong. `ThePageCatchesUp`: once nothing changes, the open page shows what is true.

**Around.** `TheUsersVariablesStay` and `NoWindowIsStrandedInSilence`: install and
uninstall, each dying at any step, beside the app and the user.
`TheRelayStandsWithItsItem`: supervisors against the command that stops them; the relay
comes back while its item is there (`TheRelayComesBack`), and none is left once it is
taken off but what slipped past the command's list (`OnlyASlipOutlivesTheItem`).
`OnlyThreeCutsLeaveAStub` and `OnlyTheLastScreenLosesAToken` name the only
ways a mint takes half a token or none of a whole one. `OnlyAMovedNameIsMistaken`:
the same of a click, with findings of the profiles that overlap and end in either order.
`TheTableAgreesWithAuto` compares two judgements of one reading
and names the two bands where they differ. `OnlyALateDialIsOrphaned`,
`TheTunnelStartsAtItsFirstByte`, `NoByteIsLost` and `ACutLosesNoCount` are about
sockets and bytes; the last compares the scanner with a reading of the whole reply.

Modules state further invariants (`TypeOK` of every module and a few that name a
part of an argument) that no run repeats: those of `Gate`, `Forward`, `Pool`, `Usage`,
`Payer` and `Sitting`, with the store under it, are theorems; `Startup`'s is a part of
the invariant its theorem rests on.

**Bounds, and why they are enough.** Four callers at a gate of two give a full
gate, two in line, and an overtaker beside somebody woken. Three exchanges for
two slots and one turn give one outside, one in the inner queue and one
dialling; two attempts with two Seats give a refusal, a move to the other Seat
and the bound. Two requests are what any pairwise race of the pool needs; the
three ways are the three the dialler treats differently besides SOCKS, which
`pool_socks` adds. Two readings are one forgotten and one begun after it; with
a third the races repeat. Seats do not meet in the memory, whose rules are per
Seat, so one is enough there; two in line are the work in hand and what is told or
asked behind it. A cooldown of one unit, capped at two, with two moments, gives one
that lasts, one that ends and one that is cut. Two Seats are the one that refused
and the one the work moves to; three attempts are needed to come back to the first.
One request at a time suffices for the two properties of a single request, since
other requests reach it only through the memory (`Hears`).

In `seats` one name is in an Organization that another account has too, so a mint
can land on the wrong one, and one Seat is of old and on no Worklist, so it can be
adopted; a process of the sitting and one other are what a pairwise race of files
takes. In `upkeep` three Seats and two workers make a worker take a second Seat; a
snapshot and a Window with two accounts are one profile of each kind; two rows are
kept at once beside a tidy and a power failure; a log has two lines a file, with a
line that fills one; of two paths one takes neither relay nor control, and two
commands race a Window; the page has two shapes and figures, two askings at once and
one fall of the relay. In `around` there are two names of ours beside one of the
user's and three commands; two ports with room for a supervisor and a relay each and
one to spare; a token cut anywhere, with an escape sequence before it, in it, and two in
it; three folders of which two share a name and the first of the two may be away at the
start, one coming or going once, one Window open at the start or opened by hand, beside
two viewers and a click, so that two findings overlap while a third list is on a screen;
two Seats at and about each threshold over four moments; three callers; a domain name of
no and of some bytes; a body of five pieces of which two are held, sent twice; and
replies longer than the window that bridges their cuts. `CHECK_DEADLOCK FALSE` stands
where the system may stop: a sitting is over, a reply has ended. Symmetry is used on
exchanges and Seats in `forward`, a run without liveness.

## 4. Fairness

* **Gate:** the continuation of a resolved promise runs (the event loop), and a
  holder gives its turn back. The second is what `gate.ts` asks of callers;
  `forward_live` shows that exchanges do.
* **Forward:** due jobs run, events of a destroyed connection are delivered, and
  the ceiling's clock, while it runs, goes off. *Nothing* is assumed of callers,
  upstreams, the proxy, the payer, the pool, or a body that may never end.
* **Usage:** work in hand goes on: a read or a write of a file ends, one way or the
  other. Nothing is assumed of askers, the command or restarts.
* **Round:** the store answers, an ask's clock goes off, and a worker that may go on
  does. Nothing is asked of a dial or of the server.
* **Live:** the tab's interval ticks while it is open, what is asked is answered or
  refused, a reload that was called takes place, and the service manager starts the
  relay again. Nobody is made to open the page or to press a button.
* **Startup:** each script that waits its five seconds runs its relay again, and a
  command that was typed goes on, one to a port. Relays may die, but only so often (`MostDeaths`).
* **Pool, Payer, Seats** and the other parts: safety only.

A part that never began owes nothing, so in `Upkeep` and `Around` the fairness of one
part asks nothing of another's behaviours.

## 5. Where code and comments differ

Three are runs expected to be violated; the quoted lines are under `findings`.

* `pool_socks`: "so a route that changed cannot be reused" (`pool.ts:77`). The
  description of a SOCKS route leaves its address out.
* `usage_kept`: "a reading taken today is still the right reading" (`refresh.ts:58`).
  The service reads the usage file once in its life and writes its whole picture
  back; a newer reading the command wrote in between is gone.
* `mint_stub`: taking half a token "would put a stub in the Keychain" (`watch.ts:49`).
  After the loop what was said is read with the text taken as complete, also where
  the child was stopped half way through it (`mint.ts:185`). The two other ways to a
  stub, from a child that still runs, are below.

Others are part of what a passing property says, as the exception it names:

* "The turn is taken before anything is dialled" (`open.ts:124`): a caller that
  leaves while `forSeat` or `whenRefused` is awaited gives its turn back, and the
  request is dialled all the same (`OnlyTheGoneDialWithoutATurn`).
* "Nothing here should reach this" (`open.ts:189`), of the ceiling: when the upstream
  dies after the head nothing ends the response, and a caller that left before the
  close handler existed is never heard to (`OnlyALateLeaverKeepsItsSlot`; the
  `stranded` exchanges of `Forward`).
* A row kept while `relay history --tidy` rewrites the file is lost, and so is one put
  on the end of a line that a crash broke; a fold may count the same unpriced
  exchange again (`OnlyARewriteLosesARow`).
* "Everything warm is let go when the route changes" (`pool.ts:226`): what `forSeat`
  compares is the reading it took itself. The dial takes another (`dial.ts:183`), so a
  connection may come up another way than the one it was asked for under, and stays warm
  and in use while that older route is the one in force (`OnlyADialReadAnewIsOtherwise`).
* "Names have to be unique: they are what a click sends back" (`find.ts:88`). They are in
  one list, and a click is looked up in another: the name may have changed hands, also
  backwards, where a finding begun earlier ends after a newer list was shown
  (`OnlyAMovedNameIsMistaken`).
* The page has a Seat as gone from 98% of its week on, the chooser from all of it; and
  for a session whose reading has aged out (`TheTableAgreesWithAuto`).
* "A match that runs to the end of what has been said so far is therefore not a token"
  (`watch.ts:49`). A piece that ends inside an escape sequence in the token leaves the
  escape character behind the first half, for `stripDressing` takes out whole sequences
  only; half the token is then taken from a child that is still saying it. So it is of
  a Windows console read half drawn, whose rows end wherever they are drawn to
  (`OnlyThreeCutsLeaveAStub`).
* On the Windows console the last screen may be missed: where it and the end fall between
  the two halves of one look, or where writing it failed and the end is said all the same
  (`windows-terminal.ts:138`; `OnlyTheLastScreenLosesAToken`).
* A path may be found covered over another's payment that was logged within the
  second the path was started in, or that the log lost by turning over twice; a
  Window open across `--set-up` runs without the control (`CoveredWasPaidByASeat`). A
  process list that could not be read counts as no Window open (`ACopyIsNotUndone`).
* Adopting a Seat into itself adds its token and then removes it (`ATokenIsNotDropped`).
* A reload that meets a relay that is down leaves the browser's own error page, on
  which nothing asks again (`ThePageCatchesUp`).
* A caller of a blind tunnel that leaves during the dial leaves its upstream open
  (`OnlyALateDialIsOrphaned`).
* A body whose upload is aborted while it is held is answered as whole (`body.ts:78`;
  the exception of `NoByteIsLost`).

And some are steps of the models that no property is about:

* "Forget what we last read" (`serve.ts:136`): a reading begun earlier settles later
  and becomes what is known (`Egress`).
* "put on disk as it changes, once per change" (`auto.ts:28`): whether there was a
  change is judged by what stood before an await; of two decisions that overlap, the
  second may settle back on the first Seat unsaid (`Payer`).
* `close()` releases the inner gate and not the outer one (`relay/index.ts:184`). The
  process ends right after.

## 6. Proofs

Every theorem holds for all values of the constants under the assumptions named
here, which TLC evaluates on the runs.

`GateProofs`, from `LimitAssumption` (the limit is a positive natural number), for
every set of callers, finite or not:

| Theorem | Statement |
|---|---|
| `Invariance` | `Spec => []IInv` |
| `TypeCorrect`, `LineCorrect`, `CountCorrect` | `TypeOK`, `LineIsTheWaiters`, `TurnsAccounted` |
| `NoTurnIsLost` | `NoLostTurn`, which the run `gate` checks |
| `GateIsATurnstile` | `Spec => IsATurnstile`: the gate implements the abstract turnstile, step by step |
| `OverfillExplained` | the limit is exceeded only by an overtaker, or at shutdown |
| `TheLimitHoldsWithoutOvertaking` | behaviours in which nobody overtakes and nothing is released keep `inFlight <= Limit` |

The argument. None of the four invariants is inductive by itself. That no turn
is lost needs the count: a return wakes somebody exactly when it lowers
`inFlight`, and the counter has to be the number of holders for that to be a
place. The count needs the holders to be finite, which the invariant carries
rather than assuming the callers finite: each step adds or removes one. And that
the line is the set of waiters (each once) is what makes waking the head of
`queue` remove exactly one of them. `IInv` is the conjunction of these, with one
step per action in each preservation lemma. The refinement maps
`inside <- Holders` and `line <- Line`, where `Line` is the woken followed by the
queued; that resuming a woken caller takes it from the *front* of that
concatenation is the lemma `ResumingLeavesTheFront`, the one place where the
order in which continuations run is used.

`ForwardProofs`, from `BoundsAssumption` (the three bounds are positive):

| Theorem | Statement |
|---|---|
| `BothGatesAreGates` | `Spec => Slot!Spec /\ Turn!Spec`: the exchanges use either gate as a gate |
| `EveryExchangeFits`, `TypeCorrect` | `Spec => []IInv`, `Spec => []TypeOK` |
| `ADialHoldsItsTurn`, `SlotsComeBack`, `ReportedOnce` | the three invariants of the run `forward` |

The argument. The detailed module implements the gate twice, so all of `GateProofs`
holds of both gates; `GateProofs` is instantiated for each and its invariants are
carried over by `GatesHold`. What is used of them is that a promise is resolved for
nobody but a waiter (`TheResumedWaited`, from `LineIsTheWaiters`): without it a
continuation could give a slot to an exchange that has returned its own. Given the
gates, `IInv` says of each exchange by itself that its turn and slot fit where it
stands (`Covered`) and that its sends and its row do (`Counted`). A step of one
exchange leaves every other as it was but for its connection, which may be cut
(`OthersApart`), so the step lemma is about one exchange, one case per action.

`PoolProofs`, from `DirectAssumption` (going direct and refusing are ways, two
different ones) and `WordsAssumption` (no description of a route is the value that
stands for an unknown one):

| Theorem | Statement |
|---|---|
| `EveryConnectionFits`, `TypeCorrect` | `Spec => []IInv`, `Spec => []TypeOK` |
| `SeatsGoAsSaid`, `OnlyTheSecondReadingDiffers` | the two invariants of the run `pool` |

The argument. A connection becomes warm long after its route was read, so the
invariant follows it from the moment its agent is handed out: as long as the agent
has not been let go, the route it was asked for under is described as the one in
force, and only a request nobody pays for is ever on its way straight out. By which way
it came up is another reading's, and that is the exception the property names.

`PayerProofs`, from `AttemptsAssumption` (a request may be sent at least once),
`WindowsAssumption`, `PeriodsAssumption` and `NoneAssumption` as below, and that the
inputs are what they are named (`InputsAssumption`):

| Theorem | Statement |
|---|---|
| `EveryDecisionFits`, `TypeCorrect` | `Spec => []IInv`, `Spec => []TypeOK` |
| `NobodyElseIsCharged`, `TheWallIsNotMetTwice` | the two invariants of the run `payer` |

The argument. Four things are kept of every request: what it has in hand fits the
await it stands at; the choice in force is among those it may be charged under; the
memory holds a cooldown past every refusal it met; and what it was promised of the
memory still says so. The third is where the rules of `Allowance` are used: a reply
may shorten a cooldown, but only to a moment past the one it is heard at.

`UsageProofs`, about the usage memory in its two processes, for any Seats, Models,
windows, periods, replies and clock, finite or not:

| Theorem | Statement |
|---|---|
| `EveryPictureIsSound`, `TypeCorrect` | `Spec => []IInv`, `Spec => []TypeOK` |
| `EverySeatComesBack`, `NobodyElseTeaches` | `NoSeatIsRetired` and `OnlyItsOwnFiguresTeach`, the invariants the run `usage` checks |
| `ReadingsOnlyGetNewer` | `Spec => ReadingsNeverAge`, the action property of the same run |

The assumptions: no Seat is `NoSeat` and no Model `NoModel` (`PayersAssumption`), the
five-hour window is one of the windows (`WindowsAssumption`), the periods are positive
(`PeriodsAssumption`), null is not a value of its own kind (`NoneAssumption`), and the
inputs are replies, readings and moments (`InputsAssumption`). Nothing is assumed
about `Cooldown` being below the cap: the rule caps it.

The argument. `NoSeatIsRetired` speaks of the file and of the service's memory, but
a cooldown reaches the file through `saving`, in either process, and gets there
from a job in line that was dated when the news was heard; so it is not inductive.
`IInv` says of every *picture* (file, both memories, both saves) that it is
`Sound` at the present moment, and of every job that it is dated no later than
now. Then one lemma per rule of `Allowance` carries the argument: a fold keeps a
sound Seat sound (`ExchangeFolded`, `ReadingFolded`), so does leaving out what has
run out (`SavedSeat`), and time only makes more pictures sound (`SoundLater`).
The same lemmas say that a fold takes no reading back, which is the action
property. That a save belongs to the job at the head of the line (`InHand`) is
what lets a finished save remove exactly that job.

That the queue is a ledger is the refinement. `open` is that the file has been read,
`ledger` what the memory would be if everything in line were folded into it, and
`promised` to an asker that same picture as of its place in the line. Loads, saves,
failed saves and answers that come to be known are work in hand, and stutter; telling,
asking and taking an answer are the ledger's own steps. What a line comes to is a
recursive function of its length, so the argument is an induction over that length,
made on a set of numbers (`Reached`) because the provers cannot instantiate the
library's induction theorems: a run along the line exists and is one only
(`RunsExist`, `RunsAgree`), so what is told last is folded last (`ToldLast`) and the
work at the head first (`ToldFirst`). One more invariant is needed, `Asking`: an asker
has one question in line at most, and no answer while it stands there.

`SittingProofs`, about a sitting, the commands beside it and the store under all of
them, for any names, Organizations, accounts, processes, vaults and wishes:

| Theorem | Statement |
|---|---|
| `WhatIsInHandFits`, `TypeCorrect` | `Spec => []IInv`; `TypeOK` of `Sitting` and of `Seats` |
| `NoSeatIsPaidByAnother`, `AWrittenLoginIsTheLast` | `EveryTokenPaysForItsSeat`, `AMovedLoginEndsTheSitting`, the invariants the run `seats` checks |
| `NoTokenIsDropped` | `Spec => ATokenIsNotDropped`, the action property of the same run |

The assumptions: a sitting is a process (`CollectAssumption`), names and accounts are
finitely many (`FiniteAssumption`) and have an account and a Multiplier each
(`SeatsAssumption`), each name has an Organization (`NamesAssumption`), null is neither
(`NoneAssumption`), and the inputs are what they are named (`InputsAssumption`).

The argument. A vault is wrong long after a token was taken for another's, so the
invariant follows a token through every hand between reading and keeping: the call of
the store (`CallFits`), the copy of a vault of one file (which `Vaults` says of any
vault), the backup being taken or put back (`CmdFits`), and the sitting, which has
compared Organizations before it adds (`SitFits`). For the login it is `Warned`: a mint
that wrote it either still runs, begun when the login was older, or its sitting knows.
For the tokens it is `OneIsHeld`: between the two calls of an adoption the new name
holds the token. Only a call of `remove` empties a name (`OnlyARemoveEmpties`), and
who makes one is `WhoRemoves`. That the order in which Seats are filled is one at all,
of Seats there are, is proved from a best of a finite set (`EachIsFilledInTurn`,
`TheOrderIsASequence`).

`UpkeepProofs`, about the parts of `Upkeep`:

| Theorem | Statement |
|---|---|
| `TheSummaryAddsUp` | `ARoundAddsUp`, for any finite set of Seats and any number of workers |
| `ALoginIsKeptUnderItsName`, `OnlyAnAnswerEndsASeat` | `AKeptLoginIsItsProfiles`, `OnlyAnAnswerMakesASeatVanish` |
| `TheEndIsKept` | `TheTwoFilesAreTheEnd`, for lines of any size and any bound |
| `TheCopyStays`, `ASeatPaidForWhatIsCovered` | `ACopyIsNotUndone`, and the action property `CoveredWasPaidByASeat` |
| `NoRowIsLost` | `OnlyARewriteLosesARow`: rows of any facts and prices, any keepers, rewrites and crashes |
| `TotalsStay`, `UnpricedGrows` | `RolledUp` changes no total of any Seat, and what has no price only grows |

The assumptions: there is a worker (`AtATimeAssumption`), Seats are finitely many
(`SeatsAssumption`), a line has a size and the log a bound (`SizesAssumption`,
`BoundAssumption`), null is no path and no
number (`NoneAssumption`), tokens are counts or null (`FactsAssumption`), and prices are
numbers (`PricesAssumption`). The run of each part says all it checks of it; the theorems hold
whichever part a behaviour is one of, since a part that is not stands still.

The argument, per part. *Round* (`RInv`): the summary is four counters, so the
invariant counts: Seats taken, those still in a worker's hands, those in line, and the
workers left (`CountsFit`), with no Seat twice in the line and none of it taken
(`LineFits`). *Logins* (`LInv`): what stands in the list to be kept was once in the
profile it is listed with (`WorthFits`), however many profiles the reading skipped; what
is opened in its turn, among those that are locked, stands where its name does
(`WhatOpens`), so what is read was in its profile (`ReadFits`); and nothing has vanished before the comparison (`GoneFits`). *Journal* (`JInv`): what was
written is what has gone, then the kept file, then the live one, and something has gone
only behind a kept file that is not empty (`FilesFit`); the file takes something as soon
as it has a line (`BytesFit`), and while it is open the count is its size, so what is about
to be written fits or will stand alone (`TurnFits`, `RoomFits`). *Proving* (`PInv`): no
Window is open beside a copying that saw none (`AsCopied`); while a path is under way the control is armed and
a Window without it is older (`UnderTheControl`); and another's payment is in the log
until it has turned over twice (`AnotherIsLogged`). *History* (`HInv`): each row stands
for so many exchanges and no other row for one of them (`RowsFit`); the file, what a
rewrite read and what it will put in its place say of every exchange kept but those that
befell something (`Says`); and a row in hand is of an exchange of its own that is not
kept yet (`HandFits`).

That a fold changes no total is about sums over data. The model's sums go over a set in
an order CHOOSE fixes; the proof counts units instead: `Sum(f, S)` is how many pairs
`<<x, i>>` there are with `i` in `1..f[x]`, a cardinality, so that sums of parts, of
multiples and of no larger numbers are facts about finite sets (`SumOfParts`,
`SumOfTimes`, `NoLargerSum`), and `TheFoldIsTheSum` says the two are the same for every
finite set. The induction it needs is had from the smallest set that fails
(`OneByOne`). A fold says what its rows say together, number by number
(`WhatAFoldSays`), groups are apart (`FoldsApart`), and so each Seat's rows say the same
folded (`ASeatSaysTheSame`). Unpriced exchanges are not kept the same: a fold of rows of
which one had no count has one, and counts them all; the proof compares both with a
third count that the fold keeps (`UnpricedGrows`).

`AroundProofs`, about the parts of `Around`. A step is one of one part (`Apart`), and
each part has an invariant of its own:

| Theorem | Statement | Rests on |
|---|---|---|
| `AnOrphanWasLateDialled` | `OnlyALateDialIsOrphaned`, any callers | `DInv`: who is dialled for, and whose leaving is heard |
| `TheTunnelIsWhole` | `TheTunnelStartsAtItsFirstByte`, answers of any length | `HInv`: what is read is what comes before the field, and part of the field |
| `EveryByteIsWritten` | `NoByteIsLost`, bodies of any length sent any number of times | `BInv`: what was gone through and what still waits are the body |
| `WhatIsTheirsStays`, `NoWindowIsLeftInSilence` | `TheUsersVariablesStay`, `NoWindowIsStrandedInSilence` | `MInv`: store and copy hold what is meant; where a command is fits what it did |
| `ANameOpensItsFolder` | `OnlyAMovedNameIsMistaken`, any folders and names | `FInv`: what stood at a moment stays so, every list held or shown is of one, and a click has the name it was shown with and the one it was found by |
| `OneStoryIsTold` | `TheTableAgreesWithAuto`, any Seats and figures | `PInv`, and `TwoJudgements` of one reading |
| `NothingButASlipIsLeft` | `OnlyASlipOutlivesTheItem`, any ports and pids, the safety half of `TheRelayStandsWithItsItem` | `SInv`: a command that ends what it listed has listed the rest |
| `NoCutMakesAStub`, `NoTokenIsMissed` | `OnlyThreeCutsLeaveAStub`, `OnlyTheLastScreenLosesAToken`, whatever a child says | `TInv`: what is heard is a beginning of what was said, or has a half where the screen has; what stands behind a half that was taken is the other, an end of line or an escape cut short |
| `NoCutLosesACount` | `ACutLosesNoCount`, replies of any length cut anywhere | `CInv`: the window reaches back as far as it may, and what was counted is of what passed |

The assumptions: names of ours and of the user are apart (`NamesAssumption`); folders
are numbers in the order they are listed, one is the user's own, those there to begin
with are among them, and each has a name (`FoldersAssumption`, `NameForAssumption`); a head is not empty and lengths are numbers (`HeadsAssumption`, `LengthsAssumption`); a body longer than may be held is possible and
is sent at least once (`LimitAssumption`); no Seat is `NoSeat` (`SeatsAssumption`);
percentages are numbers (`PercentsAssumption`); a child that says half a token says the
rest next, if it is let, with nothing but escape sequences between the two
(`ScriptsAssumption`), and the marks are told apart (`MarksAssumption`); replies are sequences of numbers
(`CarryAssumption`); and null is none of them (`NoneAssumption`, `CommandsAssumption`).

Where the models find the first, the last or the largest of something, its existence
would be an induction. It is had by counting: the first absent is as far on as there are
present before it (`UpToTheFirst`), the last has the most before it
(`TheLastOfSome`), the largest has the most not above it (`TheGreatestOfSome`), and of
two folders of one name the later has more before it, so their numbers differ
(`TheLaterHasMore`, `NamesAreApart`).

What stays with TLC. Liveness, and everything about fairness: `EveryWaiterIsServed`,
`EveryRequestGetsItsTurn`, `EveryAskerIsAnswered`, `EveryRoundEnds`,
`ThePageCatchesUp`, `TheRelayComesBack`. Every safety property of a passing run is
stated by a theorem, `TheRelayStandsWithItsItem` for the half that is safety.

## 7. Plan, and what is not modelled

Next, in this order: an atomic map as the abstract specification of `Seats`, which the
store implements but for the steps it dies between; the standing Payer read before usage
is awaited (`payer/index.ts:175`), as two decisions of one `Payer`; larger instances of
the `seats` run (two commands beside a sitting).

### Not modelled

* **Conversation** reads which lines of a body are the user's, for a count in a row
  of the history. Nothing is decided by it and it keeps no order to get wrong.
* **Linux port**: a second assembly of the same parts. Its vault of one file is one
  of the machines of `Seats`.
* Left out of parts that are otherwise modelled: drawing, wording and layout
  (`draw.ts`, the analytics and the usage figures of the page); file formats and
  encryption (archive, cookies, certificates); the text of service files; how the
  output of operating-system commands is parsed; the score's arithmetic, which is
  floating point; what a fold adds up beside tokens and prices; the check of the
  mechanism, which compares strings of an installed app; the rule about imports,
  a tool about the repository itself. These have no states of their own, or are about
  characters, where a model would repeat the code.
