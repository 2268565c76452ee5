------------------------------- MODULE Logins --------------------------------
(***************************************************************************)
(* The Stats logins of this machine and what is made of them: src/stats-   *)
(* login (the profiles, the kept logins, what claude.ai says), and what    *)
(* relay refresh does to the Seats held with the answer (src/worklist,     *)
(* scripts/refresh.ts).                                                    *)
(*                                                                         *)
(* A login is a number, its account AccountOf it, and it works until it    *)
(* expires. A place holds one: a profile of the snapshot folder, a Window, *)
(* or the file of the logins that were kept. Places of one name are one    *)
(* profile, read once.                                                     *)
(***************************************************************************)
EXTENDS Naturals, Sequences, FiniteSets, Functions

CONSTANTS Snapshots, Windows,   \* the names of the profiles of each kind
          Accounts, Organizations, None,
          MostSignIns,          \* bound: how many logins there ever are
          MostReadings,         \* bound: how many runs of refresh
          MostChanges           \* bound: how many changes of plan

Profiles == Snapshots \union Windows
Logins == 1..MostSignIns
AllNames == Accounts \X Organizations   \* as seatNameFor names them

\* What claude.ai says of a membership: the tier is one it knows the Multiplier of, one
\* that is free, or words nothing here recognises; an Organization may be there for the
\* API alone, or not be listed at all.
Memberships == {"20x", "1x", "free", "api-only", "unheard of", "none"}
WhenUnknown == "1x"

VARIABLES accountOf,  \* the account of each login
          expired,    \* the logins claude.ai no longer takes
          holds,      \* the login in each profile, 0 when it is signed out
          kept,       \* the login kept under each name, 0 when there is none
          owns,       \* what claude.ai says of each Seat
          held,       \* the Multiplier recorded of each Seat held, or None
          run,        \* the reading in hand
          begun,      \* how many readings were begun, and plans changed
          were        \* history: the logins each profile ever held

vars == <<accountOf, expired, holds, kept, owns, held, run, begun, were>>
world == <<accountOf, expired, holds, owns, were>>

NoRun == [pc |-> "idle", kept |-> [p \in Profiles |-> 0],
          todo |-> {}, at |-> None, login |-> 0,
          worth |-> <<>>,      \* what is worth keeping
          accounts |-> <<>>,   \* profile, account and what it owns, as read
          unread |-> <<>>,     \* the profiles that could not be
          listed |-> {},       \* the Seats held, when they were listed
          vanished |-> {}, changes |-> {}]

Init == /\ accountOf = [l \in Logins |-> None] /\ expired = {}
        /\ holds = [p \in Profiles |-> 0]
        /\ kept = [p \in Profiles |-> 0]
        /\ owns = [s \in AllNames |-> "20x"]
        /\ held = [s \in AllNames |-> "20x"]
        /\ run = NoRun /\ begun = [readings |-> 0, changes |-> 0]
        /\ were = [p \in Profiles |-> {}]

-----------------------------------------------------------------------------
(* What goes on outside.                                                    *)

\* Somebody signs in to a profile, as whoever they like.
SignsIn(p) == /\ \E l \in Logins, a \in Accounts :
                   /\ accountOf[l] = None /\ \A k \in 1..(l - 1) : accountOf[k] # None
                   /\ accountOf' = [accountOf EXCEPT ![l] = a]
                   /\ holds' = [holds EXCEPT ![p] = l]
                   /\ were' = [were EXCEPT ![p] = @ \union {l}]
              /\ UNCHANGED <<expired, kept, owns, held, run, begun>>

Expires(l) == /\ accountOf[l] # None /\ l \notin expired
              /\ expired' = expired \union {l}
              /\ UNCHANGED <<accountOf, holds, kept, owns, held, run, begun, were>>

\* A plan changes, or claude.ai describes it in other words.
PlanChanges(s) == /\ begun.changes < MostChanges
                  /\ begun' = [begun EXCEPT !.changes = @ + 1]
                  /\ \E m \in Memberships : m # owns[s] /\ owns' = [owns EXCEPT ![s] = m]
                  /\ UNCHANGED <<accountOf, expired, holds, kept, held, run, were>>

\* A login of old is imported from a folder of files, or put back from a backup.
IsKeptAgain(p) == /\ \E l \in were[p] : kept' = [kept EXCEPT ![p] = l]
                  /\ UNCHANGED <<world, held, run, begun>>

-----------------------------------------------------------------------------
(* readAccounts.                                                            *)

\* openAll: what is plain is open where it stands; the locked ones are opened together, and
\* each is put back where it stood, or leaves a gap.
OpenAll(blobs, locked, opens) ==
    LET stood    == SelectSeq([i \in DOMAIN blobs |-> i], LAMBDA i : i \in locked)
        unlocked == [k \in DOMAIN stood |-> IF stood[k] \in opens THEN blobs[stood[k]] ELSE 0]
        mine(i)  == {k \in DOMAIN stood : stood[k] = i}
    IN  [i \in DOMAIN blobs |->
           IF i \notin locked THEN blobs[i]
           ELSE IF mine(i) = {} THEN 0 ELSE unlocked[CHOOSE k \in mine(i) : TRUE]]

\* keptStatsLogins: the names of the file beside what was opened.
KeptUnder(names, opened) ==
    [p \in Profiles |-> LET mine == {i \in DOMAIN names : names[i] = p} IN
                        IF mine = {} THEN 0 ELSE opened[CHOOSE i \in mine : TRUE]]

InSomeOrder(set) == {names \in [1..Cardinality(set) -> set] : IsInjective(names)}

\* The names: of the folder, if it is there, of the Windows, and of what was kept. A kept
\* file that is unreadable is one of which nothing opens.
Begins ==
    /\ run.pc = "idle" /\ begun.readings < MostReadings
    /\ begun' = [begun EXCEPT !.readings = @ + 1]
    /\ \E names \in InSomeOrder({p \in Profiles : kept[p] # 0}), there \in SUBSET Snapshots :
         \E locked, opens \in SUBSET DOMAIN names :
           LET opened == OpenAll([i \in DOMAIN names |-> kept[names[i]]], locked, opens)
               open   == KeptUnder(names, opened) IN
           run' = [NoRun EXCEPT !.pc = "reading", !.kept = open,
                     !.todo = Windows \union there \union {p \in Profiles : open[p] # 0}]
    /\ UNCHANGED <<world, kept, held>>

Unread(r, p) == [r EXCEPT !.unread = Append(@, p), !.at = None, !.login = 0]

IsUnread(r, p) == Unread(r, p)

\* A login that was kept is used, and the profile is not opened; a profile that is, is
\* signed out, or locked, or held open by the app, or holds a login, which is worth keeping.
OpensAProfile ==
    /\ run.pc = "reading" /\ run.at = None
    /\ \E p \in run.todo :
         LET next == [run EXCEPT !.todo = @ \ {p}] IN
         IF run.kept[p] # 0 THEN run' = [next EXCEPT !.at = p, !.login = run.kept[p]]
         ELSE \/ run' = IsUnread(next, p)
              \/ /\ holds[p] # 0
                 /\ run' = [next EXCEPT !.at = p, !.login = holds[p],
                              !.worth = Append(@, [profile |-> p, login |-> holds[p]])]
    /\ UNCHANGED <<world, kept, held, begun>>

\* The Multiplier in the words of a tier; null when there is none to be found in them.
MultiplierFrom(m) == IF m = "unheard of" THEN None ELSE m
CannotPay(m) == m \in {"api-only", "free"}

\* What an account's answer says: its email, and each Organization with its tier.
AccountFrom(p, l) == [profile |-> p, account |-> accountOf[l],
                      organizations |-> [o \in {x \in Organizations : owns[<<accountOf[l], x>>] # "none"} |->
                                           owns[<<accountOf[l], o>>]]]

\* claude.ai is asked: it is not reached, or says no, or the login has expired.
AsksClaudeAi ==
    /\ run.pc = "reading" /\ run.at # None
    /\ \/ run' = IsUnread(run, run.at)
       \/ /\ run.login \notin expired
          /\ run' = [run EXCEPT !.accounts = Append(@, AccountFrom(run.at, run.login)),
                       !.at = None, !.login = 0]
    /\ UNCHANGED <<world, kept, held, begun>>

\* Fault: the locked ones are taken in the order they come, past those that would not lock.
InTheOrderLocked(worth, locked) ==
    LET blobs == SelectSeq(worth, LAMBDA one : one \in locked) IN
    [p \in Profiles |->
       LET mine == {i \in DOMAIN blobs : worth[i].profile = p} IN
       IF mine = {} THEN kept[p] ELSE blobs[CHOOSE i \in mine : TRUE].login]

\* Those that would lock replace what was kept under their names.
KeptWith(worth, locked) ==
    [p \in Profiles |->
       LET mine == {one \in locked : one.profile = p} IN
       IF mine = {} THEN kept[p] ELSE (CHOOSE one \in mine : TRUE).login]

\* Kept at the end, all of them; a failure there is no failure of the reading.
KeepsThem ==
    /\ run.pc = "reading" /\ run.at = None /\ run.todo = {}
    /\ run' = [run EXCEPT !.pc = "read"]
    /\ \/ UNCHANGED kept
       \/ \E locked \in SUBSET Range(run.worth) : kept' = KeptWith(run.worth, locked)
    /\ UNCHANGED <<world, held, begun>>

-----------------------------------------------------------------------------
(* relay refresh: seatsFrom, changesBetween and bringUpToDate.              *)

\* The Seats the logins say are owned, each with its Multiplier, or the stand-in.
SeatsFrom(accounts) ==
    UNION {{[seat |-> <<a.account, o>>,
             multiplier |-> IF MultiplierFrom(a.organizations[o]) = None THEN WhenUnknown
                            ELSE a.organizations[o]]
              : o \in {x \in DOMAIN a.organizations : ~CannotPay(a.organizations[x])}}
           : a \in Range(accounts)}

\* Fault: every account there is a login of is taken as read.
AccountsTried(r) == {accountOf[l] : l \in Logins} \ {None}

AccountsRead(r) == {a.account : a \in Range(r.accounts)}

\* The Seats held are listed, and compared. A Seat read twice is written down with either.
Compares ==
    /\ run.pc = "read"
    /\ LET wanted == SeatsFrom(run.accounts)
           names  == {w.seat : w \in wanted}
           mine   == {s \in AllNames : held[s] # None}
       IN  run' = [run EXCEPT !.pc = "updating", !.listed = mine,
                     !.changes = {w \in wanted : w.seat \in mine /\ held[w.seat] # w.multiplier},
                     !.vanished = {s \in mine \ names : s[1] \in AccountsRead(run)}]
    /\ UNCHANGED <<world, kept, held, begun>>

\* Only the changes that are safe without asking; an update that throws ends the command.
Updates ==
    /\ run.pc = "updating" /\ run.changes # {}
    /\ \E c \in run.changes :
         /\ held' = [held EXCEPT ![c.seat] = c.multiplier]
         /\ run' = [run EXCEPT !.changes = {d \in @ : d.seat # c.seat}]
    /\ UNCHANGED <<world, kept, begun>>

Ends == /\ run.pc = "updating"
        /\ run' = NoRun
        /\ UNCHANGED <<world, kept, held, begun>>

-----------------------------------------------------------------------------
Next == \/ \E p \in Profiles : SignsIn(p) \/ IsKeptAgain(p)
        \/ \E l \in Logins : Expires(l)
        \/ \E s \in AllNames : PlanChanges(s)
        \/ Begins \/ OpensAProfile \/ AsksClaudeAi \/ KeepsThem \/ Compares \/ Updates \/ Ends

Spec == Init /\ [][Next]_vars

-----------------------------------------------------------------------------
TypeOK ==
    /\ accountOf \in [Logins -> Accounts \union {None}] /\ expired \subseteq Logins
    /\ holds \in [Profiles -> 0..MostSignIns] /\ kept \in [Profiles -> 0..MostSignIns]
    /\ owns \in [AllNames -> Memberships] /\ held \in [AllNames -> Memberships \union {None}]
    /\ run.pc \in {"idle", "reading", "read", "updating"}
    /\ run.at \in Profiles \union {None} /\ run.login \in 0..MostSignIns
    /\ (run.at = None) = (run.login = 0)

\* kept.ts, openAll and lockAll: what will not lock or open leaves a gap in a list that
\* runs beside another, and no login is ever kept under the name of a profile it was not in,
\* or read as that of one.
AKeptLoginIsItsProfiles ==
    /\ \A p \in Profiles : kept[p] # 0 => kept[p] \in were[p]
    /\ run.at # None => run.login \in were[run.at]

\* worklist/refresh.ts: reading nothing "must degrade to unknown, never to every Seat of
\* that account has vanished": a Seat said to be gone is of an account that answered, and
\* no answer of that account named it among those that can pay.
OnlyAnAnswerMakesASeatVanish ==
    \A s \in run.vanished :
      /\ \E a \in Range(run.accounts) : a.account = s[1]
      /\ \A a \in Range(run.accounts) :
           a.account = s[1] /\ s[2] \in DOMAIN a.organizations => CannotPay(a.organizations[s[2]])
=============================================================================
