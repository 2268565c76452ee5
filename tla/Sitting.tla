------------------------------- MODULE Sitting -------------------------------
(***************************************************************************)
(* A sitting, and what else changes the Seats meanwhile: the commands      *)
(* collect-seats (scripts/collect-seats.ts with src/worklist, src/sitting, *)
(* src/send-token, src/cli-login and src/backup), refresh, back-up-seats   *)
(* with its --restore, and uninstall, each a process that calls the store  *)
(* of Seats.tla. A person signs in for every token that is minted and none *)
(* can be had again for free.                                              *)
(*                                                                         *)
(* What the person answers, what the server says and what claude does are  *)
(* chosen freely. The mint folder, which holds nothing once a mint is over,*)
(* is left out, and so is what is printed.                                 *)
(***************************************************************************)
EXTENDS Seats, Sequences, SequencesExt

CONSTANTS Collect,      \* the sitting's process
          Accounts, AccountOf, Multiplier,  \* of each name
          Readings,     \* the sets of Seats the logins of this machine may name
          Wishes,       \* what may be asked for: see NoWish
          Passphrases,  \* what may be typed for one: see Kept
          MostWrites,   \* bound: how often the user's own login is written
          MostSittings, MostCommands  \* bounds: how many are begun

Others == Processes \ {Collect}

ASSUME CollectAssumption == Collect \in Processes
ASSUME SeatsAssumption == /\ AccountOf \in [Names -> Accounts]
                          /\ Multiplier \in [Names -> Nat]
ASSUME FiniteAssumption == IsFiniteSet(Names) /\ IsFiniteSet(Accounts)
ASSUME InputsAssumption ==
    /\ AtFirst \subseteq Names /\ Readings \subseteq SUBSET Names /\ MostWrites \in Nat
    /\ Wishes \subseteq [only : Names \union {None}, remint : Names \union {None},
                         adopt : {None} \union (Names \X Names), list : BOOLEAN]

VARIABLES worklist,  \* the Worklist file, or None
          login,     \* how often the user's own Claude Code login was written
          payer,     \* the Seat the choice names, or None
          archive,   \* today's backup: the token under each name
          sit,       \* the sitting
          cmd,       \* what each other process is doing
          begun,     \* how many sittings and commands were begun
          told       \* history: an undo was told to forget the tokens

bounds == <<begun, told>>
vars == <<machine, disk, call, worklist, login, payer, archive, sit, cmd, bounds>>

NoSitting == [pc |-> "idle",
              keyboard |-> FALSE,   \* somebody is there
              phrase |-> "none",    \* the passphrase: none yet, held, or off
              wanted |-> {},        \* the Seats owned, as the Worklist has them
              only |-> None, remint |-> None, adopt |-> None, list |-> FALSE, \* what was asked for
              held |-> {},          \* the names a token was found under
              strays |-> {}, settled |-> FALSE,
              into |-> None, from |-> None,   \* an adoption
              todo |-> <<>>,        \* the Seats to fill, the one in hand first
              before |-> None,      \* the login's date, or None when it could not be read
              moved |-> FALSE,      \* not safe to carry on
              token |-> None,
              asked |-> {}, packed |-> None,  \* the backup being taken
              touched |-> FALSE]    \* history: a mint of this sitting wrote the login

NoCommand == [pc |-> "idle", what |-> "none", meant |-> FALSE, todo |-> {}, tokens |-> None]

Init == /\ StoreInit
        /\ worklist = None /\ login = 0 /\ payer \in AtFirst
        /\ archive = [n \in Names |-> None]
        /\ sit = NoSitting
        /\ cmd = [p \in Others |-> NoCommand]
        /\ begun = [sittings |-> 0, commands |-> 0] /\ told = FALSE

Ask(op, name, token) == call' = [call EXCEPT ![Collect] = Calling(op, name, token)]
AskFor(p, op, name, token) == call' = [call EXCEPT ![p] = Calling(op, name, token)]
Heard(p) == call' = [call EXCEPT ![p] = Idle]

Ends == sit' = NoSitting

\* What one step of the sitting leaves alone, most often.
Elsewhere == UNCHANGED <<machine, disk, cmd, login, bounds>>
OnlyTalks == Elsewhere /\ UNCHANGED <<worklist, payer, archive>>

-----------------------------------------------------------------------------
(* The Worklist.                                                            *)

\* An account's Seats together, the accounts worth the most first, and in each the Seats
\* worth the most; the names break a tie, and stand here in any one order.
BestOf(account, wanted) ==
    LET worth == {Multiplier[n] : n \in {m \in wanted : AccountOf[m] = account}}
    IN  CHOOSE w \in worth : \A v \in worth : v <= w

Order == CHOOSE s \in [1..Cardinality(Names) -> Names] : \A i, j \in DOMAIN s : s[i] = s[j] => i = j
AccountOrder == CHOOSE s \in [1..Cardinality(Accounts) -> Accounts] :
                  \A i, j \in DOMAIN s : s[i] = s[j] => i = j
Place(s, e) == CHOOSE i \in DOMAIN s : s[i] = e

GoesFirst(one, other, wanted) ==
    LET x == AccountOf[one]  y == AccountOf[other] IN
    IF x # y THEN \/ BestOf(x, wanted) > BestOf(y, wanted)
                  \/ /\ BestOf(x, wanted) = BestOf(y, wanted)
                     /\ Place(AccountOrder, x) < Place(AccountOrder, y)
    ELSE \/ Multiplier[one] > Multiplier[other]
         \/ Multiplier[one] = Multiplier[other] /\ Place(Order, one) < Place(Order, other)

InTheOrderToFillThem(wanted) ==
    CHOOSE s \in [1..Cardinality(wanted) -> wanted] :
      \A i, j \in DOMAIN s : i < j => GoesFirst(s[i], s[j], wanted)

\* On the command line: one Seat only, one to mint again, a <<held, into>> to adopt, or to
\* list and do nothing.
NoWish == [only |-> None, remint |-> None, adopt |-> None, list |-> FALSE]

\* The Seats owned: from the saved Worklist, unless it is to be discovered anew.
Start == /\ sit.pc = "idle" /\ begun.sittings < MostSittings
         /\ begun' = [begun EXCEPT !.sittings = @ + 1]
         /\ \E w \in Wishes, wanted \in Readings, there \in BOOLEAN :
              /\ \/ wanted = worklist /\ UNCHANGED worklist
                 \/ worklist' = wanted
              /\ sit' = [NoSitting EXCEPT !.pc = "listing", !.wanted = wanted,
                           !.keyboard = there, !.only = w.only,
                           !.remint = w.remint, !.adopt = w.adopt, !.list = w.list]
         /\ Ask("list", None, None)
         /\ UNCHANGED <<machine, disk, cmd, login, payer, archive, told>>

Listed ==
    /\ sit.pc = "listing" /\ Answered(Collect)
    /\ IF ~Returned(Collect) \/ \E n \in {sit.only, sit.remint} : n # None /\ n \notin sit.wanted
       THEN Ends /\ Heard(Collect)
       ELSE IF sit.adopt # None
       THEN IF sit.adopt[2] \notin sit.wanted THEN Ends /\ Heard(Collect)
            ELSE /\ sit' = [sit EXCEPT !.pc = "adopting", !.from = sit.adopt[1], !.into = sit.adopt[2]]
                 /\ Ask("token", sit.adopt[1], None)
       ELSE /\ sit' = [sit EXCEPT !.pc = "settling", !.held = call[Collect].found,
                           !.strays = call[Collect].seen \ sit.wanted]
            /\ Heard(Collect)
    /\ OnlyTalks

\* settleStray: the token of a Seat on no entry, and whose Organization it pays for.
TakesUpAStray ==
    /\ sit.pc = "settling"
    /\ \E n \in sit.strays :
         /\ sit' = [sit EXCEPT !.pc = "stray", !.strays = @ \ {n}, !.from = n]
         /\ Ask("token", n, None)
    /\ OnlyTalks

\* The person says which of the Seats of that Organization it is, or leaves it alone.
SettlesAStray ==
    /\ sit.pc = "stray" /\ Answered(Collect)
    /\ \/ /\ sit' = [sit EXCEPT !.pc = "settling", !.from = None] /\ Heard(Collect)
       \/ /\ Returned(Collect) /\ ~sit.list /\ sit.keyboard
          /\ \E n \in sit.wanted : /\ OrganizationOf[n] = call[Collect].token
                                   /\ sit' = [sit EXCEPT !.pc = "adopting", !.into = n]
          /\ Ask("token", sit.from, None)
    /\ OnlyTalks

-----------------------------------------------------------------------------
(* The Probe, and what it proves.                                           *)

\* What the server says of a token: who pays, named or not, and whether it declined it.
Answers(token) == [status : {"never answered", "success", "declined"}, paidBy : {token, None}]

Judge(seat, answer) ==
    IF answer.status = "never answered" THEN "the-server-never-answered"
    ELSE IF answer.paidBy = None THEN "the-server-named-no-organization"
    ELSE IF answer.paidBy # OrganizationOf[seat] THEN "a-different-organization-paid"
    ELSE IF answer.status # "success" THEN "the-answer-was-not-a-success"
    ELSE "verified"

\* Fault: an answer that was a success is proof enough.
ASuccessIsProof(verdict) ==
    verdict \in {"verified", "the-answer-was-not-a-success", "a-different-organization-paid"}

\* A decline that names the Seat's own Organization proves as much as a success.
ProvesTheSeat(verdict) == verdict \in {"verified", "the-answer-was-not-a-success"}

\* The outcomes there may be of a Probe of this token for that Seat.
Proved(seat, token) == {ProvesTheSeat(Judge(seat, answer)) : answer \in Answers(token)}

-----------------------------------------------------------------------------
(* adoptOne: added before the old one is removed, and the choice follows.   *)

AdoptionEnds(kept) == IF sit.adopt # None THEN Ends
                      ELSE sit' = [sit EXCEPT !.pc = "settling", !.from = None, !.into = None,
                                     !.settled = @ \/ kept]

ProbesForAdoption ==
    /\ sit.pc = "adopting" /\ Answered(Collect)
    /\ \/ AdoptionEnds(FALSE) /\ Heard(Collect)
       \/ /\ Returned(Collect) /\ TRUE \in Proved(sit.into, call[Collect].token)
          /\ sit' = [sit EXCEPT !.pc = "adding it", !.token = call[Collect].token]
          /\ Ask("add", sit.into, call[Collect].token)
    /\ OnlyTalks

\* A call that threw ends the command.
AddedIt == /\ sit.pc = "adding it" /\ Answered(Collect)
           /\ IF Returned(Collect) THEN /\ sit' = [sit EXCEPT !.pc = "removing it", !.token = None]
                                        /\ Ask("remove", sit.from, None)
              ELSE Ends /\ Heard(Collect)
           /\ OnlyTalks

RemovedIt == /\ sit.pc = "removing it" /\ Answered(Collect)
             /\ Heard(Collect)
             /\ IF ~Returned(Collect) THEN Ends
                ELSE IF payer = sit.from THEN sit' = [sit EXCEPT !.pc = "choosing"]
                ELSE AdoptionEnds(TRUE)
             /\ OnlyTalks

NamesItInTheChoice == /\ sit.pc = "choosing"
                      /\ payer' = sit.into
                      /\ AdoptionEnds(TRUE)
                      /\ Elsewhere /\ UNCHANGED <<call, worklist, archive>>

-----------------------------------------------------------------------------
(* Which are to be filled: the ones without a token, the ones whose token is *)
(* declined or pays for somebody else, and the one named to be minted again. *)

ListsAgain == /\ sit.pc = "settling" /\ sit.strays = {} /\ sit.settled
              /\ sit' = [sit EXCEPT !.pc = "listing again"]
              /\ Ask("list", None, None)
              /\ OnlyTalks

ListedAgain == /\ sit.pc = "listing again" /\ Answered(Collect)
               /\ IF Returned(Collect)
                  THEN sit' = [sit EXCEPT !.pc = "settling", !.settled = FALSE, !.held = call[Collect].found]
                  ELSE Ends
               /\ Heard(Collect)
               /\ OnlyTalks

\* standingOf each that is filled, as the server answers, unless it was not to be asked.
Stands ==
    /\ sit.pc = "settling" /\ sit.strays = {} /\ ~sit.settled
    /\ \E broken \in SUBSET (sit.wanted \intersect sit.held) :
         LET missing == (sit.wanted \ sit.held) \union broken \union ({sit.remint} \ {None})
             todo    == IF sit.only = None THEN missing ELSE missing \intersect {sit.only}
         IN  IF todo = {} \/ sit.list THEN Ends
             ELSE sit' = [NoSitting EXCEPT !.pc = "seat", !.keyboard = sit.keyboard,
                                 !.todo = InTheOrderToFillThem(todo)]
    /\ OnlyTalks /\ UNCHANGED call

-----------------------------------------------------------------------------
(* fillOneSeat, and walkTheWorklist around it.                              *)

Seat == Head(sit.todo)

\* Announced; nothing is run when nobody is there, or the person stops.
Announces ==
    /\ sit.pc = "seat"
    /\ \/ Ends
       \/ /\ sit.keyboard
          /\ \E before \in {login, None} :
               sit' = [sit EXCEPT !.pc = "minting", !.before = before]
    /\ OnlyTalks /\ UNCHANGED call

\* claude writes the user's own login, for all that its folder is another.
MintWritesTheLogin ==
    /\ sit.pc = "minting" /\ login < MostWrites
    /\ login' = login + 1
    /\ sit' = [sit EXCEPT !.touched = TRUE]
    /\ UNCHANGED <<machine, disk, cmd, call, worklist, payer, archive, bounds>>

\* The user signs in with claude, in another terminal.
SignsIn == /\ login < MostWrites
           /\ login' = login + 1
           /\ UNCHANGED <<machine, disk, cmd, call, worklist, payer, archive, sit, bounds>>

\* Fault: a reading that could not be taken is no reading of a change.
OnlyADifferenceMoves(before, after) == before # None /\ after # None /\ before # after

\* whatItProves and safeToCarryOn: silence is not safety.
Moved(before, after) == before = None \/ after = None \/ before # after

\* walkTheWorklist after one Seat: stop where the login moved, or the person says so.
CarriesOn(s) ==
    \/ s.moved /\ Ends
    \/ ~s.moved /\ Len(s.todo) = 1 /\ Ends
    \/ /\ ~s.moved /\ Len(s.todo) > 1
       /\ \/ Ends
          \/ sit' = [s EXCEPT !.pc = "seat", !.todo = Tail(@), !.before = None, !.token = None,
                       !.asked = {}, !.packed = None]

\* nothing-minted: one guard for every way out.
NothingMinted(s) == CarriesOn(s)

\* The mint ends: with a token for the Organization that was active in the browser, with
\* none, or with an error that ends the command.
Minted ==
    /\ sit.pc = "minting"
    /\ \E after \in {login, None} :
         LET looked == [sit EXCEPT !.moved = Moved(sit.before, after)] IN
         \/ NothingMinted(looked)
         \/ \E o \in Organizations : sit' = [looked EXCEPT !.pc = "probing", !.token = o]
         \/ Ends
    /\ OnlyTalks /\ UNCHANGED call

\* Proved before it is kept, and kept even when the login moved.
Probed ==
    /\ sit.pc = "probing"
    /\ \/ /\ FALSE \in Proved(Seat, sit.token)
          /\ CarriesOn(sit) /\ UNCHANGED call
       \/ /\ TRUE \in Proved(Seat, sit.token)
          /\ sit' = [sit EXCEPT !.pc = "keeping", !.token = None]
          /\ Ask("add", Seat, sit.token)
    /\ OnlyTalks

\* Enter is off for the sitting; a short or mistyped one is asked for again next time.
Phrase(typed) == IF typed = "enter" THEN "off" ELSE "none"

\* backUp: not at all, or everything that is held.
Kept ==
    /\ sit.pc = "keeping" /\ Answered(Collect)
    /\ IF ~Returned(Collect) THEN Ends /\ Heard(Collect)
       ELSE LET Without(phrase) == /\ CarriesOn([sit EXCEPT !.phrase = phrase])
                                   /\ Heard(Collect) IN
            \/ sit.phrase = "off" /\ Without("off")
            \/ \E typed \in Passphrases \ {"good"} :
                 sit.phrase = "none" /\ Without(Phrase(typed))
            \/ /\ sit.phrase = "held" \/ (sit.phrase = "none" /\ "good" \in Passphrases)
               /\ sit' = [sit EXCEPT !.pc = "backing up", !.phrase = "held"]
               /\ Ask("list", None, None)
    /\ OnlyTalks

\* What threw is said, and the passphrase is forgotten.
NotBackedUp == CarriesOn([sit EXCEPT !.phrase = "none"]) /\ Heard(Collect)

\* backUpEveryHeldSeat: the Seats that have a token, then each token.
ListedForBackup ==
    /\ sit.pc = "backing up" /\ Answered(Collect)
    /\ IF ~Returned(Collect) \/ call[Collect].found = {} THEN NotBackedUp
       ELSE /\ sit' = [sit EXCEPT !.pc = "packing", !.asked = call[Collect].found,
                         !.packed = [n \in Names |-> None]]
            /\ Heard(Collect)
    /\ OnlyTalks

FirstOf(names) == CHOOSE n \in names : \A m \in names : Place(Order, n) <= Place(Order, m)

AsksForAToken == /\ sit.pc = "packing" /\ call[Collect] = Idle
                 /\ sit.asked # {} /\ Ask("token", FirstOf(sit.asked), None)
                 /\ OnlyTalks /\ UNCHANGED sit

PacksAToken ==
    /\ sit.pc = "packing" /\ Answered(Collect)
    /\ IF ~Returned(Collect) THEN NotBackedUp
       ELSE /\ sit' = [sit EXCEPT !.asked = @ \ {call[Collect].name},
                         !.packed[call[Collect].name] = call[Collect].token]
            /\ Heard(Collect)
    /\ OnlyTalks

\* One archive a day, moved into place over the one before it.
BacksUp == /\ sit.pc = "packing" /\ sit.asked = {} /\ call[Collect] = Idle
           /\ \/ /\ archive' = sit.packed
                 /\ CarriesOn(sit) /\ UNCHANGED call
              \/ NotBackedUp /\ UNCHANGED archive
           /\ Elsewhere /\ UNCHANGED <<worklist, payer>>

-----------------------------------------------------------------------------
(* The other commands.                                                      *)

Does(p, c) == cmd' = [cmd EXCEPT ![p] = c]
Untouched == UNCHANGED <<machine, disk, worklist, login, payer, archive>>
Sooner == begun.commands < MostCommands /\ begun' = [begun EXCEPT !.commands = @ + 1]

\* refresh: the logins were read, and the Seats held are now looked at.
Begins(p, what) ==
    /\ cmd[p].pc = "idle" /\ Sooner
    /\ \E meant \in BOOLEAN, read \in Readings :
         /\ what = "undo" \/ ~meant
         /\ told' = (told \/ meant)
         /\ Does(p, [NoCommand EXCEPT !.pc = "listing", !.what = what, !.meant = meant,
                       !.todo = IF what = "refresh" THEN read ELSE {}])
    /\ AskFor(p, "list", None, None)
    /\ Untouched /\ UNCHANGED sit

\* changesBetween: of the Seats both read and held, the ones whose plan or label is new.
RefreshLists(p) ==
    /\ cmd[p].what = "refresh" /\ cmd[p].pc = "listing" /\ Answered(p)
    /\ \/ Does(p, NoCommand)
       \/ /\ Returned(p)
          /\ \E changed \in SUBSET (cmd[p].todo \intersect call[p].seen) :
               changed # {} /\ Does(p, [cmd[p] EXCEPT !.pc = "updating", !.todo = changed])
    /\ Heard(p)
    /\ Untouched /\ UNCHANGED <<sit, bounds>>

\* Fault: an undo goes on whatever is held.
NobodyIsWarned(p) == TRUE

\* A list with tokens in it, or one that cannot be read, stops an undo that was not meant.
MayUndo(p) == cmd[p].meant \/ (Returned(p) /\ call[p].found = {})

\* uninstall: exactly the Seats this relay lists, and that have a token.
UndoLists(p) ==
    /\ cmd[p].what = "undo" /\ cmd[p].pc = "listing" /\ Answered(p)
    /\ IF MayUndo(p) /\ Returned(p) /\ call[p].found # {}
       THEN Does(p, [cmd[p] EXCEPT !.pc = "removing", !.todo = call[p].found])
       ELSE Does(p, NoCommand)
    /\ Heard(p)
    /\ Untouched /\ UNCHANGED <<sit, bounds>>

\* back-up-seats: nothing where there is no token, or the passphrase is not typed twice
\* alike. Otherwise the Seats are listed again, and what is listed then is what is packed.
BackupLists(p) ==
    /\ cmd[p].what = "backup" /\ cmd[p].pc = "listing" /\ Answered(p)
    /\ \/ Does(p, NoCommand) /\ Heard(p)
       \/ /\ Returned(p) /\ call[p].found # {}
          /\ Does(p, [cmd[p] EXCEPT !.pc = "listing again"])
          /\ AskFor(p, "list", None, None)
    /\ Untouched /\ UNCHANGED <<sit, bounds>>

BackupListsAgain(p) ==
    /\ cmd[p].pc = "listing again" /\ Answered(p)
    /\ IF Returned(p) /\ call[p].found # {}
       THEN Does(p, [cmd[p] EXCEPT !.pc = "packing", !.todo = call[p].found,
                       !.tokens = [n \in Names |-> None]])
       ELSE Does(p, NoCommand)
    /\ Heard(p)
    /\ Untouched /\ UNCHANGED <<sit, bounds>>

\* restore: the newest archive, one Seat at a time.
Restores(p) ==
    /\ cmd[p].pc = "idle" /\ Sooner
    /\ \E n \in Names : archive[n] # None
    /\ Does(p, [NoCommand EXCEPT !.pc = "adding", !.what = "restore", !.tokens = archive,
                  !.todo = {n \in Names : archive[n] # None}])
    /\ Untouched /\ UNCHANGED <<sit, call, told>>

AtTheSeats == {"updating", "removing", "adding", "packing"}

\* One Seat after the other; the first call that throws ends the command.
TakesTheNext(p) ==
    /\ cmd[p].pc \in AtTheSeats /\ call[p] = Idle /\ cmd[p].todo # {}
    /\ LET n == FirstOf(cmd[p].todo) IN
         /\ Does(p, [cmd[p] EXCEPT !.todo = @ \ {n}])
         /\ CASE cmd[p].pc = "updating" -> AskFor(p, "update", n, None)
              [] cmd[p].pc = "removing" -> AskFor(p, "remove", n, None)
              [] cmd[p].pc = "adding"   -> AskFor(p, "add", n, cmd[p].tokens[n])
              [] cmd[p].pc = "packing"  -> AskFor(p, "token", n, None)
    /\ Untouched /\ UNCHANGED <<sit, bounds>>

IsDone(p) == /\ cmd[p].pc \in AtTheSeats /\ Answered(p)
             /\ IF ~Returned(p) THEN Does(p, NoCommand)
                ELSE IF cmd[p].pc = "packing"
                THEN Does(p, [cmd[p] EXCEPT !.tokens[call[p].name] = call[p].token])
                ELSE UNCHANGED cmd
             /\ Heard(p)
             /\ Untouched /\ UNCHANGED <<sit, bounds>>

\* A backup is written when all of it is in hand, or cannot be.
IsThrough(p) ==
    /\ cmd[p].pc \in AtTheSeats /\ call[p] = Idle /\ cmd[p].todo = {}
    /\ Does(p, NoCommand)
    /\ \/ cmd[p].pc = "packing" /\ archive' = cmd[p].tokens
       \/ UNCHANGED archive
    /\ UNCHANGED <<machine, disk, worklist, login, payer, sit, call, bounds>>

\* The process dies. What it had not written is not written; a copy it was at is torn.
Dies(p) == /\ call[p].at \notin {"idle", "returned", "threw"}
           /\ Heard(p)
           /\ IF p = Collect THEN Ends /\ UNCHANGED cmd ELSE Does(p, NoCommand) /\ UNCHANGED sit
           /\ Untouched /\ UNCHANGED bounds

TheirStep(p) == \/ \E what \in {"refresh", "undo", "backup"} : Begins(p, what)
                \/ RefreshLists(p) \/ UndoLists(p) \/ BackupLists(p) \/ BackupListsAgain(p)
                \/ Restores(p) \/ TakesTheNext(p) \/ IsDone(p) \/ IsThrough(p)

Stores(p) == /\ StoreStep(p)
             /\ UNCHANGED <<worklist, login, payer, archive, sit, cmd, bounds>>

Next == \/ Start \/ Listed \/ TakesUpAStray \/ SettlesAStray
        \/ ProbesForAdoption \/ AddedIt \/ RemovedIt \/ NamesItInTheChoice
        \/ ListsAgain \/ Stands
        \/ ListedAgain \/ Announces \/ MintWritesTheLogin \/ SignsIn \/ Minted \/ Probed
        \/ Kept \/ ListedForBackup \/ AsksForAToken \/ PacksAToken \/ BacksUp
        \/ \E p \in Others : TheirStep(p)
        \/ \E p \in Processes : Stores(p) \/ Dies(p)

Spec == Init /\ [][Next]_vars

-----------------------------------------------------------------------------
TypeOK ==
    /\ StoreTypeOK
    /\ worklist \in Readings \union {None}
    /\ login \in 0..MostWrites /\ payer \in Names \union {None}
    /\ archive \in [Names -> Tokens]
    /\ sit.phrase \in {"none", "held", "off"}
    /\ sit.wanted \subseteq Names /\ sit.token \in Tokens
    /\ sit.pc = "idle" => call[Collect] = Idle
    /\ \A p \in Others : cmd[p].pc = "idle" => call[p] = Idle

\* fill.ts, 215, and adoptOne: whatever is in the vault, or in the archive, pays for the
\* Organization of the Seat it is kept under, through every mint on the wrong
\* Organization, every adoption, every backup put back and every crash between them.
EveryTokenPaysForItsSeat ==
    \A n \in Names : {vault[n], archive[n]} \subseteq {OrganizationOf[n], None}

\* adoptOne, "added before the old one is removed", and uninstall, which stops rather than
\* throw a token away: with the Keychain, a token leaves its name only when the user told
\* an undo to forget, or once another Seat holds one like it; whoever else writes, dies or
\* throws. Adopting a Seat into itself, which removes what it added, is the exception.
ATokenIsNotDropped ==
    [][\A n \in Names :
         vault[n] # None /\ vault'[n] = None /\ ~OneFile =>
           \/ told \/ (sit.from = n /\ sit.into = n)
           \/ \E m \in Names \ {n} : vault[m] = vault[n]]_vars

\* walk.ts: a mint that wrote the user's own login is the last of its sitting, however it
\* came out, and also when the login could not be read before it or after it.
AMovedLoginEndsTheSitting == sit.touched /\ sit.pc = "seat" => FALSE
=============================================================================
