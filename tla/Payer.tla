-------------------------------- MODULE Payer --------------------------------
(***************************************************************************)
(* Who pays for a request, and who instead when that Seat refuses: decide  *)
(* and insteadOf of src/payer/index.ts with Auto (auto.ts) and the choice  *)
(* the user makes (choice.ts), for several requests at once. Each reads    *)
(* the choice, the Seats, what is known and the token one after the other, *)
(* across an await each, while everything they read moves on.              *)
(*                                                                         *)
(* The memory is Ledger.tla, which Memory.tla implements once it has read  *)
(* its file: news counts when it is told, an asker is told what was known  *)
(* when it asked, and goes on with it some time later.                     *)
(***************************************************************************)
EXTENDS Allowance

CONSTANTS Requests,
          Facts,          \* what a request may be: its model, and shaped like Code or not
          Heard,          \* the replies there may be, see Exchanges
          Orders,         \* the orders the scores may put the Seats in: the rank of
                          \* each Seat, no two the same but 0, which is a score of 0
          AtMostAttempts, \* as in Forward.tla
          Modes, Picked,  \* what the user may switch the Mode to, and the Seats they pick
          Moving,         \* the Seats that come and go
          Times           \* bound: the moments of the clock

ASSUME AttemptsAssumption == AtMostAttempts \in Nat \ {0}
ASSUME InputsAssumption   == /\ Facts \subseteq [model : Models \union {NoModel}, looksLikeCode : BOOLEAN]
                             /\ Heard \subseteq Exchanges
                             /\ Modes \subseteq {"auto", "manual", "off"}
                             /\ Picked \subseteq Seats /\ Moving \subseteq Seats
                             /\ Times \subseteq Moments

Payers  == Seats \union {NoSeat}
Choices == [mode : {"auto", "manual", "off"}, payer : Payers]

OnAuto  == [mode |-> "auto", payer |-> NoSeat]

\* Whom a choice allows to be charged.
AllowedBy(c) == CASE c.mode = "auto"   -> Seats
                  [] c.mode = "manual" -> {c.payer}
                  [] c.mode = "off"    -> {}

VARIABLES now,
          ledger, promised, \* the memory
          choice,    \* the file of choice.ts
          hand,      \* the choice a Mode switch has read and is about to change, or None
          able,      \* the Seats in the Seat file whose Send token is in the vault
          settled,   \* auto.standing(): the Seat last settled on, or None
          said,      \* the Seat the last onSwitch named and wrote down, or None
          req        \* what each request has in hand

world    == <<now, choice, hand, able>>
standing == <<settled, said>>
vars     == <<world, standing, ledger, promised, req>>

Memory == INSTANCE Ledger WITH Askers <- Requests, Logins <- {}, open <- TRUE

\* pc: idle; choice, list, known, token (decide and, once someone refused, insteadOf);
\* sent; weighing (insteadOf, before its first await); answered.
Fresh == [pc |-> "idle",
          about |-> [model |-> NoModel, looksLikeCode |-> FALSE],
          at |-> 0,           \* the clock as read at the start of this decision
          seen |-> None,      \* the choice this decision was made under
          list |-> {},        \* the listed Seats that have a token
          before |-> None,    \* standing() before the ranking
          pick |-> NoSeat,
          charge |-> NoSeat,  \* whose token the request is sent with
          again |-> FALSE,    \* in insteadOf
          attempt |-> 1,
          heard |-> None,     \* the Refusal in hand
          allowed |-> {},     \* history: the Seats some choice allowed since it began
          walls |-> [s \in Seats |-> 0]] \* history: when each Seat refused it, last

Init == /\ now \in Times /\ \A t \in Times : now <= t
        /\ ledger = [s \in Seats |-> NothingKnown] /\ promised = [r \in Requests |-> None]
        /\ choice = OnAuto /\ hand = None
        /\ able = Seats
        /\ settled = None /\ said = None
        /\ req = [r \in Requests |-> Fresh]

Goes(r, record) == req' = [req EXCEPT ![r] = record]

\* The decision is that nobody else pays: a request is sent as it came, a Refusal stands.
LeftAsItIs(r) ==
    Goes(r, [req[r] EXCEPT !.pc = IF req[r].again THEN "answered" ELSE "sent",
               !.seen = None, !.list = {}, !.before = None, !.pick = NoSeat])

-----------------------------------------------------------------------------
(* decide, and insteadOf where it does the same.                            *)

Begin(r) == /\ req[r].pc = "idle"
            /\ \E f \in Facts :
                 Goes(r, [Fresh EXCEPT !.pc = "choice", !.about = f, !.at = now,
                          !.allowed = AllowedBy(choice)])
            /\ UNCHANGED <<world, standing, ledger, promised>>

\* seatFor, the choice.
ReadChoice(r) ==
    /\ req[r].pc = "choice"
    /\ \/ LeftAsItIs(r)   \* Off, or not readable
       \/ /\ choice.mode # "off"
          /\ Goes(r, [req[r] EXCEPT !.pc = "list", !.seen = choice])
    /\ UNCHANGED <<world, standing, ledger, promised>>

\* seatFor in Manual: the Seat picked, if it is there and has a token.
PickTheUsers(r) ==
    /\ req[r].pc = "list" /\ req[r].seen.mode = "manual"
    /\ IF req[r].seen.payer \in able
       THEN Goes(r, [req[r] EXCEPT !.pc = "token", !.seen = None, !.pick = req[r].seen.payer])
       ELSE LeftAsItIs(r)
    /\ UNCHANGED <<world, standing, ledger, promised>>

\* Auto, up to the await in rankAgain.
AskWhatIsKnown(r) ==
    /\ req[r].pc = "list" /\ req[r].seen.mode = "auto"
    /\ Memory!Ask(r, req[r].at)
    /\ Goes(r, [req[r] EXCEPT !.pc = "known", !.seen = None, !.list = able, !.before = settled])
    /\ UNCHANGED <<world, standing>>

\* The Seats cannot be read.
ListFails(r) == /\ req[r].pc = "list"
                /\ LeftAsItIs(r)
                /\ UNCHANGED <<world, standing, ledger, promised>>

\* choose, in Auto: the best of those not ruled out, unless its score is 0.
Best(list, usage, model, at, order) ==
    LET scoring == {s \in list : /\ ~RuledOut(usage[s], model, at)
                                 /\ order[s] > 0 /\ ~WeekIsSpent(usage[s])}
        best    == {s \in scoring : \A o \in scoring : order[o] <= order[s]}
    IN  IF best = {} THEN NoSeat ELSE CHOOSE s \in best : TRUE

\* Reported on change only. before is None until Auto has settled on anybody.
IsASwitch(before, pick) == before # pick

\* The rest of rankAgain, and who it came to.
Rank(r, order) ==
    /\ req[r].pc = "known"
    /\ LET pick == Best(req[r].list, promised[r], req[r].about.model, req[r].at, order) IN
       /\ settled' = pick
       /\ said' = IF IsASwitch(req[r].before, pick) THEN pick ELSE said
       /\ IF pick = NoSeat THEN LeftAsItIs(r)
          ELSE Goes(r, [req[r] EXCEPT !.pc = "token", !.list = {}, !.before = None, !.pick = pick])
    /\ Memory!Take(r)
    /\ UNCHANGED world

\* chargeFor, and in open.ts who the request is sent again on: nobody, when that is the
\* Seat that refused.
ReadToken(r) ==
    /\ req[r].pc = "token"
    /\ \/ LeftAsItIs(r)   \* gone meanwhile, or not readable
       \/ /\ req[r].pick \in able
          /\ IF req[r].again /\ req[r].pick = req[r].charge THEN LeftAsItIs(r)
             ELSE Goes(r, [req[r] EXCEPT !.pc = "sent", !.charge = req[r].pick, !.pick = NoSeat,
                             !.again = FALSE, !.attempt = IF req[r].again THEN @ + 1 ELSE @])
    /\ UNCHANGED <<world, standing, ledger, promised>>

-----------------------------------------------------------------------------
(* The reply, in open.ts, and what insteadOf makes of it.                   *)

IsOf(x, r) == /\ x.seat = req[r].charge
              /\ x.model = req[r].about.model /\ x.looksLikeCode = req[r].about.looksLikeCode

MayTryAgain(r) == req[r].attempt < AtMostAttempts

\* reportExchange teaches the memory, before anything is decided. Whether the body can
\* be sent again and the caller is still there is for Forward.tla.
HeadArrives(r, x) ==
    /\ req[r].pc = "sent" /\ IsOf(x, r)
    /\ IF SeatTaughtBy(x) = NoSeat THEN UNCHANGED <<ledger, promised>>
       ELSE Memory!TellExchange(x, now)
    /\ LET met  == [req[r] EXCEPT !.walls = IF RefusalIsAboutTheSeat(x) /\ SeatTaughtBy(x) # NoSeat
                                            THEN [@ EXCEPT ![x.seat] = now] ELSE @]
           over == Goes(r, [met EXCEPT !.pc = "answered"])
           more == Goes(r, [met EXCEPT !.pc = "weighing", !.heard = x])
       IN  IF x.seat # NoSeat /\ RefusalIsAboutTheSeat(x) /\ MayTryAgain(r)
           THEN over \/ more ELSE over
    /\ UNCHANGED <<world, standing>>

\* Fault: a Seat the user picked is replaced when it refuses.
WorkMayMoveUnlessOff == choice.mode # "off"

\* Only Auto moves the work.
WorkMayMove == choice.mode = "auto"

\* insteadOf's own reading of the choice, then of the clock, and the cooldown told once
\* more before anything is chosen.
Weigh(r) ==
    /\ req[r].pc = "weighing"
    /\ \/ /\ Goes(r, [req[r] EXCEPT !.pc = "answered"])   \* not Auto, or not readable
          /\ UNCHANGED <<ledger, promised>>
       \/ /\ WorkMayMove
          /\ Goes(r, [req[r] EXCEPT !.pc = "list", !.seen = OnAuto, !.at = now, !.again = TRUE,
                        !.heard = None])
          /\ IF SeatTaughtBy(req[r].heard) = NoSeat THEN UNCHANGED <<ledger, promised>>
             ELSE Memory!TellExchange(req[r].heard, now)
    /\ UNCHANGED <<world, standing>>

Over(r) == /\ req[r].pc = "answered"
           /\ Goes(r, Fresh)
           /\ UNCHANGED <<world, standing, ledger, promised>>

\* What others are taught meanwhile: a probe of the refresh round, a reply to a request
\* that is not followed here.
Hears(x) == /\ SeatTaughtBy(x) # NoSeat
            /\ Memory!TellExchange(x, now)
            /\ UNCHANGED <<world, standing, req>>

-----------------------------------------------------------------------------
(* The user, at the terminal and on the page, and the commands about Seats. *)

Writes(new) == /\ choice' = new
               /\ req' = [r \in Requests |-> IF req[r].pc = "idle" THEN req[r]
                                             ELSE [req[r] EXCEPT !.allowed = @ \union AllowedBy(new)]]
               /\ UNCHANGED <<now, able, standing, ledger, promised>>

\* pickPayer, of a Seat that can pay as the Seats were listed.
Picks(s) == s \in able /\ Writes([mode |-> "manual", payer |-> s]) /\ UNCHANGED hand

\* A switch of Mode reads the choice and writes it back with the new Mode.
ReadsToSwitch == /\ hand = None
                 /\ hand' = choice
                 /\ UNCHANGED <<now, choice, able, standing, ledger, promised, req>>

Switches(mode) == /\ hand # None
                  /\ Writes([hand EXCEPT !.mode = mode]) /\ hand' = None

\* A Seat is filled or removed: the step of either that counts.
Moves(s) == /\ able' = IF s \in able THEN able \ {s} ELSE able \union {s}
            /\ UNCHANGED <<now, choice, hand, standing, ledger, promised, req>>

Ticks == /\ now + 1 \in Times
         /\ now' = now + 1
         /\ UNCHANGED <<choice, hand, able, standing, ledger, promised, req>>

Next == \/ \E r \in Requests :
             \/ Begin(r) \/ ReadChoice(r) \/ PickTheUsers(r) \/ AskWhatIsKnown(r)
             \/ ListFails(r) \/ \E order \in Orders : Rank(r, order)
             \/ ReadToken(r) \/ \E x \in Heard : HeadArrives(r, x)
             \/ Weigh(r) \/ Over(r)
        \/ \E x \in Heard : Hears(x)
        \/ \E s \in Picked : Picks(s)
        \/ ReadsToSwitch \/ \E mode \in Modes : Switches(mode)
        \/ \E s \in Moving : Moves(s)
        \/ Ticks

Spec == Init /\ [][Next]_vars

-----------------------------------------------------------------------------
Known == [Seats -> SeatMemories]

TypeOK ==
    /\ now \in Times
    /\ ledger \in Known /\ \A r \in Requests : promised[r] = None \/ promised[r] \in Known
    /\ choice \in Choices /\ (hand = None \/ hand \in Choices)
    /\ able \subseteq Seats
    /\ {settled, said} \subseteq Payers \union {None}
    /\ \A r \in Requests :
         /\ req[r].pc \in {"idle", "choice", "list", "known", "token", "sent", "weighing", "answered"}
         /\ (promised[r] # None) = (req[r].pc = "known")
         /\ req[r].attempt \in 1..AtMostAttempts
         /\ req[r].list \subseteq Seats
         /\ {req[r].pick, req[r].charge} \subseteq Payers

\* Story 6, and "in force on the very next request": whoever is charged, first or after a
\* Refusal, is somebody the user's own choice allowed at some moment since the request
\* began. Off and a pick made before it began are never overridden.
TheUserIsObeyed ==
    \A r \in Requests :
      req[r].pc = "sent" => req[r].charge \in req[r].allowed \union {NoSeat}

\* insteadOf, "the cooldown goes on before anything is chosen": a Seat that has refused a
\* request is picked for it again only as of a later moment, whatever everybody else has
\* taught meanwhile and whatever the headers said.
NobodyWalksBackIntoTheWall ==
    \A r \in Requests :
      req[r].pc = "token" /\ req[r].about.model # NoModel =>
        req[r].walls[req[r].pick] < req[r].at
=============================================================================
