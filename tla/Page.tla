--------------------------------- MODULE Page --------------------------------
(***************************************************************************)
(* What the page and the menu bar show (src/page/internal/state.ts and     *)
(* tray.ts), over the facts they are drawn from as those move on, beside   *)
(* what Auto would do with the same facts (src/chooser). The page has its  *)
(* own judgement of when a Seat has nothing left; the Chooser has another. *)
(*                                                                         *)
(* A Utilization is a percentage and a moment an hour. Seats are listed    *)
(* with a Multiplier above nought: a free Organization is given no Seat.   *)
(* The order among Seats that score is left out, for both sides take it    *)
(* from the Chooser.                                                       *)
(***************************************************************************)
EXTENDS Integers, FiniteSets

CONSTANTS Seats, NoSeat, Models, None,
          Percents,    \* what a window may be read at
          FiveHours,   \* how long the five-hour window lasts
          RestsFor,        \* how long a Seat is left alone for a model it refused
          Resets,      \* how far off a reset may be
          LastMoment, MostNews \* bounds

VARIABLES now,
          week, five, \* [Seats -> reading or None]
          until,      \* [Seats -> [Models -> Nat]]: the cooldowns
          hasToken,   \* the Seats whose Send token is in the vault
          choice,     \* the Mode, and the Seat the user picked
          standing,   \* the Seat Auto last settled on
          rows,       \* the history, as far as refusals go: who refused and when
          news

facts == <<week, five, until, hasToken, choice, standing, rows>>
vars  == <<now, facts, news>>

Choices == [mode : {"auto", "off"}, payer : {NoSeat}] \union [mode : {"manual"}, payer : Seats \union {NoSeat}]

Init == /\ now = 1
        /\ week = [s \in Seats |-> None] /\ five = [s \in Seats |-> None]
        /\ until = [s \in Seats |-> [m \in Models |-> 0]]
        /\ hasToken = Seats /\ choice = [mode |-> "auto", payer |-> NoSeat]
        /\ standing = NoSeat /\ rows = {} /\ news = 0

-----------------------------------------------------------------------------
(* A window as it is now.                                                   *)

HasReset(known) == known.resetsAt # None /\ known.resetsAt <= now

\* Fault: a window that has turned over still shows what was spent in it.
ShareAsRead(known) == IF known = None THEN None ELSE known.used

Share(known) == IF known = None THEN None ELSE IF HasReset(known) THEN 0 ELSE known.used

AtLeast(share, percent) == share # None /\ share >= percent

Level(known) == IF AtLeast(Share(known), 95) THEN "full"
                ELSE IF AtLeast(Share(known), 75) THEN "warn" ELSE "plain"

-----------------------------------------------------------------------------
(* The Chooser, for one Seat: rank.ts consider, and what choose makes of it.*)

FiveHourIsSpent(known) ==
    /\ known # None /\ ~HasReset(known) /\ known.used >= 100
    /\ known.resetsAt # None \/ now - known.readAt < FiveHours

OnCooldown(s, model) == model # None /\ until[s][model] > now

RuledOut(s, model) == s \notin hasToken \/ OnCooldown(s, model) \/ FiveHourIsSpent(five[s])

\* A week with nothing left scores nothing.
WeekLeft(s) == ~AtLeast(Share(week[s]), 100)

CouldBeChosen(s, model) == ~RuledOut(s, model) /\ WeekLeft(s)

Chosen(model) ==
    CASE choice.mode = "off"    -> {NoSeat}
      [] choice.mode = "manual" ->
           {IF choice.payer # NoSeat /\ ~RuledOut(choice.payer, model) THEN choice.payer ELSE NoSeat}
      [] choice.mode = "auto"   ->
           IF \E s \in Seats : CouldBeChosen(s, model) THEN {s \in Seats : CouldBeChosen(s, model)}
           ELSE {NoSeat}

-----------------------------------------------------------------------------
(* A row of the table: oneSeat.                                             *)

IsSpent(s) == AtLeast(Share(week[s]), 98) \/ AtLeast(Share(five[s]), 100)

IsUntouched(s)  == Share(week[s]) = 0
NothingKnown(s) == week[s] = None /\ five[s] = None

Cooling(s) == \E m \in Models : until[s][m] > now

LastRefused(s) == {row \in rows : row.seat = s /\ \A other \in rows : other.seat = s => other.at <= row.at}

Payer == CASE choice.mode = "auto" -> standing [] choice.mode = "off" -> NoSeat [] OTHER -> choice.payer

Group(s) == IF s \notin hasToken \/ IsSpent(s) THEN "spent"
            ELSE IF IsUntouched(s) THEN "untouched" ELSE "available"

Cord(s) == IF Payer = s THEN "on" ELSE IF Cooling(s) THEN "broken"
           ELSE IF IsSpent(s) \/ s \notin hasToken THEN "off" ELSE "quiet"

Tag(s) == IF Payer = s THEN "paying"
          ELSE IF Cooling(s) /\ LastRefused(s) # {} THEN "refused"
          ELSE IF s \notin hasToken THEN "no Send token"
          ELSE IF IsSpent(s) THEN "spent" ELSE None

Note(s) == IF Group(s) = "untouched" THEN "the week starts on the first request"
           ELSE IF Cooling(s) THEN "held out of Auto for that model"
           ELSE IF s \notin hasToken THEN "it cannot pay"
           ELSE IF IsSpent(s) THEN "not a candidate until the week resets" ELSE None

OneSeat(s) == [cord |-> Cord(s), tag |-> Tag(s), note |-> Note(s), group |-> Group(s)]

-----------------------------------------------------------------------------
(* The document: pageState and trayMenu.                                    *)

WithRoom        == {s \in Seats : Group(s) # "spent"}
WaitingToChoose == Payer = NoSeat /\ choice.mode # "off" /\ WithRoom # {}

Heading == IF Payer # NoSeat THEN "a Seat"
           ELSE IF ~WaitingToChoose THEN "The Window account is paying"
           ELSE IF choice.mode = "auto" THEN "Auto has not chosen yet" ELSE "No Seat is picked yet"

\* The line under the heading, where it is more than who is signed in.
Sub == IF Payer # NoSeat \/ choice.mode = "off" THEN None
       ELSE IF WaitingToChoose THEN "nothing has asked yet" ELSE "no Seat has room"

\* picksFrom, before the six are taken: every Seat that is not ruled out, bar the Payer.
Suggested == {s \in Seats \ {Payer} : ~RuledOut(s, None)}

\* A group with nobody in it is not drawn. The first is headed otherwise while nothing at
\* all is known.
RankedByPlanSize == \A s \in Seats : NothingKnown(s)
Groups == {g \in {"available", "untouched", "spent"} : \E s \in Seats : Group(s) = g}

PageState == [heading |-> Heading, sub |-> Sub, picks |-> Suggested, groups |-> Groups,
              ranked |-> RankedByPlanSize, seats |-> [s \in Seats |-> OneSeat(s)]]

\* The menu bar's icon, on a machine whose mechanism is working.
Icon(page) == IF Payer # NoSeat THEN (IF Level(week[Payer]) # "plain" THEN "strained" ELSE "on")
              ELSE IF page.sub = "nothing has asked yet" THEN "on" ELSE "off"

-----------------------------------------------------------------------------
(* How the facts move.                                                      *)

New == news < MostNews /\ news' = news + 1

Reading == [used : Percents, resetsAt : {None} \union {now + r : r \in Resets}, readAt : {now}]

WeekIsRead(s) == /\ New /\ \E known \in Reading : week' = [week EXCEPT ![s] = known]
                 /\ UNCHANGED <<now, five, until, hasToken, choice, standing, rows>>

FiveIsRead(s) == /\ New /\ \E known \in Reading : five' = [five EXCEPT ![s] = known]
                 /\ UNCHANGED <<now, week, until, hasToken, choice, standing, rows>>

\* A Seat refuses: the memory holds it out at once, the history has its row in time, or
\* not, where the file cannot be written or has been folded.
Refuses(s, m) == /\ New /\ until' = [until EXCEPT ![s][m] = now + RestsFor]
                 /\ rows' \in {rows, rows \union {[seat |-> s, at |-> now]}}
                 /\ UNCHANGED <<now, week, five, hasToken, choice, standing>>

TokenGoes(s) == /\ New /\ s \in hasToken /\ hasToken' = hasToken \ {s}
                /\ UNCHANGED <<now, week, five, until, choice, standing, rows>>

Decides(m) == /\ choice.mode = "auto" /\ standing' \in Chosen(m)
              /\ UNCHANGED <<now, week, five, until, hasToken, choice, rows, news>>

Switches == /\ New /\ choice' \in Choices
            /\ UNCHANGED <<now, week, five, until, hasToken, standing, rows>>

Passes == /\ now < LastMoment /\ now' = now + 1 /\ UNCHANGED <<facts, news>>

Next == \/ \E s \in Seats : WeekIsRead(s) \/ FiveIsRead(s) \/ TokenGoes(s)
        \/ \E s \in Seats, m \in Models : Refuses(s, m)
        \/ \E m \in Models \union {None} : Decides(m)
        \/ Switches \/ Passes

Spec == Init /\ [][Next]_vars

-----------------------------------------------------------------------------
\* A session read as spent with no reset, longer ago than a session lasts.
AgedOut(s) == /\ AtLeast(Share(five[s]), 100) /\ five[s].resetsAt = None
              /\ now - five[s].readAt >= FiveHours

NearlyGone(s) == AtLeast(Share(week[s]), 98) /\ ~AtLeast(Share(week[s]), 100)

\* state.ts, "the table, the suggestions and what Auto actually does can never tell three
\* different stories": a Seat is under "Nothing left" exactly where Auto would not choose it
\* for a request that names no model, but for a week between 98% and all of it, and a
\* session whose reading has aged out: those Auto chooses and the table has as gone. A row
\* that marks nothing is of a Seat any request may be sent to; whatever Auto would choose
\* is suggested, unless it is paying already. Where the page says Auto has not chosen yet
\* there is a Seat to choose, and where it says no Seat has room, or the menu bar that the
\* relay is off, there is none but those two kinds.
TheTableAgreesWithAuto ==
    LET page == PageState IN
    /\ \A s \in Seats :
         LET row == page.seats[s] IN
         /\ row.group # "spent" => CouldBeChosen(s, None)
         /\ CouldBeChosen(s, None) =>
              /\ s \in page.picks \union {Payer}
              /\ row.group # "spent" \/ NearlyGone(s) \/ AgedOut(s)
         /\ row.cord = "quiet" /\ row.tag = None =>
              \A m \in Models \union {None} : CouldBeChosen(s, m)
    /\ choice.mode = "auto" =>
         /\ page.heading = "Auto has not chosen yet" => NoSeat \notin Chosen(None)
         /\ page.sub = "no Seat has room" \/ Icon(page) = "off" =>
              \A s \in Chosen(None) \ {NoSeat} : NearlyGone(s) \/ AgedOut(s)
=============================================================================
