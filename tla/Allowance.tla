------------------------------ MODULE Allowance ------------------------------
(***************************************************************************)
(* What is known about the Seats' allowance and how news is folded into    *)
(* it: the pure rules of src/usage/internal/known.ts, and from             *)
(* src/chooser/internal/rank.ts and choose.ts what rules a Seat out.       *)
(*                                                                         *)
(* A Utilization is TRUE when the window is spent (at or past its whole)   *)
(* and FALSE below that, which is all that rules anybody in or out. Moments*)
(* are natural numbers, and 0 as the end of a cooldown is no cooldown.     *)
(***************************************************************************)
EXTENDS Integers, FiniteSets

CONSTANTS Seats, NoSeat,
          Models, NoModel,     \* NoModel: the request named none
          Windows, FiveHour,   \* the Allowance windows; FiveHour is one of them
          None,                \* null
          Cooldown,            \* COOLDOWN_SECONDS
          AtMostCooldown,      \* AT_MOST_COOLDOWN_SECONDS
          FiveHours            \* the length of the five-hour window

ASSUME PayersAssumption   == NoSeat \notin Seats /\ NoModel \notin Models
ASSUME WindowsAssumption  == FiveHour \in Windows
ASSUME PeriodsAssumption  == /\ Cooldown \in Nat \ {0}
                             /\ AtMostCooldown \in Nat \ {0}
                             /\ FiveHours \in Nat \ {0}

Moments  == Nat \ {0}
Readings == [spent : BOOLEAN, resetsAt : Moments \union {None}, readAt : Moments,
             via : {"exchange", "stats-login"}]
SeatMemories == [windows : [Windows -> Readings \union {None}], until : [Models -> Nat]]
Pictures == [Seats -> SeatMemories]

ASSUME NoneAssumption == None \notin Readings \union Moments \union BOOLEAN \union Pictures

NothingKnown == [windows |-> [w \in Windows |-> None], until |-> [m \in Models |-> 0]]

\* One reply as the relay reports it: who was charged, whom the server named, the
\* status as far as it matters, the request's facts and the reply's own figures.
Exchanges == [seat : Seats \union {NoSeat},
              paidBy : {"itsOwner", "unsaid", "somebodyElse"},
              refused : BOOLEAN, limited : BOOLEAN,
              model : Models \union {NoModel}, looksLikeCode : BOOLEAN,
              figures : [Windows -> BOOLEAN \union {None}],
              resets : [Windows -> Moments \union {None}]]

\* What a Stats login says of one Seat.
UsageAsRead == [Windows -> [spent : BOOLEAN, resetsAt : Moments \union {None}] \union {None}]

-----------------------------------------------------------------------------
(* known.ts                                                                 *)

\* Fault: the later arrival wins, whatever moment it is about.
KeepTheArriving(held, arriving) == arriving

\* The newer reading wins, and on a tie the reply does.
KeepTheBetter(held, arriving) ==
    IF \/ held = None
       \/ arriving.readAt > held.readAt
       \/ arriving.readAt = held.readAt /\ arriving.via = "exchange"
    THEN arriving ELSE held

\* Fault: whoever was charged is taught, whoever paid.
SeatCharged(x) == x.seat

SeatTaughtBy(x) == IF x.paidBy = "somebodyElse" THEN NoSeat ELSE x.seat

RefusalIsAboutTheSeat(x) ==
    /\ x.refused
    /\ x.looksLikeCode \/ \E w \in Windows : x.figures[w] = TRUE

\* Fault: a reset that has passed is believed.
CooldownUntilStated(x, at) ==
    LET stated == x.resets[FiveHour]
        asked  == IF x.limited /\ stated # None THEN stated ELSE at + Cooldown
    IN  IF asked < at + AtMostCooldown THEN asked ELSE at + AtMostCooldown

\* Fault: a header is believed however far away it points.
CooldownUntilUncapped(x, at) ==
    LET stated == x.resets[FiveHour]
    IN  IF x.limited /\ stated # None /\ stated > at THEN stated ELSE at + Cooldown

CooldownUntil(x, at) ==
    LET stated == x.resets[FiveHour]
        asked  == IF x.limited /\ stated # None /\ stated > at THEN stated ELSE at + Cooldown
    IN  IF asked < at + AtMostCooldown THEN asked ELSE at + AtMostCooldown

FoldExchange(held, x, at) ==
    [windows |-> [w \in Windows |->
        IF x.figures[w] = None THEN held.windows[w]
        ELSE KeepTheBetter(held.windows[w],
               [spent |-> x.figures[w], resetsAt |-> x.resets[w], readAt |-> at, via |-> "exchange"])],
     until |->
        IF RefusalIsAboutTheSeat(x) /\ x.model # NoModel
        THEN [held.until EXCEPT ![x.model] = CooldownUntil(x, at)]
        ELSE held.until]

FoldReading(held, usage, at) ==
    [windows |-> [w \in Windows |->
        IF usage[w] = None THEN held.windows[w]
        ELSE KeepTheBetter(held.windows[w],
               [spent |-> usage[w].spent, resetsAt |-> usage[w].resetsAt,
                readAt |-> at, via |-> "stats-login"])],
     until |-> held.until]

StillCooling(until, at) == [m \in Models |-> IF until[m] > at THEN until[m] ELSE 0]

HasReset(reading, at) == reading.resetsAt # None /\ reading.resetsAt <= at

\* asOf, for one Seat: a window that has turned over reads as untouched. The age of
\* a reading is the asker's moment less readAt, and is left to the asker.
AsOf(held, at) ==
    [windows |-> [w \in Windows |->
        IF held.windows[w] = None THEN None
        ELSE [held.windows[w] EXCEPT !.spent = @ /\ ~HasReset(held.windows[w], at)]],
     until |-> StillCooling(held.until, at)]

OnCooldown(usage, model, at) == model # NoModel /\ usage.until[model] > at

-----------------------------------------------------------------------------
(* rank.ts and choose.ts: who may be picked at all. The score that puts the *)
(* others in an order is a real number and is left to an order given from   *)
(* outside.                                                                 *)

FiveHourIsSpent(usage, at) ==
    LET five == usage.windows[FiveHour] IN
    /\ five # None /\ five.spent
    /\ five.resetsAt # None \/ at - five.readAt < FiveHours

\* remainingOf: a week that is spent scores nothing.
WeekIsSpent(usage) ==
    \E w \in Windows \ {FiveHour} : usage.windows[w] # None /\ usage.windows[w].spent

RuledOut(usage, model, at) == OnCooldown(usage, model, at) \/ FiveHourIsSpent(usage, at)
=============================================================================
