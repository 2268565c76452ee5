------------------------------ MODULE PayerProofs ------------------------------
(***************************************************************************)
(* Theorems about Payer.tla, for any Seats, models, windows, requests,     *)
(* orders of the Seats, replies and moments. The invariant says four       *)
(* things of every request: that what it has in hand fits the await it     *)
(* stands at (Fits), that the choice in force is among those it may be     *)
(* charged under (Allows), that the memory holds a cooldown past every     *)
(* refusal it met (Remembers), and that what it was promised of the memory *)
(* still says so (IsPromised).                                             *)
(***************************************************************************)
EXTENDS Payer, TLAPS

Steps == {"idle", "choice", "list", "known", "token", "sent", "weighing", "answered"}

Deciding == {"choice", "list", "known", "token"}

Records == [pc : Steps,
            about : [model : Models \union {NoModel}, looksLikeCode : BOOLEAN],
            at : Nat, seen : Choices \union {None}, list : SUBSET Seats,
            before : Payers \union {None}, pick : Payers, charge : Payers, again : BOOLEAN,
            attempt : 1..AtMostAttempts, heard : Heard \union {None},
            allowed : SUBSET Payers, walls : [Seats -> Nat]]

\* A Seat's cooldown for the model of a request, once it has been refused, is past the
\* moment it was refused at.
PastTheWall(q, s) == q.about.model # NoModel => q.walls[s] < q.at

Fits(q) ==
    /\ q \in Records
    /\ q.again \/ q.pc = "weighing" => q.attempt < AtMostAttempts
    /\ q.pc = "choice" => ~q.again
    /\ q.pc = "weighing" => q.heard \in Heard
    /\ q.pc \in Deciding => q.at \in Times
    /\ q.pc \in Deciding /\ ~q.again => \A s \in Seats : q.walls[s] = 0
    /\ q.pc = "list" => /\ q.seen \in Choices /\ AllowedBy(q.seen) \subseteq q.allowed
                        /\ q.again => q.seen = OnAuto
    /\ q.pc = "known" => Seats \subseteq q.allowed
    /\ q.pc = "token" => q.pick \in Seats \intersect q.allowed /\ PastTheWall(q, q.pick)
    /\ q.charge \in q.allowed \union {NoSeat}

Allows(q, c) == q.pc # "idle" => AllowedBy(c) \subseteq q.allowed

Remembers(q, memory, t) ==
    \A s \in Seats : /\ q.walls[s] <= t
                     /\ q.about.model # NoModel /\ q.walls[s] # 0 =>
                          memory[s].until[q.about.model] > q.walls[s]

IsPromised(q, told) ==
    /\ told \in Pictures \union {None}
    /\ (told # None) = (q.pc = "known")
    /\ q.pc = "known" /\ q.about.model # NoModel =>
         \A s \in Seats : told[s].until[q.about.model] <= q.at => q.walls[s] < q.at

WorldFits == /\ now \in Times
             /\ ledger \in Pictures
             /\ choice \in Choices /\ hand \in Choices \union {None}
             /\ able \subseteq Seats
             /\ {settled, said} \subseteq Payers \union {None}

IInv == /\ WorldFits
        /\ req \in [Requests -> Records] /\ promised \in [Requests -> Pictures \union {None}]
        /\ \A r \in Requests : /\ Fits(req[r]) /\ Allows(req[r], choice)
                               /\ Remembers(req[r], ledger, now) /\ IsPromised(req[r], promised[r])

-----------------------------------------------------------------------------
(* The rules of Allowance.tla and the memory.                               *)

LEMMA MemoryFollowsTheRules ==
    /\ \A x : Memory!SeatTaughtBy(x) = SeatTaughtBy(x)
    /\ \A was, x, at : Memory!FoldExchange(was, x, at) = FoldExchange(was, x, at)
    /\ \A was, at : Memory!AsOf(was, at) = AsOf(was, at)
  <1>1. \A was, arriving : Memory!KeepTheBetter(was, arriving) = KeepTheBetter(was, arriving)
    BY DEF Memory!KeepTheBetter, KeepTheBetter
  <1>2. \A x : Memory!RefusalIsAboutTheSeat(x) = RefusalIsAboutTheSeat(x)
    BY DEF Memory!RefusalIsAboutTheSeat, RefusalIsAboutTheSeat
  <1>3. \A x, at : Memory!CooldownUntil(x, at) = CooldownUntil(x, at)
    BY DEF Memory!CooldownUntil, CooldownUntil
  <1>4. \A until, at : Memory!StillCooling(until, at) = StillCooling(until, at)
    BY DEF Memory!StillCooling, StillCooling
  <1>5. \A reading, at : Memory!HasReset(reading, at) = HasReset(reading, at)
    BY DEF Memory!HasReset, HasReset
  <1>6. \A was, at : Memory!AsOf(was, at) = AsOf(was, at)
    BY <1>4, <1>5 DEF Memory!AsOf, AsOf
  <1>7. \A was, x, at : Memory!FoldExchange(was, x, at) = FoldExchange(was, x, at)
    BY <1>1, <1>2, <1>3, ZenonT(120) DEF Memory!FoldExchange, FoldExchange
  <1>8. \A x : Memory!SeatTaughtBy(x) = SeatTaughtBy(x)
    BY DEF Memory!SeatTaughtBy, SeatTaughtBy
  <1> QED  BY <1>6, <1>7, <1>8

\* However a reset is stated, a cooldown ends after the moment it is put on at.
LEMMA CooldownIsAhead ==
    ASSUME NEW x \in Exchanges, NEW at \in Moments
    PROVE  CooldownUntil(x, at) \in Nat /\ CooldownUntil(x, at) > at
  <1>1. x.resets[FiveHour] \in Moments \union {None}
    BY WindowsAssumption DEF Exchanges
  <1> QED  BY <1>1, PeriodsAssumption DEF CooldownUntil, Moments

\* What a reply does to the cooldowns of the Seat it teaches about.
LEMMA ReplyFolded ==
    ASSUME NEW memory \in SeatMemories, NEW x \in Exchanges, NEW at \in Moments
    PROVE  /\ FoldExchange(memory, x, at) \in SeatMemories
           /\ \A m \in Models : \/ FoldExchange(memory, x, at).until[m] = memory.until[m]
                                \/ FoldExchange(memory, x, at).until[m] > at
           /\ RefusalIsAboutTheSeat(x) /\ x.model # NoModel =>
                FoldExchange(memory, x, at).until[x.model] > at
  <1> DEFINE arriving(w) == [spent |-> x.figures[w], resetsAt |-> x.resets[w], readAt |-> at,
                             via |-> "exchange"]
             windows == [w \in Windows |-> IF x.figures[w] = None THEN memory.windows[w]
                                           ELSE KeepTheBetter(memory.windows[w], arriving(w))]
             until == IF RefusalIsAboutTheSeat(x) /\ x.model # NoModel
                      THEN [memory.until EXCEPT ![x.model] = CooldownUntil(x, at)] ELSE memory.until
  <1>1. FoldExchange(memory, x, at) = [windows |-> windows, until |-> until]
    BY DEF FoldExchange
  <1>2. ASSUME NEW w \in Windows
        PROVE  windows[w] \in Readings \union {None}
    <2>1. memory.windows[w] \in Readings \union {None}
      BY DEF SeatMemories
    <2>2. x.figures[w] # None => arriving(w) \in Readings
      BY DEF Exchanges, Readings
    <2> HIDE DEF arriving
    <2> QED  BY <2>1, <2>2 DEF KeepTheBetter
  <1>3. memory.until \in [Models -> Nat] /\ x.model \in Models \union {NoModel}
    BY DEF SeatMemories, Exchanges
  <1>4. CooldownUntil(x, at) \in Nat /\ CooldownUntil(x, at) > at
    BY CooldownIsAhead
  <1>5. until \in [Models -> Nat]
    BY <1>3, <1>4
  <1>6. windows \in [Windows -> Readings \union {None}]
    BY <1>2
  <1>7. \A m \in Models : until[m] = memory.until[m] \/ until[m] > at
    BY <1>3, <1>4
  <1>8. RefusalIsAboutTheSeat(x) /\ x.model # NoModel => until[x.model] > at
    BY <1>3, <1>4
  <1> HIDE DEF windows, until
  <1> QED  BY <1>1, <1>5, <1>6, <1>7, <1>8 DEF SeatMemories

\* A cooldown only gives way to one that ends later than the news.
Raised(was, is, at) ==
    \A s \in Seats, m \in Models : is[s].until[m] = was[s].until[m] \/ is[s].until[m] > at

LEMMA Told ==
    ASSUME NEW x \in Heard, WorldFits, Memory!TellExchange(x, now)
    PROVE  /\ ledger' \in Pictures /\ Raised(ledger, ledger', now)
           /\ x.seat \in Seats /\ SeatTaughtBy(x) = x.seat
           /\ RefusalIsAboutTheSeat(x) /\ x.model # NoModel => ledger'[x.seat].until[x.model] > now
           /\ promised' = promised
  <1>1. x \in Exchanges /\ now \in Moments /\ ledger \in Pictures
    BY InputsAssumption DEF WorldFits
  <1>2. x.seat \in Seats /\ SeatTaughtBy(x) = x.seat
    BY <1>1, MemoryFollowsTheRules DEF Memory!TellExchange, SeatTaughtBy, Exchanges
  <1>3. ledger' = [ledger EXCEPT ![x.seat] = FoldExchange(ledger[x.seat], x, now)] /\ promised' = promised
    BY <1>2, MemoryFollowsTheRules DEF Memory!TellExchange
  <1>4. ledger[x.seat] \in SeatMemories
    BY <1>1, <1>2 DEF Pictures
  <1>5. ledger' \in Pictures
    BY <1>1, <1>2, <1>3, <1>4, ReplyFolded DEF Pictures
  <1>6. \A s \in Seats : ledger'[s] = IF s = x.seat THEN FoldExchange(ledger[x.seat], x, now) ELSE ledger[s]
    BY <1>1, <1>3 DEF Pictures
  <1>7. Raised(ledger, ledger', now)
    BY <1>1, <1>4, <1>6, ReplyFolded DEF Raised
  <1> QED  BY <1>1, <1>2, <1>3, <1>4, <1>5, <1>6, <1>7, ReplyFolded

-----------------------------------------------------------------------------
(* One request moves and the others stand.                                  *)

\* A refusal met earlier is remembered through whatever is told, and as time goes by.
LEMMA RememberedLater ==
    ASSUME NEW q \in Records, NEW was \in Pictures, NEW is \in Pictures,
           NEW t \in Moments, NEW u \in Moments, t <= u,
           Remembers(q, was, t), Raised(was, is, u)
    PROVE  Remembers(q, is, u)
  <1> SUFFICES ASSUME NEW s \in Seats
               PROVE  /\ q.walls[s] <= u
                      /\ q.about.model # NoModel /\ q.walls[s] # 0 =>
                           is[s].until[q.about.model] > q.walls[s]
    BY DEF Remembers
  <1>1. q.walls[s] \in Nat /\ q.about.model \in Models \union {NoModel} /\ q.walls[s] <= t
    BY DEF Records, Remembers
  <1>2. ASSUME q.about.model # NoModel, q.walls[s] # 0
        PROVE  is[s].until[q.about.model] > q.walls[s]
    <2>1. was[s].until[q.about.model] > q.walls[s]
      BY <1>2 DEF Remembers
    <2>2. is[s].until[q.about.model] = was[s].until[q.about.model] \/ is[s].until[q.about.model] > u
      BY <1>1, <1>2 DEF Raised
    <2>3. is[s].until \in [Models -> Nat]
      BY DEF Pictures, SeatMemories
    <2>4. is[s].until[q.about.model] \in Nat
      BY <1>1, <1>2, <2>3
    <2> QED  BY <1>1, <2>1, <2>2, <2>4 DEF Moments
  <1> QED  BY <1>1, <1>2 DEF Moments

LEMMA NothingRaised == \A memory \in Pictures : \A t : Raised(memory, memory, t)
  BY DEF Raised

LEMMA OneMoves ==
    ASSUME IInv, NEW r \in Requests, NEW q,
           Goes(r, q), UNCHANGED world,
           Fits(q), Allows(q, choice), Remembers(q, ledger', now), IsPromised(q, promised'[r]),
           ledger' \in Pictures, Raised(ledger, ledger', now),
           {settled', said'} \subseteq Payers \union {None},
           promised' \in [Requests -> Pictures \union {None}],
           \A o \in Requests \ {r} : promised'[o] = promised[o]
    PROVE  IInv'
  <1>1. /\ now' = now /\ choice' = choice /\ hand' = hand /\ able' = able
        /\ now \in Moments /\ ledger \in Pictures
    BY InputsAssumption DEF world, IInv, WorldFits
  <1>2. WorldFits'
    BY <1>1 DEF IInv, WorldFits
  <1>3. q \in Records /\ req \in [Requests -> Records]
    BY DEF Fits, IInv
  <1>4. /\ req' \in [Requests -> Records] /\ req'[r] = q
        /\ \A o \in Requests \ {r} : req'[o] = req[o]
    BY <1>3 DEF Goes
  <1>5. ASSUME NEW o \in Requests
        PROVE  /\ Fits(req[o])' /\ Allows(req[o], choice)'
               /\ Remembers(req[o], ledger, now)' /\ IsPromised(req[o], promised[o])'
    <2>1. CASE o = r
      BY <1>1, <1>4, <2>1 DEF Fits, Allows, Remembers, IsPromised, PastTheWall
    <2>2. CASE o # r
      <3>1. /\ Fits(req[o]) /\ Allows(req[o], choice) /\ Remembers(req[o], ledger, now)
            /\ IsPromised(req[o], promised[o])
        BY DEF IInv
      <3>2. req'[o] = req[o] /\ promised'[o] = promised[o] /\ req[o] \in Records
        BY <1>3, <1>4, <2>2
      <3>3. now <= now
        BY <1>1 DEF Moments
      <3>4. Remembers(req[o], ledger', now)
        BY <1>1, <3>1, <3>2, <3>3, RememberedLater
      <3> QED  BY <1>1, <3>1, <3>2, <3>4, ZenonT(60) DEF Fits, Allows, Remembers, IsPromised, PastTheWall
    <2> QED  BY <2>1, <2>2
  <1> QED  BY <1>2, <1>4, <1>5 DEF IInv

\* The same, where the request learns nothing and is promised nothing.
LEMMA OneMovesAlone ==
    ASSUME IInv, NEW r \in Requests, NEW q,
           Goes(r, q), UNCHANGED <<world, standing, ledger, promised>>,
           Fits(q), Allows(q, choice), Remembers(q, ledger, now),
           req[r].pc # "known", q.pc # "known"
    PROVE  IInv'
  <1>1. ledger \in Pictures /\ {settled, said} \subseteq Payers \union {None}
    BY DEF IInv, WorldFits
  <1>2. promised \in [Requests -> Pictures \union {None}] /\ promised[r] = None
    BY DEF IInv, IsPromised
  <1>3. IsPromised(q, promised'[r])
    BY <1>2 DEF IsPromised
  <1> QED  BY <1>1, <1>2, <1>3, NothingRaised, OneMoves DEF standing

-----------------------------------------------------------------------------
(* The decisions.                                                           *)

\* LeftAsItIs, of a record.
Left(q) == [q EXCEPT !.pc = IF q.again THEN "answered" ELSE "sent",
              !.seen = None, !.list = {}, !.before = None, !.pick = NoSeat]

LEMMA LeftFits ==
    ASSUME NEW q, Fits(q)
    PROVE  /\ Fits(Left(q)) /\ Left(q).pc \in {"answered", "sent"}
           /\ Left(q).walls = q.walls /\ Left(q).about = q.about /\ Left(q).allowed = q.allowed
  <1>1. q \in Records
    BY DEF Fits
  <1>2. /\ Left(q) \in Records /\ Left(q).pc \in {"answered", "sent"}
        /\ Left(q).walls = q.walls /\ Left(q).about = q.about /\ Left(q).allowed = q.allowed
        /\ Left(q).again = q.again /\ Left(q).attempt = q.attempt /\ Left(q).charge = q.charge
    BY <1>1, ZenonT(60) DEF Left, Records, Steps, Payers
  <1> HIDE DEF Left
  <1> QED  BY <1>2 DEF Fits, Deciding

LEMMA NobodyElsePays ==
    ASSUME IInv, NEW r \in Requests, LeftAsItIs(r), req[r].pc \in {"choice", "list", "token"},
           UNCHANGED <<world, standing, ledger, promised>>
    PROVE  IInv'
  <1>1. Goes(r, Left(req[r]))
    BY DEF LeftAsItIs, Left
  <1>2. Fits(req[r]) /\ Allows(req[r], choice) /\ Remembers(req[r], ledger, now)
    BY DEF IInv
  <1>3. /\ Fits(Left(req[r])) /\ Left(req[r]).pc # "known"
        /\ Left(req[r]).walls = req[r].walls /\ Left(req[r]).about = req[r].about
        /\ Left(req[r]).allowed = req[r].allowed
    BY <1>2, LeftFits
  <1>4. Allows(Left(req[r]), choice) /\ Remembers(Left(req[r]), ledger, now)
    BY <1>2, <1>3 DEF Allows, Remembers
  <1> QED  BY <1>1, <1>3, <1>4, OneMovesAlone

\* What may change of a record without what it may be charged under or was refused by.
Alike(q, was) == q.walls = was.walls /\ q.about = was.about /\ q.allowed = was.allowed

LEMMA MovesAlike ==
    ASSUME IInv, NEW r \in Requests, NEW q, Goes(r, q), Fits(q), Alike(q, req[r]),
           UNCHANGED <<world, standing, ledger, promised>>,
           req[r].pc \notin {"idle", "known"}, q.pc # "known"
    PROVE  IInv'
  <1>1. Allows(req[r], choice) /\ Remembers(req[r], ledger, now)
    BY DEF IInv
  <1>2. Allows(q, choice) /\ Remembers(q, ledger, now)
    BY <1>1 DEF Allows, Remembers, Alike
  <1> QED  BY <1>2, OneMovesAlone

\* A request that has not begun.
LEMMA FreshFits ==
    /\ Fresh \in Records /\ Fresh.pc = "idle" /\ Fresh.again = FALSE /\ Fresh.charge = NoSeat
    /\ Fresh.walls \in [Seats -> Nat] /\ \A s \in Seats : Fresh.walls[s] = 0
    /\ Fits(Fresh) /\ \A c : Allows(Fresh, c)
    /\ \A t \in Nat : \A memory : Remembers(Fresh, memory, t)
  <1> DEFINE none == [s \in Seats |-> 0]
  <1>1. none \in [Seats -> Nat] /\ \A s \in Seats : none[s] = 0
    OBVIOUS
  <1>2. 1 \in 1..AtMostAttempts
    BY AttemptsAssumption
  <1>3. Fresh.walls = none
    BY DEF Fresh
  <1>4. Fresh.pc = "idle" /\ Fresh.again = FALSE /\ Fresh.charge = NoSeat
    BY DEF Fresh
  <1> HIDE DEF none
  <1>5. Fresh \in Records
    BY <1>1, <1>2, <1>3 DEF Fresh, Records, Steps, Payers
  <1>6. Fits(Fresh) /\ \A c : Allows(Fresh, c)
    BY <1>4, <1>5 DEF Fits, Allows, Deciding
  <1>7. \A t \in Nat : \A memory : Remembers(Fresh, memory, t)
    BY <1>1, <1>3 DEF Remembers
  <1> QED  BY <1>1, <1>3, <1>4, <1>5, <1>6, <1>7

LEMMA BeginKeeps ==
    ASSUME IInv, NEW r \in Requests, Begin(r)
    PROVE  IInv'
  <1>1. PICK f \in Facts :
          Goes(r, [Fresh EXCEPT !.pc = "choice", !.about = f, !.at = now, !.allowed = AllowedBy(choice)])
    BY DEF Begin
  <1> DEFINE q == [Fresh EXCEPT !.pc = "choice", !.about = f, !.at = now, !.allowed = AllowedBy(choice)]
  <1>2. now \in Times /\ now \in Moments /\ choice \in Choices
    BY InputsAssumption DEF IInv, WorldFits
  <1>3. AllowedBy(choice) \subseteq Payers
    BY <1>2 DEF AllowedBy, Choices, Payers
  <1>4. f \in [model : Models \union {NoModel}, looksLikeCode : BOOLEAN]
    BY InputsAssumption
  <1>5. /\ q \in Records /\ q.pc = "choice" /\ q.at = now /\ q.again = FALSE
        /\ q.allowed = AllowedBy(choice) /\ q.charge = NoSeat /\ q.walls = Fresh.walls
    BY <1>2, <1>3, <1>4, FreshFits, ZenonT(60) DEF Records, Steps, Payers, Moments
  <1> HIDE DEF q
  <1>6. Fits(q) /\ Allows(q, choice)
    BY <1>2, <1>5, FreshFits DEF Fits, Allows
  <1>7. Remembers(q, ledger, now)
    BY <1>2, <1>5, FreshFits DEF Remembers, Moments
  <1> QED  BY <1>1, <1>5, <1>6, <1>7, OneMovesAlone DEF Begin, q

LEMMA ReadChoiceKeeps ==
    ASSUME IInv, NEW r \in Requests, ReadChoice(r)
    PROVE  IInv'
  <1>1. CASE LeftAsItIs(r)
    BY <1>1, NobodyElsePays DEF ReadChoice
  <1>2. CASE Goes(r, [req[r] EXCEPT !.pc = "list", !.seen = choice])
    <2> DEFINE q == [req[r] EXCEPT !.pc = "list", !.seen = choice]
    <2>1. Fits(req[r]) /\ req[r].pc = "choice" /\ Allows(req[r], choice) /\ choice \in Choices
      BY DEF IInv, ReadChoice, WorldFits
    <2>2. /\ q \in Records /\ q.pc = "list" /\ q.seen = choice /\ Alike(q, req[r])
          /\ q.again = req[r].again /\ q.attempt = req[r].attempt /\ q.charge = req[r].charge
          /\ q.at = req[r].at
      BY <2>1 DEF Fits, Records, Steps, Alike
    <2> HIDE DEF q
    <2>3. ~req[r].again
      BY <2>1 DEF Fits
    <2>4. Fits(q)
      BY <2>1, <2>2, <2>3 DEF Fits, Allows, Alike, Deciding
    <2> QED  BY <1>2, <2>1, <2>2, <2>4, MovesAlike DEF ReadChoice, q
  <1> QED  BY <1>1, <1>2 DEF ReadChoice

\* Manual is decided once, before anybody has refused.
LEMMA PickTheUsersKeeps ==
    ASSUME IInv, NEW r \in Requests, PickTheUsers(r)
    PROVE  IInv'
  <1>1. CASE LeftAsItIs(r)
    BY <1>1, NobodyElsePays DEF PickTheUsers
  <1>2. CASE req[r].seen.payer \in able
    <2> DEFINE q == [req[r] EXCEPT !.pc = "token", !.seen = None, !.pick = req[r].seen.payer]
    <2>1. Fits(req[r]) /\ req[r].pc = "list" /\ req[r].seen.mode = "manual" /\ able \subseteq Seats
      BY DEF IInv, PickTheUsers, WorldFits
    <2>2. req[r].seen.payer \in Seats
      BY <1>2, <2>1
    <2>3. /\ q \in Records /\ q.pc = "token" /\ q.pick = req[r].seen.payer /\ Alike(q, req[r])
          /\ q.again = req[r].again /\ q.attempt = req[r].attempt /\ q.charge = req[r].charge
          /\ q.at = req[r].at
      BY <2>1, <2>2 DEF Fits, Records, Steps, Alike, Payers
    <2> HIDE DEF q
    <2>4. ~req[r].again
      BY <2>1 DEF Fits, OnAuto
    <2>5. AllowedBy(req[r].seen) = {req[r].seen.payer}
      BY <2>1 DEF AllowedBy
    <2>6. req[r].seen.payer \in req[r].allowed
      BY <2>1, <2>5 DEF Fits
    <2>7. req[r].at \in Times /\ req[r].at \in Moments /\ \A s \in Seats : req[r].walls[s] = 0
      BY <2>1, <2>4, InputsAssumption DEF Fits, Deciding
    <2>8. Fits(q)
      BY <2>1, <2>2, <2>3, <2>4, <2>6, <2>7 DEF Fits, PastTheWall, Alike, Deciding, Moments
    <2> QED  BY <1>2, <2>1, <2>3, <2>8, MovesAlike DEF PickTheUsers, q
  <1> QED  BY <1>1, <1>2 DEF PickTheUsers

LEMMA ListFailsKeeps ==
    ASSUME IInv, NEW r \in Requests, ListFails(r)
    PROVE  IInv'
  BY NobodyElsePays DEF ListFails

\* As of a moment, a cooldown that has run out reads as none.
LEMMA ReadAsOf ==
    ASSUME NEW memory \in SeatMemories, NEW at \in Moments
    PROVE  /\ AsOf(memory, at) \in SeatMemories
           /\ \A m \in Models : AsOf(memory, at).until[m] <= at => memory.until[m] <= at
  <1> DEFINE windows == [w \in Windows |->
               IF memory.windows[w] = None THEN None
               ELSE [memory.windows[w] EXCEPT !.spent = @ /\ ~HasReset(memory.windows[w], at)]]
  <1>1. AsOf(memory, at) = [windows |-> windows, until |-> StillCooling(memory.until, at)]
    BY DEF AsOf
  <1>2. ASSUME NEW w \in Windows
        PROVE  windows[w] \in Readings \union {None}
    <2>1. memory.windows[w] \in Readings \union {None}
      BY DEF SeatMemories
    <2>2. CASE memory.windows[w] # None
      <3>1. memory.windows[w] \in Readings
        BY <2>1, <2>2
      <3>2. \A b \in BOOLEAN : [memory.windows[w] EXCEPT !.spent = b] \in Readings
        BY <3>1 DEF Readings
      <3>3. (memory.windows[w].spent /\ ~HasReset(memory.windows[w], at)) \in BOOLEAN
        OBVIOUS
      <3>4. windows[w] = [memory.windows[w] EXCEPT
                            !.spent = memory.windows[w].spent /\ ~HasReset(memory.windows[w], at)]
        BY <2>2
      <3> QED  BY <3>2, <3>3, <3>4, Zenon
    <2> QED  BY <2>2
  <1>3. windows \in [Windows -> Readings \union {None}]
    BY <1>2
  <1>4. memory.until \in [Models -> Nat]
    BY DEF SeatMemories
  <1>5. StillCooling(memory.until, at) \in [Models -> Nat]
    BY <1>4 DEF StillCooling
  <1>6. \A m \in Models : StillCooling(memory.until, at)[m] <= at => memory.until[m] <= at
    BY <1>4 DEF StillCooling, Moments
  <1> HIDE DEF windows
  <1> QED  BY <1>1, <1>3, <1>5, <1>6 DEF SeatMemories

LEMMA AskWhatIsKnownKeeps ==
    ASSUME IInv, NEW r \in Requests, AskWhatIsKnown(r)
    PROVE  IInv'
  <1> DEFINE q == [req[r] EXCEPT !.pc = "known", !.seen = None, !.list = able, !.before = settled]
             told == [s \in Seats |-> AsOf(ledger[s], req[r].at)]
  <1>1. /\ Fits(req[r]) /\ Allows(req[r], choice) /\ Remembers(req[r], ledger, now)
        /\ req[r].pc = "list" /\ req[r].seen.mode = "auto" /\ req[r] \in Records
    BY DEF IInv, AskWhatIsKnown, Fits
  <1>2. /\ able \subseteq Seats /\ settled \in Payers \union {None} /\ said \in Payers \union {None}
        /\ ledger \in Pictures /\ promised \in [Requests -> Pictures \union {None}]
    BY DEF IInv, WorldFits
  <1>3. req[r].at \in Moments
    BY <1>1, InputsAssumption DEF Fits, Deciding
  <1>4. /\ q \in Records /\ q.pc = "known" /\ Alike(q, req[r])
        /\ q.again = req[r].again /\ q.attempt = req[r].attempt /\ q.charge = req[r].charge
        /\ q.at = req[r].at
    BY <1>1, <1>2 DEF Records, Steps, Alike
  <1>5. Seats \subseteq req[r].allowed
    BY <1>1 DEF Fits, AllowedBy
  <1> HIDE DEF q
  <1>6. Fits(q) /\ Allows(q, choice) /\ Remembers(q, ledger, now)
    BY <1>1, <1>4, <1>5 DEF Fits, Allows, Remembers, Alike, Deciding
  <1>7. promised' = [promised EXCEPT ![r] = told] /\ ledger' = ledger
    BY MemoryFollowsTheRules DEF AskWhatIsKnown, Memory!Ask
  <1>8. \A s \in Seats : /\ ledger[s] \in SeatMemories
                         /\ AsOf(ledger[s], req[r].at) \in SeatMemories
                         /\ \A m \in Models : AsOf(ledger[s], req[r].at).until[m] <= req[r].at =>
                                                ledger[s].until[m] <= req[r].at
    BY <1>2, <1>3, ReadAsOf DEF Pictures
  <1>9. told \in Pictures
    BY <1>8 DEF Pictures
  <1>10. ASSUME q.about.model # NoModel, NEW s \in Seats, told[s].until[q.about.model] <= q.at
         PROVE  q.walls[s] < q.at
    <2>1. q.about.model \in Models /\ q.walls[s] \in Nat
      BY <1>4, <1>10 DEF Records
    <2>2. ledger[s].until[q.about.model] <= q.at
      BY <1>4, <1>8, <1>10, <2>1
    <2>3. ledger[s].until[q.about.model] \in Nat
      BY <1>8, <2>1 DEF SeatMemories
    <2>4. q.walls[s] # 0 => ledger[s].until[q.about.model] > q.walls[s]
      BY <1>6, <1>10 DEF Remembers
    <2> QED  BY <1>3, <1>4, <2>1, <2>2, <2>3, <2>4 DEF Moments
  <1> HIDE DEF told
  <1>11. IsPromised(q, told)
    BY <1>4, <1>9, <1>10, NoneAssumption DEF IsPromised
  <1>12. /\ promised' \in [Requests -> Pictures \union {None}] /\ promised'[r] = told
         /\ \A o \in Requests \ {r} : promised'[o] = promised[o]
    BY <1>2, <1>7, <1>9
  <1>13. Goes(r, q) /\ UNCHANGED world /\ settled' = settled /\ said' = said
    BY DEF AskWhatIsKnown, q, standing
  <1> QED  BY <1>2, <1>6, <1>7, <1>11, <1>12, <1>13, NothingRaised, OneMoves

\* Nobody on cooldown is picked.
LEMMA BestIsNotCooling ==
    ASSUME NEW list, NEW usage, NEW model, NEW at, NEW order,
           Best(list, usage, model, at, order) # NoSeat
    PROVE  /\ Best(list, usage, model, at, order) \in list
           /\ ~OnCooldown(usage[Best(list, usage, model, at, order)], model, at)
  <1> DEFINE scoring == {s \in list : /\ ~RuledOut(usage[s], model, at)
                                      /\ order[s] > 0 /\ ~WeekIsSpent(usage[s])}
             best == {s \in scoring : \A o \in scoring : order[o] <= order[s]}
             pick == CHOOSE s \in best : TRUE
  <1>1. Best(list, usage, model, at, order) = IF best = {} THEN NoSeat ELSE pick
    BY DEF Best
  <1>2. best # {} /\ Best(list, usage, model, at, order) = pick
    BY <1>1
  <1>3. pick \in best
    BY <1>2
  <1>4. pick \in list /\ ~RuledOut(usage[pick], model, at)
    BY <1>3
  <1> HIDE DEF pick
  <1> QED  BY <1>2, <1>4 DEF RuledOut

LEMMA RankKeeps ==
    ASSUME IInv, NEW r \in Requests, NEW order, Rank(r, order)
    PROVE  IInv'
  <1> DEFINE pick == Best(req[r].list, promised[r], req[r].about.model, req[r].at, order)
             q == [req[r] EXCEPT !.pc = "token", !.list = {}, !.before = None, !.pick = pick]
  <1>1. /\ Fits(req[r]) /\ Allows(req[r], choice) /\ Remembers(req[r], ledger, now)
        /\ IsPromised(req[r], promised[r]) /\ req[r].pc = "known" /\ req[r] \in Records
    BY DEF IInv, Rank, Fits
  <1>2. /\ settled' = pick /\ said' \in {pick, said}
        /\ IF pick = NoSeat THEN LeftAsItIs(r) ELSE Goes(r, q)
    BY DEF Rank
  <1>3. /\ ledger \in Pictures /\ said \in Payers \union {None}
        /\ promised \in [Requests -> Pictures \union {None}]
    BY DEF IInv, WorldFits
  <1>4. ledger' = ledger /\ promised' = [promised EXCEPT ![r] = None] /\ UNCHANGED world
    BY DEF Rank, Memory!Take
  <1>5. /\ promised' \in [Requests -> Pictures \union {None}] /\ promised'[r] = None
        /\ \A o \in Requests \ {r} : promised'[o] = promised[o]
    BY <1>3, <1>4
  <1>6. pick # NoSeat => /\ pick \in req[r].list
                         /\ ~OnCooldown(promised[r][pick], req[r].about.model, req[r].at)
    BY BestIsNotCooling
  <1> HIDE DEF pick
  <1>7. req[r].list \subseteq Seats /\ Seats \subseteq req[r].allowed /\ req[r].at \in Moments
    BY <1>1, InputsAssumption DEF Records, Fits, Deciding
  <1>8. {settled', said'} \subseteq Payers \union {None}
    BY <1>2, <1>3, <1>6, <1>7 DEF Payers
  <1>9. CASE pick = NoSeat
    <2>1. Goes(r, Left(req[r]))
      BY <1>2, <1>9 DEF LeftAsItIs, Left
    <2>2. /\ Fits(Left(req[r])) /\ Left(req[r]).pc # "known"
          /\ Left(req[r]).walls = req[r].walls /\ Left(req[r]).about = req[r].about
          /\ Left(req[r]).allowed = req[r].allowed
      BY <1>1, LeftFits
    <2>3. /\ Allows(Left(req[r]), choice) /\ Remembers(Left(req[r]), ledger, now)
          /\ IsPromised(Left(req[r]), None)
      BY <1>1, <2>2 DEF Allows, Remembers, IsPromised
    <2> QED  BY <1>3, <1>4, <1>5, <1>8, <2>1, <2>2, <2>3, NothingRaised, OneMoves
  <1>10. CASE pick # NoSeat
    <2>1. pick \in Seats /\ pick \in req[r].allowed
      BY <1>6, <1>7, <1>10
    <2>2. /\ q \in Records /\ q.pc = "token" /\ q.pick = pick /\ Alike(q, req[r])
          /\ q.again = req[r].again /\ q.attempt = req[r].attempt /\ q.charge = req[r].charge
          /\ q.at = req[r].at
      BY <1>1, <2>1 DEF Records, Steps, Alike, Payers
    <2> HIDE DEF q
    <2>3. PastTheWall(q, pick)
      <3> SUFFICES ASSUME q.about.model # NoModel
                   PROVE  q.walls[pick] < q.at
        BY DEF PastTheWall
      <3>1. req[r].about.model \in Models /\ promised[r] \in Pictures
        BY <1>1, <2>2, NoneAssumption DEF Records, Alike, IsPromised
      <3>2. promised[r][pick].until \in [Models -> Nat]
        BY <2>1, <3>1 DEF Pictures, SeatMemories
      <3>3. promised[r][pick].until[req[r].about.model] \in Nat
        BY <3>1, <3>2
      <3>4. promised[r][pick].until[req[r].about.model] <= req[r].at
        BY <1>6, <1>7, <1>10, <2>2, <3>3 DEF OnCooldown, Alike, Moments
      <3> QED  BY <1>1, <2>1, <2>2, <3>4 DEF IsPromised, Alike
    <2>4. Fits(q) /\ Allows(q, choice) /\ Remembers(q, ledger, now) /\ IsPromised(q, None)
      BY <1>1, <2>1, <2>2, <2>3 DEF Fits, Allows, Remembers, IsPromised, Alike, Deciding
    <2>5. Goes(r, q)
      BY <1>2, <1>10
    <2> QED  BY <1>3, <1>4, <1>5, <1>8, <2>4, <2>5, NothingRaised, OneMoves
  <1> QED  BY <1>9, <1>10

LEMMA ReadTokenKeeps ==
    ASSUME IInv, NEW r \in Requests, ReadToken(r)
    PROVE  IInv'
  <1>1. CASE LeftAsItIs(r)
    BY <1>1, NobodyElsePays DEF ReadToken
  <1>2. CASE ~LeftAsItIs(r)
    <2> DEFINE attempt == IF req[r].again THEN req[r].attempt + 1 ELSE req[r].attempt
               q == [req[r] EXCEPT !.pc = "sent", !.charge = req[r].pick, !.pick = NoSeat,
                       !.again = FALSE, !.attempt = attempt]
    <2>1. Fits(req[r]) /\ req[r].pc = "token" /\ req[r] \in Records
      BY DEF IInv, ReadToken, Fits
    <2>2. Goes(r, q)
      BY <1>2 DEF ReadToken
    <2>3. attempt \in 1..AtMostAttempts
      BY <2>1, AttemptsAssumption DEF Fits, Records
    <2> HIDE DEF attempt
    <2>4. /\ q \in Records /\ q.pc = "sent" /\ Alike(q, req[r]) /\ q.again = FALSE
          /\ q.charge = req[r].pick
      BY <2>1, <2>3 DEF Records, Steps, Alike, Payers
    <2> HIDE DEF q
    <2>5. Fits(q)
      BY <2>1, <2>4 DEF Fits, Alike, Deciding
    <2> QED  BY <2>1, <2>2, <2>4, <2>5, MovesAlike DEF ReadToken
  <1> QED  BY <1>1, <1>2

-----------------------------------------------------------------------------
(* Replies and refusals.                                                    *)

LEMMA HeadArrivesKeeps ==
    ASSUME IInv, NEW r \in Requests, NEW x \in Heard, HeadArrives(r, x)
    PROVE  IInv'
  <1> DEFINE walled == RefusalIsAboutTheSeat(x) /\ SeatTaughtBy(x) # NoSeat
             walls == IF walled THEN [req[r].walls EXCEPT ![x.seat] = now] ELSE req[r].walls
             met  == [req[r] EXCEPT !.walls = walls]
             over == [met EXCEPT !.pc = "answered"]
             more == [met EXCEPT !.pc = "weighing", !.heard = x]
  <1>1. /\ Fits(req[r]) /\ Allows(req[r], choice) /\ Remembers(req[r], ledger, now)
        /\ IsPromised(req[r], promised[r]) /\ req[r].pc = "sent" /\ req[r] \in Records
        /\ x.model = req[r].about.model
    BY DEF IInv, HeadArrives, Fits, IsOf
  <1>2. /\ ledger \in Pictures /\ {settled, said} \subseteq Payers \union {None}
        /\ promised \in [Requests -> Pictures \union {None}] /\ now \in Moments /\ WorldFits
    BY InputsAssumption DEF IInv, WorldFits
  <1>3. /\ ledger' \in Pictures /\ Raised(ledger, ledger', now) /\ promised' = promised
        /\ walled => /\ x.seat \in Seats
                     /\ x.model # NoModel => ledger'[x.seat].until[x.model] > now
    <2>1. CASE SeatTaughtBy(x) = NoSeat
      BY <1>2, <2>1, NothingRaised DEF HeadArrives
    <2>2. CASE SeatTaughtBy(x) # NoSeat
      <3>1. Memory!TellExchange(x, now)
        BY <2>2 DEF HeadArrives
      <3> QED  BY <1>2, <3>1, Told
    <2> QED  BY <2>1, <2>2
  <1>4. Goes(r, over) \/ (Goes(r, more) /\ MayTryAgain(r))
    BY DEF HeadArrives
  <1> HIDE DEF walled
  <1>5. /\ walls \in [Seats -> Nat]
        /\ \A s \in Seats : walls[s] = req[r].walls[s] \/ (walled /\ s = x.seat /\ walls[s] = now)
    <2>1. req[r].walls \in [Seats -> Nat] /\ now \in Nat
      BY <1>1, <1>2 DEF Records, Moments
    <2> QED  BY <2>1
  <1> HIDE DEF walls
  <1>6. Remembers(req[r], ledger', now)
    <2>1. now <= now
      BY <1>2 DEF Moments
    <2> QED  BY <1>1, <1>2, <1>3, <2>1, RememberedLater
  <1>7. ASSUME NEW q, q.walls = walls, q.about = req[r].about
        PROVE  Remembers(q, ledger', now)
    <2> SUFFICES ASSUME NEW s \in Seats
                 PROVE  /\ q.walls[s] <= now
                        /\ q.about.model # NoModel /\ q.walls[s] # 0 =>
                             ledger'[s].until[q.about.model] > q.walls[s]
      BY DEF Remembers
    <2>1. CASE walls[s] = req[r].walls[s]
      BY <1>6, <1>7, <2>1 DEF Remembers
    <2>2. CASE walled /\ s = x.seat /\ walls[s] = now
      BY <1>1, <1>2, <1>3, <1>7, <2>2 DEF Moments
    <2> QED  BY <1>5, <2>1, <2>2
  <1>8. /\ met \in Records /\ met.walls = walls /\ met.about = req[r].about
        /\ met.allowed = req[r].allowed /\ met.again = req[r].again
        /\ met.attempt = req[r].attempt /\ met.charge = req[r].charge
    BY <1>1, <1>5 DEF Records
  <1> HIDE DEF met
  <1>9. CASE Goes(r, over)
    <2>1. /\ over \in Records /\ over.pc = "answered" /\ over.walls = walls
          /\ over.about = req[r].about /\ over.allowed = req[r].allowed
          /\ over.again = req[r].again /\ over.attempt = req[r].attempt
          /\ over.charge = req[r].charge
      BY <1>8 DEF Records, Steps
    <2> HIDE DEF over
    <2>2. Fits(over) /\ Allows(over, choice) /\ Remembers(over, ledger', now)
      BY <1>1, <1>7, <2>1 DEF Fits, Allows, Deciding
    <2>3. IsPromised(over, promised'[r])
      BY <1>1, <1>3, <2>1 DEF IsPromised
    <2> QED  BY <1>2, <1>3, <1>9, <2>2, <2>3, OneMoves DEF HeadArrives, standing
  <1>10. CASE Goes(r, more) /\ MayTryAgain(r)
    <2>1. /\ more \in Records /\ more.pc = "weighing" /\ more.walls = walls /\ more.heard = x
          /\ more.about = req[r].about /\ more.allowed = req[r].allowed
          /\ more.again = req[r].again /\ more.attempt = req[r].attempt
          /\ more.charge = req[r].charge
      BY <1>8 DEF Records, Steps
    <2> HIDE DEF more
    <2>2. Fits(more) /\ Allows(more, choice) /\ Remembers(more, ledger', now)
      BY <1>1, <1>7, <1>10, <2>1 DEF Fits, Allows, Deciding, MayTryAgain
    <2>3. IsPromised(more, promised'[r])
      BY <1>1, <1>3, <2>1 DEF IsPromised
    <2> QED  BY <1>2, <1>3, <1>10, <2>2, <2>3, OneMoves DEF HeadArrives, standing
  <1> QED  BY <1>4, <1>9, <1>10

LEMMA WeighKeeps ==
    ASSUME IInv, NEW r \in Requests, Weigh(r)
    PROVE  IInv'
  <1> DEFINE stands == [req[r] EXCEPT !.pc = "answered"]
             q == [req[r] EXCEPT !.pc = "list", !.seen = OnAuto, !.at = now, !.again = TRUE,
                     !.heard = None]
  <1>1. /\ Fits(req[r]) /\ Allows(req[r], choice) /\ Remembers(req[r], ledger, now)
        /\ IsPromised(req[r], promised[r]) /\ req[r].pc = "weighing" /\ req[r] \in Records
    BY DEF IInv, Weigh, Fits
  <1>2. /\ ledger \in Pictures /\ {settled, said} \subseteq Payers \union {None}
        /\ promised \in [Requests -> Pictures \union {None}]
        /\ now \in Moments /\ now \in Times /\ WorldFits /\ choice \in Choices
    BY InputsAssumption DEF IInv, WorldFits
  <1>3. CASE Goes(r, stands) /\ UNCHANGED <<ledger, promised>>
    <2>1. /\ stands \in Records /\ stands.pc = "answered" /\ Alike(stands, req[r])
          /\ stands.again = req[r].again /\ stands.attempt = req[r].attempt
          /\ stands.charge = req[r].charge
      BY <1>1 DEF Records, Steps, Alike
    <2> HIDE DEF stands
    <2>2. Fits(stands)
      BY <1>1, <2>1 DEF Fits, Alike, Deciding
    <2> QED  BY <1>1, <1>3, <2>1, <2>2, MovesAlike DEF Weigh
  <1>4. CASE ~(Goes(r, stands) /\ UNCHANGED <<ledger, promised>>)
    <2>1. /\ Goes(r, q) /\ choice.mode = "auto" /\ UNCHANGED world /\ UNCHANGED standing
          /\ IF SeatTaughtBy(req[r].heard) = NoSeat THEN UNCHANGED <<ledger, promised>>
             ELSE Memory!TellExchange(req[r].heard, now)
      BY <1>4 DEF Weigh, WorkMayMove
    <2>2. /\ ledger' \in Pictures /\ Raised(ledger, ledger', now) /\ promised' = promised
      <3>1. CASE SeatTaughtBy(req[r].heard) = NoSeat
        BY <1>2, <2>1, <3>1, NothingRaised
      <3>2. CASE SeatTaughtBy(req[r].heard) # NoSeat
        BY <1>1, <1>2, <2>1, <3>2, Told DEF Fits
      <3> QED  BY <3>1, <3>2
    <2>3. OnAuto \in Choices /\ AllowedBy(OnAuto) = Seats
      BY DEF OnAuto, Choices, Payers, AllowedBy
    <2>4. /\ q \in Records /\ q.pc = "list" /\ Alike(q, req[r]) /\ q.seen = OnAuto /\ q.at = now
          /\ q.again = TRUE /\ q.attempt = req[r].attempt /\ q.charge = req[r].charge
      BY <1>1, <1>2, <2>3 DEF Records, Steps, Alike, Moments
    <2>5. Seats \subseteq req[r].allowed
      BY <1>1, <2>1 DEF Allows, AllowedBy
    <2> HIDE DEF q
    <2>6. Fits(q) /\ Allows(q, choice)
      BY <1>1, <1>2, <2>3, <2>4, <2>5 DEF Fits, Allows, Alike, Deciding
    <2>7. now <= now
      BY <1>2 DEF Moments
    <2>8. Remembers(req[r], ledger', now)
      BY <1>1, <1>2, <2>2, <2>7, RememberedLater
    <2>9. Remembers(q, ledger', now)
      BY <2>4, <2>8 DEF Remembers, Alike
    <2>10. IsPromised(q, promised'[r])
      BY <1>1, <2>2, <2>4 DEF IsPromised
    <2> QED  BY <1>2, <2>1, <2>2, <2>6, <2>9, <2>10, OneMoves DEF standing
  <1> QED  BY <1>3, <1>4

LEMMA OverKeeps ==
    ASSUME IInv, NEW r \in Requests, Over(r)
    PROVE  IInv'
  <1>1. now \in Nat
    BY InputsAssumption DEF IInv, WorldFits, Moments
  <1>2. Fits(Fresh) /\ Allows(Fresh, choice) /\ Remembers(Fresh, ledger, now) /\ Fresh.pc = "idle"
    BY <1>1, FreshFits
  <1>3. /\ Goes(r, Fresh) /\ req[r].pc = "answered"
        /\ UNCHANGED <<world, standing, ledger, promised>>
    BY DEF Over
  <1> HIDE DEF Fresh
  <1> QED  BY <1>2, <1>3, OneMovesAlone

-----------------------------------------------------------------------------
(* The rest of the world.                                                   *)

\* Time goes by, or the memory is told, and no request moves.
LEMMA NoneMoves ==
    ASSUME IInv, WorldFits', UNCHANGED <<choice, req, promised>>, now <= now',
           Raised(ledger, ledger', now')
    PROVE  IInv'
  <1>1. /\ now \in Moments /\ now' \in Moments /\ ledger \in Pictures /\ ledger' \in Pictures
        /\ req \in [Requests -> Records]
    BY InputsAssumption DEF IInv, WorldFits
  <1>2. ASSUME NEW o \in Requests
        PROVE  /\ Fits(req[o])' /\ Allows(req[o], choice)'
               /\ Remembers(req[o], ledger, now)' /\ IsPromised(req[o], promised[o])'
    <2>1. /\ Fits(req[o]) /\ Allows(req[o], choice) /\ Remembers(req[o], ledger, now)
          /\ IsPromised(req[o], promised[o]) /\ req[o] \in Records
      BY DEF IInv, Fits
    <2>2. Remembers(req[o], ledger', now')
      BY <1>1, <2>1, RememberedLater
    <2> QED  BY <2>1, <2>2 DEF Fits, Allows, Remembers, IsPromised, PastTheWall
  <1> QED  BY <1>2 DEF IInv

LEMMA HearsKeeps ==
    ASSUME IInv, NEW x \in Heard, Hears(x)
    PROVE  IInv'
  <1>1. WorldFits /\ now \in Moments /\ Memory!TellExchange(x, now)
    BY InputsAssumption DEF IInv, WorldFits, Hears
  <1>2. ledger' \in Pictures /\ Raised(ledger, ledger', now) /\ promised' = promised
    BY <1>1, Told
  <1>3. now' = now /\ UNCHANGED <<choice, hand, able, settled, said, req>>
    BY DEF Hears, world, standing
  <1>4. WorldFits'
    BY <1>1, <1>2, <1>3 DEF WorldFits
  <1>5. now <= now' /\ Raised(ledger, ledger', now')
    BY <1>1, <1>2, <1>3 DEF Moments
  <1> QED  BY <1>2, <1>3, <1>4, <1>5, NoneMoves

\* A new choice allows more, to every request that is under way.
LEMMA WritesKeeps ==
    ASSUME IInv, NEW new \in Choices, Writes(new), hand' \in Choices \union {None}
    PROVE  IInv'
  <1> DEFINE Wider(q) == IF q.pc = "idle" THEN q
                         ELSE [q EXCEPT !.allowed = @ \union AllowedBy(new)]
  <1>1. /\ choice' = new /\ req' = [r \in Requests |-> Wider(req[r])]
        /\ now' = now /\ able' = able /\ settled' = settled /\ said' = said /\ ledger' = ledger
        /\ promised' = promised
    BY DEF Writes, standing
  <1>2. WorldFits'
    BY <1>1 DEF IInv, WorldFits
  <1>3. AllowedBy(new) \subseteq Payers
    BY DEF AllowedBy, Choices, Payers
  <1>4. ASSUME NEW q \in Records, Fits(q)
        PROVE  /\ Fits(Wider(q)) /\ Allows(Wider(q), new) /\ Wider(q) \in Records
               /\ Wider(q).walls = q.walls /\ Wider(q).about = q.about
               /\ Wider(q).pc = q.pc /\ Wider(q).at = q.at
    <2>1. CASE q.pc = "idle"
      BY <1>4, <2>1 DEF Allows
    <2>2. CASE q.pc # "idle"
      <3> DEFINE w == [q EXCEPT !.allowed = q.allowed \union AllowedBy(new)]
      <3>1. Wider(q) = w
        BY <2>2
      <3>2. /\ w \in Records /\ w.pc = q.pc /\ w.about = q.about /\ w.at = q.at
            /\ w.seen = q.seen /\ w.pick = q.pick /\ w.charge = q.charge /\ w.again = q.again
            /\ w.attempt = q.attempt /\ w.heard = q.heard /\ w.walls = q.walls
            /\ w.allowed = q.allowed \union AllowedBy(new)
        BY <1>3 DEF Records
      <3> HIDE DEF w, Wider
      <3>3. PastTheWall(w, w.pick) = PastTheWall(q, q.pick)
        BY <3>2 DEF PastTheWall
      <3>4. Fits(w)
        BY <1>4, <3>2, <3>3 DEF Fits
      <3>5. Allows(w, new)
        BY <3>2 DEF Allows
      <3> QED  BY <3>1, <3>2, <3>4, <3>5
    <2> QED  BY <2>1, <2>2
  <1> HIDE DEF Wider
  <1>5. ASSUME NEW o \in Requests
        PROVE  /\ Fits(req[o])' /\ Allows(req[o], choice)' /\ req'[o] \in Records
               /\ Remembers(req[o], ledger, now)' /\ IsPromised(req[o], promised[o])'
    <2>1. /\ Fits(req[o]) /\ Remembers(req[o], ledger, now) /\ req[o] \in Records
          /\ IsPromised(req[o], promised[o])
      BY DEF IInv, Fits
    <2>2. /\ Fits(req'[o]) /\ Allows(req'[o], new) /\ req'[o] \in Records
          /\ req'[o].walls = req[o].walls /\ req'[o].about = req[o].about
          /\ req'[o].pc = req[o].pc /\ req'[o].at = req[o].at
      BY <1>1, <1>4, <2>1
    <2>3. Remembers(req'[o], ledger', now') /\ IsPromised(req'[o], promised'[o])
      BY <1>1, <2>1, <2>2 DEF Remembers, IsPromised
    <2> QED  BY <1>1, <2>2, <2>3 DEF Fits, Allows, Remembers, IsPromised, PastTheWall
  <1>6. req' \in [Requests -> Records] /\ promised' \in [Requests -> Pictures \union {None}]
    BY <1>1, <1>5 DEF IInv
  <1> QED  BY <1>2, <1>5, <1>6 DEF IInv

LEMMA PicksKeeps ==
    ASSUME IInv, NEW s \in Picked, Picks(s)
    PROVE  IInv'
  <1>1. [mode |-> "manual", payer |-> s] \in Choices
    BY InputsAssumption DEF Choices, Payers
  <1>2. hand' \in Choices \union {None} /\ Writes([mode |-> "manual", payer |-> s])
    BY DEF Picks, IInv, WorldFits
  <1> QED  BY <1>1, <1>2, WritesKeeps

LEMMA SwitchesKeeps ==
    ASSUME IInv, NEW mode \in Modes, Switches(mode)
    PROVE  IInv'
  <1>1. hand \in Choices
    BY DEF Switches, IInv, WorldFits
  <1>2. [hand EXCEPT !.mode = mode] \in Choices
    BY <1>1, InputsAssumption DEF Choices
  <1>3. hand' \in Choices \union {None} /\ Writes([hand EXCEPT !.mode = mode])
    BY DEF Switches
  <1> QED  BY <1>2, <1>3, WritesKeeps

LEMMA WorldMovesKeeps ==
    ASSUME IInv, ReadsToSwitch \/ (\E s \in Moving : Moves(s)) \/ Ticks
    PROVE  IInv'
  <1>1. /\ WorldFits /\ now \in Nat /\ ledger \in Pictures
    BY InputsAssumption DEF IInv, WorldFits, Moments
  <1>2. CASE ReadsToSwitch
    <2>1. WorldFits' /\ now' = now /\ ledger' = ledger /\ UNCHANGED <<choice, req, promised>>
      BY <1>1, <1>2 DEF ReadsToSwitch, WorldFits, standing
    <2> QED  BY <1>1, <2>1, NothingRaised, NoneMoves
  <1>3. ASSUME NEW s \in Moving, Moves(s)
        PROVE  IInv'
    <2>1. s \in Seats
      BY InputsAssumption
    <2>2. WorldFits' /\ now' = now /\ ledger' = ledger /\ UNCHANGED <<choice, req, promised>>
      BY <1>1, <1>3, <2>1 DEF Moves, WorldFits, standing
    <2> QED  BY <1>1, <2>2, NothingRaised, NoneMoves
  <1>4. CASE Ticks
    <2>1. now' = now + 1 /\ ledger' = ledger /\ UNCHANGED <<choice, req, promised>> /\ WorldFits'
      BY <1>1, <1>4 DEF Ticks, WorldFits, standing
    <2> QED  BY <1>1, <2>1, NothingRaised, NoneMoves
  <1> QED  BY <1>2, <1>3, <1>4

LEMMA StutteringKeeps ==
    ASSUME IInv, UNCHANGED vars
    PROVE  IInv'
  <1>1. UNCHANGED <<now, choice, hand, able, settled, said, ledger, promised, req>>
    BY DEF vars, world, standing
  <1>2. WorldFits' /\ now \in Nat /\ ledger \in Pictures
    BY <1>1, InputsAssumption DEF IInv, WorldFits, Moments
  <1> QED  BY <1>1, <1>2, NothingRaised, NoneMoves

LEMMA InitFits ==
    ASSUME Init
    PROVE  IInv
  <1>1. NothingKnown \in SeatMemories
    BY DEF NothingKnown, SeatMemories
  <1>2. ledger \in Pictures
    BY <1>1 DEF Init, Pictures
  <1>3. WorldFits
    BY <1>2 DEF Init, WorldFits, OnAuto, Choices, Payers
  <1>4. now \in Nat
    BY InputsAssumption DEF Init, Moments
  <1>5. ASSUME NEW r \in Requests
        PROVE  /\ Fits(req[r]) /\ Allows(req[r], choice) /\ req[r] \in Records
               /\ Remembers(req[r], ledger, now) /\ IsPromised(req[r], promised[r])
    <2>1. req[r] = Fresh /\ promised[r] = None
      BY DEF Init
    <2>2. /\ Fits(Fresh) /\ Allows(Fresh, choice) /\ Fresh \in Records /\ Fresh.pc = "idle"
          /\ Remembers(Fresh, ledger, now)
      BY <1>4, FreshFits
    <2> HIDE DEF Fresh
    <2>3. IsPromised(Fresh, None)
      BY <2>2 DEF IsPromised
    <2> QED  BY <2>1, <2>2, <2>3
  <1>6. req = [r \in Requests |-> Fresh] /\ promised = [r \in Requests |-> None] /\ Fresh \in Records
    BY FreshFits DEF Init
  <1> QED  BY <1>3, <1>5, <1>6 DEF IInv

\* Every request, at whichever await, has in hand what its choice and the memory said,
\* whatever has moved since: the inductive invariant.
THEOREM EveryDecisionFits == Spec => []IInv
  <1>1. Init => IInv
    BY InitFits
  <1>2. IInv /\ [Next]_vars => IInv'
    <2> SUFFICES ASSUME IInv, [Next]_vars
                 PROVE  IInv'
      OBVIOUS
    <2>1. ASSUME NEW r \in Requests,
                 \/ Begin(r) \/ ReadChoice(r) \/ PickTheUsers(r) \/ AskWhatIsKnown(r)
                 \/ ListFails(r) \/ \E order \in Orders : Rank(r, order)
                 \/ ReadToken(r) \/ \E x \in Heard : HeadArrives(r, x)
                 \/ Weigh(r) \/ Over(r)
          PROVE  IInv'
      BY <2>1, BeginKeeps, ReadChoiceKeeps, PickTheUsersKeeps, AskWhatIsKnownKeeps,
         ListFailsKeeps, RankKeeps, ReadTokenKeeps, HeadArrivesKeeps, WeighKeeps, OverKeeps
    <2>2. ASSUME NEW x \in Heard, Hears(x)
          PROVE  IInv'
      BY <2>2, HearsKeeps
    <2>3. ASSUME NEW s \in Picked, Picks(s)
          PROVE  IInv'
      BY <2>3, PicksKeeps
    <2>4. ASSUME NEW mode \in Modes, Switches(mode)
          PROVE  IInv'
      BY <2>4, SwitchesKeeps
    <2>5. CASE ReadsToSwitch \/ (\E s \in Moving : Moves(s)) \/ Ticks
      BY <2>5, WorldMovesKeeps
    <2>6. CASE UNCHANGED vars
      BY <2>6, StutteringKeeps
    <2> QED  BY <2>1, <2>2, <2>3, <2>4, <2>5, <2>6 DEF Next
  <1> QED  BY <1>1, <1>2, PTL DEF Spec

\* The memory, the choice and every request keep their types.
THEOREM TypeCorrect == Spec => []TypeOK
  <1>1. IInv => TypeOK
    <2> SUFFICES ASSUME IInv
                 PROVE  TypeOK
      OBVIOUS
    <2>1. /\ now \in Times /\ ledger \in Known
          /\ choice \in Choices /\ (hand = None \/ hand \in Choices)
          /\ able \subseteq Seats /\ {settled, said} \subseteq Payers \union {None}
      BY DEF IInv, WorldFits, Known, Pictures
    <2>2. ASSUME NEW r \in Requests
          PROVE  /\ promised[r] = None \/ promised[r] \in Known
                 /\ req[r].pc \in Steps /\ (promised[r] # None) = (req[r].pc = "known")
                 /\ req[r].attempt \in 1..AtMostAttempts /\ req[r].list \subseteq Seats
                 /\ {req[r].pick, req[r].charge} \subseteq Payers
      <3>1. Fits(req[r]) /\ IsPromised(req[r], promised[r])
        BY DEF IInv
      <3>2. req[r] \in Records
        BY <3>1 DEF Fits
      <3> QED  BY <3>1, <3>2 DEF Records, IsPromised, Known, Pictures
    <2> QED  BY <2>1, <2>2 DEF TypeOK, Steps
  <1> QED  BY <1>1, EveryDecisionFits, PTL

\* Whoever is charged, for the first time or after a Refusal, was allowed by a choice in
\* force at some moment since the request began: a pick or an Off made before it is
\* never overridden, however the awaits of decide and insteadOf are interleaved.
THEOREM NobodyElseIsCharged == Spec => []TheUserIsObeyed
  <1>1. IInv => TheUserIsObeyed
    BY DEF IInv, Fits, TheUserIsObeyed
  <1> QED  BY <1>1, EveryDecisionFits, PTL

\* A Seat that refused a request is picked for it again only as of a later moment than
\* the one it refused at, whatever the headers said and other replies taught.
THEOREM TheWallIsNotMetTwice == Spec => []NobodyWalksBackIntoTheWall
  <1>1. IInv => NobodyWalksBackIntoTheWall
    BY DEF IInv, Fits, PastTheWall, NobodyWalksBackIntoTheWall
  <1> QED  BY <1>1, EveryDecisionFits, PTL
=============================================================================
