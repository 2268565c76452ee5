----------------------------- MODULE ForwardProofs -----------------------------
(***************************************************************************)
(* Theorems about Forward.tla, for any exchanges, Seats and bounds. First, *)
(* that the exchanges use either gate as Gate.tla has it, so that whatever *)
(* GateProofs proves of a gate holds of both; then, from the line of the   *)
(* outer gate and an invariant of each exchange (Fits), what the runs      *)
(* check of turns, slots and rows.                                         *)
(***************************************************************************)
EXTENDS Forward, Sequences, TLAPS

SlotProofs == INSTANCE GateProofs WITH Callers <- Exchanges, Limit <- AtMostExchanges,
                inFlight <- slotCount, queue <- slotQueue, woken <- slotWoken, turn <- slot
TurnProofs == INSTANCE GateProofs WITH Callers <- Exchanges, Limit <- AtMostInFlight,
                inFlight <- turnCount, queue <- turnQueue, woken <- turnWoken, turn <- turn

-----------------------------------------------------------------------------
(* The two gates.                                                           *)

LEMMA SlotsAreAGate ==
    /\ SlotProofs!Init = Slot!Init /\ SlotProofs!Next = Slot!Next
    /\ SlotProofs!vars = Slot!vars /\ Slot!vars = slotVars
    /\ SlotProofs!TypeOK = Slot!TypeOK /\ SlotProofs!LineIsTheWaiters = Slot!LineIsTheWaiters
    /\ SlotProofs!NoLostTurn = Slot!NoLostTurn
  BY DEF SlotProofs!Init, Slot!Init, SlotProofs!vars, Slot!vars, slotVars, SlotProofs!Next, Slot!Next,
     SlotProofs!Enter, Slot!Enter, SlotProofs!Resume, Slot!Resume,
     SlotProofs!GiveBack, Slot!GiveBack, SlotProofs!WakeOne, Slot!WakeOne,
     SlotProofs!Forget, Slot!Forget, SlotProofs!Release, Slot!Release,
     SlotProofs!TypeOK, Slot!TypeOK, SlotProofs!LineIsTheWaiters, Slot!LineIsTheWaiters,
     SlotProofs!Line, Slot!Line, SlotProofs!NoLostTurn, Slot!NoLostTurn, SlotProofs!Owed, Slot!Owed

LEMMA TurnsAreAGate ==
    /\ TurnProofs!Init = Turn!Init /\ TurnProofs!Next = Turn!Next
    /\ TurnProofs!vars = Turn!vars /\ Turn!vars = turnVars
    /\ TurnProofs!TypeOK = Turn!TypeOK /\ TurnProofs!NoLostTurn = Turn!NoLostTurn
  BY DEF TurnProofs!Init, Turn!Init, TurnProofs!vars, Turn!vars, turnVars, TurnProofs!Next, Turn!Next,
     TurnProofs!Enter, Turn!Enter, TurnProofs!Resume, Turn!Resume,
     TurnProofs!GiveBack, Turn!GiveBack, TurnProofs!WakeOne, Turn!WakeOne,
     TurnProofs!Forget, Turn!Forget, TurnProofs!Release, Turn!Release,
     TurnProofs!TypeOK, Turn!TypeOK, TurnProofs!NoLostTurn, Turn!NoLostTurn,
     TurnProofs!Owed, Turn!Owed

\* What a step of an exchange may do at a gate: one operation of that exchange, or none.
AtTheSlots(e) == \/ Slot!Enter(e) \/ Slot!Resume(e) \/ Slot!GiveBack(e) \/ Slot!Forget(e)
                 \/ UNCHANGED slotVars

AtTheTurns(e) == \/ Turn!Enter(e) \/ Turn!Resume(e) \/ Turn!GiveBack(e) \/ Turn!Forget(e)
                 \/ UNCHANGED turnVars

Step(e) == \/ Arrive(e) \/ GetSlot(e) \/ TakeTurn(e) \/ GetTurn(e) \/ Admit(e)
           \/ \E c \in Seats \union {NoSeat} : Decide(e, c)
           \/ DecideFails(e) \/ PoolAnswers(e) \/ PoolFails(e) \/ Connected(e) \/ ProxyGone(e)
           \/ Silent(e) \/ NoAnswer(e)
           \/ \E refusedAndWhole \in BOOLEAN : HeadArrives(e, refusedAndWhole)
           \/ \E next \in Seats : MoveOn(e, next)
           \/ PassOn(e) \/ ReplyEnds(e) \/ ReplyDies(e) \/ Finished(e)
           \/ HangUp(e) \/ Ceiling(e) \/ Renew(e)

LEMMA StepsAtTheGates ==
    ASSUME NEW e \in Exchanges, Step(e)
    PROVE  AtTheSlots(e) /\ AtTheTurns(e)
  <1>1. CASE Arrive(e) \/ GetSlot(e) \/ TakeTurn(e) \/ GetTurn(e) \/ Admit(e)
    BY <1>1 DEF Arrive, GetSlot, TakeTurn, GetTurn, Admit, LetEverythingGo, AtTheSlots, AtTheTurns,
       ownVars, slotVars, turnVars
  <1>2. CASE DecideFails(e) \/ PoolFails(e) \/ NoAnswer(e) \/ Finished(e)
    BY <1>2 DEF DecideFails, PoolFails, NoAnswer, Finished, NothingCame, LetEverythingGo,
       AtTheSlots, AtTheTurns
  <1>3. CASE (\E c \in Seats \union {NoSeat} : Decide(e, c)) \/ PoolAnswers(e) \/ Connected(e)
             \/ ProxyGone(e) \/ Silent(e) \/ (\E next \in Seats : MoveOn(e, next))
             \/ ReplyEnds(e) \/ ReplyDies(e)
    BY <1>3 DEF Decide, PoolAnswers, Connected, ProxyGone, Silent, MoveOn, ReplyEnds, ReplyDies,
       AtTheSlots, AtTheTurns
  <1>4. CASE (\E refusedAndWhole \in BOOLEAN : HeadArrives(e, refusedAndWhole)) \/ PassOn(e)
    BY <1>4 DEF HeadArrives, PassOn, HandBack, AtTheSlots, AtTheTurns
  <1>5. CASE HangUp(e) \/ Ceiling(e) \/ Renew(e)
    BY <1>5 DEF HangUp, Ceiling, Renew, ResponseCloses, LetEverythingGo, AtTheSlots, AtTheTurns
  <1> QED  BY <1>1, <1>2, <1>3, <1>4, <1>5 DEF Step

\* The exchanges use both gates as gate.ts is meant to be used, each turn counted back
\* once: whatever they do is a behaviour of either gate.
THEOREM BothGatesAreGates == Spec => Slot!Spec /\ Turn!Spec
  <1>1. Init => Slot!Init /\ Turn!Init
    BY DEF Init
  <1>2. [Next]_vars => [Slot!Next]_(Slot!vars) /\ [Turn!Next]_(Turn!vars)
    <2>1. ASSUME NEW e \in Exchanges, Step(e)
          PROVE  [Slot!Next]_(Slot!vars) /\ [Turn!Next]_(Turn!vars)
      <3>1. Slot!Next \/ UNCHANGED slotVars
        BY <2>1, StepsAtTheGates DEF AtTheSlots, Slot!Next
      <3>2. Turn!Next \/ UNCHANGED turnVars
        BY <2>1, StepsAtTheGates DEF AtTheTurns, Turn!Next
      <3>3. UNCHANGED slotVars => UNCHANGED Slot!vars
        BY DEF slotVars, Slot!vars
      <3>4. UNCHANGED turnVars => UNCHANGED Turn!vars
        BY DEF turnVars, Turn!vars
      <3> QED  BY <3>1, <3>2, <3>3, <3>4
    <2>2. UNCHANGED vars => UNCHANGED Slot!vars /\ UNCHANGED Turn!vars
      BY DEF vars, slotVars, turnVars, Slot!vars, Turn!vars
    <2> QED  BY <2>1, <2>2 DEF Next, Step
  <1> QED  BY <1>1, <1>2, PTL DEF Spec, Slot!Spec, Turn!Spec

Gates == Slot!TypeOK /\ Slot!LineIsTheWaiters /\ Turn!TypeOK

LEMMA GatesHold == Spec => []Gates
  <1>1. /\ Slot!Init => SlotProofs!Init
        /\ [Slot!Next]_(Slot!vars) => [SlotProofs!Next]_(SlotProofs!vars)
        /\ SlotProofs!TypeOK => Slot!TypeOK
        /\ SlotProofs!LineIsTheWaiters => Slot!LineIsTheWaiters
    BY SlotsAreAGate DEF Slot!vars, SlotProofs!vars
  <1>2. /\ Turn!Init => TurnProofs!Init
        /\ [Turn!Next]_(Turn!vars) => [TurnProofs!Next]_(TurnProofs!vars)
        /\ TurnProofs!TypeOK => Turn!TypeOK
    BY TurnsAreAGate DEF Turn!vars, TurnProofs!vars
  <1>3. SlotProofs!Spec => []SlotProofs!TypeOK
    BY SlotProofs!TypeCorrect, BoundsAssumption
  <1>4. SlotProofs!Spec => []SlotProofs!LineIsTheWaiters
    BY SlotProofs!LineCorrect, BoundsAssumption
  <1>5. TurnProofs!Spec => []TurnProofs!TypeOK
    BY TurnProofs!TypeCorrect, BoundsAssumption
  <1>6. Slot!Spec => []Slot!TypeOK /\ []Slot!LineIsTheWaiters
    BY <1>1, <1>3, <1>4, PTL DEF Slot!Spec, SlotProofs!Spec
  <1>7. Turn!Spec => []Turn!TypeOK
    BY <1>2, <1>5, PTL DEF Turn!Spec, TurnProofs!Spec
  <1> QED  BY <1>6, <1>7, BothGatesAreGates, PTL DEF Gates

-----------------------------------------------------------------------------
(* Each exchange, given the gates.                                          *)

Places == {"away", "slot", "turn", "deciding", "pooling", "asking",
           "ranking", "streaming", "stranded", "ending", "over"}
Ended  == {"stranded", "ending", "over"}

OwnTypes == /\ pc \in [Exchanges -> Places]
            /\ there \in [Exchanges -> BOOLEAN]
            /\ wentAway \in [Exchanges -> BOOLEAN]
            /\ charge \in [Exchanges -> Seats \union {NoSeat}]
            /\ attempt \in [Exchanges -> 0..AtMostAttempts]
            /\ conn \in [Exchanges -> {"none", "dialling", "open", "dead", "buffered", "lost"}]
            /\ told \in [Exchanges -> 0..1]

\* The turn and the slot of an exchange whose caller is there, or was heard to leave.
Covered(e) ==
    /\ pc[e] \in {"deciding", "pooling", "asking", "ranking"} /\ turn[e] # "held" => ~there[e]
    /\ pc[e] = "over" /\ slot[e] # "given" => ~there[e] /\ ~wentAway[e]
    /\ wentAway[e] => slot[e] = "given"

\* Its sends and its one row.
Counted(e) ==
    /\ pc[e] \in Ended /\ attempt[e] > 0 /\ told[e] = 0 => conn[e] = "lost"
    /\ pc[e] \notin Ended => told[e] = 0
    /\ pc[e] \in {"away", "slot", "turn", "deciding"} => attempt[e] = 0
    /\ pc[e] = "ranking" => attempt[e] < AtMostAttempts

Fits(e) == Covered(e) /\ Counted(e)

IInv == /\ OwnTypes
        /\ \A e \in Exchanges : Fits(e)

\* Nobody is resumed who was not waiting.
LEMMA TheResumedWaited ==
    ASSUME Gates, NEW e \in Exchanges, Slot!Resume(e)
    PROVE  slot[e] = "waiting"
  <1>1. /\ slotWoken \in Seq(Exchanges) /\ slotQueue \in Seq(Exchanges)
        /\ slotWoken # <<>> /\ e = Head(slotWoken)
    BY DEF Gates, Slot!TypeOK, Slot!Resume
  <1>2. /\ Len(slotWoken) \in Nat \ {0} /\ Len(slotQueue) \in Nat
        /\ Slot!Line = slotWoken \o slotQueue /\ e = slotWoken[1]
    BY <1>1 DEF Slot!Line
  <1>3. 1 \in 1..Len(Slot!Line) /\ Slot!Line[1] = e
    BY <1>1, <1>2
  <1> QED  BY <1>3 DEF Gates, Slot!LineIsTheWaiters

\* What an operation leaves in the hands of the one who asked for it.
LEMMA WhatAGateLeaves ==
    ASSUME Gates, NEW e \in Exchanges
    PROVE  /\ Slot!GiveBack(e) => slot'[e] = "given"
           /\ Turn!GiveBack(e) => turn'[e] = "given"
           /\ Slot!Enter(e) => slot[e] = "none"
           /\ Slot!Forget(e) => slot'[e] = "none"
           /\ Slot!Resume(e) => slot[e] = "waiting"
           /\ Turn!Resume(e) => turn'[e] = "held"
  BY TheResumedWaited DEF Gates, Slot!TypeOK, Turn!TypeOK, Slot!GiveBack, Turn!GiveBack, Slot!vars,
     Turn!vars, Slot!Enter, Slot!Forget, Turn!Resume

\* An exchange's step leaves every other as it was, but for its connection, which it may cut.
LEMMA OthersApart ==
    ASSUME Gates, OwnTypes, NEW e \in Exchanges, Step(e), NEW x \in Exchanges, x # e
    PROVE  /\ slot'[x] = slot[x] /\ turn'[x] = turn[x]
           /\ pc'[x] = pc[x] /\ there'[x] = there[x] /\ wentAway'[x] = wentAway[x]
           /\ charge'[x] = charge[x] /\ attempt'[x] = attempt[x] /\ told'[x] = told[x]
           /\ conn'[x] = conn[x] \/ (conn[x] = "open" /\ conn'[x] = "dead")
  <1>1. slot'[x] = slot[x]
    BY StepsAtTheGates DEF AtTheSlots, slotVars, Gates, Slot!TypeOK, Slot!Enter, Slot!Resume,
       Slot!GiveBack, Slot!Forget, Slot!vars
  <1>2. turn'[x] = turn[x]
    BY StepsAtTheGates DEF AtTheTurns, turnVars, Gates, Turn!TypeOK, Turn!Enter, Turn!Resume,
       Turn!GiveBack, Turn!Forget, Turn!vars
  <1> DEFINE Apart == /\ pc'[x] = pc[x] /\ there'[x] = there[x] /\ wentAway'[x] = wentAway[x]
                      /\ charge'[x] = charge[x] /\ attempt'[x] = attempt[x] /\ told'[x] = told[x]
                      /\ conn'[x] = conn[x] \/ (conn[x] = "open" /\ conn'[x] = "dead")
  <1>3. CASE Arrive(e) \/ GetSlot(e) \/ TakeTurn(e) \/ GetTurn(e) \/ Admit(e)
    BY <1>3, <1>1, <1>2 DEF OwnTypes, Arrive, GetSlot, TakeTurn, GetTurn, Admit, Becomes, ownVars
  <1>4. CASE (\E c \in Seats \union {NoSeat} : Decide(e, c)) \/ DecideFails(e) \/ PoolFails(e)
             \/ NoAnswer(e) \/ Finished(e)
    BY <1>4, <1>1, <1>2 DEF OwnTypes, Decide, DecideFails, PoolFails, NoAnswer, Finished,
       NothingCame, Becomes
  <1>5. CASE PoolAnswers(e) \/ Connected(e) \/ ProxyGone(e) \/ Silent(e)
    BY <1>5, <1>1, <1>2 DEF OwnTypes, PoolAnswers, Connected, ProxyGone, Silent,
       HangUpOnEverything, Becomes
  <1>6. CASE \/ \E refusedAndWhole \in BOOLEAN : HeadArrives(e, refusedAndWhole)
             \/ \E next \in Seats : MoveOn(e, next)
             \/ PassOn(e) \/ ReplyEnds(e) \/ ReplyDies(e)
    BY <1>6, <1>1, <1>2 DEF OwnTypes, HeadArrives, MoveOn, PassOn, ReplyEnds, ReplyDies, Becomes
  <1>7. CASE HangUp(e) \/ Ceiling(e) \/ Renew(e)
    BY <1>7, <1>1, <1>2 DEF OwnTypes, HangUp, Ceiling, Renew, ResponseCloses, CutOff, Becomes
  <1> QED  BY <1>3, <1>4, <1>5, <1>6, <1>7 DEF Step

LEMMA OthersFit ==
    ASSUME Gates, IInv, NEW e \in Exchanges, Step(e), NEW x \in Exchanges, x # e
    PROVE  Fits(x)'
  BY OthersApart DEF IInv, Fits, Covered, Counted

-----------------------------------------------------------------------------
(* One step of one exchange.                                                *)

LEMMA ItsOwnStep ==
    ASSUME Gates, IInv, NEW e \in Exchanges, Step(e)
    PROVE  OwnTypes' /\ Fits(e)'
  <1> USE BoundsAssumption DEF Becomes, Ended
  <1>1. CASE Arrive(e)
    BY <1>1, WhatAGateLeaves DEF Arrive, IInv, OwnTypes, Places, Fits, Covered, Counted, turnVars
  <1>2. CASE GetSlot(e)
    BY <1>2, WhatAGateLeaves DEF GetSlot, IInv, OwnTypes, Fits, Covered, Counted, turnVars, ownVars
  <1>3. CASE TakeTurn(e)
    BY <1>3 DEF TakeTurn, IInv, OwnTypes, Places, Fits, Covered, Counted, slotVars
  <1>4. CASE GetTurn(e)
    BY <1>4, WhatAGateLeaves DEF GetTurn, IInv, OwnTypes, Fits, Covered, Counted, slotVars, ownVars
  <1>5. CASE Admit(e)
    BY <1>5, WhatAGateLeaves DEF Admit, LetEverythingGo, IInv, OwnTypes, Places, Fits, Covered,
       Counted, slotVars, turnVars
  <1>6. CASE \E c \in Seats \union {NoSeat} : Decide(e, c)
    BY <1>6 DEF Decide, IInv, OwnTypes, Places, Fits, Covered, Counted, slotVars, turnVars
  <1>7. CASE DecideFails(e)
    BY <1>7, WhatAGateLeaves DEF DecideFails, LetEverythingGo, IInv, OwnTypes, Places, Fits,
       Covered, Counted
  <1>8. CASE PoolAnswers(e)
    BY <1>8 DEF PoolAnswers, IInv, OwnTypes, Places, Fits, Covered, Counted, slotVars, turnVars
  <1>9. CASE PoolFails(e) \/ NoAnswer(e)
    BY <1>9, WhatAGateLeaves DEF PoolFails, NoAnswer, NothingCame, LetEverythingGo, IInv, OwnTypes,
       Places, Fits, Covered, Counted
  <1>10. CASE Connected(e) \/ ProxyGone(e)
    BY <1>10 DEF Connected, ProxyGone, IInv, OwnTypes, Fits, Covered, Counted, slotVars, turnVars
  <1>11. CASE Silent(e)
    BY <1>11 DEF Silent, HangUpOnEverything, IInv, OwnTypes, Fits, Covered, Counted, slotVars,
       turnVars
  <1>12. CASE \E refusedAndWhole \in BOOLEAN : HeadArrives(e, refusedAndWhole)
    BY <1>12 DEF HeadArrives, HandBack, IInv, OwnTypes, Places, Fits, Covered, Counted, slotVars,
       turnVars
  <1>13. CASE \E next \in Seats : MoveOn(e, next)
    BY <1>13 DEF MoveOn, IInv, OwnTypes, Places, Fits, Covered, Counted, slotVars, turnVars
  <1>14. CASE PassOn(e)
    BY <1>14 DEF PassOn, HandBack, IInv, OwnTypes, Places, Fits, Covered, Counted, slotVars
  <1>15. CASE ReplyEnds(e) \/ ReplyDies(e)
    BY <1>15 DEF ReplyEnds, ReplyDies, IInv, OwnTypes, Places, Fits, Covered, Counted, slotVars,
       turnVars
  <1>16. CASE Finished(e)
    BY <1>16, WhatAGateLeaves DEF Finished, LetEverythingGo, IInv, OwnTypes, Places, Fits, Covered,
       Counted
  <1>17. ASSUME ResponseCloses(e), UNCHANGED <<charge, attempt, told>>
         PROVE  OwnTypes' /\ Fits(e)'
    <2>1. CASE Heard(e)
      BY <1>17, <2>1, WhatAGateLeaves, ZenonT(60) DEF ResponseCloses, LetEverythingGo, CutOff, Heard, IInv,
         OwnTypes, Places, Fits, Covered, Counted
    <2>2. CASE ~Heard(e)
      BY <1>17, <2>2 DEF ResponseCloses, IInv, OwnTypes, Fits, Covered, Counted, slotVars, turnVars
    <2> QED  BY <2>1, <2>2
  <1>18. CASE HangUp(e)
    BY <1>17, <1>18 DEF HangUp
  <1>19. CASE Ceiling(e)
    <2>1. CASE there[e] /\ Heard(e)
      BY <1>17, <1>19, <2>1 DEF Ceiling
    <2>2. CASE ~(there[e] /\ Heard(e))
      BY <1>19, <2>2, WhatAGateLeaves DEF Ceiling, LetEverythingGo, IInv, OwnTypes, Fits, Covered,
         Counted
    <2> QED  BY <2>1, <2>2
  <1>20. CASE Renew(e)
    BY <1>20 DEF Renew, IInv, OwnTypes, Places, Fits, Covered, Counted
  <1> QED  BY <1>1, <1>2, <1>3, <1>4, <1>5, <1>6, <1>7, <1>8, <1>9, <1>10, <1>11, <1>12, <1>13,
              <1>14, <1>15, <1>16, <1>18, <1>19, <1>20 DEF Step

-----------------------------------------------------------------------------
(* The theorems.                                                            *)

\* Every exchange fits, from its arrival to its last byte, whatever callers, upstreams,
\* pool and payer do.
THEOREM EveryExchangeFits == Spec => []IInv
  <1>1. Init => IInv
    BY BoundsAssumption DEF Init, IInv, OwnTypes, Places, Fits, Covered, Counted, Ended
  <1>2. Gates /\ IInv /\ [Next]_vars => IInv'
    <2> SUFFICES ASSUME Gates, IInv, [Next]_vars PROVE IInv'  OBVIOUS
    <2>1. ASSUME NEW e \in Exchanges, Step(e) PROVE IInv'
      BY <2>1, ItsOwnStep, OthersFit DEF IInv
    <2>2. CASE UNCHANGED vars
      BY <2>2 DEF vars, slotVars, turnVars, ownVars, IInv, OwnTypes, Fits, Covered, Counted
    <2> QED  BY <2>1, <2>2 DEF Next, Step
  <1> QED  BY <1>1, <1>2, GatesHold, PTL DEF Spec

\* Forward's variables have their types.
THEOREM TypeCorrect == Spec => []TypeOK
  <1>1. Gates /\ IInv => TypeOK
    BY DEF Gates, IInv, OwnTypes, Places, TypeOK
  <1> QED  BY <1>1, EveryExchangeFits, GatesHold, PTL

\* The bound on dials has one leak and no other: a dial without a turn is made for a caller
\* who left between two awaits.
THEOREM ADialHoldsItsTurn == Spec => []OnlyTheGoneDialWithoutATurn
  <1>1. IInv => OnlyTheGoneDialWithoutATurn
    BY DEF IInv, Fits, Covered, OnlyTheGoneDialWithoutATurn
  <1> QED  BY <1>1, EveryExchangeFits, PTL

\* The slot of a request that is over has gone back, or its caller left before the close
\* handler was there to hear it.
THEOREM SlotsComeBack == Spec => []OnlyALateLeaverKeepsItsSlot
  <1>1. IInv => OnlyALateLeaverKeepsItsSlot
    BY DEF IInv, Fits, Covered, OnlyALateLeaverKeepsItsSlot
  <1> QED  BY <1>1, EveryExchangeFits, PTL

\* No request is reported twice, and none that was sent goes unreported but the Refusal
\* whose connection died while another Seat was looked for.
THEOREM ReportedOnce == Spec => []OneRowPerRequest
  <1>1. IInv => OneRowPerRequest
    BY DEF IInv, OwnTypes, Fits, Counted, Ended, OneRowPerRequest
  <1> QED  BY <1>1, EveryExchangeFits, PTL
=============================================================================
