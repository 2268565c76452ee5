------------------------------ MODULE Forward -------------------------------
(***************************************************************************)
(* One opened exchange from its arrival to its last byte: forward() and    *)
(* sendOnce() of src/relay/internal/open.ts, for several exchanges at once *)
(* behind the two gates they share.                                        *)
(*                                                                         *)
(* An action is one uninterrupted run of JavaScript, from an await or an   *)
(* event to the next await. pc[e] names the await an exchange stands at.   *)
(***************************************************************************)
EXTENDS Integers, FiniteSets

CONSTANTS Exchanges,        \* requests that may be in the relay together
          Seats,            \* accounts that can be charged
          NoSeat,           \* nobody is charged: the Window account pays
          AtMostExchanges,  \* the outer bound, held to the last byte
          AtMostInFlight,   \* the turns, held to the head of the reply
          AtMostAttempts    \* sends of one request, counting the first

ASSUME BoundsAssumption == /\ AtMostExchanges \in Nat \ {0}
                           /\ AtMostInFlight \in Nat \ {0}
                           /\ AtMostAttempts \in Nat \ {0}
ASSUME NoSeatAssumption == NoSeat \notin Seats

VARIABLES
  slotCount, slotQueue, slotWoken, slot,  \* wiring.exchanges, a gate
  turnCount, turnQueue, turnWoken, turn,  \* wiring.gate, a gate
  pc,        \* where each exchange stands
  there,     \* its caller is still connected: response is not destroyed
  wentAway,  \* callerWentAway, set by the close handler once it is registered
  charge,    \* the Seat the current attempt is charged to
  attempt,   \* sends so far
  conn,      \* the upstream connection of the current attempt
  told       \* how often reportFinished was called

slotVars == <<slotCount, slotQueue, slotWoken, slot>>
turnVars == <<turnCount, turnQueue, turnWoken, turn>>
ownVars  == <<pc, there, wentAway, charge, attempt, conn, told>>
vars     == <<slotVars, turnVars, ownVars>>

Slot == INSTANCE Gate WITH Callers <- Exchanges, Limit <- AtMostExchanges,
          inFlight <- slotCount, queue <- slotQueue, woken <- slotWoken, turn <- slot
Turn == INSTANCE Gate WITH Callers <- Exchanges, Limit <- AtMostInFlight,
          inFlight <- turnCount, queue <- turnQueue, woken <- turnWoken, turn <- turn

Init == /\ Slot!Init /\ Turn!Init
        /\ pc = [e \in Exchanges |-> "away"]
        /\ there = [e \in Exchanges |-> FALSE]
        /\ wentAway = [e \in Exchanges |-> FALSE]
        /\ charge = [e \in Exchanges |-> NoSeat]
        /\ attempt = [e \in Exchanges |-> 0]
        /\ conn = [e \in Exchanges |-> "none"]
        /\ told = [e \in Exchanges |-> 0]

-----------------------------------------------------------------------------
(* What several ways of ending share.                                       *)

Becomes(e, where) == pc' = [pc EXCEPT ![e] = where]

\* handBack: the turn alone, a no-op the second time.
HandBack(e) == Turn!GiveBack(e) /\ UNCHANGED slotVars

\* letEverythingGo: turn and slot, each a no-op when it has already gone back.
LetEverythingGo(e) == Turn!GiveBack(e) /\ Slot!GiveBack(e)

\* The close handler exists from the first send on, not while the body is being
\* held and the payer decided.
Heard(e) == pc[e] \in {"pooling", "asking", "ranking", "streaming", "stranded", "ending"}

\* closing(): destroy the current attempt's request. Nothing to destroy while the
\* pool is being asked, and nothing that a later attempt would notice.
CutOff(e) ==
    conn' = [conn EXCEPT ![e] = IF @ \in {"dialling", "open"} THEN "dead" ELSE @]

\* The reply can no longer reach its caller. An exchange whose handler hears it
\* lets everything go and destroys what it sent; one still queued or deciding
\* only finds out by looking.
ResponseCloses(e) ==
    /\ there' = [there EXCEPT ![e] = FALSE]
    /\ IF Heard(e)
         THEN /\ wentAway' = [wentAway EXCEPT ![e] = TRUE]
              /\ LetEverythingGo(e)
              /\ CutOff(e)
              /\ IF pc[e] \in {"stranded", "ending"} THEN Becomes(e, "over") ELSE UNCHANGED pc
         ELSE UNCHANGED <<slotVars, turnVars, wentAway, conn, pc>>

\* hangUpOnEverything: every connected socket is destroyed, whoever rides it.
HangUpOnEverything ==
    conn' = [x \in Exchanges |-> IF conn[x] = "open" THEN "dead" ELSE conn[x]]

\* Fault: a failed attempt that reports no finished row.
NothingCameUnreported(e) ==
    /\ LetEverythingGo(e)
    /\ UNCHANGED told
    /\ conn' = [conn EXCEPT ![e] = "none"]
    /\ Becomes(e, IF there[e] THEN "ending" ELSE "over")

\* An attempt that got no head: give everything up and answer 502, unheard if the
\* caller is gone, and report a row with nothing counted.
NothingCame(e) ==
    /\ LetEverythingGo(e)
    /\ told' = [told EXCEPT ![e] = @ + 1]
    /\ conn' = [conn EXCEPT ![e] = "none"]
    /\ Becomes(e, IF there[e] THEN "ending" ELSE "over")

-----------------------------------------------------------------------------
(* Into the relay.                                                          *)

\* A request event: the outer bound is asked for before anything else.
Arrive(e) ==
    /\ pc[e] = "away"
    /\ Slot!Enter(e)
    /\ there' = [there EXCEPT ![e] = TRUE]
    /\ Becomes(e, "slot")
    /\ UNCHANGED <<turnVars, wentAway, charge, attempt, conn, told>>

GetSlot(e) == Slot!Resume(e) /\ UNCHANGED <<turnVars, ownVars>>

\* With the slot in hand, ask for a turn.
TakeTurn(e) ==
    /\ pc[e] = "slot" /\ slot[e] = "held"
    /\ Turn!Enter(e)
    /\ Becomes(e, "turn")
    /\ UNCHANGED <<slotVars, there, wentAway, charge, attempt, conn, told>>

GetTurn(e) == Turn!Resume(e) /\ UNCHANGED <<slotVars, ownVars>>

\* With the turn in hand. A caller that left in the queue gets nothing; a message
\* endpoint has its body held and its payer decided; any other path is sent as it is.
Admit(e) ==
    /\ pc[e] = "turn" /\ turn[e] = "held"
    /\ \/ /\ ~there[e]
          /\ LetEverythingGo(e)
          /\ Becomes(e, "over")
          /\ UNCHANGED attempt
       \/ /\ there[e]
          /\ Becomes(e, "deciding")
          /\ UNCHANGED <<slotVars, turnVars, attempt>>
       \/ /\ there[e]
          /\ Becomes(e, "pooling")
          /\ attempt' = [attempt EXCEPT ![e] = 1]
          /\ UNCHANGED <<slotVars, turnVars>>
    /\ UNCHANGED <<there, wentAway, charge, conn, told>>

\* holdBody and chargeFor answered. Nobody looks again whether the caller is there.
Decide(e, c) ==
    /\ pc[e] = "deciding"
    /\ charge' = [charge EXCEPT ![e] = c]
    /\ attempt' = [attempt EXCEPT ![e] = 1]
    /\ Becomes(e, "pooling")
    /\ UNCHANGED <<slotVars, turnVars, there, wentAway, conn, told>>

\* chargeFor threw: nothing is sent, a row is reported.
DecideFails(e) ==
    /\ pc[e] = "deciding"
    /\ LetEverythingGo(e)
    /\ told' = [told EXCEPT ![e] = @ + 1]
    /\ Becomes(e, "over")
    /\ UNCHANGED <<there, wentAway, charge, attempt, conn>>

-----------------------------------------------------------------------------
(* One attempt: sendOnce.                                                   *)

\* pool.forSeat answered, and the request is made on a warm connection or on one
\* being dialled. When the route was found changed the pool destroyed its agents,
\* and the connections of other exchanges with them.
PoolAnswers(e) ==
    /\ pc[e] = "pooling"
    /\ \E warm, routeChanged \in BOOLEAN :
         conn' = [x \in Exchanges |->
                    IF x = e THEN IF warm /\ ~routeChanged THEN "open" ELSE "dialling"
                    ELSE IF routeChanged /\ conn[x] = "open" THEN "dead"
                    ELSE conn[x]]
    /\ Becomes(e, "asking")
    /\ UNCHANGED <<slotVars, turnVars, there, wentAway, charge, attempt, told>>

PoolFails(e) ==
    /\ pc[e] = "pooling"
    /\ NothingCame(e)
    /\ UNCHANGED <<there, wentAway, charge, attempt>>

Connected(e) ==
    /\ pc[e] = "asking" /\ conn[e] = "dialling"
    /\ conn' = [conn EXCEPT ![e] = "open"]
    /\ UNCHANGED <<slotVars, turnVars, pc, there, wentAway, charge, attempt, told>>

\* The dial found the machine's proxy gone and said so, which hangs up on everything
\* already riding it. The dial itself fails for a Seat and goes direct for nobody;
\* either is a later step of this exchange.
ProxyGone(e) ==
    /\ pc[e] = "asking" /\ conn[e] = "dialling"
    /\ conn' = [x \in Exchanges |->
                  IF x = e THEN IF charge[e] = NoSeat THEN "dialling" ELSE "dead"
                  ELSE IF conn[x] = "open" THEN "dead" ELSE conn[x]]
    /\ UNCHANGED <<slotVars, turnVars, pc, there, wentAway, charge, attempt, told>>

\* The silence guard. One quiet connection is evidence about the route, so every
\* other one is hung up on as well.
Silent(e) ==
    /\ pc[e] \in {"asking", "ranking", "streaming"} /\ conn[e] = "open"
    /\ HangUpOnEverything
    /\ UNCHANGED <<slotVars, turnVars, pc, there, wentAway, charge, attempt, told>>

NoAnswer(e) ==
    /\ pc[e] = "asking"
    /\ NothingCame(e)
    /\ UNCHANGED <<there, wentAway, charge, attempt>>

\* Fault: the turn handed back as soon as the head is in, before the retry decision.
HeadArrivesHandingBack(e, refusedAndWhole) ==
    /\ pc[e] = "asking" /\ conn[e] = "open"
    /\ HandBack(e)
    /\ Becomes(e, IF /\ refusedAndWhole /\ charge[e] # NoSeat
                     /\ attempt[e] < AtMostAttempts /\ ~wentAway[e]
                  THEN "ranking" ELSE "streaming")
    /\ UNCHANGED <<there, wentAway, charge, attempt, conn, told>>

\* The head of a reply. A Refusal of a request that can be sent again (its body was
\* read whole) is weighed first; anything else gives the turn back and starts
\* streaming. A body that outgrew the limit is one whose heads are never weighed.
HeadArrives(e, refusedAndWhole) ==
    /\ pc[e] = "asking" /\ conn[e] = "open"
    /\ IF /\ refusedAndWhole /\ charge[e] # NoSeat
          /\ attempt[e] < AtMostAttempts /\ ~wentAway[e]
         THEN Becomes(e, "ranking") /\ UNCHANGED <<slotVars, turnVars>>
         ELSE Becomes(e, "streaming") /\ HandBack(e)
    /\ UNCHANGED <<there, wentAway, charge, attempt, conn, told>>

\* whenRefused answered with another Seat: drain this answer and send again there.
\* Whether the caller left during the await is not asked again.
MoveOn(e, next) ==
    /\ pc[e] = "ranking"
    /\ next # charge[e]
    /\ charge' = [charge EXCEPT ![e] = next]
    /\ attempt' = [attempt EXCEPT ![e] = @ + 1]
    /\ conn' = [conn EXCEPT ![e] = "none"]
    /\ Becomes(e, "pooling")
    /\ UNCHANGED <<slotVars, turnVars, there, wentAway, told>>

\* whenRefused had nobody better, so the Refusal is passed on. If its connection
\* died during the await, either the whole reply was already here or its end was
\* announced before anybody listened, and then nothing will ever report it.
PassOn(e) ==
    /\ pc[e] = "ranking"
    /\ HandBack(e)
    /\ \/ /\ conn[e] = "open" \/ (conn[e] = "dead" /\ there[e])
          /\ conn' = [conn EXCEPT ![e] = IF @ = "dead" THEN "buffered" ELSE @]
          /\ Becomes(e, "streaming")
       \/ /\ conn[e] = "dead"
          /\ conn' = [conn EXCEPT ![e] = "lost"]
          /\ Becomes(e, IF there[e] THEN "stranded" ELSE "over")
    /\ UNCHANGED <<there, wentAway, charge, attempt, told>>

-----------------------------------------------------------------------------
(* The reply, and the ways out.                                             *)

\* The last byte of the reply: the row is complete and the pipe ends the response,
\* which a caller that left before anybody listened never announces.
ReplyEnds(e) ==
    /\ pc[e] = "streaming" /\ conn[e] \in {"open", "buffered"}
    /\ told' = [told EXCEPT ![e] = @ + 1]
    /\ conn' = [conn EXCEPT ![e] = "none"]
    /\ Becomes(e, IF there[e] THEN "ending" ELSE "over")
    /\ UNCHANGED <<slotVars, turnVars, there, wentAway, charge, attempt>>

\* The connection died under the reply: the row is reported, and since a pipe does
\* not pass an error on, the response is never ended.
ReplyDies(e) ==
    /\ pc[e] = "streaming" /\ conn[e] \in {"open", "dead"}
    /\ told' = [told EXCEPT ![e] = @ + 1]
    /\ conn' = [conn EXCEPT ![e] = "none"]
    /\ Becomes(e, IF there[e] THEN "stranded" ELSE "over")
    /\ UNCHANGED <<slotVars, turnVars, there, wentAway, charge, attempt>>

\* Fault: a close handler that hands back the turn and not the slot.
FinishedHolding(e) ==
    /\ pc[e] = "ending"
    /\ HandBack(e)
    /\ Becomes(e, "over")
    /\ UNCHANGED <<there, wentAway, charge, attempt, conn, told>>

\* The finished response closes: the slot goes back.
Finished(e) ==
    /\ pc[e] = "ending"
    /\ LetEverythingGo(e)
    /\ Becomes(e, "over")
    /\ UNCHANGED <<there, wentAway, charge, attempt, conn, told>>

\* The caller hangs up, at any moment.
HangUp(e) ==
    /\ pc[e] \notin {"away", "over"} /\ there[e]
    /\ ResponseCloses(e)
    /\ UNCHANGED <<charge, attempt, told>>

\* Fault: a clock that handBack clears with the turn.
ClockRunsForTheTurn(e) == slot[e] = "held" /\ turn[e] = "held" /\ pc[e] # "turn"

\* aTurnMayBeHeld ran out. The clock starts with the turn and is cleared only when
\* everything was let go, so it runs exactly while the slot is still held.
ClockRuns(e) == slot[e] = "held" /\ turn[e] \in {"held", "given"} /\ pc[e] # "turn"

Ceiling(e) ==
    /\ ClockRuns(e)
    /\ IF there[e] /\ Heard(e)
         THEN ResponseCloses(e)
         ELSE /\ LetEverythingGo(e)
              /\ there' = [there EXCEPT ![e] = FALSE]
              /\ UNCHANGED <<pc, wentAway, conn>>
    /\ UNCHANGED <<charge, attempt, told>>

\* Model only: an exchange that is wholly over may stand for a new request.
Renew(e) ==
    /\ pc[e] = "over" /\ Slot!Forget(e) /\ Turn!Forget(e)
    /\ Becomes(e, "away")
    /\ there' = [there EXCEPT ![e] = FALSE]
    /\ wentAway' = [wentAway EXCEPT ![e] = FALSE]
    /\ charge' = [charge EXCEPT ![e] = NoSeat]
    /\ attempt' = [attempt EXCEPT ![e] = 0]
    /\ conn' = [conn EXCEPT ![e] = "none"]
    /\ told' = [told EXCEPT ![e] = 0]

Next == \E e \in Exchanges :
    \/ Arrive(e) \/ GetSlot(e) \/ TakeTurn(e) \/ GetTurn(e) \/ Admit(e)
    \/ \E c \in Seats \union {NoSeat} : Decide(e, c)
    \/ DecideFails(e) \/ PoolAnswers(e) \/ PoolFails(e) \/ Connected(e) \/ ProxyGone(e)
    \/ Silent(e) \/ NoAnswer(e)
    \/ \E refusedAndWhole \in BOOLEAN : HeadArrives(e, refusedAndWhole)
    \/ \E next \in Seats : MoveOn(e, next)
    \/ PassOn(e) \/ ReplyEnds(e) \/ ReplyDies(e) \/ Finished(e)
    \/ HangUp(e) \/ Ceiling(e) \/ Renew(e)

Spec == Init /\ [][Next]_vars

\* What the program owes whatever its peers do: jobs that are due run, events of a
\* destroyed connection are delivered, and a clock that runs goes off. Nothing is
\* assumed of callers, upstream, the proxy, the payer or the body.
Fairness == \A e \in Exchanges :
    /\ WF_vars(GetSlot(e)) /\ WF_vars(TakeTurn(e)) /\ WF_vars(GetTurn(e)) /\ WF_vars(Admit(e))
    /\ WF_vars(conn[e] = "dead" /\ (NoAnswer(e) \/ ReplyDies(e)))
    /\ WF_vars(Ceiling(e))

FairSpec == Spec /\ Fairness

-----------------------------------------------------------------------------
(* Properties.                                                              *)

TypeOK ==
    /\ Slot!TypeOK /\ Turn!TypeOK
    /\ pc \in [Exchanges -> {"away", "slot", "turn", "deciding", "pooling", "asking",
                             "ranking", "streaming", "stranded", "ending", "over"}]
    /\ there \in [Exchanges -> BOOLEAN]
    /\ wentAway \in [Exchanges -> BOOLEAN]
    /\ charge \in [Exchanges -> Seats \union {NoSeat}]
    /\ attempt \in [Exchanges -> 0..AtMostAttempts]
    /\ conn \in [Exchanges -> {"none", "dialling", "open", "dead", "buffered", "lost"}]
    /\ told \in [Exchanges -> 0..1]

\* A dial, or the wait for a head, without a turn happens for one reason only: the
\* caller left while the program was between two awaits. Every attempt made for a
\* caller who is still there holds its turn.
OnlyTheGoneDialWithoutATurn ==
    \A e \in Exchanges :
      pc[e] \in {"deciding", "pooling", "asking", "ranking"} /\ turn[e] # "held" => ~there[e]

\* An exchange nothing more will happen to has returned its slot, unless its caller
\* left before the close handler existed: that one waits for the ceiling.
OnlyALateLeaverKeepsItsSlot ==
    \A e \in Exchanges :
      pc[e] = "over" /\ slot[e] # "given" => ~there[e] /\ ~wentAway[e]

\* Every request that was decided on ends in exactly one finished row, however its
\* attempts, hang-ups and clocks interleave, except a Refusal whose connection died
\* while another Seat was being looked for.
OneRowPerRequest ==
    \A e \in Exchanges :
      /\ told[e] <= 1
      /\ pc[e] \in {"stranded", "ending", "over"} /\ attempt[e] > 0 /\ told[e] = 0
           => conn[e] = "lost"
      /\ pc[e] \notin {"stranded", "ending", "over"} => told[e] = 0

\* A turn never returned is one of twelve, and twelve would wedge the relay: no request waits
\* for ever, in either queue, though the payer, the pool, the dial and the upstream may all
\* stay silent for ever.
EveryRequestGetsItsTurn == \A e \in Exchanges : pc[e] = "slot" ~> turn[e] = "held"
=============================================================================
