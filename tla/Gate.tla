-------------------------------- MODULE Gate --------------------------------
(***************************************************************************)
(* A gate of src/relay/internal/gate.ts: at most Limit holders at a time   *)
(* and a queue for the rest. The relay opens two of them, one that bounds  *)
(* dials and one that bounds whole exchanges.                              *)
(*                                                                         *)
(* The program is one JavaScript thread, so what interleaves is jobs. A    *)
(* waiter's promise is resolved by whoever gives a turn back, but the      *)
(* waiter's own continuation is a later job: between the two the waiter is *)
(* in woken, out of the queue and not yet counted. A job that was already  *)
(* due may call enter() in that gap, and enter() is a single run of code   *)
(* up to its await.                                                        *)
(***************************************************************************)
EXTENDS Integers, Sequences, FiniteSets

CONSTANTS Callers,   \* whoever may ask for a turn, one pending ask each
          Limit      \* how many may be in flight at once

ASSUME LimitAssumption == Limit \in Nat \ {0}

VARIABLES inFlight,  \* the counter the code compares with the limit
          queue,     \* waiters whose promise is not resolved yet
          woken,     \* resolved waiters whose continuation has not run
          turn       \* what each caller has: nothing, a wait, a turn, a spent turn

vars == <<inFlight, queue, woken, turn>>

Init == /\ inFlight = 0
        /\ queue = <<>>
        /\ woken = <<>>
        /\ turn = [c \in Callers |-> "none"]

-----------------------------------------------------------------------------
(* Everything that may happen at a gate.                                    *)

\* Fault: inFlight > limit for inFlight >= limit.
EnterOffByOne(c) ==
    /\ turn[c] = "none"
    /\ IF inFlight > Limit
         THEN /\ queue' = Append(queue, c)
              /\ turn' = [turn EXCEPT ![c] = "waiting"]
              /\ UNCHANGED <<inFlight, woken>>
         ELSE /\ inFlight' = inFlight + 1
              /\ turn' = [turn EXCEPT ![c] = "held"]
              /\ UNCHANGED <<queue, woken>>

\* Straight in while there is room, to the end of the queue when there is not.
Enter(c) ==
    /\ turn[c] = "none"
    /\ IF inFlight >= Limit
         THEN /\ queue' = Append(queue, c)
              /\ turn' = [turn EXCEPT ![c] = "waiting"]
              /\ UNCHANGED <<inFlight, woken>>
         ELSE /\ inFlight' = inFlight + 1
              /\ turn' = [turn EXCEPT ![c] = "held"]
              /\ UNCHANGED <<queue, woken>>

\* The continuation of a resolved wait. The limit is not looked at again.
Resume(c) ==
    /\ woken # <<>> /\ c = Head(woken)
    /\ woken' = Tail(woken)
    /\ inFlight' = inFlight + 1
    /\ turn' = [turn EXCEPT ![c] = "held"]
    /\ UNCHANGED queue

\* Fault: a return that wakes nobody.
WakeNobody == UNCHANGED <<queue, woken>>

\* Fault: queue.pop() for queue.shift().
WakeLast ==
    IF queue = <<>> THEN UNCHANGED <<queue, woken>>
    ELSE /\ queue' = SubSeq(queue, 1, Len(queue) - 1)
         /\ woken' = Append(woken, queue[Len(queue)])

\* Resolve the first wait of the queue, if there is one.
WakeOne ==
    IF queue = <<>> THEN UNCHANGED <<queue, woken>>
    ELSE /\ queue' = Tail(queue)
         /\ woken' = Append(woken, Head(queue))

\* Fault: a turn without its given flag.
GiveBackUnguarded(c) ==
    /\ turn[c] \in {"held", "given"}
    /\ turn' = [turn EXCEPT ![c] = "given"]
    /\ inFlight' = inFlight - 1
    /\ WakeOne

\* The function enter() resolved with. Calling it a second time does nothing.
GiveBack(c) ==
    /\ turn[c] \in {"held", "given"}
    /\ IF turn[c] = "given" THEN UNCHANGED vars
       ELSE /\ turn' = [turn EXCEPT ![c] = "given"]
            /\ inFlight' = inFlight - 1
            /\ WakeOne

\* Nobody can call a spent turn any more: the caller is free to ask again.
Forget(c) ==
    /\ turn[c] = "given"
    /\ turn' = [turn EXCEPT ![c] = "none"]
    /\ UNCHANGED <<inFlight, queue, woken>>

\* Shutdown: every wait is resolved, in order, whatever the limit says.
Release ==
    /\ queue # <<>>
    /\ woken' = woken \o queue
    /\ queue' = <<>>
    /\ UNCHANGED <<inFlight, turn>>

Next == \/ \E c \in Callers : Enter(c) \/ Resume(c) \/ GiveBack(c) \/ Forget(c)
        \/ Release

Spec == Init /\ [][Next]_vars

-----------------------------------------------------------------------------
(* Fairness. A resolved promise's continuation always runs. That a turn is  *)
(* given back is the callers' promise, which gate.ts asks for ("must be     *)
(* called exactly once however the exchange ends").                         *)
Fairness == \A c \in Callers : WF_vars(Resume(c)) /\ WF_vars(turn[c] = "held" /\ GiveBack(c))

FairSpec == Spec /\ Fairness

-----------------------------------------------------------------------------
(* Properties.                                                              *)

Line    == woken \o queue              \* everybody waiting, longest first
Holders == {c \in Callers : turn[c] = "held"}
Owed    == inFlight + Len(woken)       \* turns out, and turns promised

TypeOK == /\ inFlight \in Nat
          /\ queue \in Seq(Callers)
          /\ woken \in Seq(Callers)
          /\ turn \in [Callers -> {"none", "waiting", "held", "given"}]

\* The line holds exactly the callers that wait, each of them once: no wait is
\* forgotten and no promise is resolved for a caller twice.
LineIsTheWaiters ==
    /\ \A i, j \in 1..Len(Line) : Line[i] = Line[j] => i = j
    /\ {Line[i] : i \in 1..Len(Line)} = {c \in Callers : turn[c] = "waiting"}

\* The counter is the number of turns really out. A turn counted down twice, the
\* hazard turnFor's guard is written against, makes it smaller than that.
TurnsAccounted == inFlight = Cardinality(Holders)

\* No wake-up is lost: while anybody sits in the queue, every turn there is is
\* out or already promised to somebody woken, so a wake-up is still to come.
NoLostTurn == queue # <<>> => Owed >= Limit

\* What "the bound quietly stops being a bound" comes down to. Turns out and
\* promised only ever grow past the limit when a caller walks in past somebody
\* already woken, or when shutdown lets the queue go: never by a plain arrival,
\* a wake-up or a return.
OnlyAnOvertakeOverfills ==
    [][Owed' > Owed /\ Owed' > Limit
         => \/ woken # <<>> /\ \E c \in Callers : turn[c] = "none" /\ turn'[c] = "held"
            \/ queue # <<>> /\ queue' = <<>> /\ inFlight' = inFlight]_vars

\* First come, first served, and nobody goes in but by arriving at a free place or
\* from the front of the line: the gate is a turnstile, whatever its two queues.
Promise == INSTANCE Turnstile WITH inside <- Holders, line <- Line

IsATurnstile == Promise!Spec

\* Nobody waits for ever, although newcomers may walk in past the woken.
EveryWaiterIsServed == \A c \in Callers : turn[c] = "waiting" ~> turn[c] = "held"
=============================================================================
