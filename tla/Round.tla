-------------------------------- MODULE Round --------------------------------
(***************************************************************************)
(* The round that keeps what is known about every Seat current:            *)
(* refreshStaleSeats of src/usage/internal/refresh.ts, which the service   *)
(* runs on a timer (scripts/serve.ts). The stale Seats are a queue that a  *)
(* few workers share; each ask is one connection and one request, under a  *)
(* clock that covers both. What a connection does after its ask has        *)
(* settled is part of this: an ask that settles before its dial does has   *)
(* nothing to hang up.                                                     *)
(***************************************************************************)
EXTENDS Naturals, Sequences, FiniteSets, Functions

CONSTANTS Seats, Rounds, None,
          AtATime,      \* at most this many in the air at once
          KnownAtFirst  \* what may be known of the Seats at first

Periods == {"fiveHour", "sevenDay"}
Ages == [Periods -> {None, "fresh", "old"}]  \* old: at least olderThan

VARIABLES usage,  \* how old what is known of each Seat is
          round,  \* what each round has come to
          ask     \* each round's ask of each Seat

vars == <<usage, round, ask>>

NoRound == [pc |-> "idle",
            listed |-> {}, queue |-> <<>>,   \* the stale Seats nobody has taken
            top |-> 0,                       \* workers about to take the next
            asked |-> 0, answered |-> 0, failed |-> 0, skipped |-> 0]

NoAsk == [conn |-> "none",   \* the connection
          said |-> None,     \* how the ask settled
          done |-> FALSE,    \* its worker has gone on
          times |-> 0]       \* history: how often a worker took this Seat

Init == /\ usage \in KnownAtFirst
        /\ round = [r \in Rounds |-> NoRound]
        /\ ask = [r \in Rounds |-> [s \in Seats |-> NoAsk]]

\* The timer. Nothing keeps a round from beginning while another is out.
Begins(r) == /\ round[r].pc = "idle"
             /\ round' = [round EXCEPT ![r].pc = "listing"]
             /\ UNCHANGED <<usage, ask>>

-----------------------------------------------------------------------------
(* Which Seats are worth asking about.                                      *)

\* The oldest of the readings there are; none at all counts as old.
IsStale(s) == LET ages == {usage[s][w] : w \in Periods} \ {None} IN ages = {} \/ "old" \in ages

\* A list or a memory that throws ends the round.
GivenUp(r) == round' = [round EXCEPT ![r].pc = "threw"]

Lists(r) == /\ round[r].pc = "listing"
            /\ \/ GivenUp(r)
               \/ \E held \in SUBSET Seats :  \* the Seats with a token in the vault
                    round' = [round EXCEPT ![r].pc = "looking", ![r].listed = held]
            /\ UNCHANGED <<usage, ask>>

Smaller(m, n) == IF m <= n THEN m ELSE n

\* In the order of the list, whatever it is; each once.
InALine(stale) == CHOOSE queue \in [1..Cardinality(stale) -> stale] : IsInjective(queue)

LooksWhoIsStale(r) ==
    /\ round[r].pc = "looking"
    /\ \/ GivenUp(r)
       \/ LET stale == {s \in round[r].listed : IsStale(s)} IN
          round' = [round EXCEPT ![r].pc = "asking",
                      ![r].queue = InALine(stale),
                      ![r].top = Smaller(AtATime, Cardinality(stale)),
                      ![r].asked = Cardinality(stale),
                      ![r].skipped = Cardinality(Seats) - Cardinality(stale)]
    /\ UNCHANGED <<usage, ask>>

-----------------------------------------------------------------------------
(* The workers.                                                             *)

\* queue.shift()
Shift(queue) == Tail(queue)

Counted(r, what) == [round EXCEPT ![r][what] = @ + 1, ![r].top = @ + 1]

\* The next in line: its token is read, and a token that is not there is a failure.
Takes(r) ==
    /\ round[r].pc = "asking" /\ round[r].top > 0 /\ round[r].queue # <<>>
    /\ LET s == Head(round[r].queue) IN
         /\ round' = [round EXCEPT ![r].queue = Shift(@), ![r].top = @ - 1]
         /\ ask' = [ask EXCEPT ![r][s].conn = "token", ![r][s].times = @ + 1]
    /\ UNCHANGED usage

HasNoToken(r, s) == /\ ask[r][s].conn = "token"
                    /\ ask' = [ask EXCEPT ![r][s].conn = "closed"]
                    /\ round' = Counted(r, "failed")
                    /\ UNCHANGED usage

\* A worker with nothing left to take returns; the round is over with the last of them.
IsDone(r) == /\ round[r].pc = "asking" /\ round[r].queue = <<>>
             /\ round[r].top = Smaller(AtATime, round[r].asked)
             /\ round' = [round EXCEPT ![r].pc = "over"]
             /\ UNCHANGED <<usage, ask>>

-----------------------------------------------------------------------------
(* One ask. It settles once: finish hangs up on whatever there is, clears   *)
(* the clock, and whatever comes after is nobody's.                         *)

InTheAir == {"dialling", "opening", "sent"}
Reached(conn) == conn \in {"opening", "sent"}

\* hangUp is null until the dial is over.
Finish(a, kind) == IF a.said # None THEN a
                   ELSE [a EXCEPT !.said = kind, !.conn = IF Reached(@) THEN "closed" ELSE @]

Becomes(r, s, a) == ask' = [ask EXCEPT ![r][s] = a] /\ UNCHANGED <<usage, round>>

Dials(r, s) == /\ ask[r][s].conn = "token"
               /\ Becomes(r, s, [ask[r][s] EXCEPT !.conn = "dialling"])

\* The route refused, or was not there.
DialFails(r, s) == /\ ask[r][s].conn = "dialling"
                   /\ Becomes(r, s, [Finish(ask[r][s], "not-sent") EXCEPT !.conn = "closed"])

Opens(r, s) == /\ ask[r][s].conn = "dialling"
               /\ Becomes(r, s, [ask[r][s] EXCEPT !.conn = "opening"])

\* The handshake is over, and the request, with the Send token, leaves.
Sends(r, s) == /\ ask[r][s].conn = "opening"
               /\ Becomes(r, s, [ask[r][s] EXCEPT !.conn = "sent"])

Breaks(r, s) == /\ Reached(ask[r][s].conn)
                /\ Becomes(r, s, [Finish(ask[r][s], "no-answer") EXCEPT !.conn = "closed"])

\* The reply, read to its end; a connection nobody hung up on stays.
Answers(r, s) == /\ ask[r][s].conn = "sent" /\ ask[r][s].said = None
                 /\ Becomes(r, s, Finish(ask[r][s], "answered"))

\* Fault: only the reply is waited for with a ceiling.
CoversTheReply == {"sent"}

\* The ceiling covers the dial as well as the reply.
Covered == InTheAir

GivesUp(r, s) == /\ ask[r][s].conn \in Covered /\ ask[r][s].said = None
                 /\ Becomes(r, s, Finish(ask[r][s], IF Reached(ask[r][s].conn) THEN "no-answer" ELSE "not-sent"))

\* Fault: what was not sent is not counted.
CountsWhatLeft(kind) == IF kind = "answered" THEN "answered" ELSE IF kind = "no-answer" THEN "failed" ELSE "skipped"

CountsAs(kind) == IF kind = "answered" THEN "answered" ELSE "failed"

\* The worker goes on: an answer is remembered as the exchange it is, with the readings
\* its headers have, and one that cannot be remembered is counted all the same.
Continues(r, s) ==
    /\ ask[r][s].said # None /\ ~ask[r][s].done
    /\ round' = Counted(r, CountsAs(ask[r][s].said))
    /\ ask' = [ask EXCEPT ![r][s].done = TRUE]
    /\ IF ask[r][s].said = "answered"
       THEN \E news \in SUBSET Periods :
              usage' = [usage EXCEPT ![s] = [w \in Periods |-> IF w \in news THEN "fresh" ELSE @[w]]]
       ELSE UNCHANGED usage

-----------------------------------------------------------------------------
Next == \E r \in Rounds :
          \/ Begins(r) \/ Lists(r) \/ LooksWhoIsStale(r) \/ Takes(r) \/ IsDone(r)
          \/ \E s \in Seats : \/ HasNoToken(r, s) \/ Dials(r, s) \/ DialFails(r, s) \/ Opens(r, s)
                              \/ Sends(r, s) \/ Breaks(r, s) \/ Answers(r, s) \/ GivesUp(r, s)
                              \/ Continues(r, s)

\* The store answers, the ceiling fires, and a worker that may go on does. Nothing is
\* asked of a dial or of the server.
Fairness == \A r \in Rounds :
              /\ WF_vars(Lists(r)) /\ WF_vars(LooksWhoIsStale(r)) /\ WF_vars(Takes(r)) /\ WF_vars(IsDone(r))
              /\ \A s \in Seats : /\ WF_vars(HasNoToken(r, s) \/ Dials(r, s))
                                  /\ WF_vars(GivesUp(r, s)) /\ WF_vars(Continues(r, s))

Spec == Init /\ [][Next]_vars /\ Fairness

-----------------------------------------------------------------------------
TypeOK ==
    /\ usage \in [Seats -> Ages]
    /\ \A r \in Rounds :
         /\ round[r].pc \in {"idle", "listing", "looking", "asking", "over", "threw"}
         /\ round[r].listed \subseteq Seats
         /\ Range(round[r].queue) \subseteq Seats
         /\ round[r].top \in 0..AtATime
         /\ \A s \in Seats :
              /\ ask[r][s].conn \in {"none", "token", "closed"} \union InTheAir
              /\ ask[r][s].said \in {None, "not-sent", "no-answer", "answered"}

\* refresh.ts, 287: four workers over one queue. A round that is over has asked every
\* stale Seat once, whatever came of it, and its summary, which is what is logged, adds up.
ARoundAddsUp ==
    \A r \in Rounds : round[r].pc = "over" =>
      /\ round[r].asked = round[r].answered + round[r].failed
      /\ round[r].asked + round[r].skipped = Cardinality(Seats)
      /\ Cardinality({s \in Seats : ask[r][s].times = 1}) = round[r].asked
      /\ \A s \in Seats : ask[r][s].times <= 1

\* refresh.ts, "Every wait has a ceiling. A probe that hangs must not hold up the round":
\* whatever dials and servers leave undone, a round that has begun ends.
EveryRoundEnds == \A r \in Rounds : round[r].pc = "listing" ~> round[r].pc \in {"over", "threw"}
=============================================================================
