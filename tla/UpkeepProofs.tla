----------------------------- MODULE UpkeepProofs -----------------------------
(***************************************************************************)
(* Proofs about what is kept up between requests. Each part of Upkeep has  *)
(* an inductive invariant of its own; a step is one of one part, and the   *)
(* rest stands still.                                                      *)
(***************************************************************************)
EXTENDS Upkeep, FiniteSets, FiniteSetTheorems, SequenceTheorems, WellFoundedInduction, TLAPS

\* A record of these fields, whatever is in them.
IsRecord(r, fields) == DOMAIN r = fields /\ r = [f \in fields |-> r[f]]

-----------------------------------------------------------------------------
(* The round.                                                               *)

RoundFields == {"pc", "listed", "queue", "top", "asked", "answered", "failed", "skipped"}
AskFields   == {"conn", "said", "done", "times"}

\* A worker has done with this ask, or found no token for it.
Gone(a) == a.done \/ (a.conn = "closed" /\ a.said = None)

Taken(asks)  == {s \in Seats : asks[s].times = 1}
InHand(asks) == {s \in Seats : asks[s].times = 1 /\ ~Gone(asks[s])}

AskFits(a) == /\ IsRecord(a, AskFields) /\ a.times \in {0, 1}
              /\ a.times = 0 => a.conn = "none" /\ a.said = None /\ ~a.done
              /\ a.conn = "token" => a.said = None
              /\ a.done => a.said # None

\* The Seats that wait were never taken, and no Seat waits twice.
LineFits(line, asks) == /\ line \in Seq(Seats)
                        /\ \A i \in DOMAIN line : asks[line[i]].times = 0
                        /\ \A i, j \in DOMAIN line : line[i] = line[j] => i = j

\* Whoever was taken is in a worker's hands or counted, and a worker has one in hand or is
\* about to take the next.
CountsFit(m, asks) == /\ m.asked = Len(m.queue) + Cardinality(Taken(asks))
                      /\ m.asked + m.skipped = Cardinality(Seats)
                      /\ m.top + Cardinality(InHand(asks)) = R!Smaller(AtATime, m.asked)
                      /\ Cardinality(InHand(asks)) + m.answered + m.failed = Cardinality(Taken(asks))

RoundFits(m, asks) ==
    /\ IsRecord(m, RoundFields) /\ m.listed \subseteq Seats
    /\ m.top \in Nat /\ m.asked \in Nat /\ m.answered \in Nat /\ m.failed \in Nat /\ m.skipped \in Nat
    /\ DOMAIN asks = Seats /\ \A s \in Seats : AskFits(asks[s])
    /\ LineFits(m.queue, asks)
    /\ m.pc \in {"idle", "listing", "looking"} => Taken(asks) = {} /\ m.answered = 0 /\ m.failed = 0
    /\ m.pc \in {"asking", "over"} => CountsFit(m, asks)
    /\ m.pc = "over" => m.queue = <<>> /\ InHand(asks) = {}
    /\ m.pc = "threw" => Taken(asks) = {}

RInv == /\ DOMAIN round = Rounds /\ DOMAIN ask = Rounds
        /\ \A r \in Rounds : RoundFits(round[r], ask[r])

\* The round counts as one does.
LEMMA SameCount == ASSUME NEW S  PROVE R!Cardinality(S) = Cardinality(S)
BY DEF Cardinality, R!Cardinality

LEMMA SeatsCount ==
    ASSUME NEW asks
    PROVE  /\ IsFiniteSet(Taken(asks)) /\ Cardinality(Taken(asks)) \in Nat
           /\ IsFiniteSet(InHand(asks)) /\ Cardinality(InHand(asks)) \in Nat
<1>1. Taken(asks) \subseteq Seats /\ InHand(asks) \subseteq Seats
  BY DEF Taken, InHand
<1> QED BY <1>1, SeatsAssumption, FS_Subset, FS_CardinalityType

\* Who is asked about is not in the line.
LEMMA TheLineStays ==
    ASSUME NEW line, NEW asks, NEW asks2, NEW s \in Seats, LineFits(line, asks), asks[s].times = 1,
           \A q \in Seats : q # s => asks2[q] = asks[q]
    PROVE  LineFits(line, asks2)
<1>1. \A i \in DOMAIN line : line[i] \in Seats /\ line[i] # s
  BY DEF LineFits
<1> QED BY <1>1 DEF LineFits

\* An ask that moves on, and neither leaves its worker's hands nor comes into them.
LEMMA AnAskMovesOn ==
    ASSUME NEW m, NEW asks, NEW asks2, NEW s \in Seats, RoundFits(m, asks),
           DOMAIN asks2 = Seats, \A q \in Seats : q # s => asks2[q] = asks[q],
           AskFits(asks2[s]), asks[s].times = 1, asks2[s].times = 1,
           Gone(asks2[s]) <=> Gone(asks[s])
    PROVE  RoundFits(m, asks2)
<1>1. Taken(asks2) = Taken(asks)
  BY DEF Taken
<1>2. InHand(asks2) = InHand(asks)
  <2>1. \A q \in Seats : q # s => (q \in InHand(asks2) <=> q \in InHand(asks))
    BY DEF InHand
  <2>2. s \in InHand(asks2) <=> s \in InHand(asks)
    BY DEF InHand
  <2>3. InHand(asks2) \subseteq Seats /\ InHand(asks) \subseteq Seats
    BY DEF InHand
  <2> QED BY <2>1, <2>2, <2>3
<1>3. LineFits(m.queue, asks2)
  BY TheLineStays DEF RoundFits
<1>4. \A q \in Seats : AskFits(asks2[q])
  BY DEF RoundFits
<1> QED BY <1>1, <1>2, <1>3, <1>4 DEF RoundFits, CountsFit

\* The counts of a round when another ask was counted.
IsOneMore(n, m) ==
    /\ IsRecord(n, RoundFields) /\ n.pc = m.pc /\ n.listed = m.listed /\ n.queue = m.queue
    /\ n.asked = m.asked /\ n.skipped = m.skipped /\ n.top = m.top + 1
    /\ \/ n.answered = m.answered + 1 /\ n.failed = m.failed
       \/ n.answered = m.answered /\ n.failed = m.failed + 1

LEMMA CountedIsOneMore ==
    ASSUME NEW m, IsRecord(m, RoundFields), NEW what \in {"answered", "failed"}
    PROVE  IsOneMore([m EXCEPT ![what] = @ + 1, !.top = @ + 1], m)
<1>1. CASE what = "answered"
  BY <1>1 DEF IsOneMore, IsRecord, RoundFields
<1>2. CASE what = "failed"
  BY <1>2 DEF IsOneMore, IsRecord, RoundFields
<1> QED BY <1>1, <1>2

\* An ask that leaves its worker's hands is counted, once.
LEMMA AnAskIsCounted ==
    ASSUME NEW m, NEW n, NEW asks, NEW asks2, NEW s \in Seats, RoundFits(m, asks),
           DOMAIN asks2 = Seats, \A q \in Seats : q # s => asks2[q] = asks[q],
           AskFits(asks2[s]), asks[s].times = 1, asks2[s].times = 1,
           ~Gone(asks[s]), Gone(asks2[s]),
           IsOneMore(n, m)
    PROVE  RoundFits(n, asks2)
<1>1. Taken(asks2) = Taken(asks) /\ s \in Taken(asks)
  BY DEF Taken
<1>2. InHand(asks2) = InHand(asks) \ {s} /\ s \in InHand(asks)
  <2>1. \A q \in Seats : q # s => (q \in InHand(asks2) <=> q \in InHand(asks))
    BY DEF InHand
  <2>2. s \notin InHand(asks2) /\ s \in InHand(asks)
    BY DEF InHand
  <2>3. InHand(asks2) \subseteq Seats /\ InHand(asks) \subseteq Seats
    BY DEF InHand
  <2> QED BY <2>1, <2>2, <2>3
<1>3. Cardinality(InHand(asks)) = Cardinality(InHand(asks2)) + 1 /\ Cardinality(InHand(asks2)) \in Nat
  <2>1. IsFiniteSet(InHand(asks)) /\ Cardinality(InHand(asks)) \in Nat /\ Cardinality(InHand(asks2)) \in Nat
    BY SeatsCount
  <2>2. Cardinality(InHand(asks) \ {s}) = Cardinality(InHand(asks)) - 1
    BY <1>2, <2>1, FS_RemoveElement
  <2> QED BY <1>2, <2>1, <2>2
<1>4. IsRecord(m, RoundFields) /\ m.pc \notin {"idle", "listing", "looking", "threw", "over"}
  BY <1>1, <1>2 DEF RoundFits
<1>5. /\ IsRecord(n, RoundFields) /\ n.pc = m.pc /\ n.listed = m.listed /\ n.queue = m.queue
      /\ n.asked = m.asked /\ n.skipped = m.skipped /\ n.top = m.top + 1
  BY DEF IsOneMore
<1>6. \/ n.answered = m.answered + 1 /\ n.failed = m.failed
      \/ n.answered = m.answered /\ n.failed = m.failed + 1
  BY DEF IsOneMore
<1>7. LineFits(m.queue, asks2)
  <2>1. LineFits(m.queue, asks)
    BY DEF RoundFits
  <2> QED BY <2>1, TheLineStays
<1>8. \A q \in Seats : AskFits(asks2[q])
  BY DEF RoundFits
<1>9. /\ n.top + Cardinality(InHand(asks2)) = m.top + Cardinality(InHand(asks))
       /\ Cardinality(InHand(asks2)) + n.answered + n.failed = Cardinality(InHand(asks)) + m.answered + m.failed
       /\ n.top \in Nat /\ n.answered \in Nat /\ n.failed \in Nat
  <2>1. m.top \in Nat /\ m.answered \in Nat /\ m.failed \in Nat
    BY DEF RoundFits
  <2>2. Cardinality(InHand(asks)) \in Nat
    BY SeatsCount
  <2>3. n.top = m.top + 1
    BY <1>5
  <2> QED BY <1>3, <1>6, <2>1, <2>2, <2>3
<1>10. m.pc \in {"asking", "over"} => CountsFit(n, asks2)
  <2> SUFFICES ASSUME m.pc \in {"asking", "over"}  PROVE CountsFit(n, asks2)
    OBVIOUS
  <2>1. /\ m.asked = Len(m.queue) + Cardinality(Taken(asks))
        /\ m.asked + m.skipped = Cardinality(Seats)
        /\ m.top + Cardinality(InHand(asks)) = R!Smaller(AtATime, m.asked)
        /\ Cardinality(InHand(asks)) + m.answered + m.failed = Cardinality(Taken(asks))
        /\ m.top \in Nat /\ m.answered \in Nat /\ m.failed \in Nat
    BY DEF RoundFits, CountsFit
  <2> QED BY <1>1, <1>5, <1>9, <2>1 DEF CountsFit
<1>11. /\ n.listed \subseteq Seats
       /\ n.top \in Nat /\ n.asked \in Nat /\ n.answered \in Nat /\ n.failed \in Nat /\ n.skipped \in Nat
  BY <1>5, <1>9 DEF RoundFits
<1> QED BY <1>4, <1>5, <1>7, <1>8, <1>10, <1>11 DEF RoundFits

\* A step of one round is of that one alone.
LEMMA OneRoundMoves ==
    ASSUME RInv, NEW r \in Rounds, DOMAIN round' = Rounds, DOMAIN ask' = Rounds,
           RoundFits(round'[r], ask'[r]),
           \A q \in Rounds : q # r => round'[q] = round[q] /\ ask'[q] = ask[q]
    PROVE  RInv'
BY DEF RInv

\* What a step makes of one ask, where its round counts nothing.
LEMMA OnlyThisAskMoves ==
    ASSUME RInv, NEW r \in Rounds, NEW s \in Seats, NEW b, R!Becomes(r, s, b),
           AskFits(b), ask[r][s].times = 1, b.times = 1, Gone(b) <=> Gone(ask[r][s])
    PROVE  RInv'
<1>1. /\ DOMAIN ask = Rounds /\ DOMAIN round = Rounds /\ RoundFits(round[r], ask[r]) /\ DOMAIN ask[r] = Seats
      /\ round' = round /\ ask' = [ask EXCEPT ![r][s] = b]
  BY DEF RInv, RoundFits, R!Becomes
<1>2. /\ DOMAIN ask' = Rounds /\ \A q \in Rounds : q # r => ask'[q] = ask[q]
      /\ DOMAIN ask'[r] = Seats /\ ask'[r][s] = b /\ \A q \in Seats : q # s => ask'[r][q] = ask[r][q]
  BY <1>1
<1>3. RoundFits(round[r], ask'[r])
  <2> DEFINE m == round[r]
             asks == ask[r]
             asks2 == ask'[r]
  <2>1. /\ RoundFits(m, asks) /\ DOMAIN asks2 = Seats /\ \A q \in Seats : q # s => asks2[q] = asks[q]
        /\ AskFits(asks2[s]) /\ asks[s].times = 1 /\ asks2[s].times = 1 /\ (Gone(asks2[s]) <=> Gone(asks[s]))
    BY <1>1, <1>2
  <2>2. RoundFits(m, asks2)
    <3> HIDE DEF m, asks, asks2
    <3> QED BY <2>1, AnAskMovesOn
  <2> QED BY <2>2
<1> QED BY <1>1, <1>2, <1>3, OneRoundMoves

LEMMA AnAskFits ==
    ASSUME RInv, NEW r \in Rounds, NEW s \in Seats
    PROVE  /\ AskFits(ask[r][s]) /\ IsRecord(ask[r][s], AskFields)
           /\ ask[r][s].conn # "none" => ask[r][s].times = 1
           /\ ask[r][s].said # None => ask[r][s].times = 1
BY DEF RInv, RoundFits, AskFits

\* A connection that goes on, with nothing said of the ask.
LEMMA AConnectionMoves ==
    ASSUME NEW a, AskFits(a), a.conn # "none", a.conn # "closed", NEW conn, conn \notin {"none", "token", "closed"}
    PROVE  LET b == [a EXCEPT !.conn = conn] IN
           AskFits(b) /\ a.times = 1 /\ b.times = 1 /\ (Gone(b) <=> Gone(a))
<1> DEFINE b == [a EXCEPT !.conn = conn]
<1>1. IsRecord(b, AskFields) /\ b.conn = conn /\ b.said = a.said /\ b.done = a.done /\ b.times = a.times
  BY DEF AskFits, IsRecord, AskFields
<1> HIDE DEF b
<1>2. AskFits(b) /\ a.times = 1 /\ b.times = 1
  BY <1>1 DEF AskFits
<1>3. Gone(b) <=> Gone(a)
  BY <1>1 DEF Gone
<1> QED BY <1>2, <1>3 DEF b

\* An ask that settles, or had settled, is in the same hands.
LEMMA AnAskSettles ==
    ASSUME NEW a, AskFits(a), a.conn # "none", a.conn # "closed", a.conn # "token",
           NEW kind \in {"not-sent", "no-answer", "answered"}
    PROVE  LET b == R!Finish(a, kind)
               c == [R!Finish(a, kind) EXCEPT !.conn = "closed"] IN
           /\ a.times = 1
           /\ AskFits(b) /\ b.times = 1 /\ (Gone(b) <=> Gone(a))
           /\ AskFits(c) /\ c.times = 1 /\ (Gone(c) <=> Gone(a))
<1> DEFINE b == R!Finish(a, kind)
           c == [b EXCEPT !.conn = "closed"]
<1>0. kind # None /\ a.times = 1 /\ IsRecord(a, AskFields)
  BY NoneAssumption DEF AskFits
<1>1. /\ IsRecord(b, AskFields) /\ b.times = a.times /\ b.done = a.done
      /\ b.said # None /\ b.conn \notin {"none", "token"}
  <2>1. CASE a.said # None
    BY <1>0, <2>1 DEF R!Finish
  <2>2. CASE a.said = None
    BY <1>0, <2>2 DEF R!Finish, IsRecord, AskFields
  <2> QED BY <2>1, <2>2
<1> HIDE DEF b
<1>2. IsRecord(c, AskFields) /\ c.times = b.times /\ c.done = b.done /\ c.said = b.said /\ c.conn = "closed"
  BY <1>1 DEF IsRecord, AskFields
<1> HIDE DEF c
<1>3. AskFits(b) /\ AskFits(c) /\ b.times = 1 /\ c.times = 1
  BY <1>0, <1>1, <1>2 DEF AskFits
<1>4. (Gone(b) <=> b.done) /\ (Gone(c) <=> c.done) /\ (Gone(a) <=> a.done)
  BY <1>1, <1>2 DEF Gone
<1>5. (Gone(b) <=> Gone(a)) /\ (Gone(c) <=> Gone(a))
  BY <1>1, <1>2, <1>4
<1> QED BY <1>0, <1>3, <1>5 DEF c, b

\* A worker counts what has become of the ask in its hands.
LEMMA ItsRoundCounts ==
    ASSUME RInv, NEW r \in Rounds, NEW s \in Seats, NEW b, NEW what \in {"answered", "failed"},
           round' = R!Counted(r, what), ask' = [ask EXCEPT ![r][s] = b],
           AskFits(b), ask[r][s].times = 1, b.times = 1, ~Gone(ask[r][s]), Gone(b)
    PROVE  RInv'
<1>1. /\ DOMAIN ask = Rounds /\ DOMAIN round = Rounds /\ RoundFits(round[r], ask[r]) /\ DOMAIN ask[r] = Seats
      /\ IsRecord(round[r], RoundFields)
  BY DEF RInv, RoundFits
<1>2. /\ DOMAIN ask' = Rounds /\ \A q \in Rounds : q # r => ask'[q] = ask[q]
      /\ DOMAIN ask'[r] = Seats /\ ask'[r][s] = b /\ \A q \in Seats : q # s => ask'[r][q] = ask[r][q]
  BY <1>1
<1>3. /\ DOMAIN round' = Rounds /\ \A q \in Rounds : q # r => round'[q] = round[q]
      /\ round'[r] = [round[r] EXCEPT ![what] = @ + 1, !.top = @ + 1]
  BY <1>1 DEF R!Counted, IsRecord, RoundFields
<1>4. IsOneMore(round'[r], round[r])
  BY <1>1, <1>3, CountedIsOneMore, ZenonT(60)
<1>5. RoundFits(round'[r], ask'[r])
  <2> DEFINE m == round[r]
             n == round'[r]
             asks == ask[r]
             asks2 == ask'[r]
  <2>1. /\ RoundFits(m, asks) /\ DOMAIN asks2 = Seats /\ \A q \in Seats : q # s => asks2[q] = asks[q]
        /\ AskFits(asks2[s]) /\ asks[s].times = 1 /\ asks2[s].times = 1 /\ ~Gone(asks[s]) /\ Gone(asks2[s])
        /\ IsOneMore(n, m)
    BY <1>1, <1>2, <1>4
  <2>2. RoundFits(n, asks2)
    <3> HIDE DEF m, n, asks, asks2
    <3> QED BY <2>1, AnAskIsCounted
  <2> QED BY <2>2
<1> QED BY <1>2, <1>3, <1>5, OneRoundMoves, ZenonT(60)

\* A step of a round's own: nobody is asked.
LEMMA OnlyItsCountsMove ==
    ASSUME RInv, NEW r \in Rounds, NEW n, round' = [round EXCEPT ![r] = n], UNCHANGED ask,
           RoundFits(n, ask[r])
    PROVE  RInv'
<1>1. /\ DOMAIN round' = Rounds /\ round'[r] = n /\ ask' = ask /\ DOMAIN ask' = Rounds
      /\ \A q \in Rounds : q # r => round'[q] = round[q]
  BY DEF RInv
<1> QED BY <1>1, OneRoundMoves

LEMMA ARoundBegins == ASSUME RInv, NEW r \in Rounds, R!Begins(r) \/ R!Lists(r)  PROVE RInv'
<1>1. RoundFits(round[r], ask[r]) /\ DOMAIN round = Rounds /\ IsRecord(round[r], RoundFields)
  BY DEF RInv, RoundFits
<1>2. PICK pc, listed :
        /\ \/ round[r].pc = "idle" /\ pc = "listing"
           \/ round[r].pc = "listing" /\ pc \in {"threw", "looking"}
        /\ listed \subseteq Seats
        /\ round' = [round EXCEPT ![r] = [@ EXCEPT !.pc = pc, !.listed = listed]] /\ UNCHANGED ask
  <2>1. CASE R!Begins(r)
    <3>1. round' = [round EXCEPT ![r] = [@ EXCEPT !.pc = "listing", !.listed = round[r].listed]]
      BY <1>1, <2>1 DEF R!Begins, IsRecord, RoundFields
    <3>2. round[r].listed \subseteq Seats
      BY <1>1 DEF RoundFits
    <3> QED BY <2>1, <3>1, <3>2 DEF R!Begins
  <2>2. CASE R!Lists(r)
    <3>1. CASE R!GivenUp(r)
      <4>1. round' = [round EXCEPT ![r] = [@ EXCEPT !.pc = "threw", !.listed = round[r].listed]]
        BY <1>1, <3>1 DEF R!GivenUp, IsRecord, RoundFields
      <4>2. round[r].listed \subseteq Seats
        BY <1>1 DEF RoundFits
      <4> QED BY <2>2, <4>1, <4>2 DEF R!Lists
    <3>2. CASE \E held_ \in SUBSET Seats :
                 round' = [round EXCEPT ![r].pc = "looking", ![r].listed = held_]
      <4>1. PICK held_ \in SUBSET Seats :
                 round' = [round EXCEPT ![r].pc = "looking", ![r].listed = held_]
        BY <3>2
      <4>2. round' = [round EXCEPT ![r] = [@ EXCEPT !.pc = "looking", !.listed = held_]]
        BY <1>1, <4>1
      <4> QED BY <2>2, <4>2 DEF R!Lists
    <3> QED BY <2>2, <3>1, <3>2 DEF R!Lists
  <2> QED BY <2>1, <2>2
<1> DEFINE m == round[r]
           n == [m EXCEPT !.pc = pc, !.listed = listed]
<1>3. /\ IsRecord(n, RoundFields) /\ n.pc = pc /\ n.listed = listed /\ n.queue = m.queue /\ n.top = m.top
      /\ n.asked = m.asked /\ n.answered = m.answered /\ n.failed = m.failed /\ n.skipped = m.skipped
  BY <1>1 DEF IsRecord, RoundFields
<1>4. round' = [round EXCEPT ![r] = n]
  BY <1>2
<1>5. RoundFits(n, ask[r])
  <2> HIDE DEF n
  <2> QED BY <1>1, <1>2, <1>3 DEF RoundFits
<1> QED BY <1>2, <1>4, <1>5, OnlyItsCountsMove

\* A finite set in a line: everybody, and each once.
LEMMA ALineOfAll ==
    ASSUME NEW stale, IsFiniteSet(stale)
    PROVE  LET line == R!InALine(stale) IN
           /\ line \in Seq(stale) /\ Len(line) = Cardinality(stale)
           /\ \A i, j \in DOMAIN line : line[i] = line[j] => i = j
<1> DEFINE n == Cardinality(stale)
           line == R!InALine(stale)
<1>1. n \in Nat /\ ExistsBijection(1..n, stale)
  BY FS_CardinalityType
<1>2. PICK f : f \in Bijection(1..n, stale)
  BY <1>1 DEF ExistsBijection
<1>3. f \in [1..n -> stale] /\ R!IsInjective(f)
  BY <1>2 DEF Bijection, Injection, IsInjective, R!IsInjective
<1>4. line \in [1..n -> stale] /\ R!IsInjective(line)
  <2>1. line = CHOOSE f_ \in [1..n -> stale] : R!IsInjective(f_)
    BY SameCount DEF R!InALine
  <2> QED BY <1>3, <2>1
<1> HIDE DEF line
<1>5. line \in Seq(stale) /\ Len(line) = n
  BY <1>1, <1>4
<1> QED BY <1>4, <1>5 DEF R!IsInjective, line

LEMMA TheStaleAreListed == ASSUME RInv, NEW r \in Rounds, R!LooksWhoIsStale(r)  PROVE RInv'
<1> DEFINE stale == {s \in round[r].listed : R!IsStale(s)}
           m == round[r]
           n == [m EXCEPT !.pc = "asking", !.queue = R!InALine(stale),
                   !.top = R!Smaller(AtATime, Cardinality(stale)),
                   !.asked = Cardinality(stale), !.skipped = Cardinality(Seats) - Cardinality(stale)]
           thrown == [m EXCEPT !.pc = "threw"]
<1>1. RoundFits(round[r], ask[r]) /\ DOMAIN round = Rounds /\ IsRecord(round[r], RoundFields) /\ m.pc = "looking"
  BY DEF RInv, RoundFits, R!LooksWhoIsStale
<1>2. Taken(ask[r]) = {} /\ m.answered = 0 /\ m.failed = 0 /\ m.listed \subseteq Seats
  BY <1>1 DEF RoundFits
<1>3. CASE R!GivenUp(r)
  <2>1. /\ IsRecord(thrown, RoundFields) /\ thrown.pc = "threw" /\ thrown.listed = m.listed
        /\ thrown.queue = m.queue /\ thrown.top = m.top /\ thrown.asked = m.asked
        /\ thrown.answered = m.answered /\ thrown.failed = m.failed /\ thrown.skipped = m.skipped
    BY <1>1 DEF IsRecord, RoundFields
  <2>2. round' = [round EXCEPT ![r] = thrown] /\ UNCHANGED ask
    BY <1>3 DEF R!GivenUp, R!LooksWhoIsStale
  <2>3. RoundFits(thrown, ask[r])
    <3> HIDE DEF thrown
    <3> QED BY <1>1, <1>2, <2>1 DEF RoundFits
  <2> QED BY <2>2, <2>3, OnlyItsCountsMove
<1>4. CASE round' = [round EXCEPT ![r] = n]
  <2>1. stale \subseteq Seats
    BY <1>2
  <2>2. /\ IsFiniteSet(stale) /\ Cardinality(stale) \in Nat /\ Cardinality(Seats) \in Nat
        /\ Cardinality(stale) <= Cardinality(Seats)
    BY <2>1, SeatsAssumption, FS_Subset, FS_CardinalityType
  <2>3. /\ R!InALine(stale) \in Seq(stale) /\ Len(R!InALine(stale)) = Cardinality(stale)
        /\ \A i, j \in DOMAIN R!InALine(stale) : R!InALine(stale)[i] = R!InALine(stale)[j] => i = j
    BY <2>2, ALineOfAll
  <2>4. /\ IsRecord(n, RoundFields) /\ n.pc = "asking" /\ n.listed = m.listed
        /\ n.queue = R!InALine(stale) /\ n.top = R!Smaller(AtATime, Cardinality(stale))
        /\ n.asked = Cardinality(stale) /\ n.answered = m.answered /\ n.failed = m.failed
        /\ n.skipped = Cardinality(Seats) - Cardinality(stale)
    BY <1>1 DEF IsRecord, RoundFields
  <2> HIDE DEF n
  <2>5. LineFits(n.queue, ask[r])
    <3>1. n.queue \in Seq(Seats)
      BY <2>1, <2>3, <2>4, SeqMonotonic
    <3>2. \A i \in DOMAIN n.queue : ask[r][n.queue[i]].times = 0
      <4>1. \A s \in Seats : ask[r][s].times = 0
        BY <1>1, <1>2 DEF RoundFits, AskFits, Taken
      <4> QED BY <3>1, <4>1
    <3> QED BY <2>3, <2>4, <3>1, <3>2 DEF LineFits
  <2>6. InHand(ask[r]) = {} /\ Cardinality({}) = 0
    BY <1>2, FS_EmptySet DEF InHand, Taken
  <2>7. CountsFit(n, ask[r])
    <3> HIDE DEF stale
    <3>1. R!Smaller(AtATime, Cardinality(stale)) \in Nat
      BY <2>2, AtATimeAssumption DEF R!Smaller
    <3>2. n.asked = Len(n.queue) + 0 /\ n.asked + n.skipped = Cardinality(Seats)
      BY <2>2, <2>3, <2>4
    <3>3. n.top + 0 = R!Smaller(AtATime, n.asked) /\ 0 + n.answered + n.failed = 0
      BY <1>2, <2>4, <3>1
    <3> QED BY <1>2, <2>6, <3>2, <3>3 DEF CountsFit
  <2>8. /\ n.top \in Nat /\ n.asked \in Nat /\ n.answered \in Nat /\ n.failed \in Nat /\ n.skipped \in Nat
    <3> HIDE DEF stale
    <3> QED BY <1>2, <2>2, <2>4, AtATimeAssumption DEF R!Smaller
  <2>9. RoundFits(n, ask[r])
    BY <1>1, <1>2, <2>4, <2>5, <2>7, <2>8 DEF RoundFits
  <2> QED BY <1>4, <2>9, OnlyItsCountsMove DEF R!LooksWhoIsStale
<1> QED BY <1>3, <1>4, SameCount DEF R!LooksWhoIsStale

LEMMA ASeatIsTaken == ASSUME RInv, NEW r \in Rounds, R!Takes(r)  PROVE RInv'
<1> DEFINE m == round[r]
           s == Head(m.queue)
           n == [m EXCEPT !.queue = Tail(m.queue), !.top = m.top - 1]
           b == [ask[r][s] EXCEPT !.conn = "token", !.times = 1]
           asks == ask[r]
           asks2 == [asks EXCEPT ![s] = b]
<1>1. /\ RoundFits(m, asks) /\ DOMAIN round = Rounds /\ DOMAIN ask = Rounds /\ DOMAIN asks = Seats
      /\ IsRecord(m, RoundFields) /\ m.pc = "asking" /\ m.top > 0 /\ m.top \in Nat
      /\ m.queue # <<>> /\ LineFits(m.queue, asks) /\ m.queue \in Seq(Seats) /\ CountsFit(m, asks)
  BY DEF RInv, RoundFits, LineFits, R!Takes
<1>2. /\ s \in Seats /\ s = m.queue[1] /\ 1 \in DOMAIN m.queue
      /\ Tail(m.queue) \in Seq(Seats) /\ Len(Tail(m.queue)) = Len(m.queue) - 1 /\ Len(m.queue) \in Nat
      /\ \A i \in DOMAIN Tail(m.queue) : Tail(m.queue)[i] = m.queue[i + 1] /\ i + 1 \in DOMAIN m.queue /\ i + 1 # 1
  BY <1>1
<1>3. AskFits(asks[s]) /\ asks[s].times = 0 /\ asks[s].said = None /\ ~asks[s].done /\ IsRecord(asks[s], AskFields)
  <2>1. \A q \in Seats : AskFits(asks[q])
    BY <1>1 DEF RoundFits
  <2>2. \A i \in DOMAIN m.queue : asks[m.queue[i]].times = 0
    BY <1>1 DEF LineFits
  <2>3. AskFits(asks[s]) /\ asks[s].times = 0
    BY <1>2, <2>1, <2>2
  <2> QED BY <2>3 DEF AskFits
<1>4. IsRecord(b, AskFields) /\ b.conn = "token" /\ b.times = 1 /\ b.said = None /\ b.done = asks[s].done
  BY <1>3 DEF IsRecord, AskFields
<1>5. /\ IsRecord(n, RoundFields) /\ n.pc = m.pc /\ n.listed = m.listed /\ n.queue = Tail(m.queue)
      /\ n.top = m.top - 1 /\ n.asked = m.asked /\ n.answered = m.answered /\ n.failed = m.failed
      /\ n.skipped = m.skipped
  BY <1>1 DEF IsRecord, RoundFields
<1>6. round' = [round EXCEPT ![r] = n] /\ ask' = [ask EXCEPT ![r] = asks2]
  <2>1. round' = [round EXCEPT ![r].queue = Tail(@), ![r].top = @ - 1]
    BY DEF R!Takes, R!Shift
  <2>2. ask' = [ask EXCEPT ![r][s].conn = "token", ![r][s].times = @ + 1]
    BY DEF R!Takes
  <2>3. asks[s].times + 1 = 1
    <3> HIDE DEF s, asks, m
    <3> QED BY <1>3
  <2> QED BY <1>1, <1>2, <1>3, <2>1, <2>2, <2>3, ZenonT(60) DEF IsRecord, AskFields, RoundFields
<1> HIDE DEF b, n, s, asks, m
<1>7. DOMAIN asks2 = Seats /\ asks2[s] = b /\ \A q \in Seats : q # s => asks2[q] = asks[q]
  BY <1>1, <1>2
<1> HIDE DEF asks2
<1>8. \A q \in Seats : AskFits(asks2[q])
  <2>1. AskFits(b)
    BY <1>3, <1>4 DEF AskFits
  <2>2. \A q \in Seats : AskFits(asks[q])
    BY <1>1 DEF RoundFits
  <2> QED BY <1>7, <2>1, <2>2
<1>9. Taken(asks2) = Taken(asks) \union {s} /\ s \notin Taken(asks)
  <2>1. s \in Seats /\ asks2[s].times = 1 /\ asks[s].times # 1
    BY <1>2, <1>3, <1>4, <1>7
  <2>2. \A q \in Seats : q # s => (asks2[q].times = 1 <=> asks[q].times = 1)
    BY <1>7
  <2> QED BY <2>1, <2>2 DEF Taken
<1>10. InHand(asks2) = InHand(asks) \union {s} /\ s \notin InHand(asks)
  <2>1. ~Gone(b)
    BY <1>3, <1>4 DEF Gone
  <2>2. s \in InHand(asks2) /\ s \notin InHand(asks)
    <3>1. s \in Seats /\ asks2[s].times = 1 /\ asks[s].times # 1
      BY <1>2, <1>3, <1>4, <1>7
    <3>2. ~Gone(asks2[s])
      BY <1>7, <2>1
    <3> QED BY <3>1, <3>2 DEF InHand
  <2>3. \A q \in Seats : q # s => (q \in InHand(asks2) <=> q \in InHand(asks))
    BY <1>7 DEF InHand
  <2>4. InHand(asks2) \subseteq Seats /\ InHand(asks) \subseteq Seats
    BY DEF InHand
  <2> QED BY <1>2, <2>2, <2>3, <2>4
<1>11. /\ Cardinality(Taken(asks2)) = Cardinality(Taken(asks)) + 1 /\ Cardinality(Taken(asks)) \in Nat
       /\ Cardinality(InHand(asks2)) = Cardinality(InHand(asks)) + 1 /\ Cardinality(InHand(asks)) \in Nat
  <2>1. IsFiniteSet(Taken(asks)) /\ IsFiniteSet(InHand(asks))
    BY SeatsCount
  <2>2. Cardinality(Taken(asks) \union {s}) = Cardinality(Taken(asks)) + 1
    BY <1>9, <2>1, FS_AddElement
  <2>3. Cardinality(InHand(asks) \union {s}) = Cardinality(InHand(asks)) + 1
    BY <1>10, <2>1, FS_AddElement
  <2> QED BY <1>9, <1>10, <2>2, <2>3, SeatsCount
<1>12. CountsFit(n, asks2)
  <2>1. /\ m.asked = Len(m.queue) + Cardinality(Taken(asks)) /\ m.asked + m.skipped = Cardinality(Seats)
        /\ m.top + Cardinality(InHand(asks)) = R!Smaller(AtATime, m.asked)
        /\ Cardinality(InHand(asks)) + m.answered + m.failed = Cardinality(Taken(asks))
        /\ m.answered \in Nat /\ m.failed \in Nat
    BY <1>1 DEF CountsFit, RoundFits
  <2>2. n.asked = Len(n.queue) + Cardinality(Taken(asks2)) /\ n.asked + n.skipped = Cardinality(Seats)
    <3>1. Len(n.queue) = Len(m.queue) - 1 /\ Len(m.queue) \in Nat
      BY <1>2, <1>5
    <3>2. n.asked = m.asked /\ n.skipped = m.skipped
      BY <1>5
    <3>3. m.asked = Len(m.queue) + Cardinality(Taken(asks))
      BY <2>1
    <3>4. Len(n.queue) + Cardinality(Taken(asks2)) = Len(m.queue) + Cardinality(Taken(asks))
      <4> DEFINE long == Len(m.queue)
                 longNow == Len(n.queue)
                 many == Cardinality(Taken(asks))
                 manyNow == Cardinality(Taken(asks2))
      <4>1. longNow = long - 1 /\ long \in Nat /\ manyNow = many + 1 /\ many \in Nat
        BY <1>11, <3>1
      <4> HIDE DEF long, longNow, many, manyNow
      <4>2. longNow + manyNow = long + many
        BY <4>1
      <4> QED BY <4>2 DEF long, longNow, many, manyNow
    <3> QED BY <2>1, <3>2, <3>3, <3>4
  <2>3. n.top + Cardinality(InHand(asks2)) = R!Smaller(AtATime, n.asked)
    <3>1. n.top = m.top - 1 /\ m.top \in Nat /\ n.asked = m.asked
      BY <1>1, <1>5
    <3>2. n.top + Cardinality(InHand(asks2)) = m.top + Cardinality(InHand(asks))
      BY <1>11, <3>1
    <3> QED BY <2>1, <3>1, <3>2
  <2>4. Cardinality(InHand(asks2)) + n.answered + n.failed = Cardinality(Taken(asks2))
    <3> DEFINE many == Cardinality(Taken(asks))
               manyNow == Cardinality(Taken(asks2))
               hands == Cardinality(InHand(asks))
               handsNow == Cardinality(InHand(asks2))
    <3>1. n.answered = m.answered /\ n.failed = m.failed /\ m.answered \in Nat /\ m.failed \in Nat
      BY <1>5, <2>1
    <3>2. manyNow = many + 1 /\ handsNow = hands + 1 /\ many \in Nat /\ hands \in Nat
      BY <1>11
    <3>3. hands + m.answered + m.failed = many
      BY <2>1
    <3> HIDE DEF many, manyNow, hands, handsNow
    <3>4. handsNow + n.answered + n.failed = manyNow
      BY <3>1, <3>2, <3>3
    <3> QED BY <3>4 DEF manyNow, handsNow
  <2> QED BY <2>2, <2>3, <2>4 DEF CountsFit
<1>13. LineFits(n.queue, asks2)
  <2>0. /\ \A i \in DOMAIN n.queue : n.queue[i] = m.queue[i + 1] /\ i + 1 \in DOMAIN m.queue /\ i + 1 # 1
        /\ \A i \in DOMAIN m.queue : m.queue[i] \in Seats
    BY <1>1, <1>2, <1>5
  <2>1. \A i \in DOMAIN n.queue : n.queue[i] \in Seats /\ asks[n.queue[i]].times = 0 /\ n.queue[i] # s
    <3>1. \A i \in DOMAIN m.queue : asks[m.queue[i]].times = 0 /\ (m.queue[i] = m.queue[1] => i = 1)
      BY <1>1, <1>2 DEF LineFits
    <3>2. s = m.queue[1]
      BY <1>2
    <3> QED BY <2>0, <3>1, <3>2
  <2>2. \A i, j \in DOMAIN n.queue : n.queue[i] = n.queue[j] => i = j
    <3> SUFFICES ASSUME NEW i \in DOMAIN n.queue, NEW j \in DOMAIN n.queue, n.queue[i] = n.queue[j]
                 PROVE  i = j
      OBVIOUS
    <3>1. i + 1 = j + 1
      BY <1>1, <1>2, <1>5 DEF LineFits
    <3>2. i \in Nat /\ j \in Nat
      BY <1>2, <1>5
    <3> QED BY <3>1, <3>2
  <2> QED BY <1>2, <1>5, <1>7, <2>1, <2>2 DEF LineFits
<1>14. /\ n.listed \subseteq Seats
       /\ n.top \in Nat /\ n.asked \in Nat /\ n.answered \in Nat /\ n.failed \in Nat /\ n.skipped \in Nat
  BY <1>1, <1>5 DEF RoundFits
<1>15. RoundFits(n, asks2)
  BY <1>1, <1>5, <1>7, <1>8, <1>12, <1>13, <1>14 DEF RoundFits
<1> QED
  <2>1. /\ DOMAIN round' = Rounds /\ round'[r] = n /\ DOMAIN ask' = Rounds /\ ask'[r] = asks2
        /\ \A q \in Rounds : q # r => round'[q] = round[q] /\ ask'[q] = ask[q]
    BY <1>1, <1>6
  <2> QED BY <1>15, <2>1, OneRoundMoves

LEMMA ARoundIsDone == ASSUME RInv, NEW r \in Rounds, R!IsDone(r)  PROVE RInv'
<1> DEFINE m == round[r]
           n == [m EXCEPT !.pc = "over"]
<1>1. /\ RoundFits(m, ask[r]) /\ DOMAIN round = Rounds /\ IsRecord(m, RoundFields)
      /\ m.pc = "asking" /\ m.queue = <<>> /\ m.top = R!Smaller(AtATime, m.asked) /\ m.top \in Nat
      /\ round' = [round EXCEPT ![r] = n] /\ UNCHANGED ask /\ CountsFit(m, ask[r])
  BY DEF RInv, RoundFits, R!IsDone
<1>2. /\ IsRecord(n, RoundFields) /\ n.pc = "over" /\ n.listed = m.listed /\ n.queue = m.queue /\ n.top = m.top
      /\ n.asked = m.asked /\ n.answered = m.answered /\ n.failed = m.failed /\ n.skipped = m.skipped
  BY <1>1 DEF IsRecord, RoundFields
<1> HIDE DEF n
<1>3. InHand(ask[r]) = {}
  <2>1. m.top + Cardinality(InHand(ask[r])) = m.top /\ Cardinality(InHand(ask[r])) \in Nat
    BY <1>1, SeatsCount DEF CountsFit
  <2>2. Cardinality(InHand(ask[r])) = 0
    BY <1>1, <2>1
  <2> QED BY <2>2, SeatsCount, FS_EmptySet
<1>4. CountsFit(n, ask[r])
  BY <1>1, <1>2 DEF CountsFit
<1>5. RoundFits(n, ask[r])
  BY <1>1, <1>2, <1>3, <1>4 DEF RoundFits
<1> QED BY <1>1, <1>5, OnlyItsCountsMove

LEMMA AnAskOfARound == ASSUME RInv, NEW r \in Rounds, NEW s \in Seats,
    R!Dials(r, s) \/ R!DialFails(r, s) \/ R!Opens(r, s) \/ R!Sends(r, s)
      \/ R!Breaks(r, s) \/ R!Answers(r, s) \/ R!GivesUp(r, s)
    PROVE RInv'
<1> DEFINE a == ask[r][s]
<1>0. AskFits(a)
  BY AnAskFits
<1>1. ASSUME a.conn \notin {"none", "closed"}, NEW conn \in {"dialling", "opening", "sent"},
             R!Becomes(r, s, [a EXCEPT !.conn = conn])
      PROVE  RInv'
  <2> DEFINE b == [a EXCEPT !.conn = conn]
  <2>1. AskFits(b) /\ a.times = 1 /\ b.times = 1 /\ (Gone(b) <=> Gone(a))
    BY <1>0, <1>1, AConnectionMoves
  <2> HIDE DEF b
  <2>2. R!Becomes(r, s, b)
    BY <1>1 DEF b
  <2> QED BY <2>1, <2>2, OnlyThisAskMoves
<1>2. ASSUME a.conn \notin {"none", "closed", "token"}, NEW kind \in {"not-sent", "no-answer", "answered"}, NEW b,
             b = R!Finish(a, kind) \/ b = [R!Finish(a, kind) EXCEPT !.conn = "closed"], R!Becomes(r, s, b)
      PROVE  RInv'
  <2>1. AskFits(b) /\ a.times = 1 /\ b.times = 1 /\ (Gone(b) <=> Gone(a))
    <3>1. CASE b = R!Finish(a, kind)
      BY <1>0, <1>2, <3>1, AnAskSettles
    <3>2. CASE b = [R!Finish(a, kind) EXCEPT !.conn = "closed"]
      BY <1>0, <1>2, <3>2, AnAskSettles
    <3> QED BY <1>2, <3>1, <3>2
  <2> QED BY <1>2, <2>1, OnlyThisAskMoves
<1>3. CASE R!Dials(r, s)
  BY <1>1, <1>3 DEF R!Dials
<1>4. CASE R!DialFails(r, s)
  BY <1>2, <1>4 DEF R!DialFails
<1>5. CASE R!Opens(r, s)
  BY <1>1, <1>5 DEF R!Opens
<1>6. CASE R!Sends(r, s)
  BY <1>1, <1>6 DEF R!Sends
<1>7. CASE R!Breaks(r, s)
  BY <1>2, <1>7 DEF R!Breaks, R!Reached
<1>8. CASE R!Answers(r, s)
  BY <1>2, <1>8 DEF R!Answers
<1>9. CASE R!GivesUp(r, s)
  BY <1>2, <1>9 DEF R!GivesUp, R!Covered, R!InTheAir
<1> QED BY <1>3, <1>4, <1>5, <1>6, <1>7, <1>8, <1>9

LEMMA AnAskIsOver ==
    ASSUME RInv, NEW r \in Rounds, NEW s \in Seats, R!HasNoToken(r, s) \/ R!Continues(r, s)  PROVE RInv'
<1> DEFINE a == ask[r][s]
<1>0. /\ AskFits(a) /\ IsRecord(a, AskFields) /\ DOMAIN ask = Rounds /\ DOMAIN ask[r] = Seats
      /\ (a.conn # "none" => a.times = 1) /\ (a.said # None => a.times = 1)
  BY AnAskFits DEF RInv, RoundFits
<1>1. CASE R!HasNoToken(r, s)
  <2> DEFINE b == [a EXCEPT !.conn = "closed"]
  <2>1. /\ a.conn = "token" /\ a.said = None /\ ~a.done /\ a.times = 1
        /\ round' = R!Counted(r, "failed") /\ ask' = [ask EXCEPT ![r][s] = b]
    BY <1>0, <1>1 DEF R!HasNoToken, AskFits
  <2>2. IsRecord(b, AskFields) /\ b.conn = "closed" /\ b.said = a.said /\ b.done = a.done /\ b.times = a.times
    BY <1>0 DEF IsRecord, AskFields
  <2> HIDE DEF b
  <2>3. AskFits(b) /\ ~Gone(a) /\ Gone(b)
    BY <2>1, <2>2 DEF AskFits, Gone
  <2> QED BY <2>1, <2>2, <2>3, ItsRoundCounts
<1>2. CASE R!Continues(r, s)
  <2> DEFINE b == [a EXCEPT !.done = TRUE]
             what == R!CountsAs(a.said)
  <2>1. /\ a.said # None /\ ~a.done /\ a.times = 1
        /\ round' = R!Counted(r, what) /\ ask' = [ask EXCEPT ![r][s] = b]
    BY <1>0, <1>2 DEF R!Continues
  <2>2. IsRecord(b, AskFields) /\ b.conn = a.conn /\ b.said = a.said /\ b.done = TRUE /\ b.times = a.times
    BY <1>0 DEF IsRecord, AskFields
  <2>3. what \in {"answered", "failed"}
    BY DEF R!CountsAs
  <2> HIDE DEF b, what
  <2>4. AskFits(b) /\ ~Gone(a) /\ Gone(b)
    BY <1>0, <2>1, <2>2 DEF AskFits, Gone
  <2> QED BY <2>1, <2>2, <2>3, <2>4, ItsRoundCounts
<1> QED BY <1>1, <1>2

LEMMA RoundSteps == ASSUME RInv, R!Next  PROVE RInv'
BY ARoundBegins, TheStaleAreListed, ASeatIsTaken, ARoundIsDone, AnAskOfARound, AnAskIsOver DEF R!Next

LEMMA RoundsAtFirst == R!Init => RInv
<1> SUFFICES ASSUME R!Init, NEW r \in Rounds  PROVE RoundFits(R!NoRound, [s \in Seats |-> R!NoAsk])
  BY DEF R!Init, RInv
<1> DEFINE asks == [s \in Seats |-> R!NoAsk]
           m == R!NoRound
<1>1. /\ IsRecord(m, RoundFields) /\ m.pc = "idle" /\ m.listed = {} /\ m.queue = <<>> /\ m.top = 0
      /\ m.asked = 0 /\ m.answered = 0 /\ m.failed = 0 /\ m.skipped = 0
  BY DEF R!NoRound, IsRecord, RoundFields
<1>2. AskFits(R!NoAsk) /\ R!NoAsk.times = 0
  BY DEF R!NoAsk, AskFits, IsRecord, AskFields
<1> HIDE DEF m
<1>3. Taken(asks) = {} /\ DOMAIN asks = Seats /\ \A s \in Seats : AskFits(asks[s])
  BY <1>2 DEF Taken
<1>4. LineFits(m.queue, asks)
  BY <1>1 DEF LineFits
<1> QED BY <1>1, <1>3, <1>4 DEF RoundFits, m

LEMMA RoundsStandStill == RInv /\ UNCHANGED rounds => RInv'
BY DEF RInv, rounds

LEMMA RoundsAreKept == RInv /\ [Next]_vars => RInv'
<1> SUFFICES ASSUME RInv, [Next]_vars  PROVE RInv'
  OBVIOUS
<1>1. R!Next \/ UNCHANGED rounds
  BY DEF Next, vars
<1> QED BY <1>1, RoundSteps, RoundsStandStill

\* A round that is over has asked every stale Seat once, whatever came of it, and what it
\* logs adds up (refreshStaleSeats), whatever the Seats, the workers and the rounds that
\* run beside one another.
THEOREM TheSummaryAddsUp == Spec => []ARoundAddsUp
<1>1. Init => RInv
  BY RoundsAtFirst DEF Init
<1>2. RInv => ARoundAddsUp
  <2> SUFFICES ASSUME RInv, NEW r \in Rounds, round[r].pc = "over"
               PROVE  /\ round[r].asked = round[r].answered + round[r].failed
                      /\ round[r].asked + round[r].skipped = Cardinality(Seats)
                      /\ Cardinality({s \in Seats : ask[r][s].times = 1}) = round[r].asked
                      /\ \A s \in Seats : ask[r][s].times <= 1
    BY SameCount DEF ARoundAddsUp, R!ARoundAddsUp
  <2>1. /\ RoundFits(round[r], ask[r]) /\ CountsFit(round[r], ask[r])
        /\ round[r].queue = <<>> /\ InHand(ask[r]) = {}
        /\ round[r].answered \in Nat /\ round[r].failed \in Nat
    BY DEF RInv, RoundFits
  <2>2. Cardinality(InHand(ask[r])) = 0 /\ Len(round[r].queue) = 0 /\ Cardinality(Taken(ask[r])) \in Nat
    BY <2>1, FS_EmptySet, SeatsCount
  <2>3. /\ round[r].asked = Cardinality(Taken(ask[r]))
        /\ round[r].answered + round[r].failed = Cardinality(Taken(ask[r]))
        /\ round[r].asked + round[r].skipped = Cardinality(Seats)
    BY <2>1, <2>2 DEF CountsFit
  <2>4. \A s \in Seats : ask[r][s].times \in {0, 1}
    BY <2>1 DEF RoundFits, AskFits
  <2> QED BY <2>3, <2>4 DEF Taken
<1> QED BY <1>1, <1>2, RoundsAreKept, PTL DEF Spec

-----------------------------------------------------------------------------
(* The Stats logins.                                                        *)

RunFields == {"pc", "kept", "todo", "at", "login", "worth", "accounts", "unread", "listed", "vanished", "changes"}

\* What a profile holds, and what is kept under its name, was once in it.
KeptFits == /\ were \in [L!Profiles -> SUBSET L!Logins] /\ DOMAIN holds = L!Profiles /\ DOMAIN kept = L!Profiles
            /\ \A p \in L!Profiles : holds[p] # 0 => holds[p] \in were[p]
            /\ \A p \in L!Profiles : kept[p] # 0 => kept[p] \in were[p]

\* What a reading has of the profiles was in them.
ReadFits(kepts, at, login) == /\ \A p \in L!Profiles : kepts[p] # 0 => kepts[p] \in were[p]
                              /\ at # None => at \in L!Profiles /\ login \in were[at]

\* So was what it has in hand to keep.
WorthFits == /\ ReadFits(run.kept, run.at, run.login)
             /\ IsRecord(run, RunFields) /\ run.todo \subseteq L!Profiles
             /\ run.worth \in Seq([profile : L!Profiles, login : L!Logins])
             /\ \A i \in DOMAIN run.worth : run.worth[i].login \in were[run.worth[i].profile]

\* Nothing is said to be gone before what was read is compared.
GoneFits == /\ run.pc # "updating" => run.vanished = {}
            /\ OnlyAnAnswerMakesASeatVanish

LInv == KeptFits /\ WorthFits /\ GoneFits

LEMMA LoginsAtFirst == L!Init => LInv
<1> SUFFICES ASSUME L!Init  PROVE LInv
  OBVIOUS
<1>1. IsRecord(run, RunFields) /\ run.todo = {} /\ run.worth = <<>> /\ run.vanished = {}
      /\ run.at = None /\ run.kept = [p \in L!Profiles |-> 0]
  BY DEF L!Init, L!NoRun, IsRecord, RunFields
<1>2. /\ were \in [L!Profiles -> SUBSET L!Logins] /\ DOMAIN holds = L!Profiles /\ DOMAIN kept = L!Profiles
      /\ \A p \in L!Profiles : holds[p] = 0 /\ kept[p] = 0
  BY DEF L!Init
<1>3. KeptFits
  BY <1>2 DEF KeptFits
<1>4. WorthFits /\ GoneFits
  BY <1>1 DEF WorthFits, ReadFits, GoneFits, OnlyAnAnswerMakesASeatVanish, L!OnlyAnAnswerMakesASeatVanish
<1> QED BY <1>3, <1>4 DEF LInv

LEMMA WhatIsWorth ==
    ASSUME WorthFits
    PROVE  \A i \in DOMAIN run.worth : /\ run.worth[i].profile \in L!Profiles
                                       /\ run.worth[i].login \in were[run.worth[i].profile]
<1> DEFINE One == [profile : L!Profiles, login : L!Logins]
<1>1. \A one \in One : one.profile \in L!Profiles
  OBVIOUS
<1> HIDE DEF One
<1>2. run.worth \in Seq(One)
  BY DEF WorthFits, One
<1>3. \A i \in DOMAIN run.worth : run.worth[i] \in One
  BY <1>2
<1> QED BY <1>1, <1>3 DEF WorthFits

\* What was once in a profile was.
LEMMA MoreWere ==
    ASSUME LInv, were' \in [L!Profiles -> SUBSET L!Logins], \A p \in L!Profiles : were[p] \subseteq were'[p],
           UNCHANGED run
    PROVE  WorthFits'
<1>1. WorthFits
  BY DEF LInv
<1>2. \A i \in DOMAIN run.worth : run.worth[i].profile \in L!Profiles
  BY <1>1, WhatIsWorth
<1> QED BY <1>1, <1>2 DEF WorthFits, ReadFits, L!Profiles, L!Logins, IsRecord

LEMMA KeptStays == ASSUME LInv, UNCHANGED <<were, holds, kept>>  PROVE KeptFits'
BY DEF LInv, KeptFits, L!Profiles, L!Logins

LEMMA GoneStays == ASSUME LInv, UNCHANGED run  PROVE GoneFits'
BY DEF LInv, GoneFits, OnlyAnAnswerMakesASeatVanish, L!OnlyAnAnswerMakesASeatVanish, L!CannotPay, L!Range

\* A run that goes on, short of what it says is gone.
LEMMA TheRunGoesOn ==
    ASSUME LInv, UNCHANGED <<were, holds, kept>>, IsRecord(run', RunFields), run'.pc # "updating", run'.vanished = {},
           run'.todo \subseteq L!Profiles,
           run'.worth \in Seq([profile : L!Profiles, login : L!Logins]),
           \A i \in DOMAIN run'.worth : run'.worth[i].login \in were[run'.worth[i].profile],
           ReadFits(run'.kept, run'.at, run'.login)
    PROVE  LInv'
<1>1. WorthFits'
  BY DEF WorthFits, ReadFits, IsRecord, L!Profiles, L!Logins
<1>2. GoneFits'
  BY DEF GoneFits, OnlyAnAnswerMakesASeatVanish, L!OnlyAnAnswerMakesASeatVanish
<1> QED BY <1>1, <1>2, KeptStays DEF LInv

LEMMA TheWorldMoves == ASSUME LInv,
    (\E p \in L!Profiles : L!SignsIn(p) \/ L!IsKeptAgain(p)) \/ (\E l \in L!Logins : L!Expires(l))
      \/ (\E s \in L!AllNames : L!PlanChanges(s))
    PROVE LInv'
<1>0. KeptFits /\ UNCHANGED run
  BY DEF LInv, L!SignsIn, L!IsKeptAgain, L!Expires, L!PlanChanges
<1>1. ASSUME NEW p \in L!Profiles, L!SignsIn(p)  PROVE LInv'
  <2>1. PICK l \in L!Logins : holds' = [holds EXCEPT ![p] = l] /\ were' = [were EXCEPT ![p] = @ \union {l}]
    BY <1>1 DEF L!SignsIn
  <2>2. were' \in [L!Profiles -> SUBSET L!Logins] /\ \A q \in L!Profiles : were[q] \subseteq were'[q]
    BY <1>0, <2>1 DEF KeptFits
  <2>3. kept' = kept
    BY <1>1 DEF L!SignsIn
  <2>4. DOMAIN holds' = L!Profiles /\ \A q \in L!Profiles : holds'[q] # 0 => holds'[q] \in were'[q]
    BY <1>0, <2>1, <2>2 DEF KeptFits
  <2>5. KeptFits'
    BY <1>0, <2>2, <2>3, <2>4
    DEF KeptFits, L!Profiles, L!Logins
  <2> QED BY <1>0, <2>2, <2>5, MoreWere, GoneStays DEF LInv
<1>2. ASSUME NEW p \in L!Profiles, L!IsKeptAgain(p)  PROVE LInv'
  <2>1. PICK l \in were[p] : kept' = [kept EXCEPT ![p] = l]
    BY <1>2 DEF L!IsKeptAgain
  <2>2. UNCHANGED <<were, holds>>
    BY <1>2 DEF L!IsKeptAgain, L!world
  <2>3. KeptFits'
    BY <1>0, <2>1, <2>2
    DEF KeptFits, L!Profiles, L!Logins
  <2>4. were \in [L!Profiles -> SUBSET L!Logins]
    BY <1>0 DEF KeptFits
  <2>5. WorthFits'
    BY <1>0, <2>2, <2>4, MoreWere
  <2> QED BY <1>0, <2>3, <2>5, GoneStays DEF LInv
<1>3. ASSUME (\E l \in L!Logins : L!Expires(l)) \/ (\E s \in L!AllNames : L!PlanChanges(s))  PROVE LInv'
  <2>1. UNCHANGED <<were, holds, kept>>
    BY <1>3 DEF L!Expires, L!PlanChanges
  <2>2. were \in [L!Profiles -> SUBSET L!Logins]
    BY <1>0 DEF KeptFits
  <2>3. WorthFits'
    BY <1>0, <2>1, <2>2, MoreWere
  <2> QED BY <1>0, <2>1, <2>3, KeptStays, GoneStays DEF LInv
<1> QED BY <1>1, <1>2, <1>3

\* What is opened stands where it was locked.
LEMMA WhatOpens ==
    ASSUME NEW blobs, NEW locked, NEW opens, NEW i \in DOMAIN blobs
    PROVE  L!OpenAll(blobs, locked, opens)[i] \in {0, blobs[i]}
<1> DEFINE stood    == SelectSeq([j \in DOMAIN blobs |-> j], LAMBDA j : j \in locked)
           unlocked == [k \in DOMAIN stood |-> IF stood[k] \in opens THEN blobs[stood[k]] ELSE 0]
           mine     == {k \in DOMAIN stood : stood[k] = i}
<1>1. L!OpenAll(blobs, locked, opens)[i] =
        IF i \notin locked THEN blobs[i] ELSE IF mine = {} THEN 0 ELSE unlocked[CHOOSE k \in mine : TRUE]
  BY DEF L!OpenAll
<1> HIDE DEF stood
<1>2. mine # {} => (CHOOSE k \in mine : TRUE) \in mine
  OBVIOUS
<1>3. \A k \in mine : unlocked[k] \in {0, blobs[i]}
  OBVIOUS
<1> QED BY <1>1, <1>2, <1>3

LEMMA AReadingBegins == ASSUME LInv, L!Begins  PROVE LInv'
<1>0. KeptFits /\ WorthFits
  BY DEF LInv
<1>1. PICK names \in L!InSomeOrder({p \in L!Profiles : kept[p] # 0}), there \in SUBSET Snapshots :
        \E locked, opens \in SUBSET DOMAIN names :
          LET opened == L!OpenAll([i \in DOMAIN names |-> kept[names[i]]], locked, opens)
              open   == L!KeptUnder(names, opened) IN
          run' = [L!NoRun EXCEPT !.pc = "reading", !.kept = open,
                    !.todo = Windows \union there \union {p \in L!Profiles : open[p] # 0}]
  BY DEF L!Begins
<1>2. PICK locked \in SUBSET DOMAIN names, opens \in SUBSET DOMAIN names :
        LET opened == L!OpenAll([i \in DOMAIN names |-> kept[names[i]]], locked, opens)
            open   == L!KeptUnder(names, opened) IN
        run' = [L!NoRun EXCEPT !.pc = "reading", !.kept = open,
                  !.todo = Windows \union there \union {p \in L!Profiles : open[p] # 0}]
  BY <1>1
<1> DEFINE blobs  == [i \in DOMAIN names |-> kept[names[i]]]
           opened == L!OpenAll(blobs, locked, opens)
           open   == L!KeptUnder(names, opened)
<1>3. IsRecord(L!NoRun, RunFields) /\ L!NoRun.worth = <<>> /\ L!NoRun.vanished = {} /\ L!NoRun.at = None
  BY DEF L!NoRun, IsRecord, RunFields
<1>4. run' = [L!NoRun EXCEPT !.pc = "reading", !.kept = open,
                !.todo = Windows \union there \union {p \in L!Profiles : open[p] # 0}]
  BY <1>2
<1>5. ASSUME NEW p \in L!Profiles, open[p] # 0 PROVE open[p] \in were[p]
  <2> DEFINE mine == {i \in DOMAIN names : names[i] = p}
  <2>1. open[p] = IF mine = {} THEN 0 ELSE opened[CHOOSE i \in mine : TRUE]
    BY DEF L!KeptUnder
  <2>2. PICK i \in mine : open[p] = opened[i]
    BY <1>5, <2>1
  <2>3. opened[i] \in {0, blobs[i]}
    BY <2>2, WhatOpens
  <2>4. blobs[i] = kept[p]
    BY <2>2
  <2> HIDE DEF opened, open, blobs
  <2>5. open[p] = kept[p]
    BY <1>5, <2>2, <2>3, <2>4
  <2> QED BY <1>0, <1>5, <2>5 DEF KeptFits
<1> HIDE DEF opened, open, blobs
<1>6. /\ IsRecord(run', RunFields) /\ run'.pc = "reading" /\ run'.kept = open /\ run'.at = None
      /\ run'.todo = Windows \union there \union {p \in L!Profiles : open[p] # 0}
      /\ run'.worth = <<>> /\ run'.vanished = {}
  <2> HIDE DEF L!NoRun
  <2> QED BY <1>3, <1>4 DEF IsRecord, RunFields
<1>7. run'.todo \subseteq L!Profiles
  BY <1>6 DEF L!Profiles
<1>8. UNCHANGED <<were, holds, kept>>
  BY DEF L!Begins, L!world
<1>9. ReadFits(run'.kept, run'.at, run'.login)
  BY <1>5, <1>6 DEF ReadFits
<1> QED BY <1>6, <1>7, <1>8, <1>9, TheRunGoesOn

LEMMA AProfileIsOpened == ASSUME LInv, L!OpensAProfile  PROVE LInv'
<1>0. KeptFits /\ WorthFits /\ IsRecord(run, RunFields) /\ run.pc = "reading" /\ run.vanished = {} /\ run.todo \subseteq L!Profiles
  BY DEF LInv, WorthFits, GoneFits, L!OpensAProfile
<1>1. UNCHANGED <<were, holds, kept>>
  BY DEF L!OpensAProfile, L!world
<1> DEFINE One == [profile : L!Profiles, login : L!Logins]
<1>2. run.worth \in Seq(One) /\ \A i \in DOMAIN run.worth : run.worth[i].login \in were[run.worth[i].profile]
  BY <1>0 DEF WorthFits
<1>3. PICK p \in run.todo :
        LET next == [run EXCEPT !.todo = @ \ {p}] IN
        IF run.kept[p] # 0 THEN run' = [next EXCEPT !.at = p, !.login = run.kept[p]]
        ELSE \/ run' = L!IsUnread(next, p)
             \/ /\ holds[p] # 0
                /\ run' = [next EXCEPT !.at = p, !.login = holds[p],
                             !.worth = Append(@, [profile |-> p, login |-> holds[p]])]
  BY DEF L!OpensAProfile
<1> DEFINE next == [run EXCEPT !.todo = @ \ {p}]
           one  == [profile |-> p, login |-> holds[p]]
<1>4. /\ IsRecord(next, RunFields) /\ next.pc = "reading" /\ next.vanished = {}
      /\ next.todo \subseteq L!Profiles /\ next.worth = run.worth
  BY <1>0 DEF IsRecord, RunFields
<1>5. \/ run' = [next EXCEPT !.at = p, !.login = run.kept[p]]
      \/ run' = [next EXCEPT !.unread = Append(@, p), !.at = None, !.login = 0]
      \/ holds[p] # 0 /\ run' = [next EXCEPT !.at = p, !.login = holds[p], !.worth = Append(@, one)]
  BY <1>3 DEF L!IsUnread, L!Unread
<1> HIDE DEF next, one
<1>6. /\ IsRecord(run', RunFields) /\ run'.pc = "reading" /\ run'.vanished = {} /\ run'.todo = next.todo
      /\ run'.worth = run.worth \/ (holds[p] # 0 /\ run'.worth = Append(run.worth, one))
  BY <1>4, <1>5, ZenonT(60) DEF IsRecord, RunFields
<1>7. ASSUME holds[p] # 0, run'.worth = Append(run.worth, one)
      PROVE  /\ run'.worth \in Seq(One)
             /\ \A i \in DOMAIN run'.worth : run'.worth[i].login \in were[run'.worth[i].profile]
  <2>1. p \in L!Profiles /\ holds[p] \in were[p] /\ holds[p] \in L!Logins
    BY <1>0, <1>7 DEF KeptFits
  <2>2. one \in One /\ one.profile = p /\ one.login = holds[p]
    BY <2>1 DEF one
  <2> HIDE DEF One
  <2>3. /\ Append(run.worth, one) \in Seq(One) /\ Len(Append(run.worth, one)) = Len(run.worth) + 1
        /\ Len(run.worth) \in Nat
        /\ \A i \in 1..Len(run.worth) : Append(run.worth, one)[i] = run.worth[i]
        /\ Append(run.worth, one)[Len(run.worth) + 1] = one
    BY <1>2, <2>2, AppendProperties, LenProperties
  <2>4. \A i \in DOMAIN run'.worth : i \in DOMAIN run.worth \/ run'.worth[i] = one
    BY <1>2, <1>7, <2>3, LenProperties
  <2>5. \A i \in DOMAIN run.worth : run'.worth[i] = run.worth[i]
    BY <1>2, <1>7, <2>3, LenProperties
  <2> QED BY <1>2, <1>7, <2>1, <2>2, <2>3, <2>4, <2>5
<1>8. /\ run'.worth \in Seq(One)
      /\ \A i \in DOMAIN run'.worth : run'.worth[i].login \in were[run'.worth[i].profile]
  BY <1>2, <1>6, <1>7
<1>9. /\ run'.kept = run.kept
      /\ \/ run'.at = None
         \/ run'.at = p /\ run'.login = run.kept[p] /\ run.kept[p] # 0
         \/ run'.at = p /\ run'.login = holds[p] /\ holds[p] # 0
  <2>1. IsRecord(next, RunFields) /\ next.kept = run.kept
    BY <1>0 DEF next, IsRecord, RunFields
  <2>2. CASE run.kept[p] # 0
    <3>1. run' = [next EXCEPT !.at = p, !.login = run.kept[p]]
      BY <1>3, <2>2 DEF next
    <3> QED BY <2>1, <2>2, <3>1 DEF IsRecord, RunFields
  <2>3. CASE run.kept[p] = 0
    <3>1. \/ run' = [next EXCEPT !.unread = Append(@, p), !.at = None, !.login = 0]
          \/ holds[p] # 0 /\ run' = [next EXCEPT !.at = p, !.login = holds[p], !.worth = Append(@, one)]
      BY <1>3, <2>3 DEF next, one, L!IsUnread, L!Unread
    <3> QED BY <2>1, <3>1 DEF IsRecord, RunFields
  <2> QED BY <2>2, <2>3
<1>10. p \in L!Profiles
  BY <1>0
<1>11. ReadFits(run'.kept, run'.at, run'.login)
  BY <1>0, <1>9, <1>10 DEF ReadFits, WorthFits, KeptFits
<1> QED BY <1>1, <1>4, <1>6, <1>8, <1>11, TheRunGoesOn

LEMMA ClaudeAiAnswers == ASSUME LInv, L!AsksClaudeAi  PROVE LInv'
<1>0. WorthFits /\ IsRecord(run, RunFields) /\ run.pc = "reading" /\ run.vanished = {}
  BY DEF LInv, WorthFits, GoneFits, L!AsksClaudeAi
<1>1. UNCHANGED <<were, holds, kept>>
  BY DEF L!AsksClaudeAi, L!world
<1>2. \/ run' = [run EXCEPT !.unread = Append(@, run.at), !.at = None, !.login = 0]
      \/ run' = [run EXCEPT !.accounts = Append(@, L!AccountFrom(run.at, run.login)), !.at = None, !.login = 0]
  BY DEF L!AsksClaudeAi, L!IsUnread, L!Unread
<1>3. /\ IsRecord(run', RunFields) /\ run'.pc = "reading" /\ run'.vanished = {} /\ run'.todo = run.todo
      /\ run'.worth = run.worth /\ run'.kept = run.kept /\ run'.at = None
  BY <1>0, <1>2 DEF IsRecord, RunFields
<1>4. ReadFits(run'.kept, run'.at, run'.login)
  BY <1>0, <1>3 DEF ReadFits, WorthFits
<1> QED BY <1>0, <1>1, <1>3, <1>4, TheRunGoesOn DEF WorthFits

\* Whatever is locked of what is worth keeping is kept under the name it came from.
LEMMA TheyAreKept == ASSUME LInv, L!KeepsThem  PROVE LInv'
<1>0. KeptFits /\ WorthFits /\ IsRecord(run, RunFields) /\ run.pc = "reading" /\ run.vanished = {}
  BY DEF LInv, WorthFits, GoneFits, L!KeepsThem
<1>1. UNCHANGED <<were, holds>> /\ run' = [run EXCEPT !.pc = "read"]
  BY DEF L!KeepsThem, L!world
<1>2. /\ IsRecord(run', RunFields) /\ run'.pc = "read" /\ run'.vanished = {} /\ run'.todo = run.todo
      /\ run'.worth = run.worth /\ run'.kept = run.kept /\ run'.at = run.at /\ run'.login = run.login
  BY <1>0, <1>1 DEF IsRecord, RunFields
<1>3. WorthFits'
  BY <1>0, <1>1, <1>2 DEF WorthFits, ReadFits, L!Profiles, L!Logins, IsRecord
<1>4. GoneFits'
  BY <1>2 DEF GoneFits, OnlyAnAnswerMakesASeatVanish, L!OnlyAnAnswerMakesASeatVanish
<1>5. CASE kept' = kept
  BY <1>1, <1>3, <1>4, <1>5, KeptStays DEF LInv
<1>6. ASSUME NEW locked \in SUBSET L!Range(run.worth), kept' = L!KeptWith(run.worth, locked)  PROVE LInv'
  <2>1. \A one \in locked : one.profile \in L!Profiles /\ one.login \in were[one.profile]
    BY <1>0, WhatIsWorth DEF L!Range
  <2>2. \A p \in L!Profiles : kept'[p] = kept[p] \/ kept'[p] \in were[p]
    <3> SUFFICES ASSUME NEW p \in L!Profiles  PROVE kept'[p] = kept[p] \/ kept'[p] \in were[p]
      OBVIOUS
    <3> DEFINE mine == {one \in locked : one.profile = p}
    <3>1. kept'[p] = IF mine = {} THEN kept[p] ELSE (CHOOSE one \in mine : TRUE).login
      BY <1>6 DEF L!KeptWith
    <3>2. mine # {} => (CHOOSE one \in mine : TRUE) \in mine
      OBVIOUS
    <3> QED BY <2>1, <3>1, <3>2
  <2>3. DOMAIN kept' = L!Profiles
    BY <1>6 DEF L!KeptWith
  <2>4. KeptFits'
    BY <1>0, <1>1, <2>2, <2>3 DEF KeptFits, L!Profiles, L!Logins
  <2> QED BY <1>3, <1>4, <2>4 DEF LInv
<1> QED BY <1>5, <1>6 DEF L!KeepsThem

\* A Seat that the answers of its account do not list is not among those they do.
LEMMA WhatIsNotWantedCannotPay ==
    ASSUME NEW accounts, NEW s \in L!AllNames, s \notin {w.seat : w \in L!SeatsFrom(accounts)},
           NEW a \in L!Range(accounts), a.account = s[1], s[2] \in DOMAIN a.organizations
    PROVE  L!CannotPay(a.organizations[s[2]])
<1> SUFFICES ASSUME ~L!CannotPay(a.organizations[s[2]])  PROVE FALSE
  OBVIOUS
<1> DEFINE o == s[2]
           w == [seat |-> <<a.account, o>>,
                 multiplier |-> IF L!MultiplierFrom(a.organizations[o]) = None THEN L!WhenUnknown
                                ELSE a.organizations[o]]
<1>1. w \in L!SeatsFrom(accounts)
  BY DEF L!SeatsFrom
<1>2. w.seat = <<a.account, o>>
  OBVIOUS
<1>3. s = <<a.account, o>>
  BY DEF L!AllNames
<1> QED BY <1>1, <1>2, <1>3

LEMMA TheyAreCompared == ASSUME LInv, L!Compares  PROVE LInv'
<1> DEFINE wanted == L!SeatsFrom(run.accounts)
           names  == {w.seat : w \in wanted}
           mine   == {s \in L!AllNames : held[s] # None}
           gone   == {s \in mine \ names : s[1] \in L!AccountsRead(run)}
<1>0. WorthFits /\ IsRecord(run, RunFields)
  BY DEF LInv, WorthFits
<1>1. /\ UNCHANGED <<were, holds, kept>>
      /\ run' = [run EXCEPT !.pc = "updating", !.listed = mine,
                   !.changes = {w \in wanted : w.seat \in mine /\ held[w.seat] # w.multiplier},
                   !.vanished = gone]
  BY DEF L!Compares, L!world
<1>2. /\ IsRecord(run', RunFields) /\ run'.pc = "updating" /\ run'.vanished = gone /\ run'.todo = run.todo
      /\ run'.worth = run.worth /\ run'.kept = run.kept /\ run'.at = run.at /\ run'.login = run.login /\ run'.accounts = run.accounts
  <2> HIDE DEF mine, wanted, gone
  <2> QED BY <1>0, <1>1 DEF IsRecord, RunFields
<1>3. WorthFits'
  <2> HIDE DEF gone
  <2> QED BY <1>0, <1>1, <1>2 DEF WorthFits, ReadFits, L!Profiles, L!Logins, IsRecord
<1>4. ASSUME NEW s \in gone
      PROVE  /\ \E a \in L!Range(run.accounts) : a.account = s[1]
             /\ \A a \in L!Range(run.accounts) :
                  a.account = s[1] /\ s[2] \in DOMAIN a.organizations => L!CannotPay(a.organizations[s[2]])
  <2>1. s \in L!AllNames /\ s \notin names /\ s[1] \in L!AccountsRead(run)
    OBVIOUS
  <2> HIDE DEF gone
  <2>2. \E a \in L!Range(run.accounts) : a.account = s[1]
    BY <2>1 DEF L!AccountsRead
  <2> QED BY <2>1, <2>2, WhatIsNotWantedCannotPay
<1>5. GoneFits'
  <2> HIDE DEF gone
  <2> QED BY <1>2, <1>4 DEF GoneFits, OnlyAnAnswerMakesASeatVanish, L!OnlyAnAnswerMakesASeatVanish, L!Range, L!CannotPay
<1> QED BY <1>1, <1>3, <1>5, KeptStays DEF LInv

LEMMA TheyAreUpdated == ASSUME LInv, L!Updates \/ L!Ends  PROVE LInv'
<1>0. WorthFits /\ GoneFits /\ IsRecord(run, RunFields)
  BY DEF LInv, WorthFits
<1>1. UNCHANGED <<were, holds, kept>>
  BY DEF L!Updates, L!Ends, L!world
<1>2. CASE L!Updates
  <2>1. PICK c : run' = [run EXCEPT !.changes = {d \in @ : d.seat # c.seat}]
    BY <1>2 DEF L!Updates
  <2>2. /\ IsRecord(run', RunFields) /\ run'.pc = run.pc /\ run'.vanished = run.vanished /\ run'.todo = run.todo
        /\ run'.worth = run.worth /\ run'.kept = run.kept /\ run'.at = run.at /\ run'.login = run.login /\ run'.accounts = run.accounts
    BY <1>0, <2>1 DEF IsRecord, RunFields
  <2>3. WorthFits'
    BY <1>0, <1>1, <2>2 DEF WorthFits, ReadFits, L!Profiles, L!Logins, IsRecord
  <2>4. GoneFits'
    BY <1>0, <2>2 DEF GoneFits, OnlyAnAnswerMakesASeatVanish, L!OnlyAnAnswerMakesASeatVanish, L!Range, L!CannotPay
  <2> QED BY <1>1, <2>3, <2>4, KeptStays DEF LInv
<1>3. CASE L!Ends
  <2>1. /\ IsRecord(run', RunFields) /\ run'.pc = "idle" /\ run'.todo = {} /\ run'.worth = <<>>
        /\ run'.vanished = {} /\ run'.at = None /\ run'.kept = [p \in L!Profiles |-> 0]
    BY <1>3 DEF L!Ends, L!NoRun, IsRecord, RunFields
  <2>2. ReadFits(run'.kept, run'.at, run'.login)
    BY <2>1 DEF ReadFits
  <2> QED BY <1>1, <2>1, <2>2, TheRunGoesOn
<1> QED BY <1>2, <1>3

LEMMA LoginSteps == ASSUME LInv, L!Next  PROVE LInv'
BY TheWorldMoves, AReadingBegins, AProfileIsOpened, ClaudeAiAnswers, TheyAreKept, TheyAreCompared, TheyAreUpdated
DEF L!Next

LEMMA LoginsAreKept == LInv /\ [Next]_vars => LInv'
<1> SUFFICES ASSUME LInv, [Next]_vars  PROVE LInv'
  OBVIOUS
<1>1. CASE L!Next
  BY <1>1, LoginSteps
<1>2. CASE UNCHANGED logins
  <2>1. UNCHANGED <<were, holds, kept, run>>
    BY <1>2 DEF logins
  <2>2. were \in [L!Profiles -> SUBSET L!Logins]
    BY DEF LInv, KeptFits
  <2> QED BY <2>1, <2>2, KeptStays, MoreWere, GoneStays DEF LInv
<1> QED BY <1>1, <1>2 DEF Next, vars

\* Logins that would not open or lock leave gaps, and no login is kept under the name of a
\* profile it was not in, or read as that of one (src/stats-login, openAll and lockAll).
THEOREM ALoginIsKeptUnderItsName == Spec => []AKeptLoginIsItsProfiles
<1>1. Init => LInv
  BY LoginsAtFirst DEF Init
<1>2. LInv => AKeptLoginIsItsProfiles
  BY DEF LInv, KeptFits, WorthFits, ReadFits, AKeptLoginIsItsProfiles, L!AKeptLoginIsItsProfiles
<1> QED BY <1>1, <1>2, LoginsAreKept, PTL DEF Spec

\* A Seat that is said to be gone is of an account that answered, and no answer of that
\* account has it among those that can pay (src/worklist).
THEOREM OnlyAnAnswerEndsASeat == Spec => []OnlyAnAnswerMakesASeatVanish
<1>1. Init => LInv
  BY LoginsAtFirst DEF Init
<1>2. LInv => OnlyAnAnswerMakesASeatVanish
  BY DEF LInv, GoneFits
<1> QED BY <1>1, <1>2, LoginsAreKept, PTL DEF Spec

-----------------------------------------------------------------------------
(* The log.                                                                 *)

\* The two files are the end of what was written, and a full one is kept where anything has
\* gone from them.
FilesFit ==
    /\ log \in Seq(J!Lines) /\ old \in Seq(J!Lines)
    /\ \E gone \in Seq(J!Lines) : written = gone \o (old \o log) /\ (gone # <<>> => old # <<>>)

\* Every line takes something, and only one that stands alone takes too much.
BytesFit ==
    /\ sizes \in [live : Nat, kept : Nat] /\ live \in Nat
    /\ log # <<>> <=> sizes.live > 0
    /\ Len(log) > 1 => sizes.live <= LiveAtMost
    /\ Len(old) > 1 => sizes.kept <= LiveAtMost

\* What is counted is what is there while the file is open, and what is about to be written
\* fits, or will stand alone.
TurnFits ==
    /\ queue \in Seq(Nat) /\ said \in Nat
    /\ handle => live = sizes.live
    /\ turn \in {"counting", "writing"} => handle
    /\ turn = "rotating" => live = sizes.live /\ live > 0
    /\ turn = "reopening" => sizes.live = 0
    /\ turn # "opening" => queue # <<>>

RoomFits == turn = "writing" =>
    \A line \in J!Lines : J!InHand(line) => live = 0 \/ live + SizeOf[line] <= LiveAtMost

JInv == FilesFit /\ BytesFit /\ TurnFits /\ RoomFits

LEMMA JournalAtFirst == J!Init => JInv
<1> SUFFICES ASSUME J!Init  PROVE JInv
  OBVIOUS
<1>1. /\ log = <<>> /\ old = <<>> /\ written = <<>> /\ live = 0 /\ turn = "opening"
      /\ sizes = [live |-> 0, kept |-> 0] /\ queue = <<>> /\ said = 0 /\ handle = FALSE
  BY DEF J!Init
<1>2. <<>> \in Seq(J!Lines) /\ <<>> = <<>> \o (<<>> \o <<>>)
  OBVIOUS
<1>3. \E gone \in Seq(J!Lines) : written = gone \o (old \o log) /\ (gone # <<>> => old # <<>>)
  <2>1. written = <<>> \o (old \o log)
    BY <1>1, <1>2
  <2> QED BY <1>2, <2>1
<1>4. FilesFit
  BY <1>1, <1>2, <1>3 DEF FilesFit
<1>5. BytesFit
  BY <1>1 DEF BytesFit
<1>6. TurnFits
  BY <1>1 DEF TurnFits
<1>7. RoomFits
  BY <1>1 DEF RoomFits
<1> QED BY <1>4, <1>5, <1>6, <1>7 DEF JInv

\* A step that leaves the files alone.
LEMMA TheFilesStay ==
    ASSUME JInv, UNCHANGED <<log, old, sizes, written>>, live' \in Nat
    PROVE  FilesFit' /\ BytesFit'
BY DEF JInv, FilesFit, BytesFit, J!Lines

LEMMA ItIsOpened == ASSUME JInv, J!Opens \/ J!Counts \/ J!Reopens  PROVE JInv'
<1>1. UNCHANGED <<log, old, sizes, written, said>>
  BY DEF J!Opens, J!Counts, J!Reopens, J!disk
<1>2. PICK line \in J!Lines : J!InHand(line)
  BY DEF J!Opens, J!Counts, J!Reopens
<1>3. queue # <<>> /\ queue \in Seq(Nat) /\ said \in Nat /\ Tail(queue) \in Seq(Nat)
  BY <1>2 DEF JInv, TurnFits, J!InHand
<1>4. sizes.live \in Nat /\ live \in Nat
  BY DEF JInv, BytesFit
<1>5. CASE J!Opens
  <2>1. live' = live \/ live' = sizes.live
    BY <1>5 DEF J!Opens, J!SizeOnDisk
  <2>2. RoomFits'
    BY <1>5 DEF J!Opens, J!Over, RoomFits
  <2>3. TurnFits'
    <3>1. CASE turn' = "counting" /\ handle' = TRUE /\ live' = (IF handle THEN live ELSE sizes.live) /\ queue' = queue
      BY <1>1, <1>3, <3>1 DEF JInv, TurnFits
    <3>2. CASE turn' = "opening" /\ ~handle' /\ queue' = Tail(queue)
      BY <1>1, <1>3, <3>2 DEF TurnFits
    <3>3. PICK new \in J!Lines :
            \/ ~handle /\ queue' = Tail(queue) /\ turn' = "opening" /\ handle' = handle
            \/ /\ live' = (IF handle THEN live ELSE sizes.live)
               /\ handle' = TRUE /\ turn' = "counting" /\ queue' = queue
      BY <1>5 DEF J!Opens, J!Over, J!SizeOnDisk
    <3> QED BY <3>1, <3>2, <3>3
  <2> QED BY <1>1, <1>4, <2>1, <2>2, <2>3, TheFilesStay DEF JInv
<1>6. CASE J!Reopens
  <2>1. live' = live \/ live' = sizes.live
    BY <1>6 DEF J!Reopens, J!SizeOnDisk
  <2>2. sizes.live = 0
    BY <1>6 DEF J!Reopens, JInv, TurnFits
  <2>3. RoomFits'
    BY <1>6, <2>2 DEF J!Reopens, J!Over, J!SizeOnDisk, RoomFits
  <2>4. TurnFits'
    <3>1. CASE turn' = "writing" /\ handle' = TRUE /\ live' = sizes.live /\ queue' = queue
      BY <1>1, <1>3, <3>1 DEF TurnFits
    <3>2. CASE turn' = "opening" /\ UNCHANGED <<handle, live>> /\ queue' = Tail(queue)
      BY <1>1, <1>3, <3>2 DEF JInv, TurnFits
    <3> QED BY <1>6, <3>1, <3>2 DEF J!Reopens, J!Over, J!SizeOnDisk
  <2> QED BY <1>1, <1>4, <2>1, <2>3, <2>4, TheFilesStay DEF JInv
<1>7. CASE J!Counts
  <2>1. PICK new \in J!Lines :
          /\ J!InHand(new) /\ turn = "counting" /\ UNCHANGED <<live, queue>>
          /\ IF J!WouldBeOver(new) THEN turn' = "rotating" /\ handle' = FALSE
             ELSE turn' = "writing" /\ UNCHANGED handle
    BY <1>7 DEF J!Counts
  <2>2. handle /\ live = sizes.live
    BY <2>1 DEF JInv, TurnFits
  <2>3. J!WouldBeOver(new) => live > 0
    BY DEF J!WouldBeOver
  <2>4. TurnFits'
    BY <1>1, <1>3, <2>1, <2>2, <2>3 DEF TurnFits
  <2>5. RoomFits'
    <3>1. CASE J!WouldBeOver(new)
      BY <2>1, <3>1 DEF RoomFits
    <3>2. CASE ~J!WouldBeOver(new)
      <4>1. SizeOf[new] \in Nat
        BY <2>1, SizesAssumption DEF J!Lines
      <4>2. live = 0 \/ live + SizeOf[new] <= LiveAtMost
        BY <1>4, <3>2, <4>1, BoundAssumption DEF J!WouldBeOver
      <4>3. \A other \in J!Lines : J!InHand(other)' => other = new
        BY <2>1 DEF J!InHand
      <4> QED BY <2>1, <4>2, <4>3 DEF RoomFits
    <3> QED BY <3>1, <3>2
  <2> QED BY <1>1, <1>4, <2>1, <2>4, <2>5, TheFilesStay DEF JInv
<1> QED BY <1>5, <1>6, <1>7

\* The live file becomes the kept one, and what was kept is let go.
LEMMA ItIsTurnedOver == ASSUME JInv, J!Rotates  PROVE JInv'
<1>1. PICK gone \in Seq(J!Lines) : written = gone \o (old \o log) /\ (gone # <<>> => old # <<>>)
  BY DEF JInv, FilesFit
<1>2. written' = written /\ turn = "rotating" /\ UNCHANGED <<handle, said>> /\ queue # <<>>
  BY DEF J!Rotates, J!InHand
<1>3. /\ log # <<>> /\ log \in Seq(J!Lines) /\ old \in Seq(J!Lines)
      /\ queue \in Seq(Nat) /\ Tail(queue) \in Seq(Nat) /\ sizes \in [live : Nat, kept : Nat]
      /\ live = sizes.live /\ live \in Nat /\ live > 0
  BY <1>2 DEF JInv, FilesFit, BytesFit, TurnFits
<1>4. CASE UNCHANGED <<log, old, sizes, live>> /\ J!Over
  <2>1. turn' = "opening" /\ queue' = Tail(queue)
    BY <1>4 DEF J!Over
  <2>2. TurnFits'
    BY <1>2, <1>3, <1>4, <2>1 DEF JInv, TurnFits
  <2>3. RoomFits'
    BY <2>1 DEF RoomFits
  <2> QED BY <1>2, <1>3, <1>4, <2>2, <2>3, TheFilesStay DEF JInv
<1>5. CASE /\ old' = log /\ log' = <<>> /\ live' = 0 /\ turn' = "reopening" /\ queue' = queue
           /\ sizes' = [live |-> 0, kept |-> sizes.live]
  <2> DEFINE let == gone \o old
  <2> gone \in Seq(J!Lines) /\ old \in Seq(J!Lines) /\ log \in Seq(J!Lines)
    BY <1>1, <1>3
  <2>1. let \in Seq(J!Lines)
    BY ConcatProperties
  <2>2. written' = let \o (old' \o log')
    <3>1. gone \o (old \o log) = (gone \o old) \o log
      BY ConcatAssociative
    <3>2. log \o <<>> = log
      BY <1>3, ConcatEmptySeq
    <3> QED BY <1>1, <1>2, <1>5, <3>1, <3>2
  <2>3. old' # <<>> /\ old' \in Seq(J!Lines) /\ log' \in Seq(J!Lines)
    BY <1>3, <1>5
  <2> HIDE DEF let
  <2>4. FilesFit'
    BY <2>1, <2>2, <2>3 DEF FilesFit, J!Lines
  <2>5. BytesFit'
    BY <1>3, <1>5 DEF JInv, BytesFit
  <2>6. TurnFits'
    BY <1>2, <1>3, <1>5 DEF JInv, TurnFits
  <2>7. RoomFits'
    BY <1>5 DEF RoomFits
  <2> QED BY <2>4, <2>5, <2>6, <2>7 DEF JInv
<1> QED BY <1>4, <1>5 DEF J!Rotates, J!Kept

\* What is appended to the last of three is appended to them all.
LEMMA AppendedLast ==
    ASSUME NEW e \in J!Lines
    PROVE  \A a, b, c \in Seq(J!Lines) : Append(a \o (b \o c), e) = a \o (b \o Append(c, e))
<1>1. ASSUME NEW x \in Seq(J!Lines), NEW y \in Seq(J!Lines)  PROVE Append(x \o y, e) = x \o Append(y, e)
  OBVIOUS
<1>2. ASSUME NEW a \in Seq(J!Lines), NEW b \in Seq(J!Lines), NEW c \in Seq(J!Lines)
      PROVE  Append(a \o (b \o c), e) = a \o (b \o Append(c, e))
  <2>1. b \o c \in Seq(J!Lines)
    BY ConcatProperties
  <2>2. Append(a \o (b \o c), e) = a \o Append(b \o c, e)
    BY <1>1, <2>1, Zenon
  <2>3. Append(b \o c, e) = b \o Append(c, e)
    BY <1>1, Zenon
  <2> QED BY <2>2, <2>3, Zenon
<1> QED BY <1>2

LEMMA ALineIsWritten == ASSUME JInv, J!Writes  PROVE JInv'
<1>1. PICK gone \in Seq(J!Lines) : written = gone \o (old \o log) /\ (gone # <<>> => old # <<>>)
  BY DEF JInv, FilesFit
<1>2. /\ turn = "writing" /\ turn' = "opening" /\ queue' = Tail(queue) /\ queue # <<>>
      /\ UNCHANGED <<handle, said>>
  BY DEF J!Writes, J!Over, J!InHand
<1>3. /\ log \in Seq(J!Lines) /\ old \in Seq(J!Lines)
      /\ queue \in Seq(Nat) /\ Tail(queue) \in Seq(Nat) /\ sizes \in [live : Nat, kept : Nat]
      /\ handle /\ live = sizes.live /\ live \in Nat
  BY <1>2 DEF JInv, FilesFit, BytesFit, TurnFits
<1>4. PICK line \in J!Lines :
        /\ J!InHand(line)
        /\ \/ UNCHANGED <<log, old, sizes, written, live>>
           \/ /\ log' = Append(log, line) /\ written' = Append(written, line) /\ UNCHANGED old
              /\ sizes' = [sizes EXCEPT !.live = @ + SizeOf[line]] /\ live' = live + SizeOf[line]
  BY DEF J!Writes, J!disk
<1>5. SizeOf[line] \in Nat \ {0}
  BY <1>4, SizesAssumption DEF J!Lines
<1>6. live' \in Nat /\ live' = sizes'.live
  BY <1>3, <1>4, <1>5
<1>7. TurnFits' /\ RoomFits'
  BY <1>2, <1>3, <1>6 DEF JInv, TurnFits, RoomFits
<1>8. CASE UNCHANGED <<log, old, sizes, written, live>>
  BY <1>3, <1>7, <1>8, TheFilesStay DEF JInv
<1>9. CASE /\ log' = Append(log, line) /\ written' = Append(written, line) /\ UNCHANGED old
           /\ sizes' = [sizes EXCEPT !.live = @ + SizeOf[line]]
  <2>1. log' \in Seq(J!Lines) /\ log' # <<>> /\ Len(log') = Len(log) + 1
    BY <1>3, <1>9, AppendProperties
  <2>2. written' = gone \o (old' \o log')
    <3>1. gone \in Seq(J!Lines) /\ old \in Seq(J!Lines) /\ log \in Seq(J!Lines)
      BY <1>1, <1>3
    <3>2. Append(gone \o (old \o log), line) = gone \o (old \o Append(log, line))
      <4>1. \A a, b, c \in Seq(J!Lines) : Append(a \o (b \o c), line) = a \o (b \o Append(c, line))
        BY AppendedLast, Zenon
      <4> QED BY <3>1, <4>1, Zenon
    <3> QED BY <1>1, <1>9, <3>2
  <2>3. FilesFit'
    BY <1>1, <1>3, <1>9, <2>1, <2>2 DEF FilesFit, J!Lines
  <2>4. Len(log') > 1 => sizes'.live <= LiveAtMost
    <3>1. live = 0 \/ live + SizeOf[line] <= LiveAtMost
      BY <1>2, <1>4 DEF JInv, RoomFits
    <3>2. live = 0 => log = <<>>
      BY <1>3 DEF JInv, BytesFit
    <3>3. log = <<>> => ~(Len(log') > 1)
      BY <2>1
    <3>4. sizes'.live = live + SizeOf[line]
      BY <1>3, <1>9
    <3> QED BY <3>1, <3>2, <3>3, <3>4, Zenon
  <2>5. sizes' \in [live : Nat, kept : Nat] /\ sizes'.live > 0 /\ sizes'.kept = sizes.kept
    <3>1. sizes \in [live : Nat, kept : Nat]
      BY <1>3
    <3>2. PICK n : n = sizes.live + SizeOf[line] /\ n \in Nat /\ n > 0
      BY <1>5, <3>1
    <3>3. sizes' = [sizes EXCEPT !.live = n]
      BY <1>9, <3>2
    <3> QED BY <3>1, <3>2, <3>3
  <2>6. BytesFit'
    BY <1>6, <1>9, <2>1, <2>4, <2>5 DEF JInv, BytesFit
  <2> QED BY <1>7, <2>3, <2>6 DEF JInv
<1> QED BY <1>4, <1>8, <1>9

LEMMA JournalSteps == ASSUME JInv, J!Next  PROVE JInv'
<1>1. /\ queue \in Seq(Nat) /\ said \in Nat /\ live \in Nat /\ 0 \in Nat
      /\ queue # <<>> => Tail(queue) \in Seq(Nat)
  BY DEF JInv, BytesFit, TurnFits
<1>2. CASE J!Say \/ J!Close
  <2>1. UNCHANGED <<log, old, sizes, written, handle, live, turn>>
    BY <1>2 DEF J!Say, J!Close, J!disk
  <2>2. PICK new \in Nat : queue' = Append(queue, new)
    BY <1>1, <1>2 DEF J!Say, J!Close, J!Closing
  <2>3. said' \in Nat
    BY <1>1, <1>2 DEF J!Say, J!Close
  <2>4. queue' \in Seq(Nat) /\ queue' # <<>> /\ (queue # <<>> => Head(queue') = Head(queue))
    BY <1>1, <2>2
  <2>5. turn = "writing" => queue # <<>>
    BY DEF JInv, TurnFits
  <2>6. turn = "writing" => \A line \in J!Lines : J!InHand(line)' => J!InHand(line)
    BY <2>4, <2>5 DEF J!InHand
  <2>7. RoomFits'
    BY <2>1, <2>6 DEF JInv, RoomFits, J!Lines
  <2>8. TurnFits'
    BY <2>1, <2>3, <2>4 DEF JInv, TurnFits
  <2> QED BY <1>1, <2>1, <2>7, <2>8, TheFilesStay DEF JInv
<1>3. CASE J!Closes \/ J!Restarts
  <2>1. UNCHANGED <<log, old, sizes, written, said>> /\ (live' = live \/ live' = 0)
    BY <1>3 DEF J!Closes, J!Restarts, J!disk
  <2>2. turn' = "opening" /\ handle' = FALSE
    BY <1>3 DEF J!Closes, J!Restarts, J!Over
  <2>3. queue' \in Seq(Nat)
    <3>1. CASE J!Closes
      <4>1. queue # <<>> /\ queue' = Tail(queue)
        BY <3>1 DEF J!Closes, J!Over, J!InHand
      <4> QED BY <1>1, <4>1
    <3>2. CASE J!Restarts
      <4>1. queue' = <<>>
        BY <3>2 DEF J!Restarts
      <4> QED BY <4>1
    <3> QED BY <1>3, <3>1, <3>2
  <2>4. TurnFits' /\ RoomFits'
    BY <1>1, <2>1, <2>2, <2>3 DEF TurnFits, RoomFits
  <2> QED BY <1>1, <2>1, <2>4, TheFilesStay DEF JInv
<1> QED BY <1>2, <1>3, ItIsOpened, ItIsTurnedOver, ALineIsWritten DEF J!Next

\* The end of a sequence is all of it from some point on.
LEMMA TheEndOfIt ==
    ASSUME NEW S, NEW s \in Seq(S), NEW t \in Seq(S)
    PROVE  /\ Len(s) \in 0..Len(s \o t)
           /\ t = SubSeq(s \o t, Len(s) + 1, Len(s \o t))
<1>1. /\ s \o t \in Seq(S) /\ Len(s \o t) = Len(s) + Len(t) /\ Len(s) \in Nat /\ Len(t) \in Nat
      /\ \A i \in 1..Len(s) + Len(t) : (s \o t)[i] = IF i <= Len(s) THEN s[i] ELSE t[i - Len(s)]
  BY ConcatProperties, LenProperties
<1> DEFINE all == s \o t
           end == SubSeq(all, Len(s) + 1, Len(all))
<1> HIDE DEF all
<1>2. \A i \in Len(s) + 1 .. Len(all) : all[i] \in S
  <2>1. \A i \in 1..Len(all) : all[i] \in S
    BY <1>1, ElementOfSeq DEF all
  <2> QED BY <1>1, <2>1 DEF all
<1>3. /\ end \in Seq(S)
      /\ Len(end) = IF Len(s) + 1 <= Len(all) THEN Len(all) - (Len(s) + 1) + 1 ELSE 0
      /\ \A i \in 1 .. Len(all) - (Len(s) + 1) + 1 : end[i] = all[(Len(s) + 1) + i - 1]
  <2>1. Len(s) + 1 \in Int /\ Len(all) \in Int
    BY <1>1 DEF all
  <2> QED BY <1>2, <2>1, SubSeqProperties
<1> HIDE DEF end
<1>4. Len(end) = Len(t)
  BY <1>1, <1>3 DEF all
<1>5. \A i \in 1..Len(end) : end[i] = t[i]
  <2> SUFFICES ASSUME NEW i \in 1..Len(end)  PROVE end[i] = t[i]
    OBVIOUS
  <2>1. i \in Nat /\ i >= 1 /\ i <= Len(t)
    BY <1>1, <1>4
  <2>2. end[i] = all[Len(s) + i]
    <3>1. i \in 1 .. Len(all) - (Len(s) + 1) + 1 /\ (Len(s) + 1) + i - 1 = Len(s) + i
      BY <1>1, <2>1 DEF all
    <3> QED BY <1>3, <3>1
  <2>3. all[Len(s) + i] = t[i]
    BY <1>1, <2>1 DEF all
  <2> QED BY <2>2, <2>3
<1>6. end = t
  BY <1>3, <1>4, <1>5, SeqEqual
<1> QED BY <1>1, <1>6 DEF end, all

LEMMA TheJournalIsKept == JInv /\ [Next]_vars => JInv'
<1> SUFFICES ASSUME JInv, [Next]_vars  PROVE JInv'
  OBVIOUS
<1>1. CASE J!Next
  BY <1>1, JournalSteps
<1>2. CASE UNCHANGED journal
  <2>1. UNCHANGED <<log, old, sizes, handle, live, queue, turn, said, written>>
    BY <1>2 DEF journal
  <2>2. TurnFits' /\ RoomFits'
    BY <2>1 DEF JInv, TurnFits, RoomFits, J!InHand, J!Lines
  <2>3. live' \in Nat
    BY <2>1 DEF JInv, BytesFit
  <2> QED BY <2>1, <2>2, <2>3, TheFilesStay DEF JInv
<1> QED BY <1>1, <1>2 DEF Next, vars

\* No line said before a rotation is lost by it, but for the older half of everything there
\* is, and neither file is over its half of the bound but for one line alone, through files
\* that will not open, rotations that fail and restarts (openJournal), whatever the lines
\* take and the bound is.
THEOREM TheEndIsKept == Spec => []TheTwoFilesAreTheEnd
<1>1. Init => JInv
  BY JournalAtFirst DEF Init
<1>2. JInv => TheTwoFilesAreTheEnd
  <2> SUFFICES ASSUME JInv
               PROVE  /\ \E n \in 0..Len(written) : old \o log = SubSeq(written, n + 1, Len(written))
                      /\ old \o log # written => old # <<>>
    BY DEF TheTwoFilesAreTheEnd, J!TheTwoFilesAreTheEnd, JInv, BytesFit
  <2>1. PICK gone \in Seq(J!Lines) : written = gone \o (old \o log) /\ (gone # <<>> => old # <<>>)
    BY DEF JInv, FilesFit
  <2>2. old \o log \in Seq(J!Lines)
    BY ConcatProperties DEF JInv, FilesFit
  <2>3. Len(gone) \in 0..Len(written) /\ old \o log = SubSeq(written, Len(gone) + 1, Len(written))
    BY <2>1, <2>2, TheEndOfIt
  <2>4. gone = <<>> => old \o log = written
    BY <2>1, <2>2, ConcatEmptySeq
  <2> QED BY <2>1, <2>3, <2>4
<1> QED BY <1>1, <1>2, TheJournalIsKept, PTL DEF Spec

-----------------------------------------------------------------------------
(* The Proving Window.                                                      *)

WindowFields == {"control", "session", "older"}
ClaimFields  == {"session", "beside"}
SetUpFields  == {"kind", "at"}
CopyFields   == {"kind", "at", "from", "beside"}
LogFields    == {"here", "kept", "turned"}

ProvingTypes ==
    /\ window # None => IsRecord(window, WindowFields)
    /\ \/ command = P!NoCommand
       \/ IsRecord(command, SetUpFields) /\ command.kind \in {"set up", "tear down"}
       \/ IsRecord(command, CopyFields) /\ command.kind = "copy login"
    /\ IsRecord(logged, LogFields) /\ logged.turned \in 0..2

\* Nobody else writes the session back: no Window is open beside the copying, and what is
\* open after it has the session in it.
AsCopied ==
    /\ claimed # None /\ ~claimed.beside =>
         ours = claimed.session /\ (window # None => window.session = ours)
    /\ command.kind = "copy login" /\ command.at \in {"reads", "copies", "reads back"} /\ ~command.beside =>
         window = None

\* While a path is under way the control is armed, and a Window without it is an older one.
UnderTheControl ==
    /\ started # None => P!Armed
    /\ P!Armed /\ window # None => window.control \/ window.older
    /\ "round" \in did => started \in Apart

\* What another paid for is in one of the two files until both have turned over.
AnotherIsLogged ==
    /\ "later" \in another => "mismatch" \in logged.here \union logged.kept \/ logged.turned = 2
    /\ logged.kept # {} => logged.turned # 0

PInv == ProvingTypes /\ AsCopied /\ UnderTheControl /\ AnotherIsLogged

\* A log of these parts, and a copying at this point.
LEMMA ALogOf ==
    ASSUME NEW here, NEW old_, NEW turned
    PROVE  LET l == [here |-> here, kept |-> old_, turned |-> turned] IN
           IsRecord(l, LogFields) /\ l.here = here /\ l.kept = old_ /\ l.turned = turned
BY DEF IsRecord, LogFields

LEMMA ACopyingAt ==
    ASSUME NEW at, NEW beside
    PROVE  LET c == [kind |-> "copy login", at |-> at, from |-> 0, beside |-> beside] IN
           IsRecord(c, CopyFields) /\ c.kind = "copy login" /\ c.at = at /\ c.beside = beside
BY DEF IsRecord, CopyFields

\* A copying under way has its fields.
LEMMA ACopying ==
    ASSUME ProvingTypes, command.kind = "copy login"  PROVE IsRecord(command, CopyFields)
<1>1. P!NoCommand.kind = "none"
  BY DEF P!NoCommand
<1>2. command # P!NoCommand /\ command.kind \notin {"set up", "tear down"}
  BY <1>1
<1> QED BY <1>2 DEF ProvingTypes

LEMMA ProvingStandsStill == PInv /\ UNCHANGED proving => PInv'
BY ZenonT(60) DEF PInv, ProvingTypes, AsCopied, UnderTheControl, AnotherIsLogged, proving, IsRecord, P!Armed, P!NoCommand

LEMMA ProvingSteps == ASSUME PInv, P!Next  PROVE PInv'
<1> USE DEF P!Armed, P!NoCommand, IsRecord, WindowFields, CopyFields, SetUpFields, LogFields
<1>0. ProvingTypes /\ AsCopied /\ UnderTheControl /\ AnotherIsLogged
  BY DEF PInv
<1>1. CASE P!Opens
  <2>1. ProvingTypes'
    BY <1>0, <1>1 DEF P!Opens, P!here, P!logins, P!row, P!bounds, ProvingTypes
  <2>2. AsCopied'
    BY <1>0, <1>1 DEF P!Opens, P!here, P!logins, P!row, P!bounds, ProvingTypes, AsCopied
  <2>3. UnderTheControl'
    BY <1>0, <1>1 DEF P!Opens, P!here, P!logins, P!row, P!bounds, ProvingTypes, UnderTheControl
  <2>4. AnotherIsLogged'
    BY <1>0, <1>1 DEF P!Opens, P!here, P!logins, P!row, P!bounds, ProvingTypes, AnotherIsLogged
  <2> QED BY <2>1, <2>2, <2>3, <2>4 DEF PInv
<1>2. CASE P!OpensMeanwhile
  <2>1. ProvingTypes'
    BY <1>0, <1>2 DEF P!OpensMeanwhile, P!here, P!logins, P!row, P!bounds, ProvingTypes
  <2>2. AsCopied'
    <3>1. window = None /\ command.kind = "copy login" /\ command' = [command EXCEPT !.beside = TRUE]
      BY <1>2 DEF P!OpensMeanwhile
    <3>2. window'.session = ours /\ ours' = ours /\ claimed' = claimed
      BY <1>2 DEF P!OpensMeanwhile, P!logins
    <3>3. command'.beside = TRUE
      <4>1. IsRecord(command, CopyFields)
        BY <1>0, <3>1, ACopying
      <4> QED BY <3>1, <4>1
    <3> QED BY <1>0, <3>2, <3>3 DEF AsCopied
  <2>3. UnderTheControl'
    BY <1>0, <1>2 DEF P!OpensMeanwhile, P!here, P!logins, P!row, P!bounds, ProvingTypes, UnderTheControl
  <2>4. AnotherIsLogged'
    BY <1>0, <1>2 DEF P!OpensMeanwhile, P!here, P!logins, P!row, P!bounds, ProvingTypes, AnotherIsLogged
  <2> QED BY <2>1, <2>2, <2>3, <2>4 DEF PInv
<1>3. CASE P!Quits
  <2>1. ProvingTypes'
    BY <1>0, <1>3 DEF P!Quits, P!here, P!row, P!bounds, ProvingTypes
  <2>2. AsCopied'
    BY <1>0, <1>3 DEF P!Quits, P!here, P!row, P!bounds, ProvingTypes, AsCopied
  <2>3. UnderTheControl'
    BY <1>0, <1>3 DEF P!Quits, P!here, P!row, P!bounds, ProvingTypes, UnderTheControl
  <2>4. AnotherIsLogged'
    BY <1>0, <1>3 DEF P!Quits, P!here, P!row, P!bounds, ProvingTypes, AnotherIsLogged
  <2> QED BY <2>1, <2>2, <2>3, <2>4 DEF PInv
<1>4. CASE P!SignsIn
  <2>1. ProvingTypes'
    BY <1>0, <1>4 DEF P!SignsIn, P!here, P!row, ProvingTypes
  <2>2. AsCopied'
    BY <1>0, <1>4 DEF P!SignsIn, P!here, P!row, ProvingTypes, AsCopied
  <2>3. UnderTheControl'
    BY <1>0, <1>4 DEF P!SignsIn, P!here, P!row, ProvingTypes, UnderTheControl
  <2>4. AnotherIsLogged'
    BY <1>0, <1>4 DEF P!SignsIn, P!here, P!row, ProvingTypes, AnotherIsLogged
  <2> QED BY <2>1, <2>2, <2>3, <2>4 DEF PInv
<1>5. CASE P!Picks
  <2>1. ProvingTypes'
    BY <1>0, <1>5 DEF P!Picks, P!logins, P!row, P!bounds, ProvingTypes
  <2>2. AsCopied'
    BY <1>0, <1>5 DEF P!Picks, P!logins, P!row, P!bounds, ProvingTypes, AsCopied
  <2>3. UnderTheControl'
    BY <1>0, <1>5 DEF P!Picks, P!logins, P!row, P!bounds, ProvingTypes, UnderTheControl
  <2>4. AnotherIsLogged'
    BY <1>0, <1>5 DEF P!Picks, P!logins, P!row, P!bounds, ProvingTypes, AnotherIsLogged
  <2> QED BY <2>1, <2>2, <2>3, <2>4 DEF PInv
<1>6. CASE P!TurnsOver
  <2>1. ProvingTypes'
    <3>1. logged' = [here |-> {}, kept |-> logged.here, turned |-> logged.turned + 1] /\ logged.turned < 2
      BY <1>6 DEF P!TurnsOver
    <3>2. IsRecord(logged', LogFields) /\ logged'.turned = logged.turned + 1
      BY <3>1, ALogOf
    <3>3. UNCHANGED <<window, command>>
      BY <1>6 DEF P!TurnsOver
    <3>4. logged'.turned \in 0..2
      <4>1. logged.turned \in 0..2
        BY <1>0 DEF ProvingTypes
      <4> QED BY <3>1, <3>2, <4>1
    <3> QED BY <1>0, <3>2, <3>3, <3>4 DEF ProvingTypes
  <2>2. AsCopied'
    BY <1>0, <1>6 DEF P!TurnsOver, P!here, P!logins, P!bounds, ProvingTypes, AsCopied
  <2>3. UnderTheControl'
    BY <1>0, <1>6 DEF P!TurnsOver, P!here, P!logins, P!bounds, ProvingTypes, UnderTheControl
  <2>4. AnotherIsLogged'
    <3>1. logged' = [here |-> {}, kept |-> logged.here, turned |-> logged.turned + 1] /\ logged.turned < 2
      BY <1>6 DEF P!TurnsOver
    <3>2. logged'.here = {} /\ logged'.kept = logged.here /\ logged'.turned = logged.turned + 1
      BY <3>1, ALogOf
    <3>3. another' = another /\ logged.turned \in 0..2
      BY <1>0, <1>6 DEF P!TurnsOver, ProvingTypes
    <3> QED BY <1>0, <3>1, <3>2, <3>3 DEF AnotherIsLogged
  <2> QED BY <2>1, <2>2, <2>3, <2>4 DEF PInv
<1>7. CASE P!SecondPasses
  <2>1. ProvingTypes'
    BY <1>0, <1>7 DEF P!SecondPasses, P!here, P!logins, P!bounds, ProvingTypes
  <2>2. AsCopied'
    BY <1>0, <1>7 DEF P!SecondPasses, P!here, P!logins, P!bounds, ProvingTypes, AsCopied
  <2>3. UnderTheControl'
    BY <1>0, <1>7 DEF P!SecondPasses, P!here, P!logins, P!bounds, ProvingTypes, UnderTheControl
  <2>4. AnotherIsLogged'
    BY <1>0, <1>7 DEF P!SecondPasses, P!here, P!logins, P!bounds, ProvingTypes, AnotherIsLogged
  <2> QED BY <2>1, <2>2, <2>3, <2>4 DEF PInv
<1>8. CASE P!TypesSetUp
  <2>1. ProvingTypes'
    BY <1>0, <1>8 DEF P!TypesSetUp, P!Types, P!here, P!logins, P!row, ProvingTypes
  <2>2. AsCopied'
    BY <1>0, <1>8 DEF P!TypesSetUp, P!Types, P!here, P!logins, P!row, ProvingTypes, AsCopied
  <2>3. UnderTheControl'
    BY <1>0, <1>8 DEF P!TypesSetUp, P!Types, P!here, P!logins, P!row, ProvingTypes, UnderTheControl
  <2>4. AnotherIsLogged'
    BY <1>0, <1>8 DEF P!TypesSetUp, P!Types, P!here, P!logins, P!row, ProvingTypes, AnotherIsLogged
  <2> QED BY <2>1, <2>2, <2>3, <2>4 DEF PInv
<1>9. CASE P!Installs
  <2>1. ProvingTypes'
    BY <1>0, <1>9 DEF P!Installs, P!logins, P!row, P!bounds, ProvingTypes
  <2>2. AsCopied'
    BY <1>0, <1>9 DEF P!Installs, P!logins, P!row, P!bounds, ProvingTypes, AsCopied
  <2>3. UnderTheControl'
    BY <1>0, <1>9 DEF P!Installs, P!logins, P!row, P!bounds, ProvingTypes, UnderTheControl
  <2>4. AnotherIsLogged'
    BY <1>0, <1>9 DEF P!Installs, P!logins, P!row, P!bounds, ProvingTypes, AnotherIsLogged
  <2> QED BY <2>1, <2>2, <2>3, <2>4 DEF PInv
<1>10. CASE P!Arms
  <2>1. ProvingTypes'
    BY <1>0, <1>10 DEF P!Arms, P!Ends, P!logins, P!row, P!bounds, ProvingTypes
  <2>2. AsCopied'
    BY <1>0, <1>10 DEF P!Arms, P!Ends, P!logins, P!row, P!bounds, ProvingTypes, AsCopied
  <2>3. UnderTheControl'
    BY <1>0, <1>10 DEF P!Arms, P!Ends, P!logins, P!row, P!bounds, ProvingTypes, UnderTheControl
  <2>4. AnotherIsLogged'
    BY <1>0, <1>10 DEF P!Arms, P!Ends, P!logins, P!row, P!bounds, ProvingTypes, AnotherIsLogged
  <2> QED BY <2>1, <2>2, <2>3, <2>4 DEF PInv
<1>11. CASE P!TypesTearDown
  <2>1. ProvingTypes'
    BY <1>0, <1>11 DEF P!TypesTearDown, P!Types, P!here, P!logins, P!row, ProvingTypes
  <2>2. AsCopied'
    BY <1>0, <1>11 DEF P!TypesTearDown, P!Types, P!here, P!logins, P!row, ProvingTypes, AsCopied
  <2>3. UnderTheControl'
    BY <1>0, <1>11 DEF P!TypesTearDown, P!Types, P!here, P!logins, P!row, ProvingTypes, UnderTheControl
  <2>4. AnotherIsLogged'
    BY <1>0, <1>11 DEF P!TypesTearDown, P!Types, P!here, P!logins, P!row, ProvingTypes, AnotherIsLogged
  <2> QED BY <2>1, <2>2, <2>3, <2>4 DEF PInv
<1>12. CASE P!Uninstalls
  <2>1. ProvingTypes'
    BY <1>0, <1>12 DEF P!Uninstalls, P!logins, P!row, P!bounds, ProvingTypes
  <2>2. AsCopied'
    BY <1>0, <1>12 DEF P!Uninstalls, P!logins, P!row, P!bounds, ProvingTypes, AsCopied
  <2>3. UnderTheControl'
    BY <1>0, <1>12 DEF P!Uninstalls, P!logins, P!row, P!bounds, ProvingTypes, UnderTheControl
  <2>4. AnotherIsLogged'
    BY <1>0, <1>12 DEF P!Uninstalls, P!logins, P!row, P!bounds, ProvingTypes, AnotherIsLogged
  <2> QED BY <2>1, <2>2, <2>3, <2>4 DEF PInv
<1>13. CASE P!Removes
  <2>1. ProvingTypes'
    <3>1. logged' = [here |-> {}, kept |-> {}, turned |-> 0] /\ command' = P!NoCommand /\ UNCHANGED window
      BY <1>13 DEF P!Removes, P!Ends, P!NoLog
    <3>2. IsRecord(logged', LogFields) /\ logged'.turned = 0
      BY <3>1, ALogOf
    <3>3. window # None => IsRecord(window, WindowFields)
      BY <1>0 DEF ProvingTypes
    <3> HIDE DEF IsRecord, P!NoCommand
    <3> QED BY <3>1, <3>2, <3>3 DEF ProvingTypes, P!NoCommand
  <2>2. AsCopied'
    BY <1>0, <1>13 DEF P!Removes, P!Ends, P!NoLog, P!bounds, ProvingTypes, AsCopied
  <2>3. UnderTheControl'
    BY <1>0, <1>13 DEF P!Removes, P!Ends, P!NoLog, P!bounds, ProvingTypes, UnderTheControl
  <2>4. AnotherIsLogged'
    BY <1>0, <1>13 DEF P!Removes, P!Ends, P!NoLog, P!bounds, ProvingTypes, AnotherIsLogged
  <2> QED BY <2>1, <2>2, <2>3, <2>4 DEF PInv
<1>14. CASE P!TypesCopyLogin
  <2>1. ProvingTypes'
    <3>1. PICK read \in BOOLEAN :
            command' = [kind |-> "copy login", at |-> IF P!IsSeen(read) THEN "asks" ELSE "reads",
                        from |-> 0, beside |-> window # None /\ ~read]
      BY <1>14 DEF P!TypesCopyLogin, P!Types
    <3> DEFINE at == IF P!IsSeen(read) THEN "asks" ELSE "reads"
               beside == window # None /\ ~read
    <3>2. IsRecord(command', CopyFields) /\ command'.kind = "copy login" /\ command'.at = at /\ command'.beside = beside
      <4> HIDE DEF at, beside
      <4>1. command' = [kind |-> "copy login", at |-> at, from |-> 0, beside |-> beside]
        BY <3>1 DEF at, beside
      <4> QED BY <4>1, ACopyingAt
    <3>3. UNCHANGED <<window, logged, ours, claimed>>
      BY <1>14 DEF P!TypesCopyLogin, P!here, P!logins, P!row
    <3> QED BY <1>0, <3>2, <3>3 DEF ProvingTypes
  <2>2. AsCopied'
    <3>1. PICK read \in BOOLEAN :
            command' = [kind |-> "copy login", at |-> IF P!IsSeen(read) THEN "asks" ELSE "reads",
                        from |-> 0, beside |-> window # None /\ ~read]
      BY <1>14 DEF P!TypesCopyLogin, P!Types
    <3> DEFINE at == IF P!IsSeen(read) THEN "asks" ELSE "reads"
               beside == window # None /\ ~read
    <3>2. IsRecord(command', CopyFields) /\ command'.kind = "copy login" /\ command'.at = at /\ command'.beside = beside
      <4> HIDE DEF at, beside
      <4>1. command' = [kind |-> "copy login", at |-> at, from |-> 0, beside |-> beside]
        BY <3>1 DEF at, beside
      <4> QED BY <4>1, ACopyingAt
    <3>3. UNCHANGED <<window, logged, ours, claimed>>
      BY <1>14 DEF P!TypesCopyLogin, P!here, P!logins, P!row
    <3>4. command'.at = "reads" /\ ~command'.beside => window = None
      <4>1. at = "reads" /\ ~beside => window = None
        BY DEF P!IsSeen
      <4>2. command'.beside <=> beside
        BY <3>2
      <4> QED BY <3>2, <4>1, <4>2
    <3>5. command'.at \in {"asks", "reads"}
      BY <3>2
    <3> QED BY <1>0, <3>2, <3>3, <3>4, <3>5 DEF AsCopied
  <2>3. UnderTheControl'
    BY <1>0, <1>14 DEF P!TypesCopyLogin, P!Types, P!here, P!logins, P!row, ProvingTypes, UnderTheControl
  <2>4. AnotherIsLogged'
    BY <1>0, <1>14 DEF P!TypesCopyLogin, P!Types, P!here, P!logins, P!row, ProvingTypes, AnotherIsLogged
  <2> QED BY <2>1, <2>2, <2>3, <2>4 DEF PInv
<1>15. CASE P!AsksItToQuit
  <2>1. ProvingTypes'
    BY <1>0, <1>15 DEF P!AsksItToQuit, P!IsSeen, P!Ends, P!here, P!logins, P!row, P!bounds, ProvingTypes
  <2>2. AsCopied'
    <3>1. UNCHANGED <<window, ours, claimed>>
      BY <1>15 DEF P!AsksItToQuit, P!logins
    <3>2. command' = P!NoCommand \/ command' = [command EXCEPT !.at = "waits"]
      BY <1>15 DEF P!AsksItToQuit, P!Ends
    <3>3. command.kind = "copy login"
      BY <1>15 DEF P!AsksItToQuit
    <3>4. command'.kind = "none" \/ command'.at = "waits"
      <4>1. IsRecord(command, CopyFields)
        BY <1>0, <3>3, ACopying
      <4> QED BY <3>2, <4>1
    <3> QED BY <1>0, <3>1, <3>4 DEF AsCopied
  <2>3. UnderTheControl'
    BY <1>0, <1>15 DEF P!AsksItToQuit, P!IsSeen, P!Ends, P!here, P!logins, P!row, P!bounds, ProvingTypes, UnderTheControl
  <2>4. AnotherIsLogged'
    BY <1>0, <1>15 DEF P!AsksItToQuit, P!IsSeen, P!Ends, P!here, P!logins, P!row, P!bounds, ProvingTypes, AnotherIsLogged
  <2> QED BY <2>1, <2>2, <2>3, <2>4 DEF PInv
<1>16. CASE P!SeesItGone
  <2>1. ProvingTypes'
    BY <1>0, <1>16 DEF P!SeesItGone, P!IsGone, P!here, P!logins, P!row, P!bounds, ProvingTypes
  <2>2. AsCopied'
    BY <1>0, <1>16 DEF P!SeesItGone, P!IsGone, P!here, P!logins, P!row, P!bounds, ProvingTypes, AsCopied
  <2>3. UnderTheControl'
    BY <1>0, <1>16 DEF P!SeesItGone, P!IsGone, P!here, P!logins, P!row, P!bounds, ProvingTypes, UnderTheControl
  <2>4. AnotherIsLogged'
    BY <1>0, <1>16 DEF P!SeesItGone, P!IsGone, P!here, P!logins, P!row, P!bounds, ProvingTypes, AnotherIsLogged
  <2> QED BY <2>1, <2>2, <2>3, <2>4 DEF PInv
<1>17. CASE P!ReadsTheLive
  <2>1. ProvingTypes'
    BY <1>0, <1>17 DEF P!ReadsTheLive, P!here, P!logins, P!row, P!bounds, ProvingTypes
  <2>2. AsCopied'
    BY <1>0, <1>17 DEF P!ReadsTheLive, P!here, P!logins, P!row, P!bounds, ProvingTypes, AsCopied
  <2>3. UnderTheControl'
    BY <1>0, <1>17 DEF P!ReadsTheLive, P!here, P!logins, P!row, P!bounds, ProvingTypes, UnderTheControl
  <2>4. AnotherIsLogged'
    BY <1>0, <1>17 DEF P!ReadsTheLive, P!here, P!logins, P!row, P!bounds, ProvingTypes, AnotherIsLogged
  <2> QED BY <2>1, <2>2, <2>3, <2>4 DEF PInv
<1>18. CASE P!Copies
  <2>1. ProvingTypes'
    BY <1>0, <1>18 DEF P!Copies, P!here, P!row, P!bounds, ProvingTypes
  <2>2. AsCopied'
    BY <1>0, <1>18 DEF P!Copies, P!here, P!row, P!bounds, ProvingTypes, AsCopied
  <2>3. UnderTheControl'
    BY <1>0, <1>18 DEF P!Copies, P!here, P!row, P!bounds, ProvingTypes, UnderTheControl
  <2>4. AnotherIsLogged'
    BY <1>0, <1>18 DEF P!Copies, P!here, P!row, P!bounds, ProvingTypes, AnotherIsLogged
  <2> QED BY <2>1, <2>2, <2>3, <2>4 DEF PInv
<1>19. CASE P!ReadsBack
  <2>1. ProvingTypes'
    BY <1>0, <1>19 DEF P!ReadsBack, P!Ends, P!here, P!row, P!bounds, ProvingTypes
  <2>2. AsCopied'
    BY <1>0, <1>19 DEF P!ReadsBack, P!Ends, P!here, P!row, P!bounds, ProvingTypes, AsCopied
  <2>3. UnderTheControl'
    BY <1>0, <1>19 DEF P!ReadsBack, P!Ends, P!here, P!row, P!bounds, ProvingTypes, UnderTheControl
  <2>4. AnotherIsLogged'
    BY <1>0, <1>19 DEF P!ReadsBack, P!Ends, P!here, P!row, P!bounds, ProvingTypes, AnotherIsLogged
  <2> QED BY <2>1, <2>2, <2>3, <2>4 DEF PInv
<1>20. CASE P!BreaksOff
  <2>1. ProvingTypes'
    BY <1>0, <1>20 DEF P!BreaksOff, P!Ends, P!here, P!row, P!bounds, ProvingTypes
  <2>2. AsCopied'
    BY <1>0, <1>20 DEF P!BreaksOff, P!Ends, P!here, P!row, P!bounds, ProvingTypes, AsCopied
  <2>3. UnderTheControl'
    BY <1>0, <1>20 DEF P!BreaksOff, P!Ends, P!here, P!row, P!bounds, ProvingTypes, UnderTheControl
  <2>4. AnotherIsLogged'
    BY <1>0, <1>20 DEF P!BreaksOff, P!Ends, P!here, P!row, P!bounds, ProvingTypes, AnotherIsLogged
  <2> QED BY <2>1, <2>2, <2>3, <2>4 DEF PInv
<1>21. ASSUME NEW p \in Paths, P!Works(p)  PROVE PInv'
  <2>1. ProvingTypes'
    BY <1>0, <1>21 DEF P!Works, P!GoesRound, P!GoesAsItCame, P!GoesThrough, P!Does, P!Says, P!here, P!logins, ProvingTypes
  <2>2. AsCopied'
    BY <1>0, <1>21 DEF P!Works, P!GoesRound, P!GoesAsItCame, P!GoesThrough, P!Does, P!Says, P!here, P!logins, ProvingTypes, AsCopied
  <2>3. UnderTheControl'
    <3>1. UNCHANGED <<store, window, started>> /\ window # None
      BY <1>21 DEF P!Works, P!here
    <3>2. CASE P!GoesRound(p)
      BY <1>0, <3>1, <3>2 DEF P!GoesRound, P!Does, UnderTheControl
    <3>3. CASE P!GoesAsItCame(p)
      <4>1. started = p => window.control \/ window.older
        BY <1>0, <3>1, NoneAssumption DEF UnderTheControl
      <4>2. did' = did \/ (~window.control /\ P!Does(P!Unpaid, p))
        BY <3>3 DEF P!GoesAsItCame
      <4>3. "round" \in did' => "round" \in did
        BY <4>1, <4>2 DEF P!Does, P!Unpaid
      <4> QED BY <1>0, <3>1, <4>3 DEF UnderTheControl
    <3>4. CASE P!GoesThrough(p)
      BY <1>0, <3>1, <3>4 DEF P!GoesThrough, P!Does, UnderTheControl
    <3> QED BY <1>21, <3>2, <3>3, <3>4 DEF P!Works
  <2>4. AnotherIsLogged'
    <3>1. CASE P!GoesRound(p) \/ P!GoesAsItCame(p)
      BY <1>0, <3>1 DEF P!GoesRound, P!GoesAsItCame, AnotherIsLogged
    <3>2. CASE P!GoesThrough(p)
      <4>1. PICK kind \in {"verified", "mismatch", "unverified"} :
              /\ P!Says(kind)
              /\ another' = IF started = None \/ kind # "mismatch" THEN another
                            ELSE another \union {IF second THEN "at once" ELSE "later"}
        BY <3>2 DEF P!GoesThrough
      <4>2. /\ logged'.kept = logged.kept /\ logged'.turned = logged.turned
            /\ logged.here \subseteq logged'.here
            /\ ~second /\ kind = "mismatch" => "mismatch" \in logged'.here
        BY <1>0, <4>1 DEF P!Says, ProvingTypes
      <4>3. "later" \in another' => "later" \in another \/ (~second /\ kind = "mismatch")
        BY <4>1
      <4> QED BY <1>0, <4>2, <4>3 DEF AnotherIsLogged
    <3> QED BY <1>21, <3>1, <3>2 DEF P!Works
  <2> QED BY <2>1, <2>2, <2>3, <2>4 DEF PInv
<1>22. ASSUME NEW p \in Paths, P!Starts(p)  PROVE PInv'
  <2>1. ProvingTypes'
    BY <1>0, <1>22 DEF P!Starts, P!NoLog, P!here, P!logins, P!bounds, ProvingTypes
  <2>2. AsCopied'
    BY <1>0, <1>22 DEF P!Starts, P!NoLog, P!here, P!logins, P!bounds, ProvingTypes, AsCopied
  <2>3. UnderTheControl'
    BY <1>0, <1>22, NoneAssumption DEF P!Starts, P!NoLog, P!here, P!logins, P!bounds, ProvingTypes, UnderTheControl
  <2>4. AnotherIsLogged'
    BY <1>0, <1>22 DEF P!Starts, P!NoLog, P!here, P!logins, P!bounds, ProvingTypes, AnotherIsLogged
  <2> QED BY <2>1, <2>2, <2>3, <2>4 DEF PInv
<1>23. ASSUME NEW p \in Paths, P!Finishes(p)  PROVE PInv'
  <2>1. ProvingTypes'
    BY <1>0, <1>23 DEF P!Finishes, P!NoLog, P!here, P!logins, P!bounds, ProvingTypes
  <2>2. AsCopied'
    BY <1>0, <1>23 DEF P!Finishes, P!NoLog, P!here, P!logins, P!bounds, ProvingTypes, AsCopied
  <2>3. UnderTheControl'
    BY <1>0, <1>23, NoneAssumption DEF P!Finishes, P!NoLog, P!here, P!logins, P!bounds, ProvingTypes, UnderTheControl
  <2>4. AnotherIsLogged'
    BY <1>0, <1>23 DEF P!Finishes, P!NoLog, P!here, P!logins, P!bounds, ProvingTypes, AnotherIsLogged
  <2> QED BY <2>1, <2>2, <2>3, <2>4 DEF PInv
<1>24. ASSUME NEW p \in Paths, P!IsNotApplicable(p)  PROVE PInv'
  <2>1. ProvingTypes'
    BY <1>0, <1>24 DEF P!IsNotApplicable, P!here, P!logins, P!bounds, ProvingTypes
  <2>2. AsCopied'
    BY <1>0, <1>24 DEF P!IsNotApplicable, P!here, P!logins, P!bounds, ProvingTypes, AsCopied
  <2>3. UnderTheControl'
    BY <1>0, <1>24, NoneAssumption DEF P!IsNotApplicable, P!here, P!logins, P!bounds, ProvingTypes, UnderTheControl
  <2>4. AnotherIsLogged'
    BY <1>0, <1>24 DEF P!IsNotApplicable, P!here, P!logins, P!bounds, ProvingTypes, AnotherIsLogged
  <2> QED BY <2>1, <2>2, <2>3, <2>4 DEF PInv
<1> QED BY <1>1, <1>2, <1>3, <1>4, <1>5, <1>6, <1>7, <1>8, <1>9, <1>10, <1>11, <1>12, <1>13, <1>14, <1>15, <1>16, <1>17, <1>18, <1>19, <1>20, <1>21, <1>22, <1>23, <1>24 DEF P!Next

LEMMA ProvingAtFirst == P!Init => PInv
BY DEF P!Init, P!NoLog, P!NoCommand, PInv, ProvingTypes, AsCopied, UnderTheControl, AnotherIsLogged,
       IsRecord, LogFields, P!Armed

LEMMA ProvingIsKept == PInv /\ [Next]_vars => PInv'
<1> SUFFICES ASSUME PInv, [Next]_vars  PROVE PInv'
  OBVIOUS
<1>1. P!Next \/ UNCHANGED proving
  BY DEF Next, vars
<1> QED BY <1>1, ProvingSteps, ProvingStandsStill

\* The session --copy-login said it had copied stays in the folder, through any number of
\* Windows, unless one was open beside the copying (scripts/prove.ts).
THEOREM TheCopyStays == Spec => []ACopyIsNotUndone
<1>1. Init => PInv
  BY ProvingAtFirst DEF Init
<1>2. PInv => ACopyIsNotUndone
  BY DEF PInv, AsCopied, ACopyIsNotUndone, P!ACopyIsNotUndone
<1> QED BY <1>1, <1>2, ProvingIsKept, PTL DEF Spec

\* A path comes to be covered as it is finished, and only so.
LEMMA OnlyAFinishCovers ==
    ASSUME NEW p \in Paths, [Next]_vars, P!IsCovered(p)  PROVE P!Finishes(p)
<1>0. started = p /\ started' = None /\ p # None /\ p \in covered'
  BY NoneAssumption DEF P!IsCovered
<1>1. P!Next
  BY <1>0 DEF Next, vars, proving
<1>2. CASE P!Removes
  BY <1>0, <1>2 DEF P!Removes
<1>3. CASE \E q \in Paths : P!Finishes(q)
  BY <1>0, <1>3 DEF P!Finishes
<1>4. CASE \E q \in Paths : P!Starts(q)
  BY <1>0, <1>4, NoneAssumption DEF P!Starts
<1>5. CASE \E q \in Paths : P!Works(q) \/ P!IsNotApplicable(q)
  BY <1>0, <1>5 DEF P!Works, P!IsNotApplicable
<1>6. CASE P!TurnsOver \/ P!SecondPasses
  BY <1>0, <1>6 DEF P!TurnsOver, P!SecondPasses
<1>7. CASE started' = started
  BY <1>0, <1>7
<1> QED BY <1>1, <1>2, <1>3, <1>4, <1>5, <1>6, <1>7
    DEF P!Next, P!Opens, P!OpensMeanwhile, P!Quits, P!SignsIn, P!Picks, P!TypesSetUp, P!Installs, P!Arms,
        P!TypesTearDown, P!Uninstalls, P!TypesCopyLogin, P!AsksItToQuit, P!SeesItGone, P!ReadsTheLive,
        P!Copies, P!ReadsBack, P!BreaksOff, P!row

\* A path is covered over nothing that went round the relay, unless its process takes
\* neither the relay nor the control, and over no exchange another paid for, unless the log
\* has turned over twice since (scripts/prove.ts, src/coverage).
THEOREM ASeatPaidForWhatIsCovered == Spec => CoveredWasPaidByASeat
<1> DEFINE Said == \A p \in Paths : P!IsCovered(p) =>
                     /\ "round" \in did => p \in Apart
                     /\ "later" \in another => logged.turned = 2
<1>1. Init => PInv
  BY ProvingAtFirst DEF Init
<1>2. PInv /\ [Next]_vars => [Said]_(P!vars)
  <2> SUFFICES ASSUME PInv, [Next]_vars, NEW p \in Paths, P!IsCovered(p)
               PROVE  /\ "round" \in did => p \in Apart
                      /\ "later" \in another => logged.turned = 2
    OBVIOUS
  <2>1. started = p /\ covered' = P!WithRow(p, P!Judged(did # {}, P!Armed, P!WhatTheRelaySaw)) /\ p \in covered'
    BY OnlyAFinishCovers DEF P!Finishes, P!IsCovered
  <2>2. "mismatch" \notin logged.here \union logged.kept
    BY <2>1 DEF P!WithRow, P!Judged, P!WhatTheRelaySaw
  <2> QED BY <2>1, <2>2 DEF PInv, UnderTheControl, AnotherIsLogged
<1> QED BY <1>1, <1>2, ProvingIsKept, PTL DEF Spec, CoveredWasPaidByASeat, P!CoveredWasPaidByASeat

-----------------------------------------------------------------------------
(* The history: how numbers are added up. The model's sums go over a set in *)
(* an order CHOOSE fixes; a sum here is how many units there are.           *)

\* Of some finite sets, one has the fewest elements.
LEMMA TheFewestOfSome ==
    ASSUME NEW F, F # {}, \A T \in F : IsFiniteSet(T)
    PROVE  \E T \in F : \A U \in F : ~(Cardinality(U) < Cardinality(T))
<1> DEFINE Counts == {Cardinality(T) : T \in F}
<1>1. \A T \in F : Cardinality(T) \in Nat
  BY FS_CardinalityType
<1>2. Counts \subseteq Nat /\ Counts # {}
  BY <1>1
<1>3. PICK n \in Counts : \A m \in Counts : ~(<<m, n>> \in OpToRel(<, Nat))
  <2> HIDE DEF Counts
  <2> QED BY <1>2, WFMin, NatLessThanWellFounded
<1>4. PICK T \in F : n = Cardinality(T)
  OBVIOUS
<1>5. \A U \in F : ~(Cardinality(U) < Cardinality(T))
  BY <1>1, <1>3, <1>4 DEF OpToRel
<1> QED BY <1>5

\* A set of sets that has the empty one, and with one the next larger, has all the finite ones.
LEMMA OneByOne ==
    ASSUME NEW S, IsFiniteSet(S), NEW Some \in SUBSET (SUBSET S), {} \in Some,
           \A T \in Some : \A x \in S \ T : T \union {x} \in Some
    PROVE  S \in Some
<1> DEFINE F == {S \ T : T \in Some}
<1>1. F # {} /\ \A U \in F : IsFiniteSet(U)
  <2>1. \A T : IsFiniteSet(S \ T)
    BY FS_Difference
  <2>2. S \ {} \in F
    OBVIOUS
  <2>3. ASSUME NEW U \in F  PROVE IsFiniteSet(U)
    <3>1. PICK T \in Some : U = S \ T
      OBVIOUS
    <3> QED BY <2>1, <3>1, Zenon
  <2> HIDE DEF F
  <2> QED BY <2>2, <2>3
<1>2. PICK Rest \in F : \A U \in F : ~(Cardinality(U) < Cardinality(Rest))
  <2> HIDE DEF F
  <2> QED BY <1>1, TheFewestOfSome
<1>3. PICK T \in Some : Rest = S \ T
  BY <1>2
<1>4. ASSUME NEW x \in Rest  PROVE FALSE
  <2>1. T \union {x} \in Some /\ S \ (T \union {x}) = Rest \ {x}
    BY <1>3, <1>4
  <2>2. Cardinality(Rest \ {x}) = Cardinality(Rest) - 1 /\ Cardinality(Rest) \in Nat
    BY <1>1, <1>2, <1>4, FS_RemoveElement, FS_CardinalityType
  <2>3. Rest \ {x} \in F
    BY <2>1
  <2> HIDE DEF F
  <2> QED BY <1>2, <2>2, <2>3
<1> QED BY <1>3, <1>4

-----------------------------------------------------------------------------
\* What the numbers of a set's elements come to: as many as there are units in them.
Units(f, S) == {u \in S \X Nat : u[2] \in 1..f[u[1]]}
Sum(f, S)   == Cardinality(Units(f, S))

LEMMA TheHistoryCounts == ASSUME NEW S  PROVE H!Cardinality(S) = Cardinality(S)
BY DEF Cardinality, H!Cardinality

LEMMA NothingSums == ASSUME NEW f  PROVE IsFiniteSet(Units(f, {})) /\ Sum(f, {}) = 0
<1>1. Units(f, {}) = {}
  BY DEF Units
<1> QED BY <1>1, FS_EmptySet DEF Sum

\* One more element adds its units.
LEMMA OneMoreSums ==
    ASSUME NEW f, NEW T, NEW x, x \notin T, f[x] \in Nat, IsFiniteSet(Units(f, T))
    PROVE  /\ IsFiniteSet(Units(f, T \union {x}))
           /\ Sum(f, T \union {x}) = Sum(f, T) + f[x]
<1> DEFINE n == f[x]
           its == {x} \X (1..n)
<1>1. Units(f, T \union {x}) = Units(f, T) \union its
  <2>1. ASSUME NEW u \in Units(f, T \union {x})  PROVE u \in Units(f, T) \union its
    BY <2>1 DEF Units
  <2>2. ASSUME NEW u \in Units(f, T)  PROVE u \in Units(f, T \union {x})
    BY <2>2 DEF Units
  <2>3. ASSUME NEW u \in its  PROVE u \in Units(f, T \union {x})
    BY <2>3 DEF Units
  <2> QED BY <2>1, <2>2, <2>3
<1>2. Units(f, T) \intersect its = {}
  BY DEF Units
<1>3. IsFiniteSet(1..n) /\ Cardinality(1..n) = n
  <2>1. n \in Nat
    OBVIOUS
  <2> HIDE DEF n
  <2>2. IsFiniteSet(1..n) /\ Cardinality(1..n) = IF 1 > n THEN 0 ELSE n - 1 + 1
    BY <2>1, FS_Interval
  <2> QED BY <2>1, <2>2
<1>4. IsFiniteSet({x}) /\ Cardinality({x}) = 1
  BY FS_Singleton
<1>5. IsFiniteSet(its) /\ Cardinality(its) = 1 * n
  <2>1. IsFiniteSet({x} \X (1..n)) /\ Cardinality({x} \X (1..n)) = Cardinality({x}) * Cardinality(1..n)
    <3> HIDE DEF n
    <3> QED BY <1>3, <1>4, FS_Product
  <2> HIDE DEF n
  <2> QED BY <1>3, <1>4, <2>1
<1>6. /\ IsFiniteSet(Units(f, T) \union its)
      /\ Cardinality(Units(f, T) \union its)
           = Cardinality(Units(f, T)) + Cardinality(its) - Cardinality(Units(f, T) \intersect its)
  <2> HIDE DEF its
  <2> QED BY <1>5, FS_Union
<1>7. Cardinality({}) = 0 /\ Cardinality(Units(f, T)) \in Nat
  BY FS_EmptySet, FS_CardinalityType
<1> DEFINE all == Cardinality(Units(f, T) \union its)
           before == Cardinality(Units(f, T))
           more == Cardinality(its)
<1>8. all = before + more - 0 /\ more = 1 * n /\ n \in Nat /\ before \in Nat
  BY <1>2, <1>5, <1>6, <1>7
<1>9. all = before + n
  <2> HIDE DEF all, before, more, n
  <2> QED BY <1>8
<1> QED BY <1>1, <1>6, <1>9 DEF Sum

\* Numbers of finitely many come to a number.
LEMMA SumsAreNumbers ==
    ASSUME NEW S, IsFiniteSet(S), NEW f, \A x \in S : f[x] \in Nat
    PROVE  IsFiniteSet(Units(f, S)) /\ Sum(f, S) \in Nat
<1> DEFINE Some == {T \in SUBSET S : IsFiniteSet(Units(f, T))}
<1>1. {} \in Some
  BY NothingSums
<1>2. \A T \in Some : \A x \in S \ T : T \union {x} \in Some
  BY OneMoreSums
<1>3. S \in Some
  <2>1. Some \in SUBSET (SUBSET S)
    OBVIOUS
  <2> HIDE DEF Some
  <2> QED BY <1>1, <1>2, <2>1, OneByOne
<1> QED BY <1>3, FS_CardinalityType DEF Sum

\* The fold over the elements, in whatever order, comes to the same.
LEMMA TheFoldIsTheSum ==
    ASSUME NEW S, IsFiniteSet(S), NEW f, DOMAIN f = S, \A x \in S : f[x] \in Nat
    PROVE  H!SumFunction(f) = Sum(f, S)
<1> DEFINE First(s) == CHOOSE x \in s : TRUE
           Goes(g) == g = [s \in SUBSET S |-> IF s = {} THEN 0 ELSE f[First(s)] + g[s \ {First(s)}]]
           h == [s \in SUBSET S |-> Sum(f, s)]
<1>1. H!SumFunction(f) = (CHOOSE g : Goes(g))[S]
  BY DEF H!SumFunction, H!SumFunctionOnSet, H!FoldFunctionOnSet, H!MapThenFoldSet
<1>2. Goes(h)
  <2> SUFFICES ASSUME NEW s \in SUBSET S, s # {}
               PROVE  h[s] = f[First(s)] + h[s \ {First(s)}]
    BY NothingSums
  <2> DEFINE x == First(s)
             rest == s \ {x}
  <2>1. x \in s /\ rest \in SUBSET S /\ x \notin rest /\ s = rest \union {x}
    OBVIOUS
  <2>2. IsFiniteSet(rest)
    BY <2>1, FS_Subset
  <2> HIDE DEF x, rest
  <2>3. f[x] \in Nat /\ Sum(f, rest) \in Nat /\ IsFiniteSet(Units(f, rest))
    BY <2>1, <2>2, SumsAreNumbers
  <2>4. Sum(f, rest \union {x}) = Sum(f, rest) + f[x]
    BY <2>1, <2>3, OneMoreSums
  <2>5. h[s] = f[x] + h[rest]
    BY <2>1, <2>3, <2>4
  <2> QED BY <2>5 DEF x, rest
<1>3. ASSUME NEW g, Goes(g)  PROVE g[S] = h[S]
  <2> DEFINE F == {s \in SUBSET S : g[s] # h[s]}
  <2>1. \A s \in F : IsFiniteSet(s)
    BY FS_Subset
  <2>2. CASE F = {}
    BY <2>2
  <2>3. CASE F # {}
    <3>1. PICK s \in F : \A u \in F : ~(Cardinality(u) < Cardinality(s))
      <4> HIDE DEF F
      <4> QED BY <2>1, <2>3, TheFewestOfSome
    <3> DEFINE x == First(s)
               rest == s \ {x}
    <3>2. g[s] = IF s = {} THEN 0 ELSE f[x] + g[rest]
      BY <1>3, <3>1
    <3>3. h[s] = IF s = {} THEN 0 ELSE f[x] + h[rest]
      BY <1>2, <3>1
    <3>4. s # {} /\ g[rest] # h[rest]
      BY <3>1, <3>2, <3>3
    <3>5. rest \in F /\ x \in s
      BY <3>1, <3>4
    <3>6. Cardinality(rest) = Cardinality(s) - 1 /\ Cardinality(s) \in Nat
      BY <2>1, <3>1, <3>5, FS_RemoveElement, FS_CardinalityType
    <3> HIDE DEF F, x, rest
    <3> QED BY <3>1, <3>5, <3>6
  <2> QED BY <2>2, <2>3
<1>4. Goes(CHOOSE g : Goes(g))
  <2> HIDE DEF Goes, h
  <2> QED BY <1>2
<1>5. (CHOOSE g : Goes(g))[S] = h[S]
  <2> HIDE DEF Goes, h
  <2> QED BY <1>3, <1>4
<1> QED BY <1>1, <1>5

\* Sums of the same numbers, and of no larger ones.
LEMMA SumsAgree ==
    ASSUME NEW S, NEW f, NEW g, \A x \in S : f[x] = g[x]
    PROVE  Sum(f, S) = Sum(g, S)
<1>1. Units(f, S) = Units(g, S)
  BY DEF Units
<1> QED BY <1>1 DEF Sum

LEMMA NoLargerSum ==
    ASSUME NEW S, IsFiniteSet(S), NEW f, NEW g, \A x \in S : f[x] \in Nat /\ g[x] \in Nat /\ f[x] <= g[x]
    PROVE  Sum(f, S) <= Sum(g, S)
<1>1. IsFiniteSet(Units(g, S))
  BY SumsAreNumbers
<1>2. Units(f, S) \subseteq Units(g, S)
  <2> SUFFICES ASSUME NEW u \in Units(f, S)  PROVE u[2] \in 1..g[u[1]]
    BY DEF Units
  <2>1. u[1] \in S /\ u[2] \in 1..f[u[1]]
    BY DEF Units
  <2> QED BY <2>1
<1> QED BY <1>1, <1>2, FS_Subset DEF Sum

\* Of two sets apart.
LEMMA SumOfBoth ==
    ASSUME NEW S, IsFiniteSet(S), NEW T, IsFiniteSet(T), S \intersect T = {},
           NEW f, \A x \in S \union T : f[x] \in Nat
    PROVE  Sum(f, S \union T) = Sum(f, S) + Sum(f, T)
<1>1. IsFiniteSet(Units(f, S)) /\ IsFiniteSet(Units(f, T)) /\ Sum(f, S) \in Nat /\ Sum(f, T) \in Nat
  BY SumsAreNumbers
<1>2. Units(f, S \union T) = Units(f, S) \union Units(f, T)
  <2>1. (S \union T) \X Nat = (S \X Nat) \union (T \X Nat)
    OBVIOUS
  <2>2. \A u : u \in (S \union T) \X Nat <=> u \in S \X Nat \/ u \in T \X Nat
    BY <2>1
  <2>3. \A u : u \in Units(f, S \union T) <=> u \in Units(f, S) \union Units(f, T)
    BY <2>2 DEF Units
  <2> QED BY <2>3
<1>3. Units(f, S) \intersect Units(f, T) = {}
  BY DEF Units
<1>4. Cardinality(Units(f, S) \union Units(f, T))
        = Cardinality(Units(f, S)) + Cardinality(Units(f, T)) - Cardinality(Units(f, S) \intersect Units(f, T))
  BY <1>1, FS_Union
<1>5. Cardinality({}) = 0
  BY FS_EmptySet
<1> DEFINE both == Sum(f, S \union T)
           one == Sum(f, S)
           other == Sum(f, T)
<1>6. both = one + other - 0 /\ one \in Nat /\ other \in Nat
  BY <1>1, <1>2, <1>3, <1>4, <1>5 DEF Sum
<1>7. both = one + other
  <2> HIDE DEF both, one, other
  <2> QED BY <1>6
<1> QED BY <1>7

\* What is summed share by share comes to what all the parts come to.
LEMMA SumOfParts ==
    ASSUME NEW K, IsFiniteSet(K), NEW share, NEW S, IsFiniteSet(S),
           \A k \in K : share[k] \subseteq S,
           \A k, l \in K : k # l => share[k] \intersect share[l] = {},
           NEW f, \A x \in S : f[x] \in Nat,
           NEW g, \A k \in K : g[k] = Sum(f, share[k])
    PROVE  Sum(g, K) = Sum(f, UNION {share[k] : k \in K})
<1> DEFINE Of(T) == UNION {share[k] : k \in T}
           Some == {T \in SUBSET K : Sum(g, T) = Sum(f, Of(T))}
<1>1. \A T \in SUBSET K : IsFiniteSet(Of(T)) /\ Of(T) \subseteq S
  <2>1. \A T \in SUBSET K : Of(T) \subseteq S
    OBVIOUS
  <2> HIDE DEF Of
  <2> QED BY <2>1, FS_Subset
<1>2. \A k \in K : IsFiniteSet(share[k]) /\ g[k] \in Nat
  <2>1. \A k \in K : IsFiniteSet(share[k])
    BY FS_Subset
  <2> SUFFICES ASSUME NEW k \in K  PROVE g[k] \in Nat
    BY <2>1
  <2>2. Sum(f, share[k]) \in Nat
    BY <2>1, SumsAreNumbers
  <2> QED BY <2>2
<1>3. {} \in Some
  <2>1. Of({}) = {}
    OBVIOUS
  <2> HIDE DEF Of
  <2>2. Sum(g, {}) = 0 /\ Sum(f, {}) = 0
    BY NothingSums
  <2> QED BY <2>1, <2>2
<1>4. ASSUME NEW T \in Some, NEW k \in K \ T  PROVE T \union {k} \in Some
  <2>1. Of(T \union {k}) = Of(T) \union share[k] /\ Of(T) \intersect share[k] = {}
    OBVIOUS
  <2>2. T \subseteq K /\ IsFiniteSet(T) /\ Sum(g, T) = Sum(f, Of(T))
    BY <1>4, FS_Subset
  <2>3. IsFiniteSet(Of(T)) /\ Of(T) \subseteq S /\ share[k] \subseteq S
    BY <1>1, <2>2
  <2> HIDE DEF Of
  <2>4. Sum(f, Of(T) \union share[k]) = Sum(f, Of(T)) + Sum(f, share[k])
    BY <1>2, <2>1, <2>3, SumOfBoth
  <2>5. IsFiniteSet(Units(g, T))
    BY <1>2, <2>2, SumsAreNumbers
  <2>6. Sum(g, T \union {k}) = Sum(g, T) + g[k]
    BY <1>2, <2>5, OneMoreSums
  <2>7. Sum(g, T \union {k}) = Sum(f, Of(T \union {k}))
    BY <2>1, <2>2, <2>4, <2>6
  <2> QED BY <2>2, <2>7
<1>5. K \in Some
  <2>1. Some \in SUBSET (SUBSET K)
    OBVIOUS
  <2> HIDE DEF Some
  <2> QED BY <1>3, <1>4, <2>1, OneByOne
<1> QED BY <1>5

\* The same number of times.
LEMMA SumOfTimes ==
    ASSUME NEW S, IsFiniteSet(S), NEW r \in Nat, NEW f, \A x \in S : f[x] \in Nat,
           NEW g, \A x \in S : g[x] = f[x] * r
    PROVE  Sum(g, S) = Sum(f, S) * r
<1> DEFINE Some == {T \in SUBSET S : Sum(g, T) = Sum(f, T) * r}
<1>1. {} \in Some
  BY NothingSums
<1>2. ASSUME NEW T \in Some, NEW x \in S \ T  PROVE T \union {x} \in Some
  <2>1. T \subseteq S /\ IsFiniteSet(T) /\ Sum(g, T) = Sum(f, T) * r
    BY <1>2, FS_Subset
  <2>2. \A y \in S : f[y] * r \in Nat
    OBVIOUS
  <2>3. \A y \in S : g[y] \in Nat
    BY <2>2
  <2>4. IsFiniteSet(Units(f, T)) /\ IsFiniteSet(Units(g, T)) /\ Sum(f, T) \in Nat
    BY <2>1, <2>3, SumsAreNumbers
  <2>5. Sum(f, T \union {x}) = Sum(f, T) + f[x]
    BY <2>4, OneMoreSums
  <2>6. Sum(g, T \union {x}) = Sum(g, T) + g[x]
    BY <2>3, <2>4, OneMoreSums
  <2> DEFINE a == Sum(f, T)
             b == f[x]
  <2>7. a * r + b * r = (a + b) * r
    <3>1. a \in Nat /\ b \in Nat
      BY <2>4
    <3> HIDE DEF a, b
    <3> QED BY <3>1
  <2>8. Sum(g, T \union {x}) = Sum(f, T \union {x}) * r
    <3>1. g[x] = b * r
      OBVIOUS
    <3> QED BY <2>1, <2>5, <2>6, <2>7, <3>1
  <2> QED BY <2>1, <2>8
<1>3. S \in Some
  <2>1. Some \in SUBSET (SUBSET S)
    OBVIOUS
  <2> HIDE DEF Some
  <2> QED BY <1>1, <1>2, <2>1, OneByOne
<1> QED BY <1>3

-----------------------------------------------------------------------------
(* What the rows of the history stand for.                                  *)

RowFields == {"ids", "folded", "day", "seat", "model", "refused", "tokens", "session", "project"}

\* A row stands for so many exchanges, and no other row for one of them.
RowFits(row) == /\ IsRecord(row, RowFields)
                /\ IsFiniteSet(row.ids) /\ row.ids # {} /\ row.folded = Cardinality(row.ids)
                /\ row.tokens \in Nat \union {None}

RowsFit(rows) == /\ IsFiniteSet(rows) /\ \A row \in rows : RowFits(row)
                 /\ \A row, other \in rows : row # other => row.ids \intersect other.ids = {}

IdsOf(rows) == UNION {row.ids : row \in rows}

\* One for each counts them.
LEMMA SumOfOnes == ASSUME NEW S, IsFiniteSet(S)  PROVE Sum([x \in S |-> 1], S) = Cardinality(S)
<1> DEFINE one == [x \in S |-> 1]
<1>1. Units(one, S) = S \X {1}
  <2>1. \A u : u \in Units(one, S) => u \in S \X {1}
    BY DEF Units
  <2>2. \A u : u \in S \X {1} => u \in Units(one, S)
    BY DEF Units
  <2> QED BY <2>1, <2>2
<1>2. IsFiniteSet({1}) /\ Cardinality({1}) = 1 /\ Cardinality(S) \in Nat
  BY FS_Singleton, FS_CardinalityType
<1>3. Cardinality(S \X {1}) = Cardinality(S) * 1
  BY <1>2, FS_Product
<1>4. Cardinality(S) * 1 = Cardinality(S)
  <2> DEFINE n == Cardinality(S)
  <2>1. n \in Nat
    BY <1>2
  <2> HIDE DEF n
  <2>2. n * 1 = n
    BY <2>1
  <2> QED BY <2>2 DEF n
<1> QED BY <1>1, <1>3, <1>4 DEF Sum

\* Nothing for each is nothing.
LEMMA NoughtsSum == ASSUME NEW S, NEW f, \A x \in S : f[x] = 0  PROVE Sum(f, S) = 0
<1>1. Units(f, S) = {}
  BY DEF Units
<1> QED BY <1>1, FS_EmptySet DEF Sum

\* Finitely many finite parts.
LEMMA FiniteParts ==
    ASSUME NEW K, IsFiniteSet(K), NEW share, \A k \in K : IsFiniteSet(share[k])
    PROVE  IsFiniteSet(UNION {share[k] : k \in K})
<1> DEFINE Of(T) == UNION {share[k] : k \in T}
           Some == {T \in SUBSET K : IsFiniteSet(Of(T))}
<1>1. {} \in Some
  <2>1. Of({}) = {}
    OBVIOUS
  <2> HIDE DEF Of
  <2> QED BY <2>1, FS_EmptySet
<1>2. ASSUME NEW T \in Some, NEW k \in K \ T  PROVE T \union {k} \in Some
  <2>1. Of(T \union {k}) = Of(T) \union share[k]
    OBVIOUS
  <2> HIDE DEF Of
  <2> QED BY <2>1, FS_Union
<1>3. K \in Some
  <2>1. Some \in SUBSET (SUBSET K)
    OBVIOUS
  <2> HIDE DEF Some
  <2> QED BY <1>1, <1>2, <2>1, OneByOne
<1> QED BY <1>3

\* As many exchanges as all the rows stand for.
LEMMA IdsAreCounted ==
    ASSUME NEW rows, RowsFit(rows), NEW f, \A row \in rows : f[row] = Cardinality(row.ids)
    PROVE  IsFiniteSet(IdsOf(rows)) /\ Sum(f, rows) = Cardinality(IdsOf(rows))
<1> DEFINE share == [row \in rows |-> row.ids]
           S == IdsOf(rows)
           one == [x \in S |-> 1]
<1>1. /\ IsFiniteSet(rows) /\ \A row \in rows : IsFiniteSet(share[row]) /\ share[row] \subseteq S
      /\ \A row, other \in rows : row # other => share[row] \intersect share[other] = {}
      /\ UNION {share[row] : row \in rows} = S
  BY DEF RowsFit, RowFits, IdsOf
<1>2. \A x \in S : one[x] \in Nat
  OBVIOUS
<1> HIDE DEF share, S
<1>3. IsFiniteSet(S)
  BY <1>1, FiniteParts
<1>4. ASSUME NEW row \in rows  PROVE f[row] = Sum(one, share[row])
  <2>1. Sum([x \in share[row] |-> 1], share[row]) = Cardinality(share[row])
    BY <1>1, SumOfOnes
  <2>2. Sum([x \in share[row] |-> 1], share[row]) = Sum(one, share[row])
    <3>1. \A x \in share[row] : [y \in share[row] |-> 1][x] = one[x]
      BY <1>1
    <3> HIDE DEF one
    <3> QED BY <3>1, SumsAgree
  <2>3. f[row] = Cardinality(share[row])
    BY DEF share
  <2> QED BY <2>1, <2>2, <2>3
<1>5. Sum(f, rows) = Sum(one, S)
  <2> HIDE DEF one
  <2>2. IsFiniteSet(rows) /\ \A row \in rows : share[row] \subseteq S
    BY <1>1
  <2>3. \A row, other \in rows : row # other => share[row] \intersect share[other] = {}
    BY <1>1
  <2>1. Sum(f, rows) = Sum(one, UNION {share[row] : row \in rows})
    BY <1>2, <1>3, <1>4, <2>2, <2>3, SumOfParts
  <2> QED BY <1>1, <2>1
<1>6. Sum(one, S) = Cardinality(S)
  BY <1>3, SumOfOnes
<1> QED BY <1>3, <1>5, <1>6 DEF S

-----------------------------------------------------------------------------
(* The rows of one key, as one.                                             *)

\* The rows of a row's day, Seat, model and refusal, of those that are folded; and their folds.
Group(row, rows) == H!OfItsKey(row, H!Older(rows))
TheFold(row, rows) == H!FoldedInto(Group(row, rows))
Folds(rows) == {TheFold(row, rows) : row \in H!Older(rows)}

TokensOf(row) == IF row.tokens = None THEN 0 ELSE row.tokens

\* The older rows of a row's Seat, model and refusal.
LEMMA AGroup ==
    ASSUME NEW rows, RowsFit(rows), NEW row \in H!Older(rows)
    PROVE  /\ row \in Group(row, rows) /\ Group(row, rows) \subseteq H!Older(rows)
           /\ H!Older(rows) \subseteq rows /\ RowsFit(Group(row, rows)) /\ row.day = "old"
           /\ \A other \in H!Older(rows) : other \in Group(row, rows) <=>
                other.seat = row.seat /\ other.model = row.model /\ other.refused = row.refused
<1>1. row \in Group(row, rows) /\ Group(row, rows) \subseteq H!Older(rows)
  BY DEF Group, H!OfItsKey
<1>2. H!Older(rows) \subseteq rows /\ row.day = "old" /\ \A other \in H!Older(rows) : other.day = "old"
  BY DEF H!Older
<1>3. IsFiniteSet(rows) /\ Group(row, rows) \subseteq rows
  BY <1>1, <1>2 DEF RowsFit
<1>4. IsFiniteSet(Group(row, rows))
  BY <1>3, FS_Subset
<1>5. RowsFit(Group(row, rows))
  BY <1>3, <1>4 DEF RowsFit
<1>6. \A other \in H!Older(rows) : other \in Group(row, rows) <=>
        other.seat = row.seat /\ other.model = row.model /\ other.refused = row.refused
  BY <1>2 DEF Group, H!OfItsKey, H!FoldKey
<1> QED BY <1>1, <1>2, <1>5, <1>6

\* What is counted of some rows is a sum.
LEMMA CountedIs ==
    ASSUME NEW rows, IsFiniteSet(rows), NEW f, DOMAIN f = rows, \A row \in rows : f[row] \in Nat
    PROVE  H!SumFunction(f) = Sum(f, rows) /\ Sum(f, rows) \in Nat
BY TheFoldIsTheSum, SumsAreNumbers

\* The fold of a group is a row of its key, and says what they said.
LEMMA AFold ==
    ASSUME NEW rows, RowsFit(rows), NEW row \in H!Older(rows)
    PROVE  LET group == Group(row, rows)
               one   == TheFold(row, rows) IN
           /\ IsRecord(one, RowFields) /\ one.ids = IdsOf(group)
           /\ one.folded = Sum([r \in group |-> r.folded], group)
           /\ (\A r \in group : r.tokens = None) => one.tokens = None
           /\ ~(\A r \in group : r.tokens = None) => one.tokens = Sum([r \in group |-> TokensOf(r)], group)
           /\ one.day = "old" /\ one.seat = row.seat /\ one.model = row.model /\ one.refused = row.refused
<1> DEFINE group == Group(row, rows)
           one   == TheFold(row, rows)
           r0 == CHOOSE r \in group : TRUE
           ids == UNION {r.ids : r \in group}
           folded == H!SumFunction([r \in group |-> r.folded])
           all == H!SumFunction([r \in group |-> IF r.tokens = None THEN 0 ELSE r.tokens])
           tokens == IF \A r \in group : r.tokens = None THEN None ELSE all
<1>1. one = [r0 EXCEPT !.ids = ids, !.folded = folded, !.tokens = tokens, !.session = None, !.project = None]
  BY DEF TheFold, H!FoldedInto, H!Counted
<1>2. r0 \in group /\ RowsFit(group) /\ group \subseteq H!Older(rows)
  BY AGroup
<1>3. IsRecord(r0, RowFields) /\ r0.day = "old" /\ r0.seat = row.seat /\ r0.model = row.model /\ r0.refused = row.refused
  <2>1. IsRecord(r0, RowFields)
    BY <1>2 DEF RowsFit, RowFits
  <2>2. r0 \in H!Older(rows) /\ r0.day = "old"
    BY <1>2 DEF H!Older
  <2> HIDE DEF r0
  <2> QED BY <1>2, <2>1, <2>2, AGroup
<1>4. IsFiniteSet(group) /\ \A r \in group : r.folded \in Nat /\ TokensOf(r) \in Nat
  BY <1>2, FS_CardinalityType DEF RowsFit, RowFits, TokensOf
<1>5. folded = Sum([r \in group |-> r.folded], group)
  <2> DEFINE f == [r \in group |-> r.folded]
  <2>1. DOMAIN f = group /\ \A r \in group : f[r] \in Nat
    BY <1>4
  <2> HIDE DEF f, group
  <2>2. H!SumFunction(f) = Sum(f, group)
    BY <1>4, <2>1, CountedIs
  <2> QED BY <2>2 DEF f
<1>6. all = Sum([r \in group |-> TokensOf(r)], group)
  <2> DEFINE f == [r \in group |-> TokensOf(r)]
  <2>1. DOMAIN f = group /\ \A r \in group : f[r] \in Nat
    BY <1>4
  <2>2. f = [r \in group |-> IF r.tokens = None THEN 0 ELSE r.tokens]
    BY DEF TokensOf
  <2> HIDE DEF f, group
  <2>3. H!SumFunction(f) = Sum(f, group)
    BY <1>4, <2>1, CountedIs
  <2> QED BY <2>2, <2>3 DEF f
<1>7. ids = IdsOf(group)
  BY DEF IdsOf
<1> HIDE DEF group, one, r0, ids, folded, all
<1>8. /\ IsRecord(one, RowFields) /\ one.ids = ids /\ one.folded = folded /\ one.tokens = tokens
      /\ one.day = r0.day /\ one.seat = r0.seat /\ one.model = r0.model /\ one.refused = r0.refused
  <2> HIDE DEF tokens
  <2> QED BY <1>1, <1>3 DEF IsRecord, RowFields
<1>9. /\ (\A r \in group : r.tokens = None) => one.tokens = None
      /\ ~(\A r \in group : r.tokens = None) => one.tokens = all
  BY <1>8
<1> QED BY <1>3, <1>5, <1>6, <1>7, <1>8, <1>9 DEF group, one

\* And is of that key, so that there is one fold for each key.
LEMMA ItsGroup ==
    ASSUME NEW rows, RowsFit(rows), NEW row \in H!Older(rows)
    PROVE  /\ Group(TheFold(row, rows), rows) = Group(row, rows)
           /\ \A other \in H!Older(rows) :
                \/ Group(other, rows) = Group(row, rows)
                \/ Group(other, rows) \intersect Group(row, rows) = {}
<1>1. H!FoldKey(TheFold(row, rows)) = H!FoldKey(row)
  <2>1. TheFold(row, rows).day = "old" /\ row.day = "old"
    BY AFold, AGroup
  <2>2. /\ TheFold(row, rows).seat = row.seat /\ TheFold(row, rows).model = row.model
        /\ TheFold(row, rows).refused = row.refused
    BY AFold
  <2> QED BY <2>1, <2>2 DEF H!FoldKey
<1>2. Group(TheFold(row, rows), rows) = Group(row, rows)
  BY <1>1 DEF Group, H!OfItsKey
<1>3. ASSUME NEW other \in H!Older(rows), NEW r, r \in Group(other, rows), r \in Group(row, rows)
      PROVE  Group(other, rows) = Group(row, rows)
  <2>1. H!FoldKey(r) = H!FoldKey(other) /\ H!FoldKey(r) = H!FoldKey(row)
    BY <1>3 DEF Group, H!OfItsKey
  <2> QED BY <2>1 DEF Group, H!OfItsKey
<1> QED BY <1>2, <1>3

\* What a fold puts in place: one for each key, and the later rows, none of them both.
LEMMA FoldsAre ==
    ASSUME NEW rows, RowsFit(rows)
    PROVE  /\ IsFiniteSet(Folds(rows)) /\ IsFiniteSet(H!Older(rows)) /\ IsFiniteSet(rows \ H!Older(rows))
           /\ H!RolledUp(rows) = Folds(rows) \union (rows \ H!Older(rows))
           /\ Folds(rows) \intersect (rows \ H!Older(rows)) = {}
           /\ rows = H!Older(rows) \union (rows \ H!Older(rows))
<1>1. H!Older(rows) \subseteq rows /\ IsFiniteSet(rows)
  BY DEF H!Older, RowsFit
<1>2. IsFiniteSet(H!Older(rows)) /\ IsFiniteSet(rows \ H!Older(rows))
  BY <1>1, FS_Subset, FS_Difference
<1>3. IsFiniteSet(Folds(rows))
  <2> DEFINE g == [row \in H!Older(rows) |-> {TheFold(row, rows)}]
  <2>1. \A row \in H!Older(rows) : IsFiniteSet(g[row])
    BY FS_Singleton
  <2>2. UNION {g[row] : row \in H!Older(rows)} = Folds(rows)
    BY DEF Folds
  <2> HIDE DEF g
  <2>3. IsFiniteSet(UNION {g[row] : row \in H!Older(rows)})
    BY <1>2, <2>1, FiniteParts
  <2> QED BY <2>2, <2>3
<1>4. H!RolledUp(rows) = Folds(rows) \union (rows \ H!Older(rows))
  BY DEF H!RolledUp, Folds, TheFold, Group
<1>5. ASSUME NEW one \in Folds(rows), one \in rows \ H!Older(rows)  PROVE FALSE
  <2>1. PICK row \in H!Older(rows) : one = TheFold(row, rows)
    BY <1>5 DEF Folds
  <2>2. one.day = "old"
    BY <2>1, AFold
  <2> QED BY <1>5, <2>2 DEF H!Older
<1> QED BY <1>1, <1>2, <1>3, <1>4, <1>5

\* A fold stands for what its rows stood for, and no two folds for the same.
LEMMA AFoldFits ==
    ASSUME NEW rows, RowsFit(rows), NEW row \in H!Older(rows)
    PROVE  RowFits(TheFold(row, rows)) /\ TheFold(row, rows).ids = IdsOf(Group(row, rows))
<1> DEFINE group == Group(row, rows)
           one   == TheFold(row, rows)
           f     == [r \in group |-> r.folded]
           t     == [r \in group |-> TokensOf(r)]
<1>1. row \in group /\ RowsFit(group)
  BY AGroup
<1>2. /\ IsRecord(one, RowFields) /\ one.ids = IdsOf(group) /\ one.folded = Sum(f, group)
      /\ (\A r \in group : r.tokens = None) => one.tokens = None
      /\ ~(\A r \in group : r.tokens = None) => one.tokens = Sum(t, group)
  BY AFold
<1>3. \A r \in group : f[r] = Cardinality(r.ids)
  BY <1>1 DEF RowsFit, RowFits
<1>4. IsFiniteSet(group) /\ \A r \in group : t[r] \in Nat
  BY <1>1 DEF RowsFit, RowFits, TokensOf
<1>5. row.ids # {} /\ row.ids \subseteq IdsOf(group)
  BY <1>1 DEF RowsFit, RowFits, IdsOf
<1> HIDE DEF group, one, f, t
<1>6. IsFiniteSet(IdsOf(group)) /\ Sum(f, group) = Cardinality(IdsOf(group))
  BY <1>1, <1>3, IdsAreCounted
<1>7. Sum(t, group) \in Nat
  BY <1>4, SumsAreNumbers
<1>8. one.tokens \in Nat \union {None}
  BY <1>2, <1>7
<1>9. one.ids # {}
  BY <1>2, <1>5
<1> QED BY <1>2, <1>6, <1>8, <1>9 DEF RowFits, group, one

\* No row is in two folds.
LEMMA FoldsApart ==
    ASSUME NEW rows, RowsFit(rows), NEW one \in Folds(rows), NEW other \in Folds(rows), one # other
    PROVE  Group(one, rows) \intersect Group(other, rows) = {}
<1>1. PICK a \in H!Older(rows) : one = TheFold(a, rows)
  BY DEF Folds
<1>2. PICK b \in H!Older(rows) : other = TheFold(b, rows)
  BY DEF Folds
<1>3. Group(one, rows) = Group(a, rows) /\ Group(other, rows) = Group(b, rows)
  BY <1>1, <1>2, ItsGroup
<1>4. Group(a, rows) # Group(b, rows)
  BY <1>1, <1>2 DEF TheFold
<1>5. Group(b, rows) = Group(a, rows) \/ Group(b, rows) \intersect Group(a, rows) = {}
  BY ItsGroup
<1> QED BY <1>3, <1>4, <1>5

\* A fold is the fold of its own group.
LEMMA FoldIsOf ==
    ASSUME NEW rows, RowsFit(rows), NEW one \in Folds(rows)
    PROVE  /\ RowFits(one) /\ one.ids = IdsOf(Group(one, rows)) /\ TheFold(one, rows) = one
           /\ Group(one, rows) \subseteq H!Older(rows) /\ one.day = "old"
           /\ \A r \in Group(one, rows) : r.seat = one.seat /\ r.model = one.model /\ r.refused = one.refused
<1>1. PICK a \in H!Older(rows) : one = TheFold(a, rows)
  BY DEF Folds
<1>2. Group(one, rows) = Group(a, rows)
  BY <1>1, ItsGroup
<1>3. RowFits(one) /\ one.ids = IdsOf(Group(one, rows))
  BY <1>1, <1>2, AFoldFits
<1>4. TheFold(one, rows) = one
  BY <1>1, <1>2 DEF TheFold
<1>5. one.day = "old" /\ one.seat = a.seat /\ one.model = a.model /\ one.refused = a.refused
  BY <1>1, AFold
<1>6. /\ Group(a, rows) \subseteq H!Older(rows)
      /\ \A r \in H!Older(rows) : r \in Group(a, rows) <=>
           r.seat = a.seat /\ r.model = a.model /\ r.refused = a.refused
  BY AGroup
<1> QED BY <1>2, <1>3, <1>4, <1>5, <1>6

\* The fold loses no exchange and counts none twice.
LEMMA FoldingFits ==
    ASSUME NEW rows, RowsFit(rows)
    PROVE  RowsFit(H!RolledUp(rows)) /\ IdsOf(H!RolledUp(rows)) = IdsOf(rows)
<1> DEFINE later == rows \ H!Older(rows)
           next == H!RolledUp(rows)
<1>1. /\ IsFiniteSet(Folds(rows)) /\ IsFiniteSet(later) /\ next = Folds(rows) \union later
      /\ rows = H!Older(rows) \union later
  BY FoldsAre
<1>2. IsFiniteSet(next)
  BY <1>1, FS_Union
<1>3. \A r, s \in rows : r # s => r.ids \intersect s.ids = {}
  BY DEF RowsFit
<1>4. \A r \in next : RowFits(r)
  <2>1. \A r \in later : RowFits(r)
    BY DEF RowsFit
  <2>2. \A r \in Folds(rows) : RowFits(r)
    BY FoldIsOf
  <2> QED BY <1>1, <2>1, <2>2
<1>5. ASSUME NEW one \in Folds(rows), NEW other \in Folds(rows), one # other
      PROVE  one.ids \intersect other.ids = {}
  <2>1. one.ids = IdsOf(Group(one, rows)) /\ other.ids = IdsOf(Group(other, rows))
    BY FoldIsOf
  <2>2. Group(one, rows) \subseteq rows /\ Group(other, rows) \subseteq rows
    BY <1>1, FoldIsOf
  <2>3. Group(one, rows) \intersect Group(other, rows) = {}
    BY <1>5, FoldsApart
  <2> QED BY <1>3, <2>1, <2>2, <2>3 DEF IdsOf
<1>6. ASSUME NEW one \in Folds(rows), NEW r \in later
      PROVE  one.ids \intersect r.ids = {} /\ r.ids \intersect one.ids = {}
  <2>1. one.ids = IdsOf(Group(one, rows)) /\ Group(one, rows) \subseteq H!Older(rows)
    BY FoldIsOf
  <2>2. \A g \in Group(one, rows) : g \in rows /\ g # r
    BY <1>1, <2>1
  <2>3. \A g \in Group(one, rows) : g.ids \intersect r.ids = {}
    BY <1>3, <2>2
  <2> QED BY <2>1, <2>3 DEF IdsOf
<1>7. \A r, s \in later : r # s => r.ids \intersect s.ids = {}
  BY <1>3
<1>8. \A r, s \in next : r # s => r.ids \intersect s.ids = {}
  BY <1>1, <1>5, <1>6, <1>7
<1>9. ASSUME NEW x \in IdsOf(next)  PROVE x \in IdsOf(rows)
  <2>1. PICK r \in next : x \in r.ids
    BY DEF IdsOf
  <2>2. CASE r \in later
    BY <2>1, <2>2 DEF IdsOf
  <2>3. CASE r \in Folds(rows)
    <3>1. r.ids = IdsOf(Group(r, rows)) /\ Group(r, rows) \subseteq rows
      BY <1>1, <2>3, FoldIsOf
    <3> QED BY <2>1, <3>1 DEF IdsOf
  <2> QED BY <1>1, <2>2, <2>3
<1>10. ASSUME NEW x \in IdsOf(rows)  PROVE x \in IdsOf(next)
  <2>1. PICK r \in rows : x \in r.ids
    BY DEF IdsOf
  <2>2. CASE r \in later
    BY <1>1, <2>1, <2>2 DEF IdsOf
  <2>3. CASE r \in H!Older(rows)
    <3>1. TheFold(r, rows) \in next
      BY <1>1, <2>3 DEF Folds
    <3>2. r \in Group(r, rows)
      BY <2>3, AGroup
    <3>3. TheFold(r, rows).ids = IdsOf(Group(r, rows))
      BY <2>3, AFoldFits
    <3>4. x \in TheFold(r, rows).ids
      BY <2>1, <3>2, <3>3 DEF IdsOf
    <3> HIDE DEF next
    <3> QED BY <3>1, <3>4 DEF IdsOf
  <2> QED BY <1>1, <2>2, <2>3
<1> HIDE DEF next
<1>11. RowsFit(next) /\ IdsOf(next) = IdsOf(rows)
  BY <1>2, <1>4, <1>8, <1>9, <1>10 DEF RowsFit
<1> QED BY <1>11 DEF next

-----------------------------------------------------------------------------
\* What a fold says is what its rows said together, so a Seat's rows say the same folded.
LEMMA ASeatSaysTheSame ==
    ASSUME NEW rows, RowsFit(rows), NEW seat, NEW u,
           \A row \in rows : u[row] \in Nat,
           \A one \in Folds(rows) : u[one] = Sum(u, Group(one, rows))
    PROVE  Sum(u, H!Where(H!RolledUp(rows), seat)) = Sum(u, H!Where(rows, seat))
<1> DEFINE older == {row \in H!Older(rows) : row.seat = seat}
           later == {row \in rows \ H!Older(rows) : row.seat = seat}
           K     == {one \in Folds(rows) : one.seat = seat}
           share == [one \in K |-> Group(one, rows)]
<1>1. /\ IsFiniteSet(Folds(rows)) /\ IsFiniteSet(H!Older(rows)) /\ IsFiniteSet(rows \ H!Older(rows))
      /\ H!RolledUp(rows) = Folds(rows) \union (rows \ H!Older(rows))
      /\ Folds(rows) \intersect (rows \ H!Older(rows)) = {}
      /\ rows = H!Older(rows) \union (rows \ H!Older(rows))
  BY FoldsAre
<1>2. /\ older \subseteq H!Older(rows) /\ later \subseteq rows \ H!Older(rows) /\ K \subseteq Folds(rows)
      /\ older \subseteq rows /\ later \subseteq rows
  BY <1>1
<1>3. IsFiniteSet(older) /\ IsFiniteSet(later) /\ IsFiniteSet(K)
  <2> HIDE DEF older, later, K
  <2> QED BY <1>1, <1>2, FS_Subset
<1>4. H!Where(H!RolledUp(rows), seat) = K \union later /\ K \intersect later = {}
  BY <1>1 DEF H!Where
<1>5. H!Where(rows, seat) = older \union later /\ older \intersect later = {}
  BY <1>1 DEF H!Where
<1>6. \A k \in K : share[k] \subseteq older
  <2> SUFFICES ASSUME NEW k \in K  PROVE Group(k, rows) \subseteq older
    OBVIOUS
  <2>1. Group(k, rows) \subseteq H!Older(rows) /\ \A r \in Group(k, rows) : r.seat = k.seat
    BY FoldIsOf
  <2> QED BY <2>1
<1>7. \A k, l \in K : k # l => share[k] \intersect share[l] = {}
  BY FoldsApart
<1>8. UNION {share[k] : k \in K} = older
  <2>1. ASSUME NEW r \in older  PROVE r \in UNION {share[k] : k \in K}
    <3> DEFINE k == TheFold(r, rows)
    <3>1. k.seat = r.seat /\ k \in Folds(rows)
      BY AFold DEF Folds
    <3>2. r \in Group(r, rows) /\ Group(k, rows) = Group(r, rows)
      BY AGroup, ItsGroup
    <3> HIDE DEF k
    <3>3. k \in K /\ r \in share[k]
      BY <3>1, <3>2
    <3> HIDE DEF K, share
    <3> QED BY <3>3
  <2> HIDE DEF share, older, K
  <2> QED BY <1>6, <2>1
<1>9. \A k \in K : u[k] = Sum(u, share[k])
  OBVIOUS
<1>10. (\A x \in older : u[x] \in Nat) /\ (\A x \in later : u[x] \in Nat)
  BY <1>2
<1> HIDE DEF older, later, K, share
<1>11. Sum(u, K) = Sum(u, older)
  <2>1. Sum(u, K) = Sum(u, UNION {share[k] : k \in K})
    BY <1>3, <1>6, <1>7, <1>9, <1>10, SumOfParts
  <2> QED BY <1>8, <2>1
<1>12. \A k \in K : u[k] \in Nat
  <2> SUFFICES ASSUME NEW k \in K  PROVE Sum(u, share[k]) \in Nat
    BY <1>9
  <2>1. IsFiniteSet(share[k])
    BY <1>3, <1>6, FS_Subset
  <2>2. \A x \in share[k] : u[x] \in Nat
    BY <1>6, <1>10
  <2> QED BY <2>1, <2>2, SumsAreNumbers
<1>13. Sum(u, K \union later) = Sum(u, K) + Sum(u, later)
  <2>1. \A x \in K \union later : u[x] \in Nat
    BY <1>10, <1>12
  <2> QED BY <1>3, <1>4, <2>1, SumOfBoth
<1>14. Sum(u, older \union later) = Sum(u, older) + Sum(u, later)
  <2>1. \A x \in older \union later : u[x] \in Nat
    BY <1>10
  <2> QED BY <1>3, <1>5, <2>1, SumOfBoth
<1> QED BY <1>4, <1>5, <1>11, <1>13, <1>14

-----------------------------------------------------------------------------
(* What is told of the rows, before and after.                              *)

\* What is added up of a Seat's rows, of a number each of them says.
LEMMA ASeatsSum ==
    ASSUME NEW rows, IsFiniteSet(rows), NEW seat, NEW u, \A row \in rows : u[row] \in Nat
    PROVE  H!SumFunction([row \in H!Where(rows, seat) |-> u[row]]) = Sum(u, H!Where(rows, seat))
<1> DEFINE mine == H!Where(rows, seat)
           f == [row \in mine |-> u[row]]
<1>1. mine \subseteq rows
  BY DEF H!Where
<1> HIDE DEF mine
<1>2. IsFiniteSet(mine)
  BY <1>1, FS_Subset
<1>3. DOMAIN f = mine /\ \A row \in mine : f[row] \in Nat /\ f[row] = u[row]
  BY <1>1
<1> HIDE DEF f
<1>4. H!SumFunction(f) = Sum(f, mine)
  BY <1>2, <1>3, CountedIs
<1>5. Sum(f, mine) = Sum(u, mine)
  BY <1>3, SumsAgree
<1> QED BY <1>4, <1>5 DEF f, mine

\* The same added up before and after the fold.
LEMMA TheSameAddedUp ==
    ASSUME NEW rows, RowsFit(rows), NEW seat, NEW u,
           \A row \in rows \union H!RolledUp(rows) : u[row] \in Nat,
           \A one \in Folds(rows) : u[one] = Sum(u, Group(one, rows))
    PROVE  H!SumFunction([row \in H!Where(H!RolledUp(rows), seat) |-> u[row]])
             = H!SumFunction([row \in H!Where(rows, seat) |-> u[row]])
<1> DEFINE next == H!RolledUp(rows)
<1>1. IsFiniteSet(rows) /\ IsFiniteSet(next)
  BY FoldingFits DEF RowsFit
<1>2. Sum(u, H!Where(next, seat)) = Sum(u, H!Where(rows, seat))
  BY ASeatSaysTheSame
<1>3. (\A row \in rows : u[row] \in Nat) /\ (\A row \in next : u[row] \in Nat)
  OBVIOUS
<1> HIDE DEF next
<1>4. H!SumFunction([row \in H!Where(next, seat) |-> u[row]]) = Sum(u, H!Where(next, seat))
  BY <1>1, <1>3, ASeatsSum
<1>5. H!SumFunction([row \in H!Where(rows, seat) |-> u[row]]) = Sum(u, H!Where(rows, seat))
  BY <1>1, <1>3, ASeatsSum
<1> QED BY <1>2, <1>4, <1>5 DEF next

\* What a fold says, in terms of its rows.
LEMMA WhatAFoldSays ==
    ASSUME NEW rows, RowsFit(rows), NEW one \in Folds(rows)
    PROVE  /\ IsFiniteSet(Group(one, rows)) /\ \A r \in Group(one, rows) : r \in rows /\ RowFits(r)
           /\ one.folded = Sum([r \in Group(one, rows) |-> r.folded], Group(one, rows))
           /\ TokensOf(one) = Sum([r \in Group(one, rows) |-> TokensOf(r)], Group(one, rows))
           /\ one.tokens = None <=> \A r \in Group(one, rows) : r.tokens = None
<1> DEFINE group == Group(one, rows)
           t == [r \in group |-> TokensOf(r)]
<1>1. PICK a \in H!Older(rows) : one = TheFold(a, rows)
  BY DEF Folds
<1>2. group = Group(a, rows)
  BY <1>1, ItsGroup
<1>3. /\ one.folded = Sum([r \in group |-> r.folded], group)
      /\ (\A r \in group : r.tokens = None) => one.tokens = None
      /\ ~(\A r \in group : r.tokens = None) => one.tokens = Sum(t, group)
  BY <1>1, <1>2, AFold
<1>4. IsFiniteSet(group) /\ \A r \in group : r \in rows /\ RowFits(r)
  <2>1. RowsFit(group) /\ group \subseteq H!Older(rows) /\ H!Older(rows) \subseteq rows
    BY <1>2, AGroup
  <2> QED BY <2>1 DEF RowsFit
<1>5. \A r \in group : t[r] \in Nat
  BY <1>4 DEF RowFits, TokensOf
<1>6. (\A r \in group : r.tokens = None) => \A r \in group : t[r] = 0
  BY DEF TokensOf
<1> HIDE DEF group, t
<1>7. Sum(t, group) \in Nat
  BY <1>4, <1>5, SumsAreNumbers
<1>8. (\A r \in group : r.tokens = None) => Sum(t, group) = 0
  BY <1>6, NoughtsSum
<1>9. None \notin Nat
  BY NoneAssumption
<1>10. TokensOf(one) = Sum(t, group)
  BY <1>3, <1>7, <1>8, <1>9 DEF TokensOf
<1>11. one.tokens = None <=> \A r \in group : r.tokens = None
  BY <1>3, <1>7, <1>9
<1> QED BY <1>3, <1>4, <1>10, <1>11 DEF group, t

LEMMA FoldsAreThere == ASSUME NEW rows, RowsFit(rows)  PROVE Folds(rows) \subseteq H!RolledUp(rows)
<1>1. H!RolledUp(rows) = Folds(rows) \union (rows \ H!Older(rows))
  BY FoldsAre
<1> QED BY <1>1

LEMMA TheNumbers ==
    ASSUME NEW rows, RowsFit(rows), NEW row \in rows \union H!RolledUp(rows)
    PROVE  row.folded \in Nat /\ TokensOf(row) \in Nat /\ row.tokens \in Nat \union {None}
<1>1. RowFits(row)
  BY FoldingFits DEF RowsFit
<1> QED BY <1>1, FS_CardinalityType DEF RowFits, TokensOf

LEMMA RatesAreNumbers == ASSUME NEW model, H!RateFor(model) # None  PROVE H!RateFor(model) \in Nat
BY PricesAssumption DEF H!RateFor

-----------------------------------------------------------------------------
\* Each exchange is counted once, in its row or in its fold.
LEMMA SameExchanges ==
    ASSUME NEW rows, RowsFit(rows), NEW seat
    PROVE  H!SumFunction([row \in H!Where(H!RolledUp(rows), seat) |-> row.folded])
             = H!SumFunction([row \in H!Where(rows, seat) |-> row.folded])
<1> DEFINE next == H!RolledUp(rows)
           u == [row \in rows \union next |-> row.folded]
<1>1. \A row \in rows \union next : u[row] = row.folded /\ u[row] \in Nat
  BY TheNumbers
<1>2. Folds(rows) \subseteq next /\ \A one \in Folds(rows) : u[one] = one.folded
  <2>1. Folds(rows) \subseteq next
    BY FoldsAreThere
  <2> HIDE DEF u, next
  <2> QED BY <1>1, <2>1
<1>3. ASSUME NEW one \in Folds(rows)  PROVE u[one] = Sum(u, Group(one, rows))
  <2> DEFINE group == Group(one, rows)
             f == [r \in group |-> r.folded]
  <2>1. one.folded = Sum(f, group) /\ \A r \in group : r \in rows
    BY WhatAFoldSays
  <2>2. \A r \in group : f[r] = u[r]
    BY <2>1
  <2> HIDE DEF group, f, u
  <2>3. Sum(f, group) = Sum(u, group)
    BY <2>2, SumsAgree
  <2> QED BY <1>2, <2>1, <2>3 DEF group
<1>4. H!Where(next, seat) \subseteq next /\ H!Where(rows, seat) \subseteq rows
  BY DEF H!Where
<1>5. /\ [row \in H!Where(next, seat) |-> row.folded] = [row \in H!Where(next, seat) |-> u[row]]
      /\ [row \in H!Where(rows, seat) |-> row.folded] = [row \in H!Where(rows, seat) |-> u[row]]
  BY <1>1, <1>4
<1> HIDE DEF u
<1> QED BY <1>1, <1>3, <1>5, TheSameAddedUp

\* All rows of a fold are refused, or none is.
LEMMA SameRefusals ==
    ASSUME NEW rows, RowsFit(rows), NEW seat
    PROVE  H!SumFunction([row \in H!Where(H!RolledUp(rows), seat) |-> IF row.refused THEN row.folded ELSE 0])
             = H!SumFunction([row \in H!Where(rows, seat) |-> IF row.refused THEN row.folded ELSE 0])
<1> DEFINE next == H!RolledUp(rows)
           Of(row) == IF row.refused THEN row.folded ELSE 0
           u == [row \in rows \union next |-> Of(row)]
<1>1. \A row \in rows \union next : u[row] = Of(row) /\ u[row] \in Nat
  BY TheNumbers
<1>2. Folds(rows) \subseteq next /\ \A one \in Folds(rows) : u[one] = Of(one)
  <2>1. Folds(rows) \subseteq next
    BY FoldsAreThere
  <2> HIDE DEF u, next
  <2> QED BY <1>1, <2>1
<1>3. ASSUME NEW one \in Folds(rows)  PROVE u[one] = Sum(u, Group(one, rows))
  <2> DEFINE group == Group(one, rows)
             f == [r \in group |-> r.folded]
  <2>1. one.folded = Sum(f, group) /\ \A r \in group : r \in rows
    BY WhatAFoldSays
  <2>2. \A r \in group : r.refused = one.refused /\ u[r] = Of(r)
    BY <1>1, <2>1, FoldIsOf
  <2>3. CASE one.refused
    <3>1. \A r \in group : f[r] = u[r]
      BY <2>2, <2>3
    <3>2. Of(one) = one.folded
      BY <2>3
    <3> HIDE DEF group, f, u, Of
    <3>3. Sum(f, group) = Sum(u, group)
      BY <3>1, SumsAgree
    <3> QED BY <1>2, <2>1, <3>2, <3>3 DEF group
  <2>4. CASE ~one.refused
    <3>1. \A r \in group : u[r] = 0
      BY <2>2, <2>4
    <3>2. Of(one) = 0
      BY <2>4
    <3> HIDE DEF group, u, Of
    <3>3. Sum(u, group) = 0
      BY <3>1, NoughtsSum
    <3> QED BY <1>2, <3>2, <3>3 DEF group
  <2> QED BY <2>3, <2>4
<1>4. H!Where(next, seat) \subseteq next /\ H!Where(rows, seat) \subseteq rows
  BY DEF H!Where
<1> HIDE DEF u
<1>5. /\ [row \in H!Where(next, seat) |-> IF row.refused THEN row.folded ELSE 0] = [row \in H!Where(next, seat) |-> u[row]]
      /\ [row \in H!Where(rows, seat) |-> IF row.refused THEN row.folded ELSE 0] = [row \in H!Where(rows, seat) |-> u[row]]
  BY <1>1, <1>4
<1> HIDE DEF Of
<1> QED BY <1>1, <1>3, <1>5, TheSameAddedUp

\* A fold with no count is of rows with none, which add nothing.
LEMMA SameTokens ==
    ASSUME NEW rows, RowsFit(rows), NEW seat
    PROVE  H!SumFunction([row \in H!Where(H!RolledUp(rows), seat) |-> IF row.tokens = None THEN 0 ELSE row.tokens])
             = H!SumFunction([row \in H!Where(rows, seat) |-> IF row.tokens = None THEN 0 ELSE row.tokens])
<1> DEFINE next == H!RolledUp(rows)
           u == [row \in rows \union next |-> TokensOf(row)]
<1>1. \A row \in rows \union next : u[row] = TokensOf(row) /\ u[row] \in Nat
  BY TheNumbers
<1>2. Folds(rows) \subseteq next /\ \A one \in Folds(rows) : u[one] = TokensOf(one)
  <2>1. Folds(rows) \subseteq next
    BY FoldsAreThere
  <2> HIDE DEF u, next
  <2> QED BY <1>1, <2>1
<1>3. ASSUME NEW one \in Folds(rows)  PROVE u[one] = Sum(u, Group(one, rows))
  <2> DEFINE group == Group(one, rows)
             f == [r \in group |-> TokensOf(r)]
  <2>1. TokensOf(one) = Sum(f, group) /\ \A r \in group : r \in rows
    BY WhatAFoldSays
  <2>2. \A r \in group : f[r] = u[r]
    BY <2>1
  <2> HIDE DEF group, f, u
  <2>3. Sum(f, group) = Sum(u, group)
    BY <2>2, SumsAgree
  <2> QED BY <1>2, <2>1, <2>3 DEF group
<1>4. H!Where(next, seat) \subseteq next /\ H!Where(rows, seat) \subseteq rows
  BY DEF H!Where
<1> HIDE DEF u
<1>5. /\ [row \in H!Where(next, seat) |-> IF row.tokens = None THEN 0 ELSE row.tokens] = [row \in H!Where(next, seat) |-> u[row]]
      /\ [row \in H!Where(rows, seat) |-> IF row.tokens = None THEN 0 ELSE row.tokens] = [row \in H!Where(rows, seat) |-> u[row]]
  BY <1>1, <1>4 DEF TokensOf
<1> QED BY <1>1, <1>3, <1>5, TheSameAddedUp

CostOf(row) == IF row.tokens = None \/ H!RateFor(row.model) = None THEN 0
               ELSE row.tokens * H!RateFor(row.model)

\* One model, so one rate, for all rows of a fold.
LEMMA SameCost ==
    ASSUME NEW rows, RowsFit(rows), NEW seat
    PROVE  H!SumFunction([row \in H!Where(H!RolledUp(rows), seat) |-> CostOf(row)])
             = H!SumFunction([row \in H!Where(rows, seat) |-> CostOf(row)])
<1> DEFINE next == H!RolledUp(rows)
           u == [row \in rows \union next |-> CostOf(row)]
<1>1. \A row \in rows \union next : u[row] = CostOf(row) /\ u[row] \in Nat
  <2> SUFFICES ASSUME NEW row \in rows \union next  PROVE CostOf(row) \in Nat
    OBVIOUS
  <2>1. CASE row.tokens = None \/ H!RateFor(row.model) = None
    BY <2>1 DEF CostOf
  <2>2. CASE ~(row.tokens = None \/ H!RateFor(row.model) = None)
    <3> DEFINE n == row.tokens
               r == H!RateFor(row.model)
    <3>1. n \in Nat /\ r \in Nat
      BY <2>2, TheNumbers, RatesAreNumbers
    <3>2. CostOf(row) = n * r
      BY <2>2 DEF CostOf
    <3> HIDE DEF n, r
    <3> QED BY <3>1, <3>2
  <2> QED BY <2>1, <2>2
<1>2. Folds(rows) \subseteq next /\ \A one \in Folds(rows) : u[one] = CostOf(one)
  <2>1. Folds(rows) \subseteq next
    BY FoldsAreThere
  <2> HIDE DEF u, next
  <2> QED BY <1>1, <2>1
<1>3. ASSUME NEW one \in Folds(rows)  PROVE u[one] = Sum(u, Group(one, rows))
  <2> DEFINE group == Group(one, rows)
             f == [r \in group |-> TokensOf(r)]
             rate == H!RateFor(one.model)
  <2>1. /\ TokensOf(one) = Sum(f, group) /\ IsFiniteSet(group)
        /\ \A r \in group : r \in rows /\ RowFits(r)
    BY WhatAFoldSays
  <2>2. \A r \in group : H!RateFor(r.model) = rate /\ u[r] = CostOf(r)
    BY <1>1, <2>1, FoldIsOf
  <2>3. CASE rate = None
    <3>1. \A r \in group : u[r] = 0
      <4> HIDE DEF u, group, rate
      <4> QED BY <2>2, <2>3 DEF CostOf
    <3>2. CostOf(one) = 0
      BY <2>3 DEF CostOf
    <3> HIDE DEF group, u
    <3>3. Sum(u, group) = 0
      BY <3>1, NoughtsSum
    <3> QED BY <1>2, <3>2, <3>3 DEF group
  <2>4. CASE rate # None
    <3>1. rate \in Nat
      BY <2>4, RatesAreNumbers
    <3>2. ASSUME NEW r, H!RateFor(r.model) = rate, TokensOf(r) \in Nat  PROVE CostOf(r) = TokensOf(r) * rate
      <4>1. CASE r.tokens = None
        <5>1. CostOf(r) = 0 /\ TokensOf(r) = 0
          BY <4>1 DEF CostOf, TokensOf
        <5> HIDE DEF rate
        <5>2. 0 * rate = 0
          BY <3>1
        <5> QED BY <5>1, <5>2
      <4>2. CASE r.tokens # None
        BY <2>4, <3>2, <4>2 DEF CostOf, TokensOf
      <4> QED BY <4>1, <4>2
    <3>3. \A r \in group : f[r] \in Nat /\ f[r] = TokensOf(r)
      BY <2>1 DEF RowFits, TokensOf
    <3>4. \A r \in group : u[r] = f[r] * rate
      BY <2>2, <3>2, <3>3
    <3>5. TokensOf(one) \in Nat
      BY <1>2, TheNumbers
    <3>6. CostOf(one) = TokensOf(one) * rate
      BY <3>2, <3>5
    <3> HIDE DEF group, f, u, rate
    <3>7. Sum(u, group) = Sum(f, group) * rate
      BY <2>1, <3>1, <3>3, <3>4, SumOfTimes
    <3>8. CostOf(one) = Sum(u, group)
      BY <2>1, <3>6, <3>7
    <3> QED BY <1>2, <3>8 DEF group
  <2> QED BY <2>3, <2>4
<1>4. H!Where(next, seat) \subseteq next /\ H!Where(rows, seat) \subseteq rows
  BY DEF H!Where
<1> HIDE DEF u
<1>5. /\ [row \in H!Where(next, seat) |-> CostOf(row)] = [row \in H!Where(next, seat) |-> u[row]]
      /\ [row \in H!Where(rows, seat) |-> CostOf(row)] = [row \in H!Where(rows, seat) |-> u[row]]
  BY <1>1, <1>4
<1> QED BY <1>1, <1>3, <1>5, TheSameAddedUp

\* Folding changes no total of a Seat (rows.ts, "exact rather than approximate").
LEMMA TotalsStay ==
    ASSUME NEW rows, RowsFit(rows), NEW seat
    PROVE  H!TotalsBy(H!RolledUp(rows), seat) = H!TotalsBy(rows, seat)
<1>1. H!SumFunction([row \in H!Where(H!RolledUp(rows), seat) |->
                       IF row.tokens = None \/ H!RateFor(row.model) = None THEN 0
                       ELSE row.tokens * H!RateFor(row.model)])
        = H!SumFunction([row \in H!Where(rows, seat) |->
                       IF row.tokens = None \/ H!RateFor(row.model) = None THEN 0
                       ELSE row.tokens * H!RateFor(row.model)])
  BY SameCost DEF CostOf
<1> QED BY <1>1, SameExchanges, SameRefusals, SameTokens DEF H!TotalsBy, H!Counted

-----------------------------------------------------------------------------
UnpricedOf(row) == IF row.tokens = None \/ H!RateFor(row.model) # None THEN 0 ELSE row.folded

\* What has no price: a fold of rows of which one had a count counts them all.
LEMMA UnpricedGrows ==
    ASSUME NEW rows, RowsFit(rows), NEW seat
    PROVE  H!Unpriced(H!RolledUp(rows), seat) >= H!Unpriced(rows, seat)
<1> DEFINE next == H!RolledUp(rows)
           both == rows \union next
           v == [row \in both |-> UnpricedOf(row)]
           Of(row) == IF row.day = "old"
                      THEN IF TheFold(row, rows).tokens = None \/ H!RateFor(row.model) # None THEN 0
                           ELSE row.folded
                      ELSE UnpricedOf(row)
           w == [row \in both |-> Of(row)]
<1>1. \A row \in both : v[row] = UnpricedOf(row) /\ v[row] \in Nat /\ w[row] = Of(row) /\ w[row] \in Nat
  BY TheNumbers DEF UnpricedOf
<1>2. /\ next = Folds(rows) \union (rows \ H!Older(rows)) /\ rows = H!Older(rows) \union (rows \ H!Older(rows))
      /\ \A row \in rows \ H!Older(rows) : row.day # "old"
  BY FoldsAre DEF H!Older
<1>3. ASSUME NEW row \in next  PROVE v[row] = w[row]
  <2>1. CASE row \in Folds(rows)
    <3>1. TheFold(row, rows) = row /\ row.day = "old"
      BY <2>1, FoldIsOf
    <3> QED BY <1>1, <3>1 DEF UnpricedOf
  <2>2. CASE row \in rows \ H!Older(rows)
    BY <1>1, <1>2, <2>2
  <2> QED BY <1>2, <2>1, <2>2
<1>4. ASSUME NEW row \in rows  PROVE v[row] <= w[row]
  <2>1. CASE row \in H!Older(rows)
    <3> DEFINE one == TheFold(row, rows)
    <3>1. row \in Group(row, rows) /\ row.day = "old" /\ one \in Folds(rows) /\ Group(one, rows) = Group(row, rows)
      BY <2>1, AGroup, ItsGroup DEF Folds
    <3>2. one.tokens = None => row.tokens = None
      <4>1. one.tokens = None <=> \A r \in Group(one, rows) : r.tokens = None
        BY <3>1, WhatAFoldSays
      <4> HIDE DEF one
      <4> QED BY <3>1, <4>1
    <3>3. v[row] = UnpricedOf(row) /\ w[row] = Of(row) /\ row.folded \in Nat
      BY <1>1, TheNumbers
    <3> HIDE DEF one, v, w
    <3> QED BY <3>1, <3>2, <3>3 DEF UnpricedOf, one
  <2>2. CASE row \in rows \ H!Older(rows)
    <3>1. v[row] = w[row] /\ v[row] \in Nat
      BY <1>1, <1>2, <2>2
    <3> HIDE DEF v, w
    <3> QED BY <3>1
  <2> QED BY <1>2, <2>1, <2>2
<1>5. ASSUME NEW one \in Folds(rows)  PROVE w[one] = Sum(w, Group(one, rows))
  <2> DEFINE group == Group(one, rows)
             f == [r \in group |-> r.folded]
  <2>1. one.folded = Sum(f, group) /\ \A r \in group : r \in rows
    BY WhatAFoldSays
  <2>2. TheFold(one, rows) = one /\ one.day = "old" /\ w[one] = Of(one)
    BY <1>1, <1>2, FoldIsOf
  <2>3. \A r \in group : r.day = "old" /\ r.model = one.model /\ TheFold(r, rows) = one /\ w[r] = Of(r)
    <3> SUFFICES ASSUME NEW r \in group  PROVE r.day = "old" /\ r.model = one.model /\ TheFold(r, rows) = one
      BY <1>1, <2>1
    <3>1. r \in H!Older(rows) /\ r.model = one.model
      BY FoldIsOf
    <3>2. r.day = "old"
      BY <3>1 DEF H!Older
    <3>3. H!FoldKey(r) = H!FoldKey(one)
      BY DEF Group, H!OfItsKey
    <3>4. Group(r, rows) = Group(one, rows)
      BY <3>3 DEF Group, H!OfItsKey
    <3> QED BY <2>2, <3>1, <3>2, <3>4 DEF TheFold
  <2>4. CASE one.tokens = None \/ H!RateFor(one.model) # None
    <3>1. w[one] = 0 /\ \A r \in group : w[r] = 0
      <4> HIDE DEF w, group
      <4> QED BY <2>2, <2>3, <2>4
    <3> HIDE DEF group, w
    <3>2. Sum(w, group) = 0
      BY <3>1, NoughtsSum
    <3> QED BY <3>1, <3>2 DEF group
  <2>5. CASE ~(one.tokens = None \/ H!RateFor(one.model) # None)
    <3>1. w[one] = one.folded /\ \A r \in group : w[r] = f[r]
      BY <2>2, <2>3, <2>5
    <3> HIDE DEF group, w, f
    <3>2. Sum(f, group) = Sum(w, group)
      BY <3>1, SumsAgree
    <3> QED BY <2>1, <3>1, <3>2 DEF group
  <2> QED BY <2>4, <2>5
<1>6. IsFiniteSet(rows) /\ IsFiniteSet(next)
  BY FoldingFits DEF RowsFit
<1>7. H!Where(next, seat) \subseteq next /\ H!Where(rows, seat) \subseteq rows
  BY DEF H!Where
<1>8. /\ [row \in H!Where(next, seat) |-> UnpricedOf(row)] = [row \in H!Where(next, seat) |-> v[row]]
      /\ [row \in H!Where(rows, seat) |-> UnpricedOf(row)] = [row \in H!Where(rows, seat) |-> v[row]]
  BY <1>1, <1>7
<1>9. (\A row \in rows : v[row] \in Nat /\ w[row] \in Nat) /\ (\A row \in next : v[row] \in Nat)
  BY <1>1
<1> HIDE DEF v, w, Of, both
<1>10. Sum(w, H!Where(next, seat)) = Sum(w, H!Where(rows, seat))
  BY <1>5, <1>9, ASeatSaysTheSame
<1> HIDE DEF next
<1>11. H!SumFunction([row \in H!Where(next, seat) |-> v[row]]) = Sum(v, H!Where(next, seat))
  BY <1>6, <1>9, ASeatsSum
<1>12. H!SumFunction([row \in H!Where(rows, seat) |-> v[row]]) = Sum(v, H!Where(rows, seat))
  BY <1>6, <1>9, ASeatsSum
<1>13. Sum(v, H!Where(next, seat)) = Sum(w, H!Where(next, seat))
  BY <1>3, <1>7, SumsAgree
<1>14. IsFiniteSet(H!Where(rows, seat))
  BY <1>6, <1>7, FS_Subset
<1>15. Sum(v, H!Where(rows, seat)) <= Sum(w, H!Where(rows, seat))
  <2>1. \A row \in H!Where(rows, seat) : v[row] \in Nat /\ w[row] \in Nat /\ v[row] <= w[row]
    BY <1>4, <1>7, <1>9
  <2> QED BY <1>14, <2>1, NoLargerSum
<1>16. Sum(v, H!Where(rows, seat)) \in Nat /\ Sum(w, H!Where(rows, seat)) \in Nat
  <2>1. \A row \in H!Where(rows, seat) : v[row] \in Nat /\ w[row] \in Nat
    BY <1>7, <1>9
  <2> QED BY <1>14, <2>1, SumsAreNumbers
<1>17. /\ H!Unpriced(next, seat) = Sum(w, H!Where(rows, seat))
       /\ H!Unpriced(rows, seat) = Sum(v, H!Where(rows, seat))
  <2>1. /\ H!Unpriced(next, seat) = H!SumFunction([row \in H!Where(next, seat) |-> UnpricedOf(row)])
        /\ H!Unpriced(rows, seat) = H!SumFunction([row \in H!Where(rows, seat) |-> UnpricedOf(row)])
    BY DEF H!Unpriced, H!Counted, UnpricedOf
  <2> QED BY <1>8, <1>10, <1>11, <1>12, <1>13, <2>1
<1> DEFINE a == Sum(w, H!Where(rows, seat))
           b == Sum(v, H!Where(rows, seat))
<1>18. a \in Nat /\ b \in Nat /\ b <= a
  BY <1>15, <1>16
<1>19. a >= b
  <2> HIDE DEF a, b
  <2> QED BY <1>18
<1> QED BY <1>17, <1>19 DEF next

-----------------------------------------------------------------------------
(* The file, a rewrite under way, and the rows in hand.                     *)

\* These rows say of every exchange kept, but those that befell something, and of no other.
Says(rows, f) == /\ RowsFit(rows) /\ IdsOf(rows) \subseteq f.kept
                 /\ f.kept \ IdsOf(rows) \subseteq f.during \union f.glued

TidyFields == {"pc", "rows", "next"}
FateFields == {"kept", "during", "glued"}

Writing == {"writing names", "writing folds"}

\* What a rewrite read says so of what was kept since too, and so does what it will put there.
TidyFits(t, f) == /\ IsRecord(t, TidyFields)
                  /\ t.pc \in {"naming", "folding"} \union Writing => Says(t.rows, f)
                  /\ t.pc \in Writing => RowsFit(t.next) /\ IdsOf(t.next) = IdsOf(t.rows)
                  /\ t.pc = "writing folds" => t.next = H!RolledUp(t.rows)

\* A row in hand is of an exchange of its own, not kept yet.
HandFits(hand, n, f) ==
    /\ DOMAIN hand = Keepers /\ \A k \in Keepers : IsRecord(hand[k], {"at", "row"})
    /\ \A k \in Keepers : hand[k].at # "idle" =>
         /\ RowFits(hand[k].row) /\ hand[k].row.ids \subseteq 1..n
         /\ hand[k].row.ids \intersect f.kept = {}
    /\ \A k, l \in Keepers : k # l /\ hand[k].at # "idle" /\ hand[l].at # "idle" =>
         hand[k].row.ids \intersect hand[l].row.ids = {}

HInv == /\ IsRecord(bounds, {"rows", "crashes", "tidies"}) /\ bounds.rows \in Nat
        /\ IsRecord(fate, FateFields) /\ fate.kept \subseteq 1..bounds.rows
        /\ Says(file, fate)
        /\ HandFits(keep, bounds.rows, fate)
        /\ TidyFits(tidy, fate)

LEMMA NothingSays == RowsFit({}) /\ IdsOf({}) = {}
<1>1. IsFiniteSet({})
  BY FS_EmptySet
<1> QED BY <1>1 DEF RowsFit, IdsOf

LEMMA TidyAtRest ==
    ASSUME NEW f, NEW at \in {"idle", "named"}  PROVE TidyFits([H!NoTidy EXCEPT !.pc = at], f)
<1> DEFINE t == [H!NoTidy EXCEPT !.pc = at]
<1>1. IsRecord(t, TidyFields) /\ t.pc = at
  BY DEF H!NoTidy, IsRecord, TidyFields
<1> HIDE DEF t
<1>2. t.pc \notin {"naming", "folding"} \union Writing
  BY <1>1 DEF Writing
<1>3. TidyFits(t, f)
  BY <1>1, <1>2 DEF TidyFits, Writing
<1> QED BY <1>3 DEF t

LEMMA TidyIdle == ASSUME NEW f  PROVE TidyFits(H!NoTidy, f)
<1>1. H!NoTidy = [H!NoTidy EXCEPT !.pc = "idle"]
  BY DEF H!NoTidy
<1>2. TidyFits([H!NoTidy EXCEPT !.pc = "idle"], f)
  BY TidyAtRest
<1> QED BY <1>1, <1>2

\* The first file says of nothing.
LEMMA HistoryAtFirst == H!Init => HInv
<1> SUFFICES ASSUME H!Init  PROVE HInv
  OBVIOUS
<1>1. /\ file = {} /\ keep = [k \in Keepers |-> [at |-> "idle", row |-> None]] /\ tidy = H!NoTidy
      /\ bounds = [rows |-> 0, crashes |-> 0, tidies |-> 0]
      /\ fate = [kept |-> {}, during |-> {}, glued |-> {}]
  BY DEF H!Init
<1>2. IsRecord(bounds, {"rows", "crashes", "tidies"}) /\ bounds.rows \in Nat
  BY <1>1 DEF IsRecord
<1>3. IsRecord(fate, FateFields) /\ fate.kept = {}
  BY <1>1 DEF IsRecord, FateFields
<1>4. Says(file, fate)
  BY <1>1, <1>3, NothingSays DEF Says
<1>5. HandFits(keep, bounds.rows, fate)
  BY <1>1 DEF HandFits, IsRecord
<1>6. TidyFits(tidy, fate)
  BY <1>1, TidyIdle
<1> QED BY <1>2, <1>3, <1>4, <1>5, <1>6 DEF HInv

\* The next exchange's row is its own.
LEMMA ANewRowFits ==
    ASSUME NEW facts \in Facts, NEW id  PROVE RowFits(H!RowOf(facts, id)) /\ H!RowOf(facts, id).ids = {id}
<1> DEFINE row == H!RowOf(facts, id)
<1>1. /\ IsRecord(row, RowFields) /\ row.ids = {id} /\ row.folded = 1 /\ row.tokens = facts.tokens
  BY DEF H!RowOf, IsRecord, RowFields
<1>2. IsFiniteSet({id}) /\ Cardinality({id}) = 1
  BY FS_Singleton
<1>3. facts.tokens \in Nat \union {None}
  BY FactsAssumption
<1> HIDE DEF row
<1>4. RowFits(row)
  BY <1>1, <1>2, <1>3 DEF RowFits
<1> QED BY <1>1, <1>4 DEF row

LEMMA ARowIsTaken == ASSUME HInv, NEW k \in Keepers, H!Keeps(k)  PROVE HInv'
<1> DEFINE n == bounds.rows
<1>1. /\ bounds' = [bounds EXCEPT !.rows = @ + 1] /\ file' = file /\ tidy' = tidy /\ fate' = fate
      /\ keep[k].at = "idle"
  BY DEF H!Keeps
<1>2. PICK facts \in Facts :
        keep' = [keep EXCEPT ![k] = [at |-> "making", row |-> H!RowOf(facts, n + 1)]]
  BY DEF H!Keeps
<1> DEFINE row == H!RowOf(facts, n + 1)
<1>3. RowFits(row) /\ row.ids = {n + 1}
  BY ANewRowFits
<1>4. n \in Nat /\ fate.kept \subseteq 1..n /\ HandFits(keep, n, fate) /\ IsRecord(bounds, {"rows", "crashes", "tidies"})
  BY DEF HInv
<1>5. IsRecord(bounds', {"rows", "crashes", "tidies"}) /\ bounds'.rows = n + 1
  BY <1>1, <1>4 DEF IsRecord
<1> HIDE DEF row, n
<1>6. n + 1 \in Nat /\ 1..n \subseteq 1..(n + 1) /\ n + 1 \in 1..(n + 1) /\ n + 1 \notin 1..n
  BY <1>4
<1>7. /\ DOMAIN keep' = Keepers /\ keep'[k] = [at |-> "making", row |-> row]
      /\ \A l \in Keepers : l # k => keep'[l] = keep[l]
  BY <1>2, <1>4 DEF HandFits, row, n
<1>8. IsRecord(keep'[k], {"at", "row"}) /\ keep'[k].row = row
  BY <1>7 DEF IsRecord
<1>9. \A l \in Keepers : keep[l].at # "idle" =>
        RowFits(keep[l].row) /\ keep[l].row.ids \subseteq 1..n /\ keep[l].row.ids \intersect fate.kept = {}
  BY <1>4 DEF HandFits
<1>10. row.ids \subseteq 1..(n + 1) /\ row.ids \intersect fate.kept = {}
  BY <1>3, <1>4, <1>6
<1>11. \A l \in Keepers : keep[l].at # "idle" => /\ row.ids \intersect keep[l].row.ids = {}
                                                 /\ keep[l].row.ids \intersect row.ids = {}
                                                 /\ keep[l].row.ids \subseteq 1..(n + 1)
  BY <1>3, <1>6, <1>9
<1>12. \A l \in Keepers : IsRecord(keep'[l], {"at", "row"})
  BY <1>4, <1>7, <1>8 DEF HandFits
<1>13. ASSUME NEW l \in Keepers, keep'[l].at # "idle"
       PROVE  /\ RowFits(keep'[l].row) /\ keep'[l].row.ids \subseteq 1..(n + 1)
              /\ keep'[l].row.ids \intersect fate.kept = {}
  <2>1. CASE l = k
    BY <1>3, <1>8, <1>10, <2>1
  <2>2. CASE l # k
    BY <1>7, <1>9, <1>11, <1>13, <2>2
  <2> QED BY <2>1, <2>2
<1>14. ASSUME NEW l \in Keepers, NEW m \in Keepers, l # m, keep'[l].at # "idle", keep'[m].at # "idle"
       PROVE  keep'[l].row.ids \intersect keep'[m].row.ids = {}
  <2>1. CASE l = k
    <3>1. keep'[l].row = row /\ keep'[m] = keep[m]
      BY <1>7, <1>8, <1>14, <2>1
    <3> QED BY <1>11, <1>14, <3>1
  <2>2. CASE m = k
    <3>1. keep'[m].row = row /\ keep'[l] = keep[l]
      BY <1>7, <1>8, <1>14, <2>2
    <3> QED BY <1>11, <1>14, <3>1
  <2>3. CASE l # k /\ m # k
    BY <1>4, <1>7, <1>14, <2>3 DEF HandFits
  <2> QED BY <2>1, <2>2, <2>3
<1>15. HandFits(keep', n + 1, fate)
  BY <1>7, <1>12, <1>13, <1>14 DEF HandFits
<1>16. fate.kept \subseteq 1..(n + 1)
  BY <1>4, <1>6
<1>17. Says(file, fate) /\ TidyFits(tidy, fate) /\ IsRecord(fate, FateFields)
  BY DEF HInv
<1> QED BY <1>1, <1>5, <1>6, <1>15, <1>16, <1>17 DEF HInv

\* What a keeper does before it appends changes neither its row nor what is there.
LEMMA ARowIsHeld ==
    ASSUME HInv, NEW k \in Keepers, H!MadeTheFolder(k) \/ H!LooksAtTheEnd(k) \/ H!Mends(k)
    PROVE  HInv'
<1>1. PICK at \in {"appending", "looking", "mending"} : keep' = [keep EXCEPT ![k].at = at]
  BY DEF H!MadeTheFolder, H!LooksAtTheEnd, H!Mends, H!Goes
<1>2. /\ file' = file /\ tidy' = tidy /\ fate' = fate /\ bounds' = bounds /\ keep[k].at # "idle"
  BY DEF H!MadeTheFolder, H!LooksAtTheEnd, H!Mends
<1>3. HandFits(keep, bounds.rows, fate)
  BY DEF HInv
<1>4. \A l \in Keepers : /\ IsRecord(keep'[l], {"at", "row"}) /\ keep'[l].row = keep[l].row
                         /\ keep'[l].at # "idle" => keep[l].at # "idle"
  <2> SUFFICES ASSUME NEW l \in Keepers
               PROVE  /\ IsRecord(keep'[l], {"at", "row"}) /\ keep'[l].row = keep[l].row
                      /\ keep'[l].at # "idle" => keep[l].at # "idle"
    OBVIOUS
  <2>1. DOMAIN keep = Keepers /\ IsRecord(keep[l], {"at", "row"})
    BY <1>3 DEF HandFits
  <2>2. keep'[l] = IF l = k THEN [keep[l] EXCEPT !.at = at] ELSE keep[l]
    BY <1>1, <2>1
  <2> QED BY <1>2, <2>1, <2>2 DEF IsRecord
<1>5. DOMAIN keep' = Keepers
  BY <1>1, <1>3 DEF HandFits
<1>6. HandFits(keep', bounds.rows, fate)
  BY <1>3, <1>4, <1>5 DEF HandFits
<1> QED BY <1>2, <1>6 DEF HInv

\* One exchange more was kept: it is among the rows, or something befell it.
LEMMA OneMoreIsSaid ==
    ASSUME NEW rows, NEW f, NEW g, NEW ids, Says(rows, f), g.kept = f.kept \union ids,
           f.during \union f.glued \subseteq g.during \union g.glued,
           ids \subseteq IdsOf(rows) \union g.during \union g.glued
    PROVE  Says(rows, g)
BY DEF Says

\* A row of others than theirs may be put beside them.
LEMMA OneMoreRow ==
    ASSUME NEW rows, RowsFit(rows), NEW row, RowFits(row), row.ids \intersect IdsOf(rows) = {}
    PROVE  RowsFit(rows \union {row}) /\ IdsOf(rows \union {row}) = IdsOf(rows) \union row.ids
<1>1. IsFiniteSet(rows \union {row})
  BY FS_AddElement DEF RowsFit
<1>2. \A r \in rows : r.ids \intersect row.ids = {} /\ row.ids \intersect r.ids = {}
  BY DEF IdsOf
<1>3. \A r, s \in rows \union {row} : r # s => r.ids \intersect s.ids = {}
  BY <1>2 DEF RowsFit
<1>4. \A r \in rows \union {row} : RowFits(r)
  BY DEF RowsFit
<1>5. IdsOf(rows \union {row}) = IdsOf(rows) \union row.ids
  BY DEF IdsOf
<1> QED BY <1>1, <1>3, <1>4, <1>5 DEF RowsFit

\* The row of an exchange that nothing said of yet, beside the others; or something befell it.
LEMMA ARowIsAppended == ASSUME HInv, NEW k \in Keepers, H!Appends(k)  PROVE HInv'
<1> DEFINE row == keep[k].row
           n == bounds.rows
<1>1. /\ keep[k].at = "appending" /\ bounds' = bounds /\ tidy' = tidy
      /\ keep' = [keep EXCEPT ![k] = [at |-> "idle", row |-> None]]
  BY DEF H!Appends
<1>2. /\ HandFits(keep, n, fate) /\ Says(file, fate) /\ TidyFits(tidy, fate)
      /\ IsRecord(fate, FateFields) /\ fate.kept \subseteq 1..n
      /\ IsRecord(bounds, {"rows", "crashes", "tidies"}) /\ n \in Nat
  BY DEF HInv
<1>3. RowFits(row) /\ row.ids \subseteq 1..n /\ row.ids \intersect fate.kept = {}
  <2>1. keep[k].at # "idle"
    BY <1>1
  <2> QED BY <1>2, <2>1 DEF HandFits
<1>4. /\ DOMAIN keep' = Keepers /\ keep'[k] = [at |-> "idle", row |-> None]
      /\ \A l \in Keepers : l # k => keep'[l] = keep[l]
  BY <1>1, <1>2 DEF HandFits
<1>5. IsRecord(keep'[k], {"at", "row"}) /\ keep'[k].at = "idle"
  BY <1>4 DEF IsRecord
<1>6. HandFits(keep', n, fate)
  BY <1>2, <1>4, <1>5 DEF HandFits
<1>7. \A l \in Keepers : keep'[l].at # "idle" => keep'[l].row.ids \intersect row.ids = {}
  <2> SUFFICES ASSUME NEW l \in Keepers, keep'[l].at # "idle"  PROVE keep'[l].row.ids \intersect row.ids = {}
    OBVIOUS
  <2>1. l # k /\ keep'[l] = keep[l] /\ keep[k].at # "idle"
    BY <1>1, <1>4, <1>5
  <2> QED BY <1>2, <2>1 DEF HandFits
<1>8. CASE UNCHANGED <<file, ended, fate>>
  <2>1. file' = file /\ fate' = fate
    BY <1>8
  <2> QED BY <1>1, <1>2, <1>6, <2>1 DEF HInv
<1>9. CASE /\ file' = H!Appended(row)
           /\ fate' = [fate EXCEPT !.kept = @ \union row.ids,
                                   !.during = IF tidy.pc = "idle" THEN @ ELSE @ \union row.ids,
                                   !.glued = IF ended THEN @ ELSE @ \union row.ids]
  <2> DEFINE during == IF tidy.pc = "idle" THEN fate.during ELSE fate.during \union row.ids
             glued == IF ended THEN fate.glued ELSE fate.glued \union row.ids
  <2>1. /\ IsRecord(fate', FateFields) /\ fate'.kept = fate.kept \union row.ids
        /\ fate'.during = during /\ fate'.glued = glued
    <3>1. fate' = [fate EXCEPT !.kept = @ \union row.ids, !.during = during, !.glued = glued]
      BY <1>9
    <3> HIDE DEF during, glued
    <3> QED BY <1>2, <3>1 DEF IsRecord, FateFields
  <2>2. fate.during \union fate.glued \subseteq fate'.during \union fate'.glued
    BY <2>1
  <2>3. tidy.pc # "idle" => row.ids \subseteq fate'.during
    BY <2>1
  <2>4. ~ended => row.ids \subseteq fate'.glued
    BY <2>1
  <2> HIDE DEF during, glued, row, n
  <2>5. HandFits(keep', n, fate')
    BY <1>6, <1>7, <2>1 DEF HandFits
  <2>6. TidyFits(tidy, fate')
    <3>1. ASSUME Says(tidy.rows, fate), tidy.pc # "idle"  PROVE Says(tidy.rows, fate')
      <4>1. row.ids \subseteq IdsOf(tidy.rows) \union fate'.during \union fate'.glued
        BY <2>3, <3>1
      <4> QED BY <2>1, <2>2, <3>1, <4>1, OneMoreIsSaid
    <3>2. tidy.pc \in {"naming", "folding"} \union Writing => tidy.pc # "idle"
      BY DEF Writing
    <3> QED BY <1>2, <3>1, <3>2 DEF TidyFits
  <2>7. Says(file', fate')
    <3>1. CASE ended
      <4>1. file' = file \union {row}
        BY <1>9, <3>1 DEF H!Appended
      <4>2. row.ids \intersect IdsOf(file) = {} /\ RowsFit(file)
        BY <1>2, <1>3 DEF Says
      <4>3. RowsFit(file \union {row}) /\ IdsOf(file \union {row}) = IdsOf(file) \union row.ids
        BY <1>3, <4>2, OneMoreRow
      <4> QED BY <1>2, <2>1, <2>2, <4>1, <4>3 DEF Says
    <3>2. CASE ~ended
      <4>1. file' = file
        BY <1>9, <3>2 DEF H!Appended
      <4>2. row.ids \subseteq IdsOf(file) \union fate'.during \union fate'.glued
        BY <2>4, <3>2
      <4>3. Says(file, fate')
        BY <1>2, <2>1, <2>2, <4>2, OneMoreIsSaid
      <4> QED BY <4>1, <4>3
    <3> QED BY <3>1, <3>2
  <2>8. fate'.kept \subseteq 1..n
    BY <1>2, <1>3, <2>1
  <2> QED BY <1>1, <1>2, <2>1, <2>5, <2>6, <2>7, <2>8 DEF HInv, n
<1> QED BY <1>8, <1>9 DEF H!Appends

\* What was in hand was not kept.
LEMMA ThePowerFails == ASSUME HInv, H!PowerFails  PROVE HInv'
<1>1. /\ bounds' = [bounds EXCEPT !.crashes = @ + 1] /\ tidy' = H!NoTidy /\ file' = file /\ fate' = fate
      /\ keep' = [k \in Keepers |-> [at |-> "idle", row |-> None]]
  BY DEF H!PowerFails
<1>2. HandFits(keep', bounds'.rows, fate)
  BY <1>1 DEF HandFits, IsRecord
<1>3. IsRecord(bounds', {"rows", "crashes", "tidies"}) /\ bounds'.rows = bounds.rows
  <2>1. IsRecord(bounds, {"rows", "crashes", "tidies"})
    BY DEF HInv
  <2> QED BY <1>1, <2>1 DEF IsRecord
<1>4. TidyFits(tidy', fate)
  BY <1>1, TidyIdle
<1> QED BY <1>1, <1>2, <1>3, <1>4 DEF HInv

-----------------------------------------------------------------------------
(* The tidy command.                                                        *)

\* A step of it that leaves the file alone.
LEMMA TheCommandGoesOn ==
    ASSUME HInv, UNCHANGED <<file, keep, fate>>, bounds'.rows = bounds.rows,
           IsRecord(bounds', {"rows", "crashes", "tidies"}), TidyFits(tidy', fate)
    PROVE  HInv'
BY DEF HInv

LEMMA ItReads == ASSUME HInv, H!Reads \/ H!ReadsAgain  PROVE HInv'
<1>1. PICK at \in {"naming", "folding"} : tidy' = [H!NoTidy EXCEPT !.pc = at, !.rows = file]
  BY DEF H!Reads, H!ReadsAgain
<1>2. UNCHANGED <<file, keep, fate>> /\ Says(file, fate) /\ IsRecord(bounds, {"rows", "crashes", "tidies"})
  BY DEF H!Reads, H!ReadsAgain, HInv
<1>3. IsRecord(bounds', {"rows", "crashes", "tidies"}) /\ bounds'.rows = bounds.rows
  <2>1. bounds' = bounds \/ bounds' = [bounds EXCEPT !.tidies = @ + 1]
    BY DEF H!Reads, H!ReadsAgain
  <2> QED BY <1>2, <2>1 DEF IsRecord
<1>4. IsRecord(tidy', TidyFields) /\ tidy'.pc = at /\ tidy'.rows = file
  BY <1>1 DEF H!NoTidy, IsRecord, TidyFields
<1>5. tidy'.pc \notin Writing
  BY <1>4 DEF Writing
<1>6. TidyFits(tidy', fate)
  BY <1>2, <1>4, <1>5 DEF TidyFits, Writing
<1> QED BY <1>2, <1>3, <1>6, TheCommandGoesOn

\* A row by any project stands for what it stood for.
LEMMA NamesFit ==
    ASSUME NEW rows, RowsFit(rows)
    PROVE  RowsFit({H!Named(row) : row \in rows}) /\ IdsOf({H!Named(row) : row \in rows}) = IdsOf(rows)
<1> DEFINE next == {H!Named(row) : row \in rows}
           g == [row \in rows |-> {H!Named(row)}]
<1>1. \A row \in rows : H!Named(row).ids = row.ids /\ RowFits(H!Named(row))
  <2> SUFFICES ASSUME NEW row \in rows  PROVE H!Named(row).ids = row.ids /\ RowFits(H!Named(row))
    OBVIOUS
  <2>1. RowFits(row)
    BY DEF RowsFit
  <2>2. CASE H!Named(row) = row
    BY <2>1, <2>2
  <2>3. CASE H!Named(row) = [row EXCEPT !.project = Sessions[row.session]]
    <3> DEFINE one == [row EXCEPT !.project = Sessions[row.session]]
    <3>1. IsRecord(row, RowFields)
      BY <2>1 DEF RowFits
    <3>2. IsRecord(one, RowFields) /\ one.ids = row.ids /\ one.folded = row.folded /\ one.tokens = row.tokens
      BY <3>1 DEF IsRecord, RowFields
    <3> HIDE DEF one
    <3>3. RowFits(one) /\ one.ids = row.ids
      BY <2>1, <3>2 DEF RowFits
    <3> QED BY <2>3, <3>3 DEF one
  <2> QED BY <2>2, <2>3 DEF H!Named
<1>2. IsFiniteSet(next)
  <2>1. \A row \in rows : IsFiniteSet(g[row])
    BY FS_Singleton
  <2>2. UNION {g[row] : row \in rows} = next
    OBVIOUS
  <2> HIDE DEF g, next
  <2>3. IsFiniteSet(UNION {g[row] : row \in rows})
    BY <2>1, FiniteParts DEF RowsFit
  <2> QED BY <2>2, <2>3
<1>3. \A r \in next : RowFits(r)
  BY <1>1
<1>4. ASSUME NEW r \in next, NEW s \in next, r # s  PROVE r.ids \intersect s.ids = {}
  <2>1. PICK a \in rows : r = H!Named(a)
    OBVIOUS
  <2>2. PICK b \in rows : s = H!Named(b)
    OBVIOUS
  <2>3. r.ids = a.ids /\ s.ids = b.ids /\ a # b
    BY <1>1, <1>4, <2>1, <2>2
  <2> QED BY <2>3 DEF RowsFit
<1>5. IdsOf(next) = IdsOf(rows)
  <2>1. ASSUME NEW x \in IdsOf(next)  PROVE x \in IdsOf(rows)
    <3>1. PICK r \in next : x \in r.ids
      BY DEF IdsOf
    <3>2. PICK a \in rows : r = H!Named(a)
      BY <3>1
    <3> QED BY <1>1, <3>1, <3>2 DEF IdsOf
  <2>2. ASSUME NEW x \in IdsOf(rows)  PROVE x \in IdsOf(next)
    <3>1. PICK a \in rows : x \in a.ids
      BY DEF IdsOf
    <3>2. H!Named(a) \in next /\ x \in H!Named(a).ids
      BY <1>1, <3>1
    <3> HIDE DEF next
    <3> QED BY <3>2 DEF IdsOf
  <2> QED BY <2>1, <2>2
<1> HIDE DEF next
<1>6. RowsFit(next)
  BY <1>2, <1>3, <1>4 DEF RowsFit
<1> QED BY <1>5, <1>6 DEF next

\* What is to be put in place of the rows read.
LEMMA TheNextIsKnown ==
    ASSUME TidyFits(tidy, fate), tidy.pc \in {"naming", "folding"}, NEW next, NEW at \in Writing,
           RowsFit(next), IdsOf(next) = IdsOf(tidy.rows), at = "writing folds" => next = H!RolledUp(tidy.rows)
    PROVE  TidyFits([tidy EXCEPT !.pc = at, !.next = next], fate)
<1> DEFINE t == [tidy EXCEPT !.pc = at, !.next = next]
<1>1. IsRecord(tidy, TidyFields) /\ Says(tidy.rows, fate)
  BY DEF TidyFits
<1>2. IsRecord(t, TidyFields) /\ t.pc = at /\ t.next = next /\ t.rows = tidy.rows
  BY <1>1 DEF IsRecord, TidyFields
<1> HIDE DEF t
<1>3. TidyFits(t, fate)
  BY <1>1, <1>2 DEF TidyFits
<1> QED BY <1>3 DEF t

\* Naming changes nothing a row stands for.
LEMMA ItNames == ASSUME HInv, H!NamesProjects  PROVE HInv'
<1>1. /\ tidy.pc = "naming" /\ UNCHANGED <<file, keep, fate>> /\ bounds' = bounds
      /\ tidy' = [H!NoTidy EXCEPT !.pc = "named"] \/ tidy' = [tidy EXCEPT !.pc = "writing names", !.next = H!Names]
  BY DEF H!NamesProjects
<1>2. TidyFits(tidy, fate) /\ IsRecord(bounds, {"rows", "crashes", "tidies"})
  BY DEF HInv
<1>3. RowsFit(tidy.rows)
  BY <1>1, <1>2 DEF TidyFits, Says
<1>4. RowsFit(H!Names) /\ IdsOf(H!Names) = IdsOf(tidy.rows)
  <2>1. /\ RowsFit({H!Named(row) : row \in tidy.rows})
        /\ IdsOf({H!Named(row) : row \in tidy.rows}) = IdsOf(tidy.rows)
    BY <1>3, NamesFit
  <2> QED BY <2>1 DEF H!Names
<1>5. TidyFits([tidy EXCEPT !.pc = "writing names", !.next = H!Names], fate)
  <2>1. "writing names" \in Writing
    BY DEF Writing
  <2> QED BY <1>1, <1>2, <1>4, <2>1, TheNextIsKnown
<1>6. TidyFits([H!NoTidy EXCEPT !.pc = "named"], fate)
  BY TidyAtRest
<1>7. TidyFits(tidy', fate)
  BY <1>1, <1>5, <1>6
<1> QED BY <1>1, <1>2, <1>7, TheCommandGoesOn

\* And no more does folding.
LEMMA ItFolds == ASSUME HInv, H!Folds  PROVE HInv'
<1>1. /\ tidy.pc = "folding" /\ UNCHANGED <<file, keep, fate>> /\ bounds' = bounds
      /\ tidy' = H!NoTidy \/ tidy' = [tidy EXCEPT !.pc = "writing folds", !.next = H!RolledUp(tidy.rows)]
  BY DEF H!Folds
<1>2. TidyFits(tidy, fate) /\ IsRecord(bounds, {"rows", "crashes", "tidies"})
  BY DEF HInv
<1>3. RowsFit(tidy.rows)
  BY <1>1, <1>2 DEF TidyFits, Says
<1>4. RowsFit(H!RolledUp(tidy.rows)) /\ IdsOf(H!RolledUp(tidy.rows)) = IdsOf(tidy.rows)
  BY <1>3, FoldingFits
<1>5. TidyFits([tidy EXCEPT !.pc = "writing folds", !.next = H!RolledUp(tidy.rows)], fate)
  <2>1. "writing folds" \in Writing
    BY DEF Writing
  <2> QED BY <1>1, <1>2, <1>4, <2>1, TheNextIsKnown
<1>6. TidyFits(tidy', fate)
  BY <1>1, <1>5, TidyIdle
<1> QED BY <1>1, <1>2, <1>6, TheCommandGoesOn

\* What is moved into place says all that the rows read did.
LEMMA ItMoves == ASSUME HInv, H!MovesIntoPlace  PROVE HInv'
<1>1. /\ tidy.pc \in Writing /\ UNCHANGED <<keep, fate>> /\ bounds' = bounds
      /\ file' = file \/ file' = tidy.next
      /\ tidy' = H!NoTidy \/ tidy' = [H!NoTidy EXCEPT !.pc = "named"]
  BY DEF H!MovesIntoPlace, Writing
<1>2. Says(file, fate) /\ TidyFits(tidy, fate)
  BY DEF HInv
<1>3. Says(tidy.rows, fate) /\ RowsFit(tidy.next) /\ IdsOf(tidy.next) = IdsOf(tidy.rows)
  BY <1>1, <1>2 DEF TidyFits
<1>4. Says(tidy.next, fate)
  BY <1>3 DEF Says
<1>5. Says(file', fate)
  BY <1>1, <1>2, <1>4
<1>6. TidyFits(tidy', fate)
  BY <1>1, TidyIdle, TidyAtRest
<1> QED BY <1>1, <1>5, <1>6 DEF HInv

LEMMA HistorySteps == ASSUME HInv, H!Next  PROVE HInv'
BY ARowIsTaken, ARowIsHeld, ARowIsAppended, ThePowerFails, ItReads, ItNames, ItFolds, ItMoves DEF H!Next

LEMMA HistoryIsKept == HInv /\ [Next]_vars => HInv'
<1> SUFFICES ASSUME HInv, [Next]_vars  PROVE HInv'
  OBVIOUS
<1>1. CASE part = "history" /\ H!Next
  BY <1>1, HistorySteps
<1>2. CASE UNCHANGED history
  BY <1>2 DEF history, HInv
<1> QED BY <1>1, <1>2 DEF Next, vars

\* What the invariant says of the file is what is asked of it.
LEMMA TheFileSaysAll == HInv => OnlyARewriteLosesARow
<1> SUFFICES ASSUME HInv  PROVE H!OnlyARewriteLosesARow
  BY DEF OnlyARewriteLosesARow
<1>1. Says(file, fate) /\ TidyFits(tidy, fate)
  BY DEF HInv
<1>2. fate.kept \ H!Readable \subseteq fate.during \union fate.glued
  BY <1>1 DEF Says, H!Readable, IdsOf
<1>3. H!Counted(file, LAMBDA row : H!Cardinality(row.ids)) = H!Cardinality(H!Readable)
  <2> DEFINE f == [row \in file |-> H!Cardinality(row.ids)]
  <2>1. RowsFit(file) /\ IsFiniteSet(file)
    BY <1>1 DEF Says, RowsFit
  <2>2. \A row \in file : f[row] = Cardinality(row.ids)
    BY TheHistoryCounts
  <2>3. DOMAIN f = file /\ \A row \in file : f[row] \in Nat
    <3>1. \A row \in file : Cardinality(row.ids) \in Nat
      BY <2>1, FS_CardinalityType DEF RowsFit, RowFits
    <3> QED BY <2>2, <3>1
  <2>4. H!Counted(file, LAMBDA row : H!Cardinality(row.ids)) = H!SumFunction(f)
    BY DEF H!Counted
  <2> HIDE DEF f
  <2>5. H!SumFunction(f) = Sum(f, file)
    BY <2>1, <2>3, CountedIs
  <2>6. Sum(f, file) = Cardinality(IdsOf(file))
    BY <2>1, <2>2, IdsAreCounted
  <2>7. IdsOf(file) = H!Readable /\ H!Cardinality(H!Readable) = Cardinality(H!Readable)
    BY TheHistoryCounts DEF IdsOf, H!Readable
  <2> QED BY <2>4, <2>5, <2>6, <2>7
<1>4. ASSUME tidy.pc = "writing folds", NEW f \in Facts
      PROVE  /\ H!TotalsBy(tidy.next, f.seat) = H!TotalsBy(tidy.rows, f.seat)
             /\ H!Unpriced(tidy.next, f.seat) >= H!Unpriced(tidy.rows, f.seat)
  <2>1. tidy.next = H!RolledUp(tidy.rows) /\ RowsFit(tidy.rows)
    BY <1>1, <1>4 DEF TidyFits, Says, Writing
  <2> QED BY <2>1, TotalsStay, UnpricedGrows
<1> QED BY <1>2, <1>3, <1>4 DEF H!OnlyARewriteLosesARow

\* For rows of any facts and prices, and any keepers: a row that was kept is in the file, by
\* itself or folded, once, but for one kept while a rewrite was under way or put on the end
\* of a broken line; and a fold says of every Seat what its rows said (history/internal:
\* store.ts, rows.ts).
THEOREM NoRowIsLost == Spec => []OnlyARewriteLosesARow
<1>1. Init => HInv
  BY HistoryAtFirst DEF Init
<1> QED BY <1>1, HistoryIsKept, TheFileSaysAll, PTL DEF Spec
=============================================================================
