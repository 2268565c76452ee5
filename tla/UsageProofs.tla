----------------------------- MODULE UsageProofs -----------------------------
(***************************************************************************)
(* Theorems about Usage.tla, for any Seats, models, windows, periods and   *)
(* replies. A picture of the Seats (in the file, in either memory, on its  *)
(* way to the file) is sound at a moment when it is well typed, no Seat    *)
(* sits out past the cap counted from that moment, and every figure a      *)
(* reply taught came from a reply its own Organization gave. The invariant *)
(* is that every picture is sound at the present moment, and that news in  *)
(* line is about no later one. And the service's queue is the Ledger: what *)
(* the work in line comes to is worked out by induction over the line.     *)
(***************************************************************************)
EXTENDS Usage, FiniteSetTheorems, SequenceTheorems, TLAPS

\* The work that may be in line.
Jobs == {j \in [kind : {"exchange"}, seat : Seats, news : Heard, at : Times, by : {None}] :
           SeatTaughtBy(j.news) = j.seat}
        \union [kind : {"reading"}, seat : Seats, news : Logins, at : Times, by : {"refresh"}]
        \union [kind : {"known"}, at : Times, by : Askers]

TaughtByItsOwn(s, w, known) ==
    known # None /\ known.via = "exchange" =>
      \E x \in Heard : /\ x.seat = s /\ x.paidBy # "somebodyElse"
                       /\ x.figures[w] = known.spent /\ x.resets[w] = known.resetsAt

SoundSeat(s, memory, t) ==
    /\ memory \in SeatMemories
    /\ \A m \in Models : memory.until[m] <= t + AtMostCooldown
    /\ \A w \in Windows : TaughtByItsOwn(s, w, memory.windows[w])

Sound(picture, t) ==
    /\ picture \in Pictures
    /\ \A s \in Seats : SoundSeat(s, picture[s], t)

InLine(line, t) == /\ line \in Seq(Jobs)
                   /\ \A i \in DOMAIN line : line[i].at <= t

\* A picture on its way to the file belongs to the work at the head of the line.
InHand(picture, memory, line) ==
    picture # None => memory # None /\ line # <<>> /\ Head(line).kind # "known"

IInv == /\ now \in Times
        /\ Sound(file, now)
        /\ held = None \/ Sound(held, now)
        /\ saving = None \/ Sound(saving, now)
        /\ InLine(jobs, now) /\ InHand(saving, held, jobs)
        /\ answer \in [Askers -> Pictures \union {None}]
        /\ cHeld = None \/ Sound(cHeld, now)
        /\ cSaving = None \/ Sound(cSaving, now)
        /\ InLine(cJobs, now) /\ InHand(cSaving, cHeld, cJobs)
        /\ cmd = None \/ (cmd \in [at : Times, left : SUBSET Seats] /\ cmd.at <= now)

USE DEF Pictures

-----------------------------------------------------------------------------
(* The rules of Allowance.tla.                                              *)

LEMMA KeptReading ==
    ASSUME NEW was \in Readings \union {None}, NEW arriving \in Readings
    PROVE  /\ KeepTheBetter(was, arriving) \in {was, arriving} \ {None}
           /\ was # None => KeepTheBetter(was, arriving).readAt >= was.readAt
  BY NoneAssumption DEF KeepTheBetter, Readings, Moments

\* A cooldown is positive, and never past the cap.
LEMMA CooldownIsCapped ==
    ASSUME NEW x \in Exchanges, NEW at \in Moments
    PROVE  CooldownUntil(x, at) \in Nat /\ CooldownUntil(x, at) <= at + AtMostCooldown
  <1>1. x.resets[FiveHour] \in Moments \union {None}
    BY WindowsAssumption DEF Exchanges
  <1> QED  BY <1>1, PeriodsAssumption DEF CooldownUntil, Moments

\* A reading folded in for one Seat.
LEMMA ReadingFolded ==
    ASSUME NEW s \in Seats, NEW memory, NEW usage \in UsageAsRead,
           NEW at \in Moments, NEW t \in Moments, SoundSeat(s, memory, t)
    PROVE  /\ SoundSeat(s, FoldReading(memory, usage, at), t)
           /\ \A w \in Windows : memory.windows[w] # None =>
                /\ FoldReading(memory, usage, at).windows[w] # None
                /\ FoldReading(memory, usage, at).windows[w].readAt >= memory.windows[w].readAt
  <1> DEFINE next == FoldReading(memory, usage, at)
             arriving(w) == [spent |-> usage[w].spent, resetsAt |-> usage[w].resetsAt,
                             readAt |-> at, via |-> "stats-login"]
  <1>1. memory \in SeatMemories
    BY DEF SoundSeat
  <1>2. \A w \in Windows : usage[w] # None => arriving(w) \in Readings
    BY DEF UsageAsRead, Readings
  <1>3. next = [windows |-> [w \in Windows |-> IF usage[w] = None THEN memory.windows[w]
                                              ELSE KeepTheBetter(memory.windows[w], arriving(w))],
                until |-> memory.until]
    BY DEF FoldReading
  <1> HIDE DEF next
  <1>4. ASSUME NEW w \in Windows
        PROVE  /\ next.windows[w] \in Readings \union {None}
               /\ TaughtByItsOwn(s, w, next.windows[w])
               /\ memory.windows[w] # None => /\ next.windows[w] # None
                                              /\ next.windows[w].readAt >= memory.windows[w].readAt
    <2>1. memory.windows[w] \in Readings \union {None} /\ TaughtByItsOwn(s, w, memory.windows[w])
      BY <1>1 DEF SoundSeat, SeatMemories
    <2>2. CASE usage[w] = None
      <3>1. next.windows[w] = memory.windows[w]
        BY <1>3, <2>2
      <3> QED  BY <2>1, <3>1 DEF Readings, Moments
    <2>3. CASE usage[w] # None
      <3>1. next.windows[w] = KeepTheBetter(memory.windows[w], arriving(w))
        BY <1>3, <2>3
      <3>2. arriving(w) \in Readings /\ arriving(w).via # "exchange"
        BY <1>2, <2>3
      <3>3. TaughtByItsOwn(s, w, arriving(w))
        BY <3>2 DEF TaughtByItsOwn
      <3> HIDE DEF arriving
      <3> QED  BY <2>1, <3>1, <3>2, <3>3, KeptReading
    <2> QED  BY <2>2, <2>3
  <1>5. next \in SeatMemories
    BY <1>1, <1>3, <1>4 DEF SeatMemories
  <1> QED  BY <1>3, <1>4, <1>5 DEF SoundSeat, next

\* A reply folded in for the Seat it teaches about. The cap is counted from the moment
\* the reply was heard at, which is not later than t.
LEMMA ExchangeFolded ==
    ASSUME NEW s \in Seats, NEW memory, NEW x \in Heard, SeatTaughtBy(x) = s,
           NEW at \in Moments, NEW t \in Moments, at <= t, SoundSeat(s, memory, t)
    PROVE  /\ SoundSeat(s, FoldExchange(memory, x, at), t)
           /\ \A w \in Windows : memory.windows[w] # None =>
                /\ FoldExchange(memory, x, at).windows[w] # None
                /\ FoldExchange(memory, x, at).windows[w].readAt >= memory.windows[w].readAt
  <1> DEFINE next == FoldExchange(memory, x, at)
             arriving(w) == [spent |-> x.figures[w], resetsAt |-> x.resets[w], readAt |-> at,
                             via |-> "exchange"]
             cooling == [memory.until EXCEPT ![x.model] = CooldownUntil(x, at)]
  <1>1. memory \in SeatMemories /\ memory.until \in [Models -> Nat]
    BY DEF SoundSeat, SeatMemories
  <1>2. x \in Exchanges
    BY InputsAssumption
  <1>3. next = [windows |-> [w \in Windows |-> IF x.figures[w] = None THEN memory.windows[w]
                                              ELSE KeepTheBetter(memory.windows[w], arriving(w))],
                until |-> IF RefusalIsAboutTheSeat(x) /\ x.model # NoModel THEN cooling
                          ELSE memory.until]
    BY DEF FoldExchange
  <1> HIDE DEF next
  <1>4. ASSUME NEW w \in Windows
        PROVE  /\ next.windows[w] \in Readings \union {None}
               /\ TaughtByItsOwn(s, w, next.windows[w])
               /\ memory.windows[w] # None => /\ next.windows[w] # None
                                              /\ next.windows[w].readAt >= memory.windows[w].readAt
    <2>1. memory.windows[w] \in Readings \union {None} /\ TaughtByItsOwn(s, w, memory.windows[w])
      BY <1>1 DEF SoundSeat, SeatMemories
    <2>2. CASE x.figures[w] = None
      <3>1. next.windows[w] = memory.windows[w]
        BY <1>3, <2>2
      <3> QED  BY <2>1, <3>1 DEF Readings, Moments
    <2>3. CASE x.figures[w] # None
      <3>1. next.windows[w] = KeepTheBetter(memory.windows[w], arriving(w))
        BY <1>3, <2>3
      <3>2. x.figures[w] \in BOOLEAN /\ x.resets[w] \in Moments \union {None}
        BY <1>2, <2>3 DEF Exchanges
      <3>3. arriving(w) \in Readings
        BY <3>2 DEF Readings
      <3>4. x.seat = s /\ x.paidBy # "somebodyElse"
        BY PayersAssumption DEF SeatTaughtBy
      <3>5. TaughtByItsOwn(s, w, arriving(w))
        BY <3>4 DEF TaughtByItsOwn
      <3> HIDE DEF arriving
      <3> QED  BY <2>1, <3>1, <3>3, <3>5, KeptReading
    <2> QED  BY <2>2, <2>3
  <1>5. next.until \in [Models -> Nat] /\ \A m \in Models : next.until[m] <= t + AtMostCooldown
    <2>1. \A m \in Models : memory.until[m] \in Nat /\ memory.until[m] <= t + AtMostCooldown
      BY <1>1 DEF SoundSeat
    <2>2. CooldownUntil(x, at) \in Nat /\ CooldownUntil(x, at) <= t + AtMostCooldown
      BY <1>2, CooldownIsCapped, PeriodsAssumption DEF Moments
    <2>3. CASE RefusalIsAboutTheSeat(x) /\ x.model # NoModel
      <3>1. next.until = cooling
        BY <1>3, <2>3
      <3>2. \A m \in Models : cooling[m] = IF m = x.model THEN CooldownUntil(x, at) ELSE memory.until[m]
        BY <1>1
      <3> QED  BY <1>1, <2>1, <2>2, <3>1, <3>2
    <2>4. CASE ~(RefusalIsAboutTheSeat(x) /\ x.model # NoModel)
      BY <1>1, <1>3, <2>1, <2>4
    <2> QED  BY <2>3, <2>4
  <1>6. next \in SeatMemories
    <2> DEFINE windows == [w \in Windows |-> IF x.figures[w] = None THEN memory.windows[w]
                                             ELSE KeepTheBetter(memory.windows[w], arriving(w))]
    <2>1. next.windows = windows /\ next = [windows |-> next.windows, until |-> next.until]
      BY <1>3
    <2>2. next.windows \in [Windows -> Readings \union {None}]
      BY <1>4, <2>1
    <2> QED  BY <1>5, <2>1, <2>2 DEF SeatMemories
  <1> QED  BY <1>4, <1>5, <1>6 DEF SoundSeat, next

\* What is left out of the file is only what has run out.
LEMMA SavedSeat ==
    ASSUME NEW s \in Seats, NEW memory, NEW at \in Moments, NEW t \in Moments,
           SoundSeat(s, memory, t)
    PROVE  SoundSeat(s, [memory EXCEPT !.until = StillCooling(@, at)], t)
  <1>1. memory \in SeatMemories /\ memory.until \in [Models -> Nat]
    BY DEF SoundSeat, SeatMemories
  <1>2. /\ StillCooling(memory.until, at) \in [Models -> Nat]
        /\ \A m \in Models : StillCooling(memory.until, at)[m] \in {memory.until[m], 0}
    BY <1>1 DEF StillCooling
  <1> QED  BY <1>1, <1>2, PeriodsAssumption DEF SoundSeat, SeatMemories, Moments

\* As time goes by what was sound stays so.
LEMMA SoundLater ==
    ASSUME NEW picture, NEW t \in Moments, NEW u \in Moments, t <= u, Sound(picture, t)
    PROVE  Sound(picture, u)
  <1>1. ASSUME NEW s \in Seats, NEW m \in Models
        PROVE  picture[s].until[m] <= u + AtMostCooldown
    BY PeriodsAssumption DEF Sound, SoundSeat, SeatMemories, Moments
  <1> QED  BY <1>1 DEF Sound, SoundSeat

-----------------------------------------------------------------------------
(* The work in line.                                                        *)

\* No reading in the first picture is about a later moment than in the second.
NoOlder(was, is) ==
    \A s \in Seats, w \in Windows :
      was[s].windows[w] # None => /\ is[s].windows[w] # None
                                  /\ is[s].windows[w].readAt >= was[s].windows[w].readAt

LEMMA JobKinds ==
    ASSUME NEW j \in Jobs
    PROVE  /\ j.at \in Moments /\ j.kind \in {"exchange", "reading", "known"}
           /\ j.kind = "exchange" => j.seat \in Seats /\ j.news \in Heard /\ SeatTaughtBy(j.news) = j.seat
           /\ j.kind = "reading" => j.seat \in Seats /\ j.news \in UsageAsRead
           /\ j.kind = "known" => j.by \in Askers
  BY InputsAssumption DEF Jobs

\* Either process has a copy of the rules of Allowance.tla; they are the same rules.
LEMMA ServiceFollowsTheRules ==
    /\ \A x : Service!SeatTaughtBy(x) = SeatTaughtBy(x)
    /\ \A was, x, at : Service!FoldExchange(was, x, at) = FoldExchange(was, x, at)
    /\ \A was, usage, at : Service!FoldReading(was, usage, at) = FoldReading(was, usage, at)
    /\ \A until, at : Service!StillCooling(until, at) = StillCooling(until, at)
    /\ \A was, at : Service!AsOf(was, at) = AsOf(was, at)
  <1>1. \A was, arriving : Service!KeepTheBetter(was, arriving) = KeepTheBetter(was, arriving)
    BY DEF Service!KeepTheBetter, KeepTheBetter
  <1>2. \A x : Service!RefusalIsAboutTheSeat(x) = RefusalIsAboutTheSeat(x)
    BY DEF Service!RefusalIsAboutTheSeat, RefusalIsAboutTheSeat
  <1>3. \A x, at : Service!CooldownUntil(x, at) = CooldownUntil(x, at)
    BY DEF Service!CooldownUntil, CooldownUntil
  <1>4. \A until, at : Service!StillCooling(until, at) = StillCooling(until, at)
    BY DEF Service!StillCooling, StillCooling
  <1>5. \A reading, at : Service!HasReset(reading, at) = HasReset(reading, at)
    BY DEF Service!HasReset, HasReset
  <1>6. \A was, at : Service!AsOf(was, at) = AsOf(was, at)
    BY <1>4, <1>5 DEF Service!AsOf, AsOf
  <1>7. \A was, x, at : Service!FoldExchange(was, x, at) = FoldExchange(was, x, at)
    BY <1>1, <1>2, <1>3, ZenonT(120) DEF Service!FoldExchange, FoldExchange
  <1>8. \A was, usage, at : Service!FoldReading(was, usage, at) = FoldReading(was, usage, at)
    BY <1>1, ZenonT(60) DEF Service!FoldReading, FoldReading
  <1>9. \A x : Service!SeatTaughtBy(x) = SeatTaughtBy(x)
    BY DEF Service!SeatTaughtBy, SeatTaughtBy
  <1> QED  BY <1>4, <1>6, <1>7, <1>8, <1>9

LEMMA CommandFollowsTheRules ==
    /\ \A x : Command!SeatTaughtBy(x) = SeatTaughtBy(x)
    /\ \A was, x, at : Command!FoldExchange(was, x, at) = FoldExchange(was, x, at)
    /\ \A was, usage, at : Command!FoldReading(was, usage, at) = FoldReading(was, usage, at)
    /\ \A until, at : Command!StillCooling(until, at) = StillCooling(until, at)
    /\ \A was, at : Command!AsOf(was, at) = AsOf(was, at)
  <1>1. \A was, arriving : Command!KeepTheBetter(was, arriving) = KeepTheBetter(was, arriving)
    BY DEF Command!KeepTheBetter, KeepTheBetter
  <1>2. \A x : Command!RefusalIsAboutTheSeat(x) = RefusalIsAboutTheSeat(x)
    BY DEF Command!RefusalIsAboutTheSeat, RefusalIsAboutTheSeat
  <1>3. \A x, at : Command!CooldownUntil(x, at) = CooldownUntil(x, at)
    BY DEF Command!CooldownUntil, CooldownUntil
  <1>4. \A until, at : Command!StillCooling(until, at) = StillCooling(until, at)
    BY DEF Command!StillCooling, StillCooling
  <1>5. \A reading, at : Command!HasReset(reading, at) = HasReset(reading, at)
    BY DEF Command!HasReset, HasReset
  <1>6. \A was, at : Command!AsOf(was, at) = AsOf(was, at)
    BY <1>4, <1>5 DEF Command!AsOf, AsOf
  <1>7. \A was, x, at : Command!FoldExchange(was, x, at) = FoldExchange(was, x, at)
    BY <1>1, <1>2, <1>3, ZenonT(120) DEF Command!FoldExchange, FoldExchange
  <1>8. \A was, usage, at : Command!FoldReading(was, usage, at) = FoldReading(was, usage, at)
    BY <1>1, ZenonT(60) DEF Command!FoldReading, FoldReading
  <1>9. \A x : Command!SeatTaughtBy(x) = SeatTaughtBy(x)
    BY DEF Command!SeatTaughtBy, SeatTaughtBy
  <1> QED  BY <1>4, <1>6, <1>7, <1>8, <1>9

\* The fold is the same in both processes.
LEMMA Folded ==
    ASSUME NEW t \in Moments, NEW p, Sound(p, t), NEW j \in Jobs, j.at <= t, j.kind # "known"
    PROVE  /\ Sound(Service!Fold(p, j), t) /\ NoOlder(p, Service!Fold(p, j))
           /\ Command!Fold(p, j) = Service!Fold(p, j)
  <1> DEFINE next == Service!Fold(p, j)
  <1>1. p \in Pictures /\ \A s \in Seats : SoundSeat(s, p[s], t)
    BY DEF Sound
  <1>2. \A s \in Seats, w \in Windows : p[s].windows[w] # None => p[s].windows[w].readAt \in Nat
    BY <1>1 DEF SeatMemories, Readings, Moments
  <1>3. Command!Fold(p, j) = next
    BY ServiceFollowsTheRules, CommandFollowsTheRules DEF Service!Fold, Command!Fold
  <1>4. CASE j.kind = "exchange"
    <2>1. next = [p EXCEPT ![j.seat] = FoldExchange(p[j.seat], j.news, j.at)]
      BY <1>4, ServiceFollowsTheRules DEF Service!Fold
    <2>2. /\ SoundSeat(j.seat, FoldExchange(p[j.seat], j.news, j.at), t)
          /\ \A w \in Windows : p[j.seat].windows[w] # None =>
               /\ FoldExchange(p[j.seat], j.news, j.at).windows[w] # None
               /\ FoldExchange(p[j.seat], j.news, j.at).windows[w].readAt >= p[j.seat].windows[w].readAt
      BY <1>1, <1>4, JobKinds, ExchangeFolded
    <2> HIDE DEF next
    <2>3. /\ next \in Pictures
          /\ \A s \in Seats : next[s] = IF s = j.seat THEN FoldExchange(p[j.seat], j.news, j.at) ELSE p[s]
      BY <1>1, <2>1, <2>2 DEF SoundSeat
    <2>4. Sound(next, t)
      BY <1>1, <2>2, <2>3 DEF Sound
    <2>5. NoOlder(p, next)
      BY <1>2, <2>2, <2>3 DEF NoOlder
    <2> QED  BY <1>3, <2>4, <2>5 DEF next
  <1>5. CASE j.kind = "reading"
    <2>1. next = [p EXCEPT ![j.seat] = FoldReading(p[j.seat], j.news, j.at)]
      BY <1>5, ServiceFollowsTheRules DEF Service!Fold
    <2>2. /\ SoundSeat(j.seat, FoldReading(p[j.seat], j.news, j.at), t)
          /\ \A w \in Windows : p[j.seat].windows[w] # None =>
               /\ FoldReading(p[j.seat], j.news, j.at).windows[w] # None
               /\ FoldReading(p[j.seat], j.news, j.at).windows[w].readAt >= p[j.seat].windows[w].readAt
      BY <1>1, <1>5, JobKinds, ReadingFolded
    <2> HIDE DEF next
    <2>3. /\ next \in Pictures
          /\ \A s \in Seats : next[s] = IF s = j.seat THEN FoldReading(p[j.seat], j.news, j.at) ELSE p[s]
      BY <1>1, <2>1, <2>2 DEF SoundSeat
    <2>4. Sound(next, t)
      BY <1>1, <2>2, <2>3 DEF Sound
    <2>5. NoOlder(p, next)
      BY <1>2, <2>2, <2>3 DEF NoOlder
    <2> QED  BY <1>3, <2>4, <2>5 DEF next
  <1> QED  BY <1>4, <1>5, JobKinds

LEMMA SavedSound ==
    ASSUME NEW t \in Moments, NEW p, Sound(p, t), NEW at \in Moments
    PROVE  Sound([s \in Seats |-> [p[s] EXCEPT !.until = StillCooling(@, at)]], t)
  <1>1. \A s \in Seats : SoundSeat(s, [p[s] EXCEPT !.until = StillCooling(@, at)], t)
    BY SavedSeat DEF Sound
  <1> QED  BY <1>1 DEF Sound, SoundSeat

\* A line may be added to at its end and taken from at its front.
LEMMA Lines ==
    ASSUME NEW t \in Moments, NEW line, InLine(line, t)
    PROVE  /\ \A j \in Jobs : j.at <= t => InLine(Append(line, j), t)
           /\ \A j \in Jobs : /\ Append(line, j) # <<>>
                              /\ line # <<>> => Head(Append(line, j)) = Head(line)
           /\ line # <<>> => Head(line) \in Jobs /\ Head(line).at <= t /\ InLine(Tail(line), t)
           /\ InLine(<<>>, t)
  <1>1. line \in Seq(Jobs)
    BY DEF InLine
  <1>2. ASSUME NEW j \in Jobs, j.at <= t
        PROVE  InLine(Append(line, j), t)
    <2>1. Append(line, j) \in Seq(Jobs) /\ DOMAIN Append(line, j) = 1..(Len(line) + 1)
      BY <1>1
    <2>2. \A i \in 1..(Len(line) + 1) : Append(line, j)[i] = IF i <= Len(line) THEN line[i] ELSE j
      BY <1>1
    <2> QED  BY <1>1, <1>2, <2>1, <2>2 DEF InLine
  <1>3. ASSUME line # <<>>
        PROVE  Head(line) \in Jobs /\ Head(line).at <= t /\ InLine(Tail(line), t)
    <2>1. /\ Head(line) = line[1] /\ 1 \in DOMAIN line /\ Tail(line) \in Seq(Jobs)
          /\ \A i \in DOMAIN Tail(line) : i + 1 \in DOMAIN line /\ Tail(line)[i] = line[i + 1]
      BY <1>1, <1>3
    <2> QED  BY <1>1, <2>1 DEF InLine
  <1>4. InLine(<<>>, t)
    BY DEF InLine
  <1>5. ASSUME NEW j \in Jobs
        PROVE  Append(line, j) # <<>> /\ (line # <<>> => Head(Append(line, j)) = Head(line))
    <2>1. /\ Append(line, j) \in Seq(Jobs) /\ Append(line, j) # <<>>
          /\ \A i \in 1..Len(line) : Append(line, j)[i] = line[i]
      BY <1>1, AppendProperties
    <2>2. line # <<>> => 1 \in 1..Len(line) /\ Head(line) = line[1]
      BY <1>1
    <2>3. Head(Append(line, j)) = Append(line, j)[1]
      BY <2>1
    <2> QED  BY <2>1, <2>2, <2>3
  <1> QED  BY <1>2, <1>3, <1>4, <1>5

LEMMA Joined ==
    ASSUME NEW t \in Moments, NEW line, InLine(line, t), NEW picture, NEW memory,
           InHand(picture, memory, line), NEW j \in Jobs, j.at <= t
    PROVE  InLine(Append(line, j), t) /\ InHand(picture, memory, Append(line, j))
  <1>1. InLine(Append(line, j), t) /\ Append(line, j) # <<>>
        /\ (line # <<>> => Head(Append(line, j)) = Head(line))
    BY Lines
  <1> QED  BY <1>1 DEF InHand

LEMMA AnswersAreMemories ==
    ASSUME NEW p \in Pictures, NEW at \in Moments
    PROVE  [s \in Seats |-> AsOf(p[s], at)] \in Pictures
  <1> SUFFICES ASSUME NEW s \in Seats
               PROVE  AsOf(p[s], at) \in SeatMemories
    OBVIOUS
  <1> DEFINE memory == p[s]
  <1>1. memory \in SeatMemories
    OBVIOUS
  <1> HIDE DEF memory
  <1>2. StillCooling(memory.until, at) \in [Models -> Nat]
    BY <1>1 DEF StillCooling, SeatMemories
  <1>3. ASSUME NEW w \in Windows, memory.windows[w] # None
        PROVE  [memory.windows[w] EXCEPT !.spent = @ /\ ~HasReset(memory.windows[w], at)] \in Readings
    BY <1>1, <1>3 DEF SeatMemories, Readings
  <1>4. [w \in Windows |->
           IF memory.windows[w] = None THEN None
           ELSE [memory.windows[w] EXCEPT !.spent = @ /\ ~HasReset(memory.windows[w], at)]]
          \in [Windows -> Readings \union {None}]
    BY <1>3
  <1>5. AsOf(memory, at) \in SeatMemories
    BY <1>2, <1>4 DEF AsOf, SeatMemories
  <1> QED  BY <1>5 DEF memory

-----------------------------------------------------------------------------
(* The invariant.                                                           *)

LEMMA Initially == Init => IInv
  <1> SUFFICES ASSUME Init PROVE IInv
    OBVIOUS
  <1>1. /\ now \in Times /\ file = Service!Nothing /\ held = None /\ jobs = <<>> /\ saving = None
        /\ answer = [k \in Askers |-> None] /\ cHeld = None /\ cJobs = <<>> /\ cSaving = None
        /\ cmd = None
    BY DEF Init, Service!Init, Service!Opened
  <1>2. now \in Moments
    BY <1>1, InputsAssumption
  <1>3. Sound(file, now)
    <2>1. file = [s \in Seats |-> NothingKnown]
      BY <1>1 DEF Service!Nothing, Service!NothingKnown, NothingKnown
    <2>2. NothingKnown \in SeatMemories /\ NothingKnown.until = [m \in Models |-> 0]
          /\ NothingKnown.windows = [w \in Windows |-> None]
      BY DEF NothingKnown, SeatMemories
    <2>3. \A s \in Seats : SoundSeat(s, NothingKnown, now)
      BY <1>2, <2>2, PeriodsAssumption DEF SoundSeat, TaughtByItsOwn, Moments
    <2> QED  BY <2>1, <2>2, <2>3 DEF Sound
  <1>4. InLine(<<>>, now)
    BY DEF InLine
  <1> QED  BY <1>1, <1>3, <1>4 DEF IInv, InHand

LEMMA ServiceWorks ==
    ASSUME IInv, Service!Work
    PROVE  /\ Sound(file', now) /\ InLine(jobs', now) /\ InHand(saving', held', jobs')
           /\ held' = None \/ Sound(held', now)
           /\ saving' = None \/ Sound(saving', now)
           /\ answer' \in [Askers -> Pictures \union {None}]
           /\ held # None /\ held' # None => NoOlder(held, held')
  <1>1. /\ now \in Moments /\ Sound(file, now) /\ InLine(jobs, now) /\ InHand(saving, held, jobs)
        /\ held = None \/ Sound(held, now)
        /\ saving = None \/ Sound(saving, now)
        /\ answer \in [Askers -> Pictures \union {None}]
    BY InputsAssumption DEF IInv
  <1>2. jobs # <<>> => /\ Head(jobs) \in Jobs /\ Head(jobs).at <= now
                       /\ InLine(Tail(jobs), now)
    BY <1>1, Lines
  <1>3. held # None => NoOlder(held, held)
    BY <1>1 DEF NoOlder, Sound, SeatMemories, Readings, Moments
  <1>4. CASE Service!Load
    BY <1>1, <1>4 DEF Service!Load, InHand
  <1>5. CASE Service!LoadFails
    <2>1. Service!Nothing \in Pictures
      BY DEF Service!Nothing, Service!NothingKnown, SeatMemories
    <2>2. answer' \in [Askers -> Pictures \union {None}]
      BY <1>1, <1>2, <1>5, <2>1, JobKinds DEF Service!LoadFails
    <2> QED  BY <1>1, <1>2, <1>5, <2>2 DEF Service!LoadFails, InHand
  <1>6. CASE Service!Change
    <2>1. /\ jobs # <<>> /\ Head(jobs).kind # "known" /\ held # None
          /\ held' = Service!Fold(held, Head(jobs))
          /\ saving' = [s \in Seats |-> [held'[s] EXCEPT !.until = StillCooling(@, Head(jobs).at)]]
          /\ file' = file /\ jobs' = jobs /\ answer' = answer
      BY <1>6, ServiceFollowsTheRules DEF Service!Change
    <2>2. Sound(held', now) /\ NoOlder(held, held')
      BY <1>1, <1>2, <2>1, Folded
    <2>3. Sound(saving', now)
      BY <1>1, <1>2, <2>1, <2>2, JobKinds, SavedSound, ZenonT(60)
    <2>4. held' # None
      BY <2>2, NoneAssumption DEF Sound
    <2> QED  BY <1>1, <2>1, <2>2, <2>3, <2>4 DEF InHand
  <1>7. CASE Service!Saved
    BY <1>1, <1>2, <1>3, <1>7 DEF Service!Saved, InHand
  <1>8. CASE Service!SaveFails
    BY <1>1, <1>2, <1>3, <1>8 DEF Service!SaveFails, InHand
  <1>9. CASE Service!AnswerKnown
    <2>1. /\ jobs # <<>> /\ Head(jobs).kind = "known" /\ held # None
          /\ answer' = [answer EXCEPT ![Head(jobs).by] = [s \in Seats |-> AsOf(held[s], Head(jobs).at)]]
          /\ jobs' = Tail(jobs) /\ file' = file /\ held' = held /\ saving' = saving
      BY <1>9, ServiceFollowsTheRules DEF Service!AnswerKnown
    <2>2. held \in Pictures
      BY <1>1, <2>1 DEF Sound
    <2>3. [s \in Seats |-> AsOf(held[s], Head(jobs).at)] \in Pictures
      BY <1>2, <2>1, <2>2, JobKinds, AnswersAreMemories
    <2>4. answer' \in [Askers -> Pictures \union {None}]
      BY <1>1, <2>1, <2>3
    <2> QED  BY <1>1, <1>2, <1>3, <2>1, <2>4 DEF InHand
  <1> QED  BY <1>4, <1>5, <1>6, <1>7, <1>8, <1>9 DEF Service!Work

\* The same of the command, which ends when an error meets it and asks for nothing.
LEMMA CommandWorks ==
    ASSUME IInv, Command!Load \/ Command!Change \/ Command!Saved
    PROVE  /\ Sound(file', now) /\ InLine(cJobs', now) /\ InHand(cSaving', cHeld', cJobs')
           /\ cHeld' = None \/ Sound(cHeld', now)
           /\ cSaving' = None \/ Sound(cSaving', now)
           /\ cHeld # None /\ cHeld' # None => NoOlder(cHeld, cHeld')
  <1>1. /\ now \in Moments /\ Sound(file, now) /\ InLine(cJobs, now) /\ InHand(cSaving, cHeld, cJobs)
        /\ cHeld = None \/ Sound(cHeld, now)
        /\ cSaving = None \/ Sound(cSaving, now)
    BY InputsAssumption DEF IInv
  <1>2. cJobs # <<>> => /\ Head(cJobs) \in Jobs /\ Head(cJobs).at <= now
                        /\ InLine(Tail(cJobs), now)
    BY <1>1, Lines
  <1>3. cHeld # None => NoOlder(cHeld, cHeld)
    BY <1>1 DEF NoOlder, Sound, SeatMemories, Readings, Moments
  <1>4. CASE Command!Load
    BY <1>1, <1>4 DEF Command!Load, InHand
  <1>5. CASE Command!Change
    <2>1. /\ cJobs # <<>> /\ Head(cJobs).kind # "known" /\ cHeld # None
          /\ cHeld' = Command!Fold(cHeld, Head(cJobs))
          /\ cSaving' = [s \in Seats |-> [cHeld'[s] EXCEPT !.until = StillCooling(@, Head(cJobs).at)]]
          /\ file' = file /\ cJobs' = cJobs
      BY <1>5, CommandFollowsTheRules DEF Command!Change
    <2>2. Sound(cHeld', now) /\ NoOlder(cHeld, cHeld')
      BY <1>1, <1>2, <2>1, Folded
    <2>3. Sound(cSaving', now)
      BY <1>1, <1>2, <2>1, <2>2, JobKinds, SavedSound
    <2>4. cHeld' # None
      BY <2>2, NoneAssumption DEF Sound
    <2> QED  BY <1>1, <2>1, <2>2, <2>3, <2>4 DEF InHand
  <1>6. CASE Command!Saved
    BY <1>1, <1>2, <1>3, <1>6 DEF Command!Saved, InHand
  <1> QED  BY <1>4, <1>5, <1>6

LEMMA Inductive == IInv /\ [Next]_vars => IInv'
  <1> SUFFICES ASSUME IInv, [Next]_vars
               PROVE  IInv'
    OBVIOUS
  <1>1. now \in Times /\ now \in Moments
    BY InputsAssumption DEF IInv
  <1>2. ASSUME NEW x \in Heard, Hears(x)
        PROVE  IInv'
    <2>1. /\ UNCHANGED <<now, file, held, saving, answer, theirs>>
          /\ jobs' = jobs \/ \E j \in Jobs : j.at <= now /\ jobs' = Append(jobs, j)
      <3> DEFINE j == [kind |-> "exchange", seat |-> SeatTaughtBy(x), news |-> x, at |-> now, by |-> None]
      <3>1. SeatTaughtBy(x) # NoSeat => SeatTaughtBy(x) \in Seats
        BY InputsAssumption DEF SeatTaughtBy, Exchanges
      <3>2. SeatTaughtBy(x) # NoSeat => j \in Jobs /\ j.at <= now
        BY <1>1, <3>1 DEF Jobs, Moments
      <3>3. jobs' = jobs \/ (SeatTaughtBy(x) # NoSeat /\ jobs' = Append(jobs, j))
        BY <1>2, ServiceFollowsTheRules DEF Hears, Service!RememberExchange, Service!InTurn
      <3>4. UNCHANGED <<now, file, held, saving, answer, theirs>>
        BY <1>2 DEF Hears, Service!RememberExchange
      <3> QED  BY <3>2, <3>3, <3>4
    <2>2. InLine(jobs', now) /\ InHand(saving', held', jobs')
      BY <1>1, <2>1, Joined DEF IInv
    <2> QED  BY <2>1, <2>2 DEF IInv, theirs
  <1>3. ASSUME NEW k \in Askers, NEW at \in Times, Asks(k, at)
        PROVE  IInv'
    <2>1. /\ UNCHANGED <<now, file, held, saving, answer, theirs>>
          /\ \E j \in Jobs : j.at <= now /\ jobs' = Append(jobs, j)
      BY <1>3 DEF Asks, Service!AskKnown, Service!InTurn, Jobs
    <2>2. InLine(jobs', now) /\ InHand(saving', held', jobs')
      BY <1>1, <2>1, Joined DEF IInv
    <2> QED  BY <2>1, <2>2 DEF IInv, theirs
  <1>4. ASSUME NEW k \in Askers, GoesOn(k)
        PROVE  IInv'
    <2>1. UNCHANGED <<now, file, held, jobs, saving, theirs>> /\ answer' = [answer EXCEPT ![k] = None]
      BY <1>4 DEF GoesOn, Service!Take
    <2>2. answer' \in [Askers -> Pictures \union {None}]
      BY <2>1 DEF IInv
    <2> QED  BY <2>1, <2>2 DEF IInv, theirs
  <1>5. CASE Works
    <2>1. UNCHANGED <<now, theirs>> /\ Service!Work
      BY <1>5 DEF Works
    <2> QED  BY <2>1, ServiceWorks DEF IInv, theirs
  <1>6. CASE Restarts
    <2>1. /\ UNCHANGED <<now, file, theirs>> /\ held' = None /\ jobs' = <<>> /\ saving' = None
          /\ answer' = [k \in Askers |-> None]
      BY <1>6 DEF Restarts, Service!Restart
    <2>2. InLine(jobs', now)
      BY <2>1 DEF InLine
    <2> QED  BY <2>1, <2>2 DEF IInv, theirs, InHand
  <1>7. CASE Starts
    BY <1>1, <1>7 DEF Starts, service, IInv, Moments
  <1>8. ASSUME NEW s \in Seats, NEW usage \in Logins, Remembers(s, usage)
        PROVE  IInv'
    <2>1. /\ cmd # None /\ cmd \in [at : Times, left : SUBSET Seats] /\ cmd.at <= now
          /\ UNCHANGED <<now, file, service, cHeld, cSaving>>
          /\ cJobs' = Append(cJobs, [kind |-> "reading", seat |-> s, news |-> usage,
                                     at |-> cmd.at, by |-> "refresh"])
          /\ cmd' = [cmd EXCEPT !.left = @ \ {s}]
      BY <1>8 DEF Remembers, Command!RememberReading, Command!InTurn, IInv, service
    <2>2. \E j \in Jobs : j.at <= now /\ cJobs' = Append(cJobs, j)
      BY <2>1 DEF Jobs
    <2>3. InLine(cJobs', now) /\ InHand(cSaving', cHeld', cJobs')
      BY <1>1, <2>1, <2>2, Joined DEF IInv, service
    <2>4. cmd' \in [at : Times, left : SUBSET Seats] /\ cmd'.at = cmd.at
      BY <2>1
    <2> QED  BY <2>1, <2>3, <2>4 DEF IInv, service
  <1>9. CASE TheirWork
    <2>1. /\ UNCHANGED <<now, service, cmd>>
          /\ Command!Load \/ Command!Change \/ Command!Saved
      BY <1>9 DEF TheirWork
    <2> QED  BY <2>1, CommandWorks DEF IInv, service
  <1>10. CASE Ends
    <2>1. /\ UNCHANGED <<now, file, service>> /\ cHeld' = None /\ cJobs' = <<>> /\ cSaving' = None
          /\ cmd' = None
      BY <1>10 DEF Ends, Gone
    <2>2. InLine(cJobs', now)
      BY <2>1 DEF InLine
    <2> QED  BY <2>1, <2>2 DEF IInv, service, InHand
  <1>11. CASE Ticks
    <2>1. /\ now' \in Times /\ now' \in Moments /\ now <= now'
          /\ UNCHANGED <<file, service, theirs>>
      BY <1>1, <1>11, InputsAssumption DEF Ticks, Moments
    <2>2. ASSUME NEW picture, Sound(picture, now)
          PROVE  Sound(picture, now')
      BY <1>1, <2>1, <2>2, SoundLater
    <2>3. ASSUME NEW line, InLine(line, now)
          PROVE  InLine(line, now')
      <3>1. \A i \in DOMAIN line : line[i] \in Jobs
        BY <2>3 DEF InLine
      <3>2. \A i \in DOMAIN line : line[i].at \in Moments
        BY <3>1, JobKinds
      <3> QED  BY <1>1, <2>1, <2>3, <3>2 DEF InLine, Moments
    <2>4. cmd # None => cmd.at <= now'
      <3>1. cmd # None => cmd.at \in Moments /\ cmd.at <= now
        BY InputsAssumption DEF IInv
      <3> QED  BY <1>1, <2>1, <3>1 DEF Moments
    <2> QED  BY <2>1, <2>2, <2>3, <2>4 DEF IInv, service, theirs
  <1>12. CASE UNCHANGED vars
    BY <1>12 DEF vars, service, theirs, IInv
  <1> QED
    BY <1>2, <1>3, <1>4, <1>5, <1>6, <1>7, <1>8, <1>9, <1>10, <1>11, <1>12 DEF Next

\* Nothing in the memory of src/usage, on its way to the file or in the file is unsound
\* at the present moment, whatever either process did.
THEOREM EveryPictureIsSound == Spec => []IInv
  <1> QED  BY Initially, Inductive, PTL DEF Spec

-----------------------------------------------------------------------------
(* What follows.                                                            *)

\* The variables of memory.ts keep their types, in the service and in the command.
THEOREM TypeCorrect == Spec => []TypeOK
  <1>1. IInv => TypeOK
    <2> SUFFICES ASSUME IInv PROVE TypeOK
      OBVIOUS
    <2>1. ASSUME NEW line, InLine(line, now), NEW i \in DOMAIN line
          PROVE  line[i].kind \in {"exchange", "reading", "known"} /\ line[i].at \in Moments
      <3>1. line[i] \in Jobs
        BY <2>1 DEF InLine
      <3> QED  BY <3>1, JobKinds
    <2>2. /\ InLine(jobs, now) /\ Sound(file, now)
          /\ held = None \/ Sound(held, now)
          /\ saving = None \/ Sound(saving, now)
          /\ answer \in [Askers -> Pictures \union {None}]
      BY DEF IInv
    <2>3. Service!TypeOK
      BY <2>1, <2>2 DEF Sound, Service!TypeOK, Service!Pictures, Service!SeatMemories,
                        Service!Readings, Service!Moments, SeatMemories, Readings, Moments
    <2>4. /\ InLine(cJobs, now) /\ Sound(file, now)
          /\ cHeld = None \/ Sound(cHeld, now)
          /\ cSaving = None \/ Sound(cSaving, now)
      BY DEF IInv
    <2>5. Command!TypeOK
      BY <2>1, <2>4 DEF Sound, Command!TypeOK, Command!Pictures, Command!SeatMemories,
                        Command!Readings, Command!Moments, SeatMemories, Readings, Moments
    <2> QED  BY <2>3, <2>5 DEF TypeOK, IInv
  <1> QED  BY <1>1, EveryPictureIsSound, PTL

\* CooldownUntil of known.ts never reaches past the cap, and time only passes: a Seat
\* is ruled out for a period and not for good, also after a restart that reads the file.
THEOREM EverySeatComesBack == Spec => []NoSeatIsRetired
  <1>1. IInv => NoSeatIsRetired
    BY DEF IInv, Sound, SoundSeat, NoSeatIsRetired
  <1> QED  BY <1>1, EveryPictureIsSound, PTL

\* seatTaughtBy of known.ts: no process ever holds, saves or reads back a figure that a
\* reply paid by somebody else told.
THEOREM NobodyElseTeaches == Spec => []OnlyItsOwnFiguresTeach
  <1>1. IInv => OnlyItsOwnFiguresTeach
    <2> SUFFICES ASSUME IInv,
                        NEW picture \in {file, held, saving, cHeld, cSaving} \ {None},
                        NEW s \in Seats, NEW w \in Windows
                 PROVE  TaughtByItsOwn(s, w, picture[s].windows[w])
      BY DEF OnlyItsOwnFiguresTeach, TaughtByItsOwn
    <2>1. Sound(picture, now)
      BY DEF IInv
    <2> QED  BY <2>1 DEF Sound, SoundSeat
  <1> QED  BY <1>1, EveryPictureIsSound, PTL

\* keepTheBetter of known.ts, over whole runs: in the memory of either process a reading
\* gives way only to one about the same moment or a later one.
THEOREM ReadingsOnlyGetNewer == Spec => ReadingsNeverAge
  <1>1. ASSUME IInv, [Next]_vars
        PROVE  /\ held # None /\ held' # None => NoOlder(held, held')
               /\ cHeld # None /\ cHeld' # None => NoOlder(cHeld, cHeld')
    <2>1. /\ held # None => NoOlder(held, held)
          /\ cHeld # None => NoOlder(cHeld, cHeld)
      BY <1>1 DEF IInv, NoOlder, Sound, SeatMemories, Readings, Moments
    <2>2. CASE Works
      BY <1>1, <2>1, <2>2, ServiceWorks DEF Works, theirs
    <2>3. CASE TheirWork
      BY <1>1, <2>1, <2>3, CommandWorks DEF TheirWork, service
    <2>4. CASE Restarts \/ Ends
      BY <2>1, <2>4 DEF Restarts, Service!Restart, Ends, Gone, service, theirs
    <2>5. CASE ~(Works \/ TheirWork \/ Restarts \/ Ends)
      <3>1. UNCHANGED <<held, cHeld>>
        BY <1>1, <2>5 DEF Next, vars, service, theirs, Hears, Asks, GoesOn, Starts, Remembers, Ticks,
                          Service!RememberExchange, Service!AskKnown, Service!Take,
                          Command!RememberReading
      <3> QED  BY <2>1, <3>1
    <2> QED  BY <2>2, <2>3, <2>4, <2>5
  <1>2. IInv /\ [Next]_vars =>
          [held # None /\ held' # None =>
             \A s \in Seats, w \in Windows :
               held[s].windows[w] # None =>
                 /\ held'[s].windows[w] # None
                 /\ held'[s].windows[w].readAt >= held[s].windows[w].readAt]_(Service!vars)
    BY <1>1 DEF NoOlder
  <1>3. IInv /\ [Next]_vars =>
          [cHeld # None /\ cHeld' # None =>
             \A s \in Seats, w \in Windows :
               cHeld[s].windows[w] # None =>
                 /\ cHeld'[s].windows[w] # None
                 /\ cHeld'[s].windows[w].readAt >= cHeld[s].windows[w].readAt]_(Command!vars)
    BY <1>1 DEF NoOlder
  <1> QED  BY <1>2, <1>3, EveryPictureIsSound, PTL
        DEF Spec, ReadingsNeverAge, Service!ReadingsNeverAge, Command!ReadingsNeverAge

-----------------------------------------------------------------------------
(* The memory after the work in line. What a recursive function comes to is *)
(* shown by induction over the length of the line, which is a fact about    *)
(* sets of numbers here.                                                    *)

\* What holds of 0 and with each number of the next one holds up to n.
LEMMA Reached ==
    ASSUME NEW n \in Nat, NEW X, 0 \in X, \A i \in 1..n : i - 1 \in X => i \in X
    PROVE  \A i \in 0..n : i \in X
  <1> DEFINE beginning == {i \in 1..n : \A j \in 1..i : j \in X}
             m == Cardinality(beginning)
  <1>1. IsFiniteSet(beginning) /\ m \in Nat /\ m <= n
    <2>1. IsFiniteSet(1..n) /\ Cardinality(1..n) = n
      BY FS_Interval
    <2> QED  BY <2>1, FS_Subset, FS_CardinalityType
  <1>2. ASSUME NEW i \in beginning
        PROVE  i <= m
    <2>1. IsFiniteSet(1..i) /\ Cardinality(1..i) = i
      BY FS_Interval
    <2>2. 1..i \subseteq beginning
      OBVIOUS
    <2>3. Cardinality(1..i) <= Cardinality(beginning)
      <3> HIDE DEF beginning
      <3> QED  BY <1>1, <2>2, FS_Subset
    <2> QED  BY <2>1, <2>3
  <1>3. \A i \in 1..n : i \notin beginning => m < i
    <2> SUFFICES ASSUME NEW i \in 1..n, i \notin beginning
                 PROVE  m < i
      OBVIOUS
    <2>1. IsFiniteSet(1..(i - 1)) /\ Cardinality(1..(i - 1)) = i - 1
      BY FS_Interval, SMTT(40)
    <2>2. beginning \subseteq 1..(i - 1)
      OBVIOUS
    <2> HIDE DEF beginning
    <2>3. m <= i - 1
      BY <2>1, <2>2, FS_Subset
    <2> QED  BY <1>1, <2>3
  <1>4. \A i \in 1..m : i \in beginning
    BY <1>1, <1>3
  <1>5. m = n
    <2> SUFFICES ASSUME m < n
                 PROVE  FALSE
      BY <1>1
    <2>1. \A j \in 1..m : j \in X
      BY <1>4
    <2>2. m \in X /\ m + 1 \in 1..n /\ (m + 1) - 1 = m
      <3> HIDE DEF m, beginning
      <3> QED  BY <1>1, <2>1
    <2>3. m + 1 \in X
      BY <2>2
    <2>4. m + 1 \in beginning
      <3>1. \A j \in 1..(m + 1) : j \in X
        <4> HIDE DEF m, beginning
        <4> QED  BY <1>1, <2>1, <2>3
      <3> QED  BY <2>2, <3>1
    <2>5. m + 1 <= m
      BY <1>2, <2>4
    <2> HIDE DEF m, beginning
    <2> QED  BY <1>1, <2>5
  <1>6. \A i \in 1..n : i \in X
    BY <1>4, <1>5
  <1> QED  BY <1>6

\* The memories one after the other, from the one the line is begun with, up to the n-th.
RunTo(n, g, memory, line) ==
    g = [m \in 0..n |-> IF m = 0 THEN memory ELSE Service!Fold(g[m - 1], line[m])]

LEMMA StepsOfARun ==
    ASSUME NEW n \in Nat, NEW g, NEW memory, NEW line, RunTo(n, g, memory, line)
    PROVE  /\ g[0] = memory
           /\ \A m \in 1..n : g[m] = Service!Fold(g[m - 1], line[m])
  BY DEF RunTo

LEMMA RunOfSteps ==
    ASSUME NEW n \in Nat, NEW g, NEW memory, NEW line, g = [m \in 0..n |-> g[m]],
           g[0] = memory, \A m \in 1..n : g[m] = Service!Fold(g[m - 1], line[m])
    PROVE  RunTo(n, g, memory, line)
  <1>1. \A m \in 0..n : g[m] = IF m = 0 THEN memory ELSE Service!Fold(g[m - 1], line[m])
    OBVIOUS
  <1> QED  BY <1>1 DEF RunTo

LEMMA RunsExist ==
    ASSUME NEW memory, NEW line, NEW n \in Nat
    PROVE  \E g : RunTo(n, g, memory, line)
  <1> DEFINE X == {m \in 0..n : \E g : RunTo(m, g, memory, line)}
  <1>1. 0 \in X
    <2> DEFINE g == [m \in 0..0 |-> memory]
    <2>1. g = [m \in 0..0 |-> g[m]] /\ g[0] = memory
      OBVIOUS
    <2>2. RunTo(0, g, memory, line)
      <3> HIDE DEF g
      <3>1. \A m \in 1..0 : g[m] = Service!Fold(g[m - 1], line[m])
        OBVIOUS
      <3> QED  BY <2>1, <3>1, RunOfSteps
    <2> QED  BY <2>2
  <1>2. ASSUME NEW m \in 1..n, m - 1 \in X
        PROVE  m \in X
    <2>1. PICK g : RunTo(m - 1, g, memory, line)
      BY <1>2
    <2>2. g[0] = memory /\ \A k \in 1..(m - 1) : g[k] = Service!Fold(g[k - 1], line[k])
      <3>1. m - 1 \in Nat
        OBVIOUS
      <3> QED  BY <2>1, <3>1, StepsOfARun
    <2> DEFINE h == [k \in 0..m |-> IF k = m THEN Service!Fold(g[m - 1], line[m]) ELSE g[k]]
    <2>3. h[0] = memory /\ \A k \in 0..(m - 1) : h[k] = g[k]
      BY <2>2
    <2>4. h[m] = Service!Fold(g[m - 1], line[m]) /\ h = [k \in 0..m |-> h[k]]
      OBVIOUS
    <2> HIDE DEF h
    <2>5. ASSUME NEW k \in 1..m
          PROVE  h[k] = Service!Fold(h[k - 1], line[k])
      <3>1. k - 1 \in 0..(m - 1) /\ h[k - 1] = g[k - 1]
        BY <2>3
      <3>2. k # m => k \in 1..(m - 1) /\ k \in 0..(m - 1)
        OBVIOUS
      <3> QED  BY <2>2, <2>3, <2>4, <3>1, <3>2
    <2>6. RunTo(m, h, memory, line)
      <3>1. m \in Nat /\ h[0] = memory
        BY <2>3
      <3> QED  BY <2>4, <2>5, <3>1, RunOfSteps
    <2> QED  BY <2>6
  <1> HIDE DEF X
  <1>3. \A m \in 1..n : m - 1 \in X => m \in X
    BY <1>2
  <1>4. \A m \in 0..n : m \in X
    BY <1>1, <1>3, Reached
  <1>5. n \in X
    BY <1>4
  <1> QED  BY <1>5 DEF X

LEMMA FoldedIsARun ==
    ASSUME NEW memory, NEW line, Len(line) \in Nat
    PROVE  \E g : /\ RunTo(Len(line), g, memory, line)
                  /\ Service!Folded(memory, line) = g[Len(line)]
  <1> DEFINE after == CHOOSE g : RunTo(Len(line), g, memory, line)
  <1>1. RunTo(Len(line), after, memory, line)
    BY RunsExist
  <1>2. Service!Folded(memory, line) = after[Len(line)]
    BY DEF Service!Folded, RunTo
  <1> QED  BY <1>1, <1>2

\* From where two runs hold the same memory, and as far as they are told the same, they
\* come to the same.
LEMMA RunsAgree ==
    ASSUME NEW line, NEW other, NEW k \in Nat, NEW n \in Nat, NEW from \in Nat, from + n <= k,
           NEW g, NEW h, NEW memory, NEW later,
           RunTo(k, g, memory, line), RunTo(n, h, later, other), g[from] = later,
           \A i \in 1..n : line[from + i] = other[i]
    PROVE  g[from + n] = h[n]
  <1> DEFINE X == {i \in 0..n : g[from + i] = h[i]}
  <1>1. /\ h[0] = later /\ \A i \in 1..n : h[i] = Service!Fold(h[i - 1], other[i])
        /\ \A i \in 1..k : g[i] = Service!Fold(g[i - 1], line[i])
    BY StepsOfARun
  <1>2. 0 \in X
    BY <1>1
  <1>3. ASSUME NEW i \in 1..n, i - 1 \in X
        PROVE  i \in X
    <2>1. from + i \in 1..k /\ from + (i - 1) = (from + i) - 1
      OBVIOUS
    <2>2. g[from + i] = Service!Fold(g[from + (i - 1)], line[from + i])
      BY <1>1, <2>1
    <2> QED  BY <1>1, <1>3, <2>2
  <1> HIDE DEF X
  <1>4. \A i \in 1..n : i - 1 \in X => i \in X
    BY <1>3
  <1>5. \A i \in 0..n : i \in X
    BY <1>2, <1>4, Reached
  <1>6. n \in X
    BY <1>5
  <1> QED  BY <1>6 DEF X

LEMMA NothingInLine == ASSUME NEW memory PROVE Service!Folded(memory, <<>>) = memory
  <1>1. Len(<<>>) = 0 /\ Len(<<>>) \in Nat
    OBVIOUS
  <1>2. PICK g : RunTo(Len(<<>>), g, memory, <<>>) /\ Service!Folded(memory, <<>>) = g[Len(<<>>)]
    BY <1>1, FoldedIsARun
  <1>3. g[0] = memory
    BY <1>1, <1>2, StepsOfARun
  <1> QED  BY <1>1, <1>2, <1>3

\* What is told last is folded in last.
LEMMA ToldLast ==
    ASSUME NEW memory, NEW line \in Seq(Jobs), NEW j \in Jobs
    PROVE  Service!Folded(memory, Append(line, j)) = Service!Fold(Service!Folded(memory, line), j)
  <1> DEFINE longer == Append(line, j)
             n == Len(line)
  <1>1. /\ Len(longer) = n + 1 /\ n \in Nat /\ longer[n + 1] = j
        /\ \A i \in 1..n : longer[i] = line[i]
    OBVIOUS
  <1> HIDE DEF longer, n
  <1>2. PICK g : RunTo(n + 1, g, memory, longer) /\ Service!Folded(memory, longer) = g[n + 1]
    BY <1>1, FoldedIsARun
  <1>3. PICK h : RunTo(n, h, memory, line) /\ Service!Folded(memory, line) = h[n]
    BY <1>1, FoldedIsARun DEF n
  <1>4. g[0] = memory /\ \A i \in 1..(n + 1) : g[i] = Service!Fold(g[i - 1], longer[i])
    <2>1. n + 1 \in Nat
      BY <1>1
    <2> QED  BY <1>2, <2>1, StepsOfARun
  <1>5. g[n + 1] = Service!Fold(g[n], j)
    BY <1>1, <1>4
  <1>6. \A i \in 1..n : longer[0 + i] = line[i]
    BY <1>1
  <1>7. g[0 + n] = h[n]
    BY <1>1, <1>2, <1>3, <1>4, <1>6, RunsAgree
  <1> QED  BY <1>1, <1>2, <1>3, <1>5, <1>7 DEF longer

\* What is at the head of the line is folded in first.
LEMMA ToldFirst ==
    ASSUME NEW memory, NEW line \in Seq(Jobs), line # <<>>
    PROVE  Service!Folded(memory, line)
             = Service!Folded(Service!Fold(memory, Head(line)), Tail(line))
  <1> DEFINE rest == Tail(line)
             n == Len(rest)
             next == Service!Fold(memory, Head(line))
  <1>1. /\ n \in Nat /\ Len(line) = n + 1 /\ Head(line) = line[1]
        /\ \A i \in 1..n : line[1 + i] = rest[i]
    OBVIOUS
  <1> HIDE DEF rest, n
  <1>2. PICK g : RunTo(n + 1, g, memory, line) /\ Service!Folded(memory, line) = g[n + 1]
    BY <1>1, FoldedIsARun
  <1>3. PICK h : RunTo(n, h, next, rest) /\ Service!Folded(next, rest) = h[n]
    BY <1>1, FoldedIsARun DEF n
  <1>4. g[0] = memory /\ \A i \in 1..(n + 1) : g[i] = Service!Fold(g[i - 1], line[i])
    <2>1. n + 1 \in Nat
      BY <1>1
    <2> QED  BY <1>2, <2>1, StepsOfARun
  <1>5. g[1] = next
    BY <1>1, <1>4
  <1>6. g[1 + n] = h[n]
    <2> HIDE DEF next
    <2> QED  BY <1>1, <1>2, <1>3, <1>5, RunsAgree
  <1> QED  BY <1>1, <1>2, <1>3, <1>6 DEF rest

-----------------------------------------------------------------------------
(* The memory as a ledger.                                                  *)

\* Whoever asks has one question in line, and has not been told meanwhile.
Asking(line, told) ==
    /\ \A i \in DOMAIN line, j \in DOMAIN line :
         line[i].kind = "known" /\ line[j].kind = "known" /\ line[i].by = line[j].by => i = j
    /\ \A i \in DOMAIN line : line[i].kind = "known" => told[line[i].by] = None

\* Where in line somebody asks.
Questions(k, line) == {i \in DOMAIN line : line[i].kind = "known" /\ line[i].by = k}

\* What an asker is going to be told, once the file is read: memory is what is held, and
\* the work from the first-th on is still to come.
Due(k, line, first, memory, told) ==
    IF Questions(k, line) = {} THEN told[k]
    ELSE LET i == CHOOSE i \in Questions(k, line) : TRUE
         IN  [s \in Seats |-> AsOf(Service!Folded(memory, SubSeq(line, first, i - 1))[s], line[i].at)]

LEMMA DueIs ==
    ASSUME NEW k, NEW line, NEW first, NEW memory, NEW told, Asking(line, told)
    PROVE  /\ Questions(k, line) = {} => Due(k, line, first, memory, told) = told[k]
           /\ \A i \in DOMAIN line : line[i].kind = "known" /\ line[i].by = k =>
                Due(k, line, first, memory, told) =
                  [s \in Seats |-> AsOf(Service!Folded(memory, SubSeq(line, first, i - 1))[s], line[i].at)]
  <1>1. ASSUME NEW i \in DOMAIN line, line[i].kind = "known", line[i].by = k
        PROVE  (CHOOSE j \in Questions(k, line) : TRUE) = i /\ Questions(k, line) # {}
    <2>1. Questions(k, line) = {i}
      BY <1>1 DEF Questions, Asking
    <2> QED  BY <2>1
  <1> QED  BY <1>1 DEF Due

\* Work that is told of or asked for behind what is in line changes nothing of what
\* others are due.
LEMMA DueAfterTelling ==
    ASSUME NEW line \in Seq(Jobs), NEW j \in Jobs, NEW k, NEW first \in {1, 2}, NEW memory, NEW told,
           Asking(line, told), Asking(Append(line, j), told), j.kind = "known" => j.by # k
    PROVE  Due(k, Append(line, j), first, memory, told) = Due(k, line, first, memory, told)
  <1> DEFINE longer == Append(line, j)
  <1>1. /\ Len(line) \in Nat /\ DOMAIN line = 1..Len(line) /\ DOMAIN longer = 1..(Len(line) + 1)
        /\ longer[Len(line) + 1] = j /\ \A i \in 1..Len(line) : longer[i] = line[i]
    OBVIOUS
  <1>2. Questions(k, longer) = Questions(k, line)
    <2> HIDE DEF longer
    <2> QED  BY <1>1 DEF Questions
  <1>3. ASSUME NEW i \in DOMAIN line
        PROVE  SubSeq(longer, first, i - 1) = SubSeq(line, first, i - 1)
    BY <1>1, <1>3
  <1> HIDE DEF longer
  <1>4. CASE Questions(k, line) = {}
    BY <1>2, <1>4 DEF Due, longer
  <1>5. CASE Questions(k, line) # {}
    <2>1. PICK i \in DOMAIN line : line[i].kind = "known" /\ line[i].by = k
      BY <1>5 DEF Questions
    <2>2. i \in DOMAIN longer /\ longer[i] = line[i]
      BY <1>1
    <2>3. Asking(longer, told)
      BY DEF longer
    <2>4. Due(k, line, first, memory, told) =
            [s \in Seats |-> AsOf(Service!Folded(memory, SubSeq(line, first, i - 1))[s], line[i].at)]
      BY <2>1, DueIs
    <2>5. Due(k, longer, first, memory, told) =
            [s \in Seats |-> AsOf(Service!Folded(memory, SubSeq(longer, first, i - 1))[s], longer[i].at)]
      BY <2>1, <2>2, <2>3, DueIs
    <2>6. SubSeq(longer, first, i - 1) = SubSeq(line, first, i - 1)
      BY <1>3
    <2> QED  BY <2>2, <2>4, <2>5, <2>6 DEF longer
  <1> QED  BY <1>4, <1>5 DEF longer

\* The work at the head of the line leaves it, and what it did is in memory.
LEMMA DueBehindTheHead ==
    ASSUME NEW line \in Seq(Jobs), line # <<>>, NEW k, NEW memory, NEW told,
           Asking(line, told), Head(line).kind = "known" => Head(line).by # k
    PROVE  /\ Due(k, line, 1, memory, told) = Due(k, line, 2, Service!Fold(memory, Head(line)), told)
           /\ \A then : Asking(Tail(line), then) /\ then[k] = told[k] =>
                Due(k, line, 2, memory, told) = Due(k, Tail(line), 1, memory, then)
  <1> DEFINE rest == Tail(line)
  <1>1. /\ Len(line) \in Nat /\ DOMAIN line = 1..Len(line) /\ 1 \in DOMAIN line /\ Head(line) = line[1]
        /\ DOMAIN rest = 1..(Len(line) - 1) /\ \A i \in DOMAIN rest : rest[i] = line[i + 1]
    OBVIOUS
  <1>2. \A i \in DOMAIN line : line[i].kind = "known" /\ line[i].by = k => i \in 2..Len(line)
    BY <1>1
  <1>3. ASSUME NEW i \in 2..Len(line)
        PROVE  /\ SubSeq(line, 1, i - 1) \in Seq(Jobs) /\ SubSeq(line, 1, i - 1) # <<>>
               /\ Head(SubSeq(line, 1, i - 1)) = Head(line)
               /\ Tail(SubSeq(line, 1, i - 1)) = SubSeq(line, 2, i - 1)
               /\ SubSeq(line, 2, i - 1) = SubSeq(rest, 1, (i - 1) - 1)
    <2>1. 1 \in 1..Len(line) /\ i - 1 \in 1..Len(line)
      BY <1>1
    <2>2. Head(SubSeq(line, 1, i - 1)) = line[1] /\ Tail(SubSeq(line, 1, i - 1)) = SubSeq(line, 2, i - 1)
      BY <2>1, HeadTailOfSubSeq
    <2>3. SubSeq(line, 1, i - 1) \in Seq(Jobs) /\ SubSeq(line, 1, i - 1) # <<>>
      BY <2>1
    <2>4. SubSeq(line, 2, i - 1) = SubSeq(rest, 1, (i - 1) - 1)
      BY <1>1, <1>3
    <2> QED  BY <1>1, <2>2, <2>3, <2>4
  <1> HIDE DEF rest
  <1>4. CASE Questions(k, line) = {}
    <2>1. ASSUME NEW i \in Questions(k, rest)
          PROVE  FALSE
      <3>1. i \in DOMAIN rest /\ rest[i].kind = "known" /\ rest[i].by = k
        BY <2>1 DEF Questions
      <3>2. i + 1 \in DOMAIN line /\ rest[i] = line[i + 1]
        BY <1>1, <3>1
      <3> QED  BY <1>4, <3>1, <3>2 DEF Questions
    <2>2. Questions(k, rest) = {}
      BY <2>1
    <2> QED  BY <1>4, <2>2 DEF Due, rest
  <1>5. CASE Questions(k, line) # {}
    <2>1. PICK i \in DOMAIN line : line[i].kind = "known" /\ line[i].by = k
      BY <1>5 DEF Questions
    <2>2. i \in 2..Len(line)
      BY <1>2, <2>1
    <2>3. \A first, m :
            Due(k, line, first, m, told) =
              [s \in Seats |-> AsOf(Service!Folded(m, SubSeq(line, first, i - 1))[s], line[i].at)]
      BY <2>1, DueIs
    <2>4. Service!Folded(memory, SubSeq(line, 1, i - 1))
            = Service!Folded(Service!Fold(memory, Head(line)), SubSeq(line, 2, i - 1))
      BY <1>3, <2>2, ToldFirst
    <2>5. Due(k, line, 1, memory, told) = Due(k, line, 2, Service!Fold(memory, Head(line)), told)
      BY <2>3, <2>4
    <2>6. ASSUME NEW then, Asking(rest, then)
          PROVE  Due(k, line, 2, memory, told) = Due(k, rest, 1, memory, then)
      <3>1. i - 1 \in DOMAIN rest /\ rest[i - 1] = line[i]
        BY <1>1, <2>2
      <3>2. Due(k, rest, 1, memory, then) =
              [s \in Seats |-> AsOf(Service!Folded(memory, SubSeq(rest, 1, (i - 1) - 1))[s], rest[i - 1].at)]
        BY <2>1, <2>6, <3>1, DueIs
      <3>3. SubSeq(line, 2, i - 1) = SubSeq(rest, 1, (i - 1) - 1)
        BY <1>3, <2>2
      <3>4. Due(k, line, 2, memory, told) =
              [s \in Seats |-> AsOf(Service!Folded(memory, SubSeq(line, 2, i - 1))[s], line[i].at)]
        BY <2>3
      <3> QED  BY <3>1, <3>2, <3>3, <3>4
    <2> QED  BY <2>5, <2>6 DEF rest
  <1> QED  BY <1>4, <1>5

\* What is still to come of the work in line, and from where on.
Coming(line, picture) == IF picture = None THEN line ELSE Tail(line)
From(picture)         == IF picture = None THEN 1 ELSE 2

LEMMA LedgerFollowsTheRules ==
    /\ \A x : Service!Ledger!SeatTaughtBy(x) = SeatTaughtBy(x)
    /\ \A was, x, at : Service!Ledger!FoldExchange(was, x, at) = FoldExchange(was, x, at)
    /\ \A was, at : Service!Ledger!AsOf(was, at) = AsOf(was, at)
  <1>1. \A was, arriving : Service!Ledger!KeepTheBetter(was, arriving) = KeepTheBetter(was, arriving)
    BY DEF Service!Ledger!KeepTheBetter, KeepTheBetter
  <1>2. \A x : Service!Ledger!RefusalIsAboutTheSeat(x) = RefusalIsAboutTheSeat(x)
    BY DEF Service!Ledger!RefusalIsAboutTheSeat, RefusalIsAboutTheSeat
  <1>3. \A x, at : Service!Ledger!CooldownUntil(x, at) = CooldownUntil(x, at)
    BY DEF Service!Ledger!CooldownUntil, CooldownUntil
  <1>4. \A until, at : Service!Ledger!StillCooling(until, at) = StillCooling(until, at)
    BY DEF Service!Ledger!StillCooling, StillCooling
  <1>5. \A reading, at : Service!Ledger!HasReset(reading, at) = HasReset(reading, at)
    BY DEF Service!Ledger!HasReset, HasReset
  <1>6. \A was, at : Service!Ledger!AsOf(was, at) = AsOf(was, at)
    BY <1>4, <1>5 DEF Service!Ledger!AsOf, AsOf
  <1>7. \A was, x, at : Service!Ledger!FoldExchange(was, x, at) = FoldExchange(was, x, at)
    BY <1>1, <1>2, <1>3, ZenonT(120) DEF Service!Ledger!FoldExchange, FoldExchange
  <1>8. \A x : Service!Ledger!SeatTaughtBy(x) = SeatTaughtBy(x)
    BY DEF Service!Ledger!SeatTaughtBy, SeatTaughtBy
  <1> QED  BY <1>6, <1>7, <1>8

\* The refinement mapping, once the file is read.
LEMMA TheLedger ==
    held # None => /\ Service!After(Service!Ahead) = Service!Folded(held, Coming(jobs, saving))
                   /\ \A k : Service!Promised(k) = Due(k, jobs, From(saving), held, answer)
  <1> SUFFICES ASSUME held # None
               PROVE  /\ Service!After(Service!Ahead) = Service!Folded(held, Coming(jobs, saving))
                      /\ \A k : Service!Promised(k) = Due(k, jobs, From(saving), held, answer)
    OBVIOUS
  <1>1. \A work : Service!After(work) = Service!Folded(held, work)
    BY DEF Service!After
  <1>2. Service!Ahead = Coming(jobs, saving)
    BY DEF Service!Ahead, Coming
  <1>3. \A was, at : Service!AsOf(was, at) = AsOf(was, at)
    BY ServiceFollowsTheRules
  <1>4. \A k : Service!Promised(k) = Due(k, jobs, From(saving), held, answer)
    BY <1>1, <1>3 DEF Service!Promised, Due, Questions, From
  <1> QED  BY <1>1, <1>2, <1>4

\* A piece of work that joins the line.
LEMMA ComingLast ==
    ASSUME NEW line \in Seq(Jobs), NEW j \in Jobs, NEW picture, NEW memory,
           InHand(picture, memory, line)
    PROVE  /\ Coming(line, picture) \in Seq(Jobs)
           /\ Coming(Append(line, j), picture) = Append(Coming(line, picture), j)
  <1>1. CASE picture = None
    BY <1>1 DEF Coming
  <1>2. CASE picture # None
    <2>1. line # <<>>
      BY <1>2 DEF InHand
    <2>2. Tail(line) \in Seq(Jobs)
      BY <2>1
    <2>3. Tail(Append(line, j)) = Append(Tail(line), j)
      BY <2>1
    <2> QED  BY <1>2, <2>2, <2>3 DEF Coming
  <1> QED  BY <1>1, <1>2

\* Work joins the line behind what is there, and leaves it at its front.
LEMMA AskingOn ==
    ASSUME NEW line \in Seq(Jobs), NEW told, Asking(line, told)
    PROVE  /\ \A j \in Jobs :
                (j.kind = "known" => told[j.by] = None /\ \A i \in DOMAIN line : line[i].by # j.by)
                  => Asking(Append(line, j), told)
           /\ line # <<>> => Asking(Tail(line), told)
  <1>1. ASSUME NEW j \in Jobs,
               j.kind = "known" => told[j.by] = None /\ \A i \in DOMAIN line : line[i].by # j.by
        PROVE  Asking(Append(line, j), told)
    <2> DEFINE longer == Append(line, j)
    <2>1. /\ Len(line) \in Nat /\ DOMAIN line = 1..Len(line) /\ DOMAIN longer = 1..(Len(line) + 1)
          /\ longer[Len(line) + 1] = j /\ \A i \in 1..Len(line) : longer[i] = line[i]
      OBVIOUS
    <2> HIDE DEF longer
    <2>2. Asking(longer, told)
      BY <1>1, <2>1 DEF Asking
    <2> QED  BY <2>2 DEF longer
  <1>2. ASSUME line # <<>>
        PROVE  Asking(Tail(line), told)
    <2> DEFINE rest == Tail(line)
    <2>1. \A i \in DOMAIN rest : i + 1 \in DOMAIN line /\ rest[i] = line[i + 1] /\ i \in Int
      BY <1>2
    <2> HIDE DEF rest
    <2>2. Asking(rest, told)
      BY <2>1 DEF Asking
    <2> QED  BY <2>2 DEF rest
  <1> QED  BY <1>1, <1>2

\* Whoever asked at the head of the line is told, and asks no more.
LEMMA AskingNoMore ==
    ASSUME NEW line \in Seq(Jobs), NEW told, Asking(line, told), line # <<>>,
           Head(line).kind = "known", NEW then,
           \A k \in Askers : k # Head(line).by => then[k] = told[k]
    PROVE  /\ Asking(Tail(line), then)
           /\ Questions(Head(line).by, Tail(line)) = {}
  <1> DEFINE rest == Tail(line)
  <1>1. /\ 1 \in DOMAIN line /\ Head(line) = line[1]
        /\ \A i \in DOMAIN rest : /\ i + 1 \in DOMAIN line /\ i + 1 # 1 /\ rest[i] = line[i + 1]
                                  /\ rest[i] \in Jobs
    OBVIOUS
  <1>2. Asking(rest, told)
    BY AskingOn
  <1> HIDE DEF rest
  <1>3. ASSUME NEW i \in DOMAIN rest, rest[i].kind = "known"
        PROVE  rest[i].by # Head(line).by /\ rest[i].by \in Askers
    BY <1>1, <1>3, JobKinds DEF Asking
  <1>4. Asking(rest, then)
    BY <1>2, <1>3 DEF Asking
  <1>5. Questions(Head(line).by, rest) = {}
    BY <1>3 DEF Questions
  <1> QED  BY <1>4, <1>5 DEF rest

\* None of the steps of the other process, nor of time, is one of the service's.
LEMMA AskingIsInductive ==
    IInv /\ Asking(jobs, answer) /\ [Next]_vars => Asking(jobs', answer')
  <1> SUFFICES ASSUME IInv, Asking(jobs, answer), [Next]_vars
               PROVE  Asking(jobs', answer')
    OBVIOUS
  <1>1. jobs \in Seq(Jobs) /\ now \in Times /\ answer \in [Askers -> Pictures \union {None}]
    BY DEF IInv, InLine
  <1>2. ASSUME NEW x \in Heard, Hears(x)
        PROVE  Asking(jobs', answer')
    <2> DEFINE j == [kind |-> "exchange", seat |-> SeatTaughtBy(x), news |-> x, at |-> now, by |-> None]
    <2>1. SeatTaughtBy(x) # NoSeat => j \in Jobs /\ j.kind # "known"
      <3>1. SeatTaughtBy(x) # NoSeat => SeatTaughtBy(x) \in Seats
        BY InputsAssumption DEF SeatTaughtBy, Exchanges
      <3> QED  BY <1>1, <3>1 DEF Jobs
    <2>2. jobs' = jobs \/ (SeatTaughtBy(x) # NoSeat /\ jobs' = Append(jobs, j))
      BY <1>2, ServiceFollowsTheRules DEF Hears, Service!RememberExchange, Service!InTurn
    <2>4. answer' = answer
      BY <1>2 DEF Hears, Service!RememberExchange
    <2> HIDE DEF j
    <2>3. SeatTaughtBy(x) # NoSeat => Asking(Append(jobs, j), answer)
      BY <1>1, <2>1, AskingOn
    <2> QED  BY <2>2, <2>3, <2>4
  <1>3. ASSUME NEW k \in Askers, NEW at \in Times, Asks(k, at)
        PROVE  Asking(jobs', answer')
    <2> DEFINE j == [kind |-> "known", at |-> at, by |-> k]
    <2>1. j \in Jobs /\ j.by = k
      BY DEF Jobs
    <2>2. answer' = answer /\ jobs' = Append(jobs, j)
      BY <1>3 DEF Asks, Service!AskKnown, Service!InTurn
    <2>3. answer[k] = None /\ \A i \in DOMAIN jobs : jobs[i].by # k
      BY <1>3 DEF Asks, Service!AwaitedBy
    <2> HIDE DEF j
    <2>4. Asking(Append(jobs, j), answer)
      BY <1>1, <2>1, <2>3, AskingOn
    <2> QED  BY <2>2, <2>4
  <1>4. ASSUME NEW k \in Askers, GoesOn(k)
        PROVE  Asking(jobs', answer')
    <2>1. jobs' = jobs /\ answer' = [answer EXCEPT ![k] = None]
      BY <1>4 DEF GoesOn, Service!Take
    <2>2. \A i \in DOMAIN jobs : jobs[i].kind = "known" => jobs[i].by \in Askers
      BY <1>1, JobKinds
    <2> QED  BY <1>1, <2>1, <2>2 DEF Asking
  <1>5. CASE Works
    <2>1. CASE Service!Load \/ Service!Change
      BY <2>1 DEF Service!Load, Service!Change
    <2>2. CASE Service!Saved \/ Service!SaveFails
      <3>1. jobs' = Tail(jobs) /\ answer' = answer /\ jobs # <<>>
        BY <2>2 DEF Service!Saved, Service!SaveFails, IInv, InHand
      <3> QED  BY <1>1, <3>1, AskingOn
    <2>3. CASE Service!LoadFails
      <3>1. /\ jobs # <<>> /\ jobs' = Tail(jobs)
            /\ answer' = IF Head(jobs).kind = "known"
                         THEN [answer EXCEPT ![Head(jobs).by] = Service!Nothing] ELSE answer
        BY <2>3 DEF Service!LoadFails
      <3>2. CASE Head(jobs).kind = "known"
        <4>1. \A k \in Askers : k # Head(jobs).by => answer'[k] = answer[k]
          BY <1>1, <3>1, <3>2
        <4> QED  BY <1>1, <3>1, <3>2, <4>1, AskingNoMore
      <3>3. CASE Head(jobs).kind # "known"
        BY <1>1, <3>1, <3>3, AskingOn
      <3> QED  BY <3>2, <3>3
    <2>4. CASE Service!AnswerKnown
      <3> DEFINE told == [s \in Seats |-> Service!AsOf(held[s], Head(jobs).at)]
      <3>1. /\ jobs # <<>> /\ jobs' = Tail(jobs) /\ Head(jobs).kind = "known"
            /\ answer' = [answer EXCEPT ![Head(jobs).by] = told]
        BY <2>4 DEF Service!AnswerKnown
      <3> HIDE DEF told
      <3>2. \A k \in Askers : k # Head(jobs).by => answer'[k] = answer[k]
        BY <1>1, <3>1
      <3> QED  BY <1>1, <3>1, <3>2, AskingNoMore
    <2> QED  BY <1>5, <2>1, <2>2, <2>3, <2>4 DEF Works, Service!Work
  <1>6. CASE Restarts
    <2>1. jobs' = <<>>
      BY <1>6 DEF Restarts, Service!Restart
    <2> QED  BY <2>1 DEF Asking
  <1>7. CASE UNCHANGED service
    BY <1>7 DEF service
  <1>8. Starts \/ (\E s \in Seats, usage \in Logins : Remembers(s, usage)) \/ TheirWork \/ Ends \/ Ticks
          \/ UNCHANGED vars => UNCHANGED service
    BY DEF Starts, Remembers, TheirWork, Ends, Ticks, vars
  <1> QED  BY <1>2, <1>3, <1>4, <1>5, <1>6, <1>7, <1>8 DEF Next

\* Every step of the service is one of the ledger's, or none: what is told and asked
\* takes effect as it joins the line, and the work in hand changes nothing.
LEMMA EveryStepIsTheLedgers ==
    IInv /\ Asking(jobs, answer) /\ Asking(jobs', answer') /\ [Next]_vars
      => [Service!Ledger!Next]_(Service!Ledger!vars)
  <1> SUFFICES ASSUME IInv, Asking(jobs, answer), Asking(jobs', answer'), [Next]_vars
               PROVE  [Service!Ledger!Next]_(Service!Ledger!vars)
    OBVIOUS
  <1>1. CASE held = None \/ held' = None
    BY <1>1 DEF Service!Ledger!Next
  <1>2. CASE held # None /\ held' # None
    <2> DEFINE ledger  == Service!Folded(held, Coming(jobs, saving))
               after   == Service!Folded(held', Coming(jobs', saving'))
               due(k)  == Due(k, jobs, From(saving), held, answer)
               then(k) == Due(k, jobs', From(saving'), held', answer')
    <2>1. /\ jobs \in Seq(Jobs) /\ now \in Times /\ answer \in [Askers -> Pictures \union {None}]
          /\ InHand(saving, held, jobs)
      BY DEF IInv, InLine
    <2>2. /\ Service!After(Service!Ahead) = ledger
          /\ [k \in Askers |-> Service!Promised(k)] = [k \in Askers |-> due(k)]
      BY <1>2, TheLedger
    <2>3. /\ Service!After(Service!Ahead)' = after
          /\ [k \in Askers |-> Service!Promised(k)]' = [k \in Askers |-> then(k)]
      <3>1. (held # None => /\ Service!After(Service!Ahead) = Service!Folded(held, Coming(jobs, saving))
                            /\ \A k : Service!Promised(k) = Due(k, jobs, From(saving), held, answer))'
        BY TheLedger, PTL
      <3> QED  BY <1>2, <3>1
    <2>4. ASSUME after = ledger, \A k \in Askers : then(k) = due(k)
          PROVE  UNCHANGED Service!Ledger!vars
      <3>1. [k \in Askers |-> then(k)] = [k \in Askers |-> due(k)]
        BY <2>4
      <3>2. (held' # None) = (held # None)
        BY <1>2
      <3> HIDE DEF ledger, after, due, then
      <3> QED  BY <2>2, <2>3, <2>4, <3>1, <3>2 DEF Service!Ledger!vars
    <2>5. ASSUME UNCHANGED service
          PROVE  UNCHANGED Service!Ledger!vars
      BY <2>4, <2>5 DEF service
    <2>6. ASSUME NEW x \in Heard, Hears(x)
          PROVE  [Service!Ledger!Next]_(Service!Ledger!vars)
      <3> DEFINE j == [kind |-> "exchange", seat |-> SeatTaughtBy(x), news |-> x, at |-> now, by |-> None]
      <3>1. UNCHANGED <<held, saving, answer>>
        BY <2>6 DEF Hears, Service!RememberExchange
      <3>2. jobs' = jobs \/ (SeatTaughtBy(x) # NoSeat /\ jobs' = Append(jobs, j))
        BY <2>6, ServiceFollowsTheRules DEF Hears, Service!RememberExchange, Service!InTurn
      <3>3. CASE jobs' = jobs
        BY <2>5, <3>1, <3>3 DEF service
      <3>4. CASE SeatTaughtBy(x) # NoSeat /\ jobs' = Append(jobs, j)
        <4>1. j \in Jobs /\ j.kind = "exchange" /\ j.seat = SeatTaughtBy(x) /\ j.news = x /\ j.at = now
          <5>1. SeatTaughtBy(x) \in Seats
            BY <3>4, InputsAssumption DEF SeatTaughtBy, Exchanges
          <5> QED  BY <2>1, <3>4, <5>1 DEF Jobs
        <4> HIDE DEF j
        <4>2. after = Service!Fold(ledger, j)
          <5>1. /\ Coming(jobs, saving) \in Seq(Jobs)
                /\ Coming(jobs', saving') = Append(Coming(jobs, saving), j)
            BY <2>1, <3>1, <3>4, <4>1, ComingLast
          <5> QED  BY <3>1, <4>1, <5>1, ToldLast
        <4>3. after = [ledger EXCEPT ![SeatTaughtBy(x)] = FoldExchange(ledger[SeatTaughtBy(x)], x, now)]
          BY <4>1, <4>2, ServiceFollowsTheRules DEF Service!Fold
        <4>4. \A k \in Askers : then(k) = due(k)
          <5>1. From(saving) \in {1, 2}
            BY DEF From
          <5> QED  BY <2>1, <3>1, <3>4, <4>1, <5>1, DueAfterTelling
        <4>5. [k \in Askers |-> then(k)] = [k \in Askers |-> due(k)]
          BY <4>4
        <4> HIDE DEF ledger, after, due, then
        <4>6. Service!Ledger!TellExchange(x, now)
          BY <2>2, <2>3, <3>4, <4>3, <4>5, LedgerFollowsTheRules DEF Service!Ledger!TellExchange
        <4> QED  BY <1>2, <2>1, <4>6 DEF Service!Ledger!Next
      <3> QED  BY <3>2, <3>3, <3>4
    <2>7. ASSUME NEW k \in Askers, NEW at \in Times, Asks(k, at)
          PROVE  Service!Ledger!Next
      <3> DEFINE j == [kind |-> "known", at |-> at, by |-> k]
      <3>1. UNCHANGED <<held, saving, answer>> /\ jobs' = Append(jobs, j)
        BY <2>7 DEF Asks, Service!AskKnown, Service!InTurn
      <3>2. answer[k] = None /\ Questions(k, jobs) = {}
        BY <2>7 DEF Asks, Service!AwaitedBy, Questions
      <3>3. j \in Jobs /\ j.kind = "known" /\ j.by = k /\ j.at = at
        BY DEF Jobs
      <3> HIDE DEF j
      <3>4. after = ledger
        <4>1. after = Service!Fold(ledger, j)
          <5>1. /\ Coming(jobs, saving) \in Seq(Jobs)
                /\ Coming(jobs', saving') = Append(Coming(jobs, saving), j)
            BY <2>1, <3>1, <3>3, ComingLast
          <5> QED  BY <3>1, <3>3, <5>1, ToldLast
        <4> QED  BY <3>3, <4>1 DEF Service!Fold
      <3>5. From(saving) \in {1, 2}
        BY DEF From
      <3>6. \A other \in Askers \ {k} : then(other) = due(other)
        BY <2>1, <3>1, <3>3, <3>5, DueAfterTelling
      <3>7. due(k) = None
        BY <3>2, DueIs
      <3>8. then(k) = [s \in Seats |-> AsOf(ledger[s], at)]
        <4> DEFINE n == Len(jobs) + 1
        <4>1. n \in DOMAIN jobs' /\ jobs'[n] = j /\ n - 1 = Len(jobs)
          BY <2>1, <3>1, <3>3
        <4> HIDE DEF n
        <4>2. then(k) = [s \in Seats |-> AsOf(Service!Folded(held, SubSeq(jobs', From(saving), Len(jobs)))[s], at)]
          <5>1. then(k) = [s \in Seats |-> AsOf(Service!Folded(held', SubSeq(jobs', From(saving'), n - 1))[s], jobs'[n].at)]
            BY <3>3, <4>1, DueIs
          <5> QED  BY <3>1, <3>3, <4>1, <5>1
        <4>3. SubSeq(jobs', From(saving), Len(jobs)) = Coming(jobs, saving)
          BY <2>1, <3>1, <3>3 DEF From, Coming, InHand
        <4> QED  BY <4>2, <4>3
      <3>9. [o \in Askers |-> then(o)]
              = [[o \in Askers |-> due(o)] EXCEPT ![k] = [s \in Seats |-> AsOf(ledger[s], at)]]
        BY <3>6, <3>8
      <3> HIDE DEF ledger, after, due, then
      <3>10. Service!Ledger!Ask(k, at)
        BY <2>2, <2>3, <3>4, <3>7, <3>9, LedgerFollowsTheRules DEF Service!Ledger!Ask
      <3> QED  BY <1>2, <3>10 DEF Service!Ledger!Next
    <2>8. ASSUME NEW k \in Askers, GoesOn(k)
          PROVE  Service!Ledger!Next
      <3>1. UNCHANGED <<held, saving, jobs>> /\ answer[k] # None /\ answer' = [answer EXCEPT ![k] = None]
        BY <2>8 DEF GoesOn, Service!Take
      <3>2. after = ledger
        BY <3>1
      <3>3. Questions(k, jobs) = {}
        BY <3>1 DEF Questions, Asking
      <3>4. then(k) = None
        BY <2>1, <3>1, <3>3 DEF Due
      <3>5. \A o \in Askers \ {k} : then(o) = due(o)
        BY <2>1, <3>1 DEF Due
      <3>6. [o \in Askers |-> then(o)] = [[o \in Askers |-> due(o)] EXCEPT ![k] = None]
        BY <3>4, <3>5
      <3> HIDE DEF ledger, after, due, then
      <3>7. Service!Ledger!Take(k)
        BY <2>2, <2>3, <3>2, <3>6 DEF Service!Ledger!Take
      <3>8. \E at \in Times : TRUE
        BY <2>1
      <3> QED  BY <1>2, <3>7, <3>8 DEF Service!Ledger!Next
    <2>9. ASSUME Works
          PROVE  UNCHANGED Service!Ledger!vars
      <3>1. CASE Service!Load \/ Service!LoadFails
        BY <1>2, <3>1 DEF Service!Load, Service!LoadFails
      <3>2. CASE Service!Change
        <4>1. /\ jobs # <<>> /\ Head(jobs).kind # "known" /\ saving = None
              /\ held' = Service!Fold(held, Head(jobs))
              /\ UNCHANGED <<jobs, answer>>
          BY <3>2 DEF Service!Change
        <4>2. saving' # None
          <5>1. Service!Work
            BY <3>2 DEF Service!Work
          <5>2. saving' = [s \in Seats |-> [held'[s] EXCEPT !.until = StillCooling(@, Head(jobs).at)]]
            BY <3>2, ServiceFollowsTheRules DEF Service!Change
          <5>3. now \in Moments /\ Sound(held', now)
            BY <1>2, <2>1, <5>1, ServiceWorks, InputsAssumption
          <5>4. Head(jobs).at \in Moments
            BY <2>1, <4>1, JobKinds
          <5>5. Sound(saving', now)
            BY <5>2, <5>3, <5>4, SavedSound
          <5> QED  BY <5>5, NoneAssumption DEF Sound
        <4>3. after = ledger
          BY <2>1, <4>1, <4>2, ToldFirst DEF Coming
        <4>4. \A k \in Askers : then(k) = due(k)
          BY <2>1, <4>1, <4>2, DueBehindTheHead DEF From
        <4> QED  BY <2>4, <4>3, <4>4
      <3>3. CASE Service!Saved \/ Service!SaveFails
        <4>1. /\ saving # None /\ saving' = None /\ jobs' = Tail(jobs)
              /\ UNCHANGED <<held, answer>>
          BY <3>3 DEF Service!Saved, Service!SaveFails
        <4>2. jobs # <<>> /\ Head(jobs).kind # "known"
          BY <2>1, <4>1 DEF InHand
        <4>3. after = ledger
          BY <4>1 DEF Coming
        <4>4. \A k \in Askers : then(k) = due(k)
          BY <2>1, <4>1, <4>2, DueBehindTheHead DEF From
        <4> QED  BY <2>4, <4>3, <4>4
      <3>4. CASE Service!AnswerKnown
        <4>1. /\ jobs # <<>> /\ Head(jobs).kind = "known" /\ jobs' = Tail(jobs)
              /\ UNCHANGED <<held, saving>>
              /\ answer' = [answer EXCEPT ![Head(jobs).by] = [s \in Seats |-> AsOf(held[s], Head(jobs).at)]]
          BY <3>4, ServiceFollowsTheRules DEF Service!AnswerKnown
        <4>2. saving = None /\ saving' = None
          BY <2>1, <4>1 DEF InHand
        <4>3. Service!Fold(held, Head(jobs)) = held
          BY <4>1 DEF Service!Fold
        <4>4. after = ledger
          BY <2>1, <4>1, <4>2, <4>3, ToldFirst DEF Coming
        <4>5. Head(jobs) \in Jobs /\ Head(jobs).by \in Askers
          BY <2>1, <4>1, JobKinds
        <4>6. ASSUME NEW k \in Askers, k # Head(jobs).by
              PROVE  then(k) = due(k)
          <5>1. answer'[k] = answer[k]
            BY <2>1, <4>1, <4>6
          <5>2. due(k) = Due(k, jobs, 2, held, answer)
            BY <2>1, <4>1, <4>2, <4>3, <4>6, DueBehindTheHead DEF From
          <5>3. Due(k, jobs, 2, held, answer) = Due(k, jobs', 1, held, answer')
            <6>1. Asking(Tail(jobs), answer')
              BY <4>1
            <6>2. \A told : Asking(Tail(jobs), told) /\ told[k] = answer[k] =>
                    Due(k, jobs, 2, held, answer) = Due(k, Tail(jobs), 1, held, told)
              BY <2>1, <4>1, <4>6, DueBehindTheHead
            <6> QED  BY <4>1, <5>1, <6>1, <6>2
          <5> QED  BY <4>1, <4>2, <5>2, <5>3 DEF From
        <4>7. then(Head(jobs).by) = due(Head(jobs).by)
          <5> DEFINE k == Head(jobs).by
          <5>1. Questions(k, jobs') = {}
            BY <2>1, <4>1, AskingNoMore
          <5>2. then(k) = [s \in Seats |-> AsOf(held[s], Head(jobs).at)]
            BY <2>1, <4>1, <4>5, <5>1 DEF Due
          <5>3. 1 \in DOMAIN jobs /\ jobs[1] = Head(jobs) /\ SubSeq(jobs, 1, 1 - 1) = <<>>
            BY <2>1, <4>1
          <5>4. due(k) = [s \in Seats |-> AsOf(Service!Folded(held, SubSeq(jobs, 1, 1 - 1))[s], jobs[1].at)]
            BY <4>1, <4>2, <5>3, DueIs DEF From
          <5>5. Service!Folded(held, SubSeq(jobs, 1, 1 - 1)) = held
            BY <5>3, NothingInLine
          <5> QED  BY <5>2, <5>3, <5>4, <5>5
        <4> QED  BY <2>4, <4>4, <4>6, <4>7
      <3> QED  BY <2>9, <3>1, <3>2, <3>3, <3>4 DEF Works, Service!Work
    <2>10. CASE Restarts
      BY <1>2, <2>10 DEF Restarts, Service!Restart
    <2>11. Starts \/ (\E s \in Seats, usage \in Logins : Remembers(s, usage)) \/ TheirWork \/ Ends \/ Ticks
             \/ UNCHANGED vars => UNCHANGED service
      BY DEF Starts, Remembers, TheirWork, Ends, Ticks, vars
    <2> QED  BY <2>5, <2>6, <2>7, <2>8, <2>9, <2>10, <2>11 DEF Next
  <1> QED  BY <1>1, <1>2

\* memory.ts, "one at a time, in the order asked": the queue, with its loads, its saves and
\* its failures, makes every call take effect at the moment it is made.
THEOREM TheQueueIsALedger == Spec => IsALedger
  <1>1. Init => Asking(jobs, answer) /\ Service!Ledger!Init
    BY DEF Init, Service!Init, Service!Opened, Asking, Service!Ledger!Init
  <1>2. Asking(jobs, answer)' <=> Asking(jobs', answer')
    BY DEF Asking
  <1>3. Spec => []Asking(jobs, answer)
    BY <1>1, <1>2, EveryPictureIsSound, AskingIsInductive, PTL DEF Spec
  <1> QED  BY <1>1, <1>2, <1>3, EveryPictureIsSound, EveryStepIsTheLedgers, PTL
        DEF Spec, IsALedger, Service!IsALedger, Service!Ledger!Spec
=============================================================================
