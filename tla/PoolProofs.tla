------------------------------ MODULE PoolProofs ------------------------------
(***************************************************************************)
(* Theorems about Pool.tla, for any requests in the air, Seats, ways out   *)
(* and readings. The invariant follows a connection from the moment its    *)
(* agent is handed out: as long as the agent has not been let go, the      *)
(* route it was asked for under is described as the route in force, and it *)
(* goes as its dialler was told. Only a request that nobody pays for is    *)
(* ever on its way straight out, and its agent has been let go by then.    *)
(***************************************************************************)
EXTENDS Pool, TLAPS

Awaits  == {"idle", "routing", "agent", "choosing", "connecting", "goingDirect", "riding"}
Records == [at : Awaits, seat : Payers, wanted : Ways \union {Unknown}, said : Ways \union {Unknown},
            stale : BOOLEAN, conn : Connections \union {Unknown}]

\* An agent in hand, and no connection yet.
Handed == {"agent", "choosing", "connecting", "goingDirect"}

AsTheMachineSaid(c) == c \in Connections /\ (c.seat # NoSeat => c.via = c.said)

Kept(c, word) == c \in Connections /\ c.via = c.said /\ Describe(c.under) = word

Fits(q, word) ==
    /\ q \in Records
    /\ q.at \in Handed => q.wanted \in Ways /\ (~q.stale => Describe(q.wanted) = word)
    /\ q.at \in {"connecting", "goingDirect"} => q.said \in Ways
    /\ q.at = "goingDirect" => q.seat = NoSeat /\ q.stale
    /\ q.at = "riding" => AsTheMachineSaid(q.conn) /\ (~q.stale => Kept(q.conn, word))

IInv == /\ Cache!TypeOK
        /\ route \in Words \union {Unknown}
        /\ req \in [Requests -> Records]
        /\ \A x \in Requests : Fits(req[x], route)
        /\ \A c \in warm : Kept(c, route)

-----------------------------------------------------------------------------
(* The cache beneath.                                                       *)

LEMMA CacheKeeps ==
    ASSUME Cache!TypeOK,
           \/ \E x \in Requests : Cache!Ask(x) \/ Cache!Take(x)
           \/ \E r \in Readings, w \in Ways : Cache!Settle(r, w)
           \/ Cache!Forget \/ Cache!Expire \/ UNCHANGED egressVars
    PROVE  Cache!TypeOK'
  <1>1. ASSUME NEW x \in Requests, Cache!Ask(x)
        PROVE  Cache!TypeOK'
    BY <1>1 DEF Cache!TypeOK, Cache!Ask
  <1>2. ASSUME NEW x \in Requests, Cache!Take(x)
        PROVE  Cache!TypeOK'
    BY <1>2 DEF Cache!TypeOK, Cache!Take
  <1>3. ASSUME NEW r \in Readings, NEW w \in Ways, Cache!Settle(r, w)
        PROVE  Cache!TypeOK'
    BY <1>3 DEF Cache!TypeOK, Cache!Settle
  <1>4. CASE Cache!Forget \/ Cache!Expire \/ UNCHANGED egressVars
    BY <1>4 DEF Cache!TypeOK, Cache!Forget, Cache!Expire, egressVars
  <1> QED  BY <1>1, <1>2, <1>3, <1>4

\* An answer in hand is a way out.
LEMMA AnswerIsAWay ==
    ASSUME Cache!TypeOK, NEW x \in Requests, Cache!Take(x)
    PROVE  answer[x] \in Ways
  BY DEF Cache!TypeOK, Cache!Take

LEMMA DescribedInWords == \A w \in Ways : Describe(w) \in Words /\ Describe(w) # Unknown
  BY WordsAssumption DEF Words

-----------------------------------------------------------------------------
(* What the steps do to a request.                                          *)

LEMMA IdleFits == \A word : Fits(Idle, word) /\ Orphaned(Idle) = Idle
  BY DEF Fits, Idle, Records, Awaits, Payers, Handed, Orphaned

\* A request whose agent is let go no longer depends on the route.
LEMMA OrphanFits ==
    ASSUME NEW q, NEW was, Fits(q, was), q.at # "riding" \/ q.stale, NEW word
    PROVE  Fits(Orphaned(q), word)
  <1>1. CASE q.at \in Handed
    <2> DEFINE o == [q EXCEPT !.stale = TRUE]
    <2>1. Orphaned(q) = o
      BY <1>1 DEF Orphaned, Handed
    <2>2. /\ o \in Records /\ o.at = q.at /\ o.seat = q.seat /\ o.wanted = q.wanted
          /\ o.said = q.said /\ o.stale = TRUE
      BY DEF Fits, Records
    <2> HIDE DEF o
    <2> QED  BY <1>1, <2>1, <2>2 DEF Fits, Handed
  <1>2. CASE q.at \notin Handed
    <2>1. Orphaned(q) = q
      BY <1>2 DEF Orphaned, Handed
    <2> QED  BY <1>2, <2>1 DEF Fits, Handed
  <1> QED  BY <1>1, <1>2

\* One request goes on, and nothing else moves but the cache and what is warm.
LEMMA OneGoesOn ==
    ASSUME IInv, NEW x \in Requests, NEW q, GoOn(x, q), Fits(q, route), route' = route,
           Cache!TypeOK', \A c \in warm' : Kept(c, route)
    PROVE  IInv'
  <1>1. q \in Records /\ req \in [Requests -> Records]
    BY DEF Fits, IInv
  <1>2. /\ req' \in [Requests -> Records]
        /\ \A y \in Requests : req'[y] = IF y = x THEN q ELSE req[y]
    BY <1>1 DEF GoOn
  <1>3. \A y \in Requests : Fits(req'[y], route)
    BY <1>2 DEF IInv
  <1>4. route' \in Words \union {Unknown}
    BY DEF IInv
  <1>5. (\A y \in Requests : Fits(req[y], route))'
    BY <1>3 DEF Fits, Kept
  <1>6. (\A c \in warm : Kept(c, route))'
    BY DEF Kept
  <1> QED  BY <1>2, <1>4, <1>5, <1>6 DEF IInv

\* Everything is hung up on.
LEMMA AllHungUpOn ==
    ASSUME IInv, NEW x \in Requests, NEW q, HangUpOnEverything(x, q),
           Fits(Orphaned(q), route), route' = route, Cache!TypeOK'
    PROVE  IInv'
  <1>1. /\ warm' = {}
        /\ req' = [y \in Requests |-> IF y = x THEN Orphaned(q)
                                      ELSE IF At(y, "riding") THEN Idle ELSE Orphaned(req[y])]
    BY DEF HangUpOnEverything
  <1>2. ASSUME NEW y \in Requests
        PROVE  Fits(req'[y], route)
    <2>1. Fits(req[y], route)
      BY DEF IInv
    <2>3. ~At(y, "riding") => Fits(Orphaned(req[y]), route)
      BY <2>1, OrphanFits DEF At
    <2>4. Fits(Idle, route)
      BY IdleFits
    <2> HIDE DEF Idle
    <2> QED  BY <1>1, <2>3, <2>4
  <1>3. req' \in [Requests -> Records]
    <2>1. \A y \in Requests : req'[y] \in Records
      BY <1>2 DEF Fits
    <2> QED  BY <1>1, <2>1
  <1>4. route' \in Words \union {Unknown}
    BY DEF IInv
  <1>5. (\A y \in Requests : Fits(req[y], route))'
    BY <1>2 DEF Fits, Kept
  <1> QED  BY <1>1, <1>3, <1>4, <1>5 DEF IInv

-----------------------------------------------------------------------------
(* The steps of a request.                                                  *)

LEMMA AskPoolKeeps ==
    ASSUME IInv, NEW x \in Requests, NEW s \in Payers, AskPool(x, s)
    PROVE  IInv'
  <1> DEFINE q == [Idle EXCEPT !.at = "routing", !.seat = s]
  <1>1. GoOn(x, q) /\ Cache!Ask(x) /\ warm' = warm /\ route' = route
    BY DEF AskPool
  <1>2. Fits(q, route)
    BY DEF Fits, Idle, Records, Awaits, Handed
  <1>3. Cache!TypeOK' /\ \A c \in warm' : Kept(c, route)
    BY <1>1, CacheKeeps DEF IInv
  <1> HIDE DEF q
  <1> QED  BY <1>1, <1>2, <1>3, OneGoesOn

\* Under a route that changed every agent is let go, so that whoever still has one in
\* hand is orphaned and whoever rides one is cut.
LEMMA AgentHandedKeeps ==
    ASSUME IInv, NEW x \in Requests, AgentHanded(x)
    PROVE  IInv'
  <1> DEFINE word == Describe(answer[x])
             mine == [req[x] EXCEPT !.at = "agent", !.wanted = answer[x]]
  <1>1. /\ req[x].at = "routing" /\ Cache!Take(x) /\ route' = word
        /\ IF route \in {Unknown, word} THEN GoOn(x, mine) /\ UNCHANGED warm
           ELSE /\ warm' = {}
                /\ req' = [y \in Requests |-> IF y = x THEN mine
                                              ELSE IF At(y, "riding") /\ ~req[y].stale THEN Idle
                                              ELSE Orphaned(req[y])]
    BY DEF AgentHanded, At
  <1>2. Cache!TypeOK' /\ answer[x] \in Ways
    BY <1>1, CacheKeeps, AnswerIsAWay DEF IInv
  <1>3. word \in Words /\ word # Unknown
    BY <1>2, DescribedInWords
  <1>4. req \in [Requests -> Records] /\ \A y \in Requests : Fits(req[y], route)
    BY DEF IInv
  <1>5. /\ mine \in Records /\ mine.at = "agent" /\ mine.wanted = answer[x]
    BY <1>2, <1>4 DEF Records, Awaits
  <1>6. Fits(mine, word)
    BY <1>2, <1>5 DEF Fits, Handed
  <1> HIDE DEF mine, word
  <1>7. ASSUME NEW y \in Requests, y # x
        PROVE  Fits(req'[y], word)
    <2>1. CASE route = word
      BY <1>1, <1>4, <1>7, <2>1 DEF GoOn
    <2>2. CASE route = Unknown
      <3>1. req'[y] = req[y] /\ Fits(req[y], Unknown)
        BY <1>1, <1>4, <1>7, <2>2 DEF GoOn
      <3>2. req[y].at \in Handed \union {"riding"} => req[y].stale
        BY <3>1, DescribedInWords DEF Fits, Kept, AsTheMachineSaid, Connections
      <3> QED  BY <3>1, <3>2 DEF Fits
    <2>3. CASE route \notin {Unknown, word}
      <3>1. req'[y] = IF At(y, "riding") /\ ~req[y].stale THEN Idle ELSE Orphaned(req[y])
        BY <1>1, <1>7, <2>3
      <3>2. Fits(Idle, word)
        BY IdleFits
      <3>3. req[y].at # "riding" \/ req[y].stale => Fits(Orphaned(req[y]), word)
        BY <1>4, OrphanFits
      <3> HIDE DEF Idle
      <3> QED  BY <3>1, <3>2, <3>3 DEF At
    <2> QED  BY <2>1, <2>2, <2>3
  <1>8. req'[x] = mine
    BY <1>1, <1>4 DEF GoOn
  <1>9. \A y \in Requests : Fits(req'[y], word)
    BY <1>6, <1>7, <1>8
  <1>10. req' \in [Requests -> Records]
    <2>1. \A y \in Requests : req'[y] \in Records
      BY <1>9 DEF Fits
    <2>2. req' = [y \in Requests |-> req'[y]]
      BY <1>1, <1>4 DEF GoOn
    <2> QED  BY <2>1, <2>2
  <1>11. \A c \in warm' : Kept(c, word)
    <2>1. route = Unknown => warm = {}
      BY DescribedInWords DEF IInv, Kept, Connections
    <2> QED  BY <1>1, <2>1 DEF IInv
  <1>12. (\A y \in Requests : Fits(req[y], route))' /\ (\A c \in warm : Kept(c, route))'
    BY <1>1, <1>9, <1>11 DEF Fits, Kept
  <1> QED  BY <1>1, <1>2, <1>3, <1>10, <1>12 DEF IInv

LEMMA ReuseKeeps ==
    ASSUME IInv, NEW x \in Requests, Reuse(x)
    PROVE  IInv'
  <1>1. PICK c \in WarmFor(x) : GoOn(x, [req[x] EXCEPT !.at = "riding", !.conn = c])
    BY DEF Reuse
  <1> DEFINE q == [req[x] EXCEPT !.at = "riding", !.conn = c]
  <1>2. c \in warm /\ Kept(c, route) /\ Fits(req[x], route)
    BY <1>1 DEF WarmFor, IInv
  <1>3. c \in Connections
    BY <1>2 DEF Kept
  <1>4. q \in Records /\ q.at = "riding" /\ q.conn = c
    BY <1>2, <1>3 DEF Fits, Records, Awaits
  <1> HIDE DEF q
  <1>5. Fits(q, route)
    <2>1. AsTheMachineSaid(c)
      BY <1>2 DEF Kept, AsTheMachineSaid
    <2> QED  BY <1>2, <1>4, <2>1 DEF Fits, Handed
  <1>6. Cache!TypeOK' /\ route' = route /\ \A d \in warm' : Kept(d, route)
    BY CacheKeeps DEF Reuse, IInv
  <1> QED  BY <1>1, <1>5, <1>6, OneGoesOn DEF q

\* The dialler reads the route a second time.
LEMMA DiallingKeeps ==
    ASSUME IInv, NEW x \in Requests, StartDial(x) \/ ChooseWay(x)
    PROVE  IInv'
  <1>1. Fits(req[x], route) /\ req[x] \in Records
    BY DEF IInv, Fits
  <1>2. CASE StartDial(x)
    <2> DEFINE q == [req[x] EXCEPT !.at = "choosing"]
    <2>1. /\ GoOn(x, q) /\ route' = route /\ warm' = warm /\ Cache!Ask(x) /\ req[x].at = "agent"
      BY <1>2 DEF StartDial, At
    <2>2. /\ q \in Records /\ q.at = "choosing" /\ q.wanted = req[x].wanted
          /\ q.stale = req[x].stale
      BY <1>1 DEF Records, Awaits
    <2>3. Cache!TypeOK' /\ \A c \in warm' : Kept(c, route)
      BY <2>1, CacheKeeps DEF IInv
    <2> HIDE DEF q
    <2>4. Fits(q, route)
      BY <1>1, <2>1, <2>2 DEF Fits, Handed
    <2> QED  BY <2>1, <2>3, <2>4, OneGoesOn
  <1>3. CASE ChooseWay(x)
    <2> DEFINE q == [req[x] EXCEPT !.at = "connecting", !.said = answer[x]]
    <2>1. /\ GoOn(x, q) /\ route' = route /\ warm' = warm /\ Cache!Take(x)
          /\ req[x].at = "choosing"
      BY <1>3 DEF ChooseWay, At
    <2>2. Cache!TypeOK' /\ answer[x] \in Ways /\ \A c \in warm' : Kept(c, route)
      BY <2>1, CacheKeeps, AnswerIsAWay DEF IInv
    <2>3. /\ q \in Records /\ q.at = "connecting" /\ q.wanted = req[x].wanted
          /\ q.stale = req[x].stale /\ q.said = answer[x]
      BY <1>1, <2>2 DEF Records, Awaits
    <2> HIDE DEF q
    <2>4. Fits(q, route)
      BY <1>1, <2>1, <2>2, <2>3 DEF Fits, Handed
    <2> QED  BY <2>1, <2>2, <2>4, OneGoesOn
  <1> QED  BY <1>2, <1>3

\* Steps after which a request is over.
LEMMA EndingKeeps ==
    ASSUME IInv, NEW x \in Requests, RefuseSeat(x) \/ DialFails(x) \/ Done(x)
    PROVE  IInv'
  <1>1. GoOn(x, Idle) /\ route' = route
    BY DEF RefuseSeat, DialFails, Done
  <1>2. Cache!TypeOK'
    BY CacheKeeps DEF RefuseSeat, DialFails, Done, IInv
  <1>3. \A c \in warm' : Kept(c, route)
    <2>1. Fits(req[x], route) /\ \A c \in warm : Kept(c, route)
      BY DEF IInv
    <2>2. CASE RefuseSeat(x) \/ DialFails(x)
      BY <2>1, <2>2 DEF RefuseSeat, DialFails
    <2>3. CASE Done(x)
      <3>1. \A c \in warm' : c \in warm \/ (~req[x].stale /\ c = req[x].conn)
        BY <2>3 DEF Done
      <3> QED  BY <2>1, <2>3, <3>1 DEF Done, At, Fits
    <2> QED  BY <2>2, <2>3
  <1>4. Fits(Idle, route)
    BY IdleFits
  <1> HIDE DEF Idle
  <1> QED  BY <1>1, <1>2, <1>3, <1>4, OneGoesOn

\* Going straight out, a request that nobody pays for no longer depends on the route: its
\* agent is let go with all the others.
LEMMA StraightOutFits ==
    ASSUME NEW q \in Records, q.at = "goingDirect", q.seat = NoSeat, q.wanted \in Ways, q.said \in Ways,
           NEW word
    PROVE  Fits(Orphaned(q), word)
  <1> DEFINE o == [q EXCEPT !.stale = TRUE]
  <1>1. Orphaned(q) = o
    BY DEF Orphaned
  <1>2. /\ o \in Records /\ o.at = q.at /\ o.seat = q.seat /\ o.wanted = q.wanted
        /\ o.said = q.said /\ o.stale = TRUE
    BY DEF Records
  <1> HIDE DEF o
  <1> QED  BY <1>1, <1>2 DEF Fits, Handed

\* Only nobody's request goes straight out.
LEMMA GoingDirectKeeps ==
    ASSUME IInv, NEW x \in Requests, RefuseNobody(x) \/ ProxyGone(x) \/ Silent(x)
    PROVE  IInv'
  <1>1. Fits(req[x], route) /\ req[x] \in Records
    BY DEF IInv, Fits
  <1>2. Fits(Orphaned(Idle), route)
    BY IdleFits
  <1>3. CASE RefuseNobody(x)
    <2> DEFINE q == [req[x] EXCEPT !.at = "goingDirect", !.said = Refuse]
    <2>1. /\ HangUpOnEverything(x, q) /\ route' = route /\ req[x].at = "choosing"
          /\ req[x].seat = NoSeat
      BY <1>3 DEF RefuseNobody, At
    <2>2. /\ q \in Records /\ q.at = "goingDirect" /\ q.wanted = req[x].wanted
          /\ q.stale = req[x].stale /\ q.seat = NoSeat /\ q.said = Refuse
      BY <1>1, <2>1, DirectAssumption DEF Records, Awaits
    <2>3. Cache!TypeOK'
      BY <1>3 DEF RefuseNobody, IInv, Cache!TypeOK
    <2> HIDE DEF q
    <2>4. Fits(Orphaned(q), route)
      BY <1>1, <2>1, <2>2, DirectAssumption, StraightOutFits DEF Fits, Handed
    <2> QED  BY <2>1, <2>2, <2>3, <2>4, AllHungUpOn
  <1>4. CASE ProxyGone(x)
    <2> DEFINE q == [req[x] EXCEPT !.at = "goingDirect"]
    <2>1. /\ route' = route /\ req[x].at = "connecting" /\ Cache!Forget
          /\ \/ HangUpOnEverything(x, Idle)
             \/ HangUpOnEverything(x, q) /\ req[x].seat = NoSeat
      BY <1>4 DEF ProxyGone, At
    <2>2. /\ q \in Records /\ q.at = "goingDirect" /\ q.wanted = req[x].wanted
          /\ q.stale = req[x].stale /\ q.seat = req[x].seat /\ q.said = req[x].said
      BY <1>1 DEF Records, Awaits
    <2>3. Cache!TypeOK'
      BY <2>1, CacheKeeps DEF IInv
    <2> HIDE DEF q, Idle
    <2>4. req[x].seat = NoSeat => Fits(Orphaned(q), route)
      BY <1>1, <2>1, <2>2, StraightOutFits DEF Fits, Handed
    <2> QED  BY <1>2, <2>1, <2>2, <2>3, <2>4, AllHungUpOn
  <1>5. CASE Silent(x)
    <2>1. HangUpOnEverything(x, Idle) /\ route' = route /\ Cache!TypeOK'
      BY <1>5, CacheKeeps DEF Silent, IInv
    <2> HIDE DEF Idle
    <2> QED  BY <1>2, <2>1, AllHungUpOn
  <1> QED  BY <1>3, <1>4, <1>5

LEMMA ConnectedKeeps ==
    ASSUME IInv, NEW x \in Requests, Connected(x)
    PROVE  IInv'
  <1> DEFINE c == [seat |-> req[x].seat, said |-> req[x].said, under |-> req[x].wanted,
                   via |-> IF At(x, "goingDirect") THEN Direct ELSE req[x].said]
             q == [req[x] EXCEPT !.at = "riding", !.conn = c]
  <1>1. /\ GoOn(x, q) /\ route' = route /\ warm' = warm /\ UNCHANGED egressVars
        /\ req[x].at \in {"connecting", "goingDirect"}
    BY DEF Connected
  <1>2. Fits(req[x], route) /\ req[x] \in Records /\ \A d \in warm : Kept(d, route)
    BY DEF IInv, Fits
  <1>3. /\ req[x].said \in Ways /\ req[x].wanted \in Ways /\ req[x].seat \in Payers
        /\ req[x].at = "goingDirect" => req[x].seat = NoSeat
        /\ ~req[x].stale => Describe(req[x].wanted) = route /\ ~At(x, "goingDirect")
    BY <1>1, <1>2 DEF Fits, Handed, Records, At
  <1>4. /\ AsTheMachineSaid(c) /\ c \in Connections /\ c.under = req[x].wanted
        /\ ~At(x, "goingDirect") => c.via = c.said
    BY <1>3, DirectAssumption DEF AsTheMachineSaid, Connections, At
  <1> HIDE DEF c
  <1>5. q \in Records /\ q.at = "riding" /\ q.conn = c /\ q.stale = req[x].stale
    BY <1>2, <1>4 DEF Records, Awaits
  <1> HIDE DEF q
  <1>6. Fits(q, route)
    BY <1>3, <1>4, <1>5 DEF Fits, Handed, Kept
  <1>7. Cache!TypeOK'
    BY <1>1, CacheKeeps DEF IInv
  <1> QED  BY <1>1, <1>2, <1>6, <1>7, OneGoesOn

LEMMA RestKeeps ==
    ASSUME IInv, IdleCloses \/ (\E r \in Readings : Settles(r)) \/ Expires \/ UNCHANGED vars
    PROVE  IInv'
  <1>1. Cache!TypeOK'
    BY CacheKeeps DEF IdleCloses, Settles, Expires, vars, egressVars, IInv
  <1>2. UNCHANGED <<req, route>> /\ warm' \subseteq warm
    BY DEF IdleCloses, Settles, Expires, vars
  <1> QED  BY <1>1, <1>2 DEF IInv, Fits, Kept

-----------------------------------------------------------------------------
(* The theorems.                                                            *)

\* The inductive invariant: whatever is in hand of an agent that has not been let go
\* was asked for under the route in force, and goes the way the machine said.
THEOREM EveryConnectionFits == Spec => []IInv
  <1>1. Init => IInv
    <2> SUFFICES ASSUME Init
                 PROVE  IInv
      OBVIOUS
    <2>1. Cache!TypeOK
      BY DEF Init, Cache!Init, Cache!TypeOK
    <2>2. Fits(Idle, Unknown) /\ Idle \in Records
      BY IdleFits DEF Fits
    <2>3. req = [x \in Requests |-> Idle] /\ warm = {} /\ route = Unknown
      BY DEF Init
    <2> HIDE DEF Idle
    <2> QED  BY <2>1, <2>2, <2>3 DEF IInv
  <1>2. IInv /\ [Next]_vars => IInv'
    <2> SUFFICES ASSUME IInv, [Next]_vars
                 PROVE  IInv'
      OBVIOUS
    <2>1. ASSUME NEW x \in Requests,
                 \/ \E s \in Payers : AskPool(x, s)
                 \/ AgentHanded(x) \/ Reuse(x) \/ StartDial(x) \/ ChooseWay(x) \/ RefuseSeat(x)
                 \/ RefuseNobody(x) \/ ProxyGone(x) \/ DialFails(x) \/ Connected(x) \/ Done(x)
                 \/ Silent(x)
          PROVE  IInv'
      BY <2>1, AskPoolKeeps, AgentHandedKeeps, ReuseKeeps, DiallingKeeps, EndingKeeps,
         GoingDirectKeeps, ConnectedKeeps
    <2>2. CASE IdleCloses \/ (\E r \in Readings : Settles(r)) \/ Expires \/ UNCHANGED vars
      BY <2>2, RestKeeps
    <2> QED  BY <2>1, <2>2 DEF Next
  <1> QED  BY <1>1, <1>2, PTL DEF Spec

\* The cache, the requests and the connections keep their types.
THEOREM TypeCorrect == Spec => []TypeOK
  <1>1. IInv => TypeOK
    BY DEF IInv, TypeOK, Records, Awaits, Kept, AsTheMachineSaid
  <1> QED  BY <1>1, EveryConnectionFits, PTL

\* ADR 0011: a Seat's credential never leaves except the way the machine said, whatever
\* proxy goes away and whatever is kept warm meanwhile.
THEOREM SeatsGoAsSaid == Spec => []NoSeatGoesRound
  <1>1. IInv => NoSeatGoesRound
    BY DEF IInv, NoSeatGoesRound, InUse, Riders, At, Fits, Kept, AsTheMachineSaid
  <1> QED  BY <1>1, EveryConnectionFits, PTL

\* What stays warm goes the way of the route in force, as describe() words it, but for
\* what was dialled on a reading that had changed since forSeat; and nothing that went
\* straight out over the machine's word is ever kept.
THEOREM OnlyTheSecondReadingDiffers == Spec => []OnlyADialReadAnewIsOtherwise
  <1>1. IInv => OnlyADialReadAnewIsOtherwise
    BY DEF IInv, OnlyADialReadAnewIsOtherwise, Kept
  <1> QED  BY <1>1, EveryConnectionFits, PTL
=============================================================================
