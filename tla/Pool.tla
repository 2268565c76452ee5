-------------------------------- MODULE Pool --------------------------------
(***************************************************************************)
(* Connections to the opened host: the pool of                             *)
(* src/relay/internal/pool.ts with the dialler of dial.ts beneath it, over *)
(* the cached reading of Egress.tla.                                       *)
(*                                                                         *)
(* A request asks for the route twice, once when the pool is asked for the *)
(* agent of its Seat and once more when that agent has to dial; the        *)
(* cache, the machine and the other requests move on in between. A         *)
(* connection is a record of whom it was dialled for, the reading it was   *)
(* dialled on, the way it really went, and the reading its agent was       *)
(* handed out under.                                                       *)
(***************************************************************************)
EXTENDS Integers, FiniteSets

CONSTANTS Requests,  \* requests in the air together
          Seats, NoSeat,
          Ways, Direct, Socks, Refuse, Unknown,  \* see Egress.tla
          Readings                               \* bound, see Egress.tla

ASSUME SeatsAssumption == NoSeat \notin Seats
ASSUME ReadingsAssumption == Readings \subseteq Nat \ {0} /\ Readings # {}
ASSUME WaysAssumption == Unknown \notin Ways
ASSUME DirectAssumption == /\ {Direct, Refuse} \subseteq Ways /\ Direct # Refuse
                           /\ Socks \subseteq Ways \ {Direct, Refuse}

VARIABLES
  known, asking, running, waits, answer,  \* Egress.tla
  req,       \* what each request has in hand
  warm,      \* idle connections of the agents in hand
  route      \* the route in force, as describe() words it

egressVars == <<known, asking, running, waits, answer>>
vars       == <<egressVars, req, warm, route>>

Cache == INSTANCE Egress WITH Askers <- Requests

\* describe(): an HTTP proxy with its address, any other way by its kind alone.
Describe(w) == IF w \in Socks THEN "socks" ELSE w

Payers      == Seats \union {NoSeat}
Words       == {Describe(w) : w \in Ways}
\* A route that has been read is described as something.
ASSUME WordsAssumption == Unknown \notin Words

Connections == [seat : Payers, said : Ways, via : Ways, under : Ways]

\* at: which await; wanted: the way forSeat read; said: the way the dialler read;
\* stale: the agent it was handed has been let go; conn: the connection it rides.
Idle == [at |-> "idle", seat |-> NoSeat, wanted |-> Unknown, said |-> Unknown,
         stale |-> FALSE, conn |-> Unknown]

Init == /\ Cache!Init
        /\ req = [x \in Requests |-> Idle]
        /\ warm = {}
        /\ route = Unknown

At(x, where) == req[x].at = where
Riders       == {x \in Requests : At(x, "riding")}

\* A request keeps the agent it was handed until it is over, in hand or not.
Orphaned(q) == IF q.at \in {"agent", "choosing", "connecting", "goingDirect"}
               THEN [q EXCEPT !.stale = TRUE] ELSE q

\* hangUpOnEverything: every live connection is destroyed and every agent let go.
\* What is being dialled comes up under an agent nobody can be handed any more.
\* x is the request in whose run this happens, and q what it goes on with.
HangUpOnEverything(x, q) ==
    /\ warm' = {}
    /\ req' = [y \in Requests |-> IF y = x THEN Orphaned(q)
                                  ELSE IF At(y, "riding") THEN Idle
                                  ELSE Orphaned(req[y])]

GoOn(x, q) == req' = [req EXCEPT ![x] = q]

-----------------------------------------------------------------------------
(* One request.                                                             *)

\* forSeat up to its await.
AskPool(x, s) ==
    /\ At(x, "idle")
    /\ Cache!Ask(x)
    /\ GoOn(x, [Idle EXCEPT !.at = "routing", !.seat = s])
    /\ UNCHANGED <<warm, route>>

\* Fault: forSeat that notes a changed route and lets nothing go.
AgentHandedKeepingAll(x) ==
    /\ At(x, "routing") /\ Cache!Take(x)
    /\ route' = Describe(answer[x])
    /\ GoOn(x, [req[x] EXCEPT !.at = "agent", !.wanted = answer[x]])
    /\ UNCHANGED warm

\* The rest of forSeat: a route that changed destroys the agents in hand, idle and
\* busy connections alike; then the agent of this Seat is handed out.
AgentHanded(x) ==
    LET now == Describe(answer[x])
        mine == [req[x] EXCEPT !.at = "agent", !.wanted = answer[x]]
    IN
    /\ At(x, "routing") /\ Cache!Take(x)
    /\ route' = now
    /\ IF route \in {Unknown, now}
         THEN GoOn(x, mine) /\ UNCHANGED warm
         ELSE /\ warm' = {}
              /\ req' = [y \in Requests |-> IF y = x THEN mine
                                            ELSE IF At(y, "riding") /\ ~req[y].stale THEN Idle
                                            ELSE Orphaned(req[y])]

\* The idle connections of the agent a request was handed.
WarmFor(x) == IF req[x].stale THEN {} ELSE {c \in warm : c.seat = req[x].seat}

\* An idle connection is used again. Another just like it may remain.
Reuse(x) ==
    /\ At(x, "agent")
    /\ \E c \in WarmFor(x) :
         /\ GoOn(x, [req[x] EXCEPT !.at = "riding", !.conn = c])
         /\ warm' \in {warm, warm \ {c}}
    /\ UNCHANGED <<egressVars, route>>

\* There is none: createConnection dials, and the dialler asks for the route again.
StartDial(x) ==
    /\ At(x, "agent") /\ WarmFor(x) = {}
    /\ Cache!Ask(x)
    /\ GoOn(x, [req[x] EXCEPT !.at = "choosing"])
    /\ UNCHANGED <<warm, route>>

\* dialUpstream with its reading in hand, one that can be used.
ChooseWay(x) ==
    /\ At(x, "choosing") /\ answer[x] # Refuse /\ Cache!Take(x)
    /\ GoOn(x, [req[x] EXCEPT !.at = "connecting", !.said = answer[x]])
    /\ UNCHANGED <<warm, route>>

\* A way that cannot be used fails a Seat's request.
RefuseSeat(x) ==
    /\ At(x, "choosing") /\ answer[x] = Refuse /\ req[x].seat # NoSeat /\ Cache!Take(x)
    /\ GoOn(x, Idle)
    /\ UNCHANGED <<warm, route>>

\* Anybody else's goes straight out and says so, which makes the service forget its
\* reading and the relay hang up on everything.
RefuseNobody(x) ==
    /\ At(x, "choosing") /\ answer[x] = Refuse /\ req[x].seat = NoSeat
    /\ answer' = [answer EXCEPT ![x] = Unknown]
    /\ known' = Unknown /\ asking' = 0
    /\ HangUpOnEverything(x, [req[x] EXCEPT !.at = "goingDirect", !.said = Refuse])
    /\ UNCHANGED <<running, waits, route>>

\* Fault: going straight out whoever pays, the rule ADR 0011 removed.
ProxyGoneForAll(x) ==
    /\ At(x, "connecting") /\ req[x].said \notin Socks \union {Direct}
    /\ Cache!Forget
    /\ HangUpOnEverything(x, [req[x] EXCEPT !.at = "goingDirect"])
    /\ UNCHANGED route

\* The machine's HTTP proxy is not there. A Seat's request fails and nobody's goes
\* straight out; either way it is said.
ProxyGone(x) ==
    /\ At(x, "connecting") /\ req[x].said \notin Socks \union {Direct}
    /\ Cache!Forget
    /\ HangUpOnEverything(x, IF req[x].seat # NoSeat THEN Idle
                             ELSE [req[x] EXCEPT !.at = "goingDirect"])
    /\ UNCHANGED route

\* Any other failure of the dial or of the handshake above it.
DialFails(x) ==
    /\ req[x].at \in {"connecting", "goingDirect"}
    /\ GoOn(x, Idle)
    /\ UNCHANGED <<egressVars, warm, route>>

\* The dial is up, handshake included, and the request is written.
Connected(x) ==
    /\ req[x].at \in {"connecting", "goingDirect"}
    /\ GoOn(x, [req[x] EXCEPT !.at = "riding",
          !.conn = [seat |-> req[x].seat, said |-> req[x].said, under |-> req[x].wanted,
                    via |-> IF At(x, "goingDirect") THEN Direct ELSE req[x].said]])
    /\ UNCHANGED <<egressVars, warm, route>>

\* The exchange ends: its connection stays warm with its agent, or is closed. Under
\* an agent let go meanwhile it idles where nobody can be handed it.
Done(x) ==
    /\ At(x, "riding")
    /\ warm' \in {warm} \union (IF req[x].stale THEN {} ELSE {warm \union {req[x].conn}})
    /\ GoOn(x, Idle)
    /\ UNCHANGED <<egressVars, route>>

\* The silence guard: evidence about the route, but not about the reading.
Silent(x) ==
    /\ At(x, "riding")
    /\ HangUpOnEverything(x, Idle)
    /\ UNCHANGED <<egressVars, route>>

\* The idle clock of an unused connection, or the far end closing it.
IdleCloses ==
    /\ \E c \in warm : warm' = warm \ {c}
    /\ UNCHANGED <<egressVars, req, route>>

\* The readings and the minute, beneath all of it.
Settles(r) == (\E w \in Ways : Cache!Settle(r, w)) /\ UNCHANGED <<req, warm, route>>
Expires    == Cache!Expire /\ UNCHANGED <<req, warm, route>>

Next ==
    \/ \E x \in Requests :
         \/ \E s \in Payers : AskPool(x, s)
         \/ AgentHanded(x) \/ Reuse(x) \/ StartDial(x) \/ ChooseWay(x) \/ RefuseSeat(x)
         \/ RefuseNobody(x) \/ ProxyGone(x) \/ DialFails(x) \/ Connected(x) \/ Done(x)
         \/ Silent(x)
    \/ IdleCloses
    \/ \E r \in Readings : Settles(r)
    \/ Expires

Spec == Init /\ [][Next]_vars

-----------------------------------------------------------------------------
(* Properties.                                                              *)

TypeOK == /\ Cache!TypeOK
          /\ req \in [Requests -> [at : {"idle", "routing", "agent", "choosing", "connecting",
                                         "goingDirect", "riding"},
                                   seat : Payers, wanted : Ways \union {Unknown},
                                   said : Ways \union {Unknown}, stale : BOOLEAN,
                                   conn : Connections \union {Unknown}]]
          /\ warm \subseteq Connections
          /\ route \in Words \union {Unknown}

InUse == warm \union {req[x].conn : x \in Riders}

\* ADR 0011: a Seat's credential never leaves except the way the machine said, on
\* any connection it is sent on, new or kept warm.
NoSeatGoesRound == \A c \in InUse : c.seat # NoSeat => c.via = c.said

\* pool.ts, line 226, "everything warm is let go when the route changes", as far as it goes.
\* What is kept warm and goes another way than the route in force was dialled on a reading
\* that had changed since its agent was handed out: dialUpstream asks anew, and the pool
\* compares only what forSeat was told. Nothing else is warm, whatever came up or came back
\* in between, and least of all what went straight out over the machine's word.
OnlyADialReadAnewIsOtherwise ==
    \A c \in warm : /\ Describe(c.under) = route
                    /\ Describe(c.via) # route => c.said # c.under /\ c.via = c.said

\* pool.ts, line 77: "A stable description of a route, so a route that changed
\* cannot be reused": a request is only given a connection that was asked for under
\* the very route just read for it.
AChangedRouteIsNotReused ==
    \A x \in Requests : At(x, "agent") => \A c \in WarmFor(x) : c.under = req[x].wanted
=============================================================================
