-------------------------------- MODULE Front --------------------------------
(***************************************************************************)
(* The relay's front door: CONNECT requests taken, blind tunnels carried,  *)
(* and the whole closed (src/relay/index.ts startRelay, with tunnel.ts and *)
(* the close of open.ts).                                                  *)
(*                                                                         *)
(* A caller for the opened host is handed to the opener, whose exchanges   *)
(* are Forward's; any other gets a tunnel that is dialled first. What is   *)
(* here is who hangs up on whom. A caller that asked for nothing is also a *)
(* browser on the page. A half-closed connection is left out.              *)
(***************************************************************************)
EXTENDS Naturals, FiniteSets

CONSTANT Callers

VARIABLES relay,    \* listening, then closing ("draining" until no connection is left), then "closed"
          client,   \* [Callers -> "away", "open", "gone"]
          asked,    \* [Callers -> "nothing", "tunnel", "opened host"]
          tunnels,  \* the sockets `tunnels` holds
          upstream, \* [Callers -> "none", "dialling", "open", "closed"]
          hears,    \* the callers whose closing closes their upstream: the listeners of tunnel.ts
          leftEarly \* history: the callers that were gone before their dial came back

vars == <<relay, client, asked, tunnels, upstream, hears, leftEarly>>

Init == /\ relay = "listening"
        /\ client = [c \in Callers |-> "away"] /\ asked = [c \in Callers |-> "nothing"]
        /\ tunnels = {} /\ upstream = [c \in Callers |-> "none"]
        /\ hears = {} /\ leftEarly = {}

-----------------------------------------------------------------------------
(* Sockets closing. A closed upstream takes its client with it and a closed *)
(* client its upstream, where the listeners for it are there to hear.       *)

\* Fault: the tunnel hears its upstream close and not its client.
HeardLeavingNever(gone) == {}

HeardLeaving(gone) == gone \intersect hears

ClientsGo(gone) ==
    /\ client' = [c \in Callers |-> IF c \in gone THEN "gone" ELSE client[c]]
    /\ upstream' = [c \in Callers |-> IF c \in HeardLeaving(gone) THEN "closed" ELSE upstream[c]]
    /\ tunnels' = tunnels \ gone
    /\ leftEarly' = leftEarly \union {c \in gone : upstream[c] = "dialling"}

Connects(c) == /\ client[c] = "away" /\ relay = "listening"
               /\ client' = [client EXCEPT ![c] = "open"]
               /\ UNCHANGED <<relay, asked, tunnels, upstream, hears, leftEarly>>

\* server.on("connect"): the opened host is answered by the opener, the rest is dialled.
AsksForATunnel(c) ==
    /\ client[c] = "open" /\ asked[c] = "nothing"
    /\ tunnels' = tunnels \union {c}
    /\ \/ asked' = [asked EXCEPT ![c] = "opened host"] /\ UNCHANGED upstream
       \/ /\ asked' = [asked EXCEPT ![c] = "tunnel"]
          /\ upstream' = [upstream EXCEPT ![c] = "dialling"]
    /\ UNCHANGED <<relay, client, hears, leftEarly>>

\* The rest of tunnelBlind, after its await: nothing asks whether the client is still there.
DialComesBack(c) == /\ upstream[c] = "dialling"
                    /\ upstream' = [upstream EXCEPT ![c] = "open"]
                    /\ hears' = hears \union {c}
                    /\ UNCHANGED <<relay, client, asked, tunnels, leftEarly>>

\* client.end with a 502: the caller closes its own end on it.
DialFails(c) == /\ upstream[c] = "dialling"
                /\ upstream' = [upstream EXCEPT ![c] = "closed"]
                /\ client' = [client EXCEPT ![c] = "gone"]
                /\ tunnels' = tunnels \ {c}
                /\ UNCHANGED <<relay, asked, hears, leftEarly>>

CallerLeaves(c) == client[c] = "open" /\ ClientsGo({c}) /\ UNCHANGED <<relay, asked, hears>>

UpstreamCloses(c) == /\ upstream[c] = "open"
                     /\ upstream' = [upstream EXCEPT ![c] = "closed"]
                     /\ client' = [client EXCEPT ![c] = "gone"]
                     /\ tunnels' = tunnels \ {c}
                     /\ UNCHANGED <<relay, asked, hears, leftEarly>>

-----------------------------------------------------------------------------
\* close hangs up on every tunnel, and closeAllConnections on every other connection; it
\* comes to server.close in the same turn of the event loop, so nobody connects between.
HungUpOn == tunnels \union {c \in Callers : client[c] = "open" /\ asked[c] = "nothing"}

Closes == /\ relay = "listening" /\ relay' = "draining"
          /\ ClientsGo(HungUpOn)
          /\ UNCHANGED <<asked, hears>>

\* server.close calls back when no connection of the server's own is left.
Closed == /\ relay = "draining" /\ \A c \in Callers : client[c] # "open"
          /\ relay' = "closed"
          /\ UNCHANGED <<client, asked, tunnels, upstream, hears, leftEarly>>

Next == \/ Closes \/ Closed
        \/ \E c \in Callers : \/ Connects(c) \/ AsksForATunnel(c)
                              \/ DialComesBack(c) \/ DialFails(c)
                              \/ CallerLeaves(c) \/ UpstreamCloses(c)

Spec == Init /\ [][Next]_vars

-----------------------------------------------------------------------------
\* tunnel.ts, "client.once('close', () => upstream.destroy())": a connection is open with
\* nobody at the other end of its tunnel only where the caller left while it was dialled,
\* before anything of the tunnel's was listening.
OnlyALateDialIsOrphaned ==
    \A c \in Callers : upstream[c] = "open" /\ client[c] # "open" => c \in leftEarly
=============================================================================
