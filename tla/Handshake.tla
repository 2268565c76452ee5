------------------------------ MODULE Handshake ------------------------------
(***************************************************************************)
(* Asking a proxy for a tunnel, byte for byte: the SOCKS5 client of        *)
(* src/socks and the HTTP CONNECT of src/relay (dial.ts, head.ts).         *)
(*                                                                         *)
(* A proxy says what it says in pieces cut anywhere, may stop at any byte  *)
(* or end the connection, and the tunnel's own bytes may come in the same  *)
(* piece as the end of its answer. Only how many bytes there are matters,  *)
(* and what the answers in them come to; one connection is modelled.       *)
(***************************************************************************)
EXTENDS Naturals

CONSTANTS NameLengths, \* the lengths a name may have in a SOCKS answer
          Heads,       \* the lengths an HTTP answer's head may have
          Payload      \* bound: bytes of the tunnel's own

VARIABLES proxy,  \* what this proxy will say: its way, its answers and their lengths
          step,   \* what is being read, or "open", "failed"
          have,   \* bytes of the current field that are read
          taken,  \* bytes off the connection altogether
          sent,   \* bytes the proxy has sent
          ended,  \* the proxy ended the connection
          clock,  \* the handshake's clock: "running", "cleared", "rung"
          socket  \* "connecting", "connected", "destroyed"

vars == <<proxy, step, have, taken, sent, ended, clock, socket>>

-----------------------------------------------------------------------------
(* What a proxy says: version and method, the password's fate, the reply    *)
(* and the address it bound, two bytes of port after it.                    *)

Kinds == {"ipv4", "ipv6", "name", "unknown"}

Socks == [way : {"socks"}, version : BOOLEAN, method : {"none", "password", "neither"},
          accepted : BOOLEAN, granted : BOOLEAN, kind : Kinds, length : NameLengths, head : {0}]
Http  == [way : {"http"}, version : {TRUE}, method : {"none"}, accepted : {TRUE},
          granted : BOOLEAN, kind : {"ipv4"}, length : {0}, head : Heads]

AddressOf(p) == CASE p.kind = "ipv4" -> 4 [] p.kind = "ipv6" -> 16
                  [] p.kind = "name" -> p.length [] OTHER -> 0

\* Where the tunnel's own bytes begin on the connection.
TunnelStart(p) ==
    IF p.way = "http" THEN p.head
    ELSE 2 + (IF p.method = "password" THEN 2 ELSE 0) + 4
           + (IF p.kind = "name" THEN 1 ELSE 0) + AddressOf(p) + 2

Init == /\ proxy \in Socks \union Http
        /\ step = IF proxy.way = "http" THEN "head" ELSE "greeting"
        /\ have = 0 /\ taken = 0 /\ sent = 0 /\ ended = FALSE
        /\ clock = "running" /\ socket = "connecting"

-----------------------------------------------------------------------------
(* The proxy's side.                                                        *)

Connected == /\ socket = "connecting" /\ socket' = "connected"
             /\ UNCHANGED <<proxy, step, have, taken, sent, ended, clock>>

\* What it may have sent by now: nothing is said before it is asked for.
Answered == CASE step = "greeting" -> 2
              [] step = "password" -> 4
              [] OTHER -> TunnelStart(proxy) + Payload

Sends(n) == /\ socket = "connected" /\ ~ended /\ sent < n /\ n <= Answered
            /\ sent' = n
            /\ UNCHANGED <<proxy, step, have, taken, ended, clock, socket>>

Ends == /\ socket = "connected" /\ ~ended /\ ended' = TRUE
        /\ UNCHANGED <<proxy, step, have, taken, sent, clock, socket>>

-----------------------------------------------------------------------------
(* exactly, and what each field makes of itself.                            *)

\* Fault: the port behind the address is not read.
NeedsNoPort == CASE step \in {"greeting", "password"} -> 2 [] step = "reply" -> 4
            [] step = "name" -> 1 [] step = "address" -> AddressOf(proxy)

Needs == CASE step \in {"greeting", "password"} -> 2
           [] step = "reply"   -> 4
           [] step = "name"    -> 1
           [] step = "address" -> AddressOf(proxy) + 2

Reading == step \in {"greeting", "password", "reply", "name", "address"} /\ socket = "connected"

Buffered == sent - taken

\* socket.read(howMany - have) ?? socket.read()
Takes == IF Buffered >= Needs - have THEN Needs - have ELSE Buffered

After == CASE step = "greeting" ->
                IF ~proxy.version \/ proxy.method = "neither" THEN "failed"
                ELSE IF proxy.method = "password" THEN "password" ELSE "reply"
           [] step = "password" -> IF proxy.accepted THEN "reply" ELSE "failed"
           [] step = "reply"    -> IF ~proxy.granted \/ proxy.kind = "unknown" THEN "failed"
                                   ELSE IF proxy.kind = "name" THEN "name" ELSE "address"
           [] step = "name"     -> "address"
           [] step = "address"  -> "open"

\* finally, on every way out.
ClockAtTheEnd(next) == IF next \in {"open", "failed"} THEN "cleared" ELSE clock

GoesOn(next) == /\ step' = next /\ clock' = ClockAtTheEnd(next)
                /\ socket' = IF next = "failed" THEN "destroyed" ELSE socket

Reads == /\ Reading /\ Buffered > 0
         /\ taken' = taken + Takes
         /\ IF have + Takes >= Needs THEN have' = 0 /\ GoesOn(After)
            ELSE have' = have + Takes /\ UNCHANGED <<step, clock, socket>>
         /\ UNCHANGED <<proxy, sent, ended>>

\* The connection ended short of a field.
RunsDry == /\ Reading /\ Buffered = 0 /\ ended
           /\ GoesOn("failed")
           /\ UNCHANGED <<proxy, have, taken, sent, ended>>

-----------------------------------------------------------------------------
(* readHead, and the status line it is judged by.                           *)

\* pause, and unshift of what is early.
TakenOfTheHead == proxy.head

ReadsHead == /\ step = "head" /\ socket = "connected" /\ sent >= proxy.head
             /\ taken' = TakenOfTheHead
             /\ GoesOn(IF proxy.granted THEN "open" ELSE "failed")
             /\ UNCHANGED <<proxy, have, sent, ended>>

EndsWithoutAHead == /\ step = "head" /\ socket = "connected" /\ sent < proxy.head /\ ended
                    /\ GoesOn("failed")
                    /\ UNCHANGED <<proxy, have, taken, sent, ended>>

-----------------------------------------------------------------------------
ClockCovers == clock = "running" /\ socket # "destroyed"

\* Destroyed with a reason, which fails whatever is being waited for.
Rings == /\ ClockCovers
         /\ clock' = "rung" /\ socket' = "destroyed"
         /\ step' = "failed"
         /\ UNCHANGED <<proxy, have, taken, sent, ended>>

Next == \/ Connected \/ Ends \/ Reads \/ RunsDry \/ ReadsHead \/ EndsWithoutAHead \/ Rings
        \/ \E n \in 1..TunnelStart(proxy) + Payload : Sends(n)

Spec == Init /\ [][Next]_vars

-----------------------------------------------------------------------------
\* connect.ts, of the bound address: it "has to come off the socket before the tunnel's
\* own bytes start"; head.ts, "without losing a byte". However the proxy's words are cut,
\* the tunnel is handed over at its first byte.
TheTunnelStartsAtItsFirstByte == step = "open" => taken = TunnelStart(proxy)
=============================================================================
