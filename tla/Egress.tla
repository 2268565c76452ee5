------------------------------- MODULE Egress -------------------------------
(***************************************************************************)
(* How traffic leaves this machine, as the service remembers it: the       *)
(* cached reading of scripts/serve.ts (egressNow, readItAgain) over the    *)
(* machine's own answer (machineEgress of src/window).                     *)
(*                                                                         *)
(* A reading is a process of the operating system, started at one moment   *)
(* and heard of at a later one. What it says is the machine's affair: any  *)
(* way out, and another one the next time.                                 *)
(***************************************************************************)
EXTENDS Integers, FiniteSets

CONSTANTS Askers,    \* whoever calls egressNow, one call at a time each
          Ways,      \* the ways out a reading can answer
          Unknown,   \* nothing read, or nothing answered
          Readings   \* bound: readings that may be running together

VARIABLES known,     \* the last reading while its minute lasts, or Unknown
          asking,    \* the reading in hand: the promise asking holds, or 0
          running,   \* readings not settled
          waits,     \* the reading each caller awaits, or 0
          answer     \* an answer its caller has not gone on with yet, or Unknown

vars == <<known, asking, running, waits, answer>>

Init == /\ known = Unknown
        /\ asking = 0 /\ running = {}
        /\ waits = [a \in Askers |-> 0]
        /\ answer = [a \in Askers |-> Unknown]

-----------------------------------------------------------------------------
\* egressNow up to its await: the cached answer, the reading in hand, or a new one.
Ask(a) ==
    /\ waits[a] = 0 /\ answer[a] = Unknown
    /\ \/ /\ known # Unknown
          /\ answer' = [answer EXCEPT ![a] = known]
          /\ UNCHANGED <<asking, running, waits>>
       \/ /\ known = Unknown /\ asking # 0
          /\ waits' = [waits EXCEPT ![a] = asking]
          /\ UNCHANGED <<asking, running, answer>>
       \/ /\ known = Unknown /\ asking = 0
          /\ \E r \in Readings \ running :
               /\ \A q \in Readings \ running : r <= q
               /\ asking' = r
               /\ running' = running \union {r}
               /\ waits' = [waits EXCEPT ![a] = r]
          /\ UNCHANGED answer
    /\ UNCHANGED known

\* A reading settles. Its finally forgets the reading in hand, whichever that is by
\* now; then every caller that waited writes the answer down and goes on with it.
Settle(r, w) ==
    /\ r \in running
    /\ known' = w
    /\ asking' = 0
    /\ running' = running \ {r}
    /\ answer' = [a \in Askers |-> IF waits[a] = r THEN w ELSE answer[a]]
    /\ waits' = [a \in Askers |-> IF waits[a] = r THEN 0 ELSE waits[a]]

\* A caller goes on with its answer.
Take(a) ==
    /\ answer[a] # Unknown
    /\ answer' = [answer EXCEPT ![a] = Unknown]
    /\ UNCHANGED <<known, asking, running, waits>>

\* readItAgain, at the notice that the machine's proxy is unreachable.
Forget ==
    /\ known' = Unknown
    /\ asking' = 0
    /\ UNCHANGED <<running, waits, answer>>

\* The minute is over: what was read no longer counts.
Expire ==
    /\ known # Unknown
    /\ known' = Unknown
    /\ UNCHANGED <<asking, running, waits, answer>>

-----------------------------------------------------------------------------
TypeOK ==
    /\ known \in Ways \union {Unknown}
    /\ asking \in Readings \union {0}
    /\ running \subseteq Readings
    /\ waits \in [Askers -> Readings \union {0}]
    /\ answer \in [Askers -> Ways \union {Unknown}]
=============================================================================
