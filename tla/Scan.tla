--------------------------------- MODULE Scan --------------------------------
(***************************************************************************)
(* The token counts of a reply, read off its bytes as they pass            *)
(* (src/tokens/internal/scan.ts, and the tap in src/relay/internal/open.ts *)
(* that feeds it): the reply comes in pieces cut anywhere, and a window of *)
(* the last CarryBytes of what was seen bridges the cuts.                  *)
(*                                                                         *)
(* A reply is a sequence of marks, which are numbers: the counts of one of *)
(* the four fields, and below nought the two halves of `"usage":`, the     *)
(* braces and anything else.                                               *)
(***************************************************************************)
EXTENDS Integers, Sequences, FiniteSets

CONSTANTS Replies,   \* the replies that may come
          CarryBytes

Usage == -1
Colon == -2
Brace == -3
EndBrace == -4
Else == -5

VARIABLES reply,  \* the whole of it
          passed, \* how much of it has gone by
          carry,  \* where the window begins: it holds what passed from there
          most,   \* the largest count seen, -1 for none
          over    \* the reply ended

vars == <<reply, passed, carry, most, over>>

Init == /\ reply \in Replies /\ passed = 0 /\ carry = 1 /\ most = -1 /\ over = FALSE

-----------------------------------------------------------------------------
(* usageAt, over the text from..to of the reply: what it has of the object  *)
(* behind a marker, where the text holds all of that object.                *)

IsMarker(at, from, to) == at >= from /\ at + 1 <= to /\ reply[at] = Usage /\ reply[at + 1] = Colon

Depth(open, at) == Cardinality({i \in open..at : reply[i] = Brace}) - Cardinality({i \in open..at : reply[i] = EndBrace})

Opens(at, to) == {i \in at..to : reply[i] = Brace /\ \A j \in at..(i - 1) : reply[j] # Brace}

Closes(open, to) == {i \in open..to : Depth(open, i) = 0 /\ \A j \in open..(i - 1) : Depth(open, j) > 0}

IsCount(mark) == mark >= 0

\* The first count inside it, as the pattern finds it.
CountIn(open, close) ==
    {reply[i] : i \in {j \in open..close : /\ IsCount(reply[j])
                                           /\ \A k \in open..(j - 1) : ~IsCount(reply[k])}}

CountsIn(from, to) ==
    UNION {UNION {UNION {CountIn(o, c) : c \in Closes(o, to)} : o \in Opens(m + 2, to)}
             : m \in {a \in from..to : IsMarker(a, from, to)}}

Largest(counts, least) == CHOOSE n \in counts \union {least} : \A k \in counts \union {least} : k <= n

-----------------------------------------------------------------------------
\* Fault: only the newest piece is carried over.
CarryOfTheChunk(to) == IF to - passed <= CarryBytes THEN passed + 1 ELSE to - CarryBytes + 1

\* The last CarryBytes of the text, or all of it.
CarryAfter(to) == IF to - carry + 1 <= CarryBytes THEN carry ELSE to - CarryBytes + 1

\* take: a piece of any length.
Takes(to) == /\ passed < to /\ to <= Len(reply)
             /\ most' = Largest(CountsIn(carry, to), most)
             /\ carry' = CarryAfter(to)
             /\ passed' = to
             /\ UNCHANGED <<reply, over>>

\* counts: asked once the reply has ended, or been cut short.
Ends == /\ ~over /\ over' = TRUE
        /\ UNCHANGED <<reply, passed, carry, most>>

Next == (~over /\ \E to \in 1..Len(reply) : Takes(to)) \/ Ends

Spec == Init /\ [][Next]_vars

-----------------------------------------------------------------------------
\* The longest way from a marker to the end of its object.
Spans(to) == UNION {UNION {{c - m : c \in Closes(o, to)} : o \in Opens(m + 2, to)}
                      : m \in {a \in 1..to : IsMarker(a, 1, to)}}

\* scan.ts, "the carry will bring it back round": wherever the reply is cut, what is counted
\* is what reading all that passed in one piece would have counted, as long as no object
\* with its marker is longer than the window; a longer one may be missed and is never misread.
ACutLosesNoCount ==
    LET whole == CountsIn(1, passed) IN
    /\ most # -1 => most \in whole
    /\ (\A n \in Spans(passed) : n <= CarryBytes) => most = Largest(whole, -1)
=============================================================================
