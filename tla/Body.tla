--------------------------------- MODULE Body --------------------------------
(***************************************************************************)
(* A request's body, held as far as the relay will hold one and written on *)
(* (src/relay/internal/body.ts holdBody, and the end of sendOnce and the   *)
(* attempts of open.ts). A body is a number of pieces of the same size;    *)
(* one request is modelled, whose caller may finish or break off.          *)
(***************************************************************************)
EXTENDS Naturals, Sequences

CONSTANTS Pieces,  \* bound: the pieces of the longest body
          Limit,   \* the pieces THE_MOST_WE_WILL_HOLD takes
          Attempts \* bound: how often a request is sent

VARIABLES caller,   \* "sending", "finished", "broke off"
          said,     \* the pieces the caller has sent
          unread,   \* those waiting in the stream
          flowing,  \* the stream hands on what comes, to whoever listens
          readSoFar, answer, \* holdBody's: what was read, and "none", "whole", "not whole"
          attempt,  \* the attempt in hand, 0 before the first
          written,  \* what the attempt has written on
          at        \* "holding", "decided", "piping", "ended"

vars == <<caller, said, unread, flowing, readSoFar, answer, attempt, written, at>>

Init == /\ caller = "sending" /\ said = 0 /\ unread = <<>> /\ flowing = TRUE
        /\ readSoFar = <<>> /\ answer = "none" /\ attempt = 0 /\ written = <<>> /\ at = "holding"

-----------------------------------------------------------------------------
(* The caller. What comes while the stream flows and nobody listens is lost.*)

SendsAPiece ==
    /\ caller = "sending" /\ said < Pieces /\ said' = said + 1
    /\ unread' = IF ~flowing \/ at \in {"holding", "piping"} THEN Append(unread, said') ELSE unread
    /\ UNCHANGED <<caller, flowing, readSoFar, answer, attempt, written, at>>

Finishes == /\ caller = "sending" /\ caller' = "finished"
            /\ UNCHANGED <<said, unread, flowing, readSoFar, answer, attempt, written, at>>

BreaksOff == /\ caller = "sending" /\ caller' = "broke off"
             /\ UNCHANGED <<said, unread, flowing, readSoFar, answer, attempt, written, at>>

-----------------------------------------------------------------------------
\* Fault: the stream is left flowing.
FlowsAtTheLimitOn == TRUE

\* request.pause
FlowsAtTheLimit == FALSE

\* onData
Holds == /\ at = "holding" /\ unread # <<>>
         /\ readSoFar' = Append(readSoFar, Head(unread)) /\ unread' = Tail(unread)
         /\ IF Len(readSoFar') <= Limit THEN UNCHANGED <<flowing, answer, at>>
            ELSE flowing' = FlowsAtTheLimit /\ answer' = "not whole" /\ at' = "decided"
         /\ UNCHANGED <<caller, said, attempt, written>>

\* onEnd: for the end, which comes after everything else, and as well for an error and for
\* "aborted", which wait for nothing.
HoldsTheEnd == /\ at = "holding" /\ caller # "sending" /\ (caller = "finished" => unread = <<>>)
               /\ answer' = "whole" /\ at' = "decided"
               /\ UNCHANGED <<caller, said, unread, flowing, readSoFar, attempt, written>>

WrittenFirst == readSoFar

\* sendOnce: what was read is written on, and then the request ends or is piped.
SendsOn == /\ at = "decided" /\ attempt < Attempts
           /\ attempt' = attempt + 1
           /\ written' = WrittenFirst
           /\ IF answer = "whole" THEN at' = "ended" /\ UNCHANGED flowing
              ELSE IF attempt = 0 THEN at' = "piping" /\ flowing' = TRUE
              ELSE at' = "ended" /\ UNCHANGED flowing
           /\ UNCHANGED <<caller, said, unread, readSoFar, answer>>

Pipes == /\ at = "piping" /\ unread # <<>>
         /\ written' = Append(written, Head(unread)) /\ unread' = Tail(unread)
         /\ UNCHANGED <<caller, said, flowing, readSoFar, answer, attempt, at>>

\* The pipe ends what it writes to where the stream ends, and not where it breaks off.
PipesTheEnd == /\ at = "piping" /\ unread = <<>> /\ caller = "finished"
               /\ at' = "ended"
               /\ UNCHANGED <<caller, said, unread, flowing, readSoFar, answer, attempt, written>>

\* canBeSentAgain
MaySendAgain == answer = "whole"

\* Refused, and sent again on another Seat.
IsRefused == /\ at = "ended" /\ attempt < Attempts /\ MaySendAgain
             /\ at' = "decided"
             /\ UNCHANGED <<caller, said, unread, flowing, readSoFar, answer, attempt, written>>

Next == \/ SendsAPiece \/ Finishes \/ BreaksOff \/ Holds \/ HoldsTheEnd
        \/ SendsOn \/ Pipes \/ PipesTheEnd \/ IsRefused

Spec == Init /\ [][Next]_vars

-----------------------------------------------------------------------------
\* body.ts, "the bytes are never dropped, only un-examined": every attempt writes the body
\* from its first piece on with none left out, and one that was ended has all of it, unless
\* its caller broke off while it was being held; one that broke off later is not ended.
NoByteIsLost ==
    /\ at \in {"piping", "ended"} => written = [i \in 1..Len(written) |-> i]
    /\ at = "ended" /\ caller # "broke off" => Len(written) = said
    /\ at = "ended" /\ caller # "finished" => answer = "whole" /\ caller = "broke off"
=============================================================================
