------------------------------- MODULE Minting -------------------------------
(***************************************************************************)
(* One Send token minted (src/minting): `claude setup-token` run under a   *)
(* terminal of its own, and what it says read as it arrives for the link a *)
(* person has to follow and for the token. Where there is expect it comes  *)
(* as a stream, in pieces cut anywhere. On Windows a driver draws it on a  *)
(* console, writes the whole screen to a file again and again, and says in *)
(* another file that the child has ended; what is new on the screen is     *)
(* worked out here.                                                        *)
(*                                                                         *)
(* What it says is a sequence of marks: the link, the two halves of the    *)
(* token, the end of a line, the beginning and the end of an escape        *)
(* sequence, which may stand inside a token, and anything else, which is   *)
(* what follows a token on its line too. The child may stop after any of   *)
(* them: of its own accord, or because it was killed from here. A console  *)
(* draws characters and keeps no escapes, so what a child says to one has  *)
(* none.                                                                   *)
(***************************************************************************)
EXTENDS Naturals, Sequences, SequencesExt

CONSTANTS None,
          Link, Half, Rest, LineEnd, Esc, EscEnd, \* the marks that count, among others
          Scripts,                     \* what a child may have to say
          MostDraws                    \* bound: how often a running child's screen is written

VARIABLES terminal, \* expect, console
          script,  \* what this child says if it is let
          wrote,   \* how much of it has left the child
          said,    \* what has arrived here
          child,   \* running, exited, killed
          driver,  \* of the console: watching, filling, lastFilling, drawn, over
          draws,   \* how often it has written the screen
          screen,  \* the file it writes the screen to
          seen,    \* the screen as it was last read
          between, \* a look has read the screen and not yet whether the child has ended
          told,    \* its end is known here: session.finished has settled
          loop,    \* looking, linking, grace, settling, after, linkingLate, over
          because, \* what is being settled for: the token, the ceiling, a throw, nothing
          handed,  \* the link has been handed over
          taken,   \* where in what was heard the token begins, and what that was
          result, \* none, minted, nothing, threw
          pending, \* the unfinished line, as it has arrived
          shown    \* the lines shown to whoever watches, as they came out

console == <<driver, draws, screen, seen, between>>
mint    == <<loop, because, handed, taken, result>>
vars    == <<terminal, script, wrote, said, child, console, told, mint, pending, shown>>

Init == /\ terminal \in {"expect", "console"} /\ script \in Scripts
        /\ terminal = "console" => ~Contains(script, Esc) /\ ~Contains(script, EscEnd)
        /\ wrote = 0 /\ said = <<>> /\ child = "running" /\ told = FALSE
        /\ driver = "watching" /\ draws = 0 /\ screen = None /\ seen = <<>> /\ between = FALSE
        /\ loop = "looking" /\ because = "nothing" /\ handed = FALSE
        /\ taken = [at |-> 0, of |-> <<>>] /\ result = "none" /\ pending = <<>> /\ shown = {}

-----------------------------------------------------------------------------
(* The child and its terminal.                                              *)

Writes == /\ child = "running" /\ wrote < Len(script)
          /\ wrote' = wrote + 1
          /\ UNCHANGED <<terminal, script, said, child, console, told, mint, pending, shown>>

\* It has said everything, or something ended it half way.
Exits == /\ child = "running"
         /\ child' = "exited"
         /\ UNCHANGED <<terminal, script, wrote, said, console, told, mint, pending, shown>>

\* onSaid: whole lines go out, and the rest is held back.
WholeLines(text) ==
    LET ends == {i \in 1..Len(text) : text[i] = LineEnd}
        last == IF ends = {} THEN 0 ELSE CHOOSE i \in ends : \A j \in ends : j <= i
        from(i) == IF \E j \in ends : j < i
                   THEN 1 + (CHOOSE j \in ends : j < i /\ \A k \in ends : k < i => k <= j) ELSE 1
    IN  [lines |-> {SubSeq(text, from(i), i - 1) : i \in ends},
         left  |-> SubSeq(text, last + 1, Len(text))]

\* A token begins a match whether or not the rest of it is there.
Hidden(line) == SelectSeq(line, LAMBDA mark : mark \notin {Half, Rest})

\* Escapes are taken out of a line first; the rest of a token alone is not known for one.
ShownOf(line) == LET bare == SelectSeq(line, LAMBDA mark : mark \notin {Esc, EscEnd})
                 IN  IF Contains(bare, Half) THEN Hidden(bare) ELSE bare

\* onSaid
Hears(text) ==
    LET out == WholeLines(pending \o text) IN
    /\ said' = said \o text
    /\ pending' = out.left
    /\ shown' = shown \union {ShownOf(line) : line \in out.lines}

Arrives == /\ terminal = "expect" /\ ~told
           /\ \E upTo \in (Len(said) + 1)..wrote : Hears(SubSeq(script, Len(said) + 1, upTo))
           /\ UNCHANGED <<terminal, script, wrote, child, console, told, mint>>

\* Fault: the end is heard of where the child is gone, whatever is still on its way.
AtTheExit == /\ terminal = "expect" /\ child # "running" /\ ~told
             /\ told' = TRUE
             /\ UNCHANGED <<terminal, script, wrote, said, child, console, mint, pending, shown>>

\* close: the streams have been read to their end.
IsToldOfTheEnd == /\ terminal = "expect" /\ child # "running" /\ Len(said) = wrote /\ ~told
                  /\ told' = TRUE
                  /\ UNCHANGED <<terminal, script, wrote, said, child, console, mint, pending, shown>>

-----------------------------------------------------------------------------
(* The console: the driver's process, and the look that is taken at what it *)
(* writes.                                                                  *)

\* Every row of the screen ends with a line end, the one that is being drawn too.
Picture == SubSeq(script, 1, wrote) \o <<LineEnd>>

\* Set-Content: a file is emptied, and then it is filled.
Empties == /\ terminal = "console" /\ driver = "watching" /\ child # "killed"
           /\ \/ child = "running" /\ draws < MostDraws /\ driver' = "filling"
              \/ child = "exited" /\ driver' = "lastFilling"
           /\ screen' = <<>> /\ draws' = draws + 1
           /\ UNCHANGED <<terminal, script, wrote, said, child, seen, between, told, mint, pending, shown>>

Fills == /\ driver \in {"filling", "lastFilling"} /\ child # "killed"
         /\ screen' = Picture
         /\ driver' = IF driver = "filling" THEN "watching" ELSE "drawn"
         /\ UNCHANGED <<terminal, script, wrote, said, child, draws, seen, between, told, mint, pending, shown>>

\* Either of the two fails, and nothing is made of it: the file stays as it was, or empty.
WritingFails ==
    /\ terminal = "console" /\ child # "killed"
    /\ \/ driver = "watching" /\ child = "exited" /\ driver' = "drawn"
       \/ driver = "filling" /\ driver' = "watching"
       \/ driver = "lastFilling" /\ driver' = "drawn"
    /\ UNCHANGED <<terminal, script, wrote, said, child, draws, screen, seen, between, told, mint, pending, shown>>

\* The other file: the child has ended.
SaysTheEnd == /\ driver = "drawn" /\ child # "killed"
              /\ driver' = "over"
              /\ UNCHANGED <<terminal, script, wrote, said, child, draws, screen, seen, between, told, mint,
                             pending, shown>>

\* As far as two screens are the same, from the first on.
Same(before, text) == {i \in 1..Len(text) : i <= Len(before) /\ \A j \in 1..i : before[j] = text[j]}

\* What was said that was not said before.
WhatIsNew(before, text) == SubSeq(text, Cardinality(Same(before, text)) + 1, Len(text))

LooksAtTheScreen ==
    /\ terminal = "console" /\ ~told /\ ~between
    /\ between' = TRUE
    /\ IF screen \in {None, seen} THEN UNCHANGED <<said, seen, pending, shown>>
       ELSE Hears(WhatIsNew(seen, screen)) /\ seen' = screen
    /\ UNCHANGED <<terminal, script, wrote, child, driver, draws, screen, told, mint>>

\* The same look goes on, and nothing else of this process comes between.
LooksForTheEnd == /\ between
                  /\ between' = FALSE /\ told' = (driver = "over")
                  /\ UNCHANGED <<terminal, script, wrote, said, child, driver, draws, screen, seen, mint,
                                 pending, shown>>

\* stop, where what does the killing has come back.
IsKilled == /\ terminal = "console" /\ child = "killed" /\ ~told /\ ~between
            /\ told' = TRUE
            /\ UNCHANGED <<terminal, script, wrote, said, child, console, mint, pending, shown>>

-----------------------------------------------------------------------------
(* watch.ts                                                                 *)

LinkIn(text) == Contains(text, Link)

\* stripDressing takes out an escape sequence that is all there; one that is cut stays.
IsDressing(text, i) ==
    \/ text[i] = Esc /\ i < Len(text) /\ text[i + 1] = EscEnd
    \/ text[i] = EscEnd /\ i > 1 /\ text[i - 1] = Esc

\* The j-th mark comes right behind the i-th once the dressing is out.
IsNext(text, i, j) == /\ i < j /\ ~IsDressing(text, j)
                      /\ \A k \in (i + 1)..(j - 1) : IsDressing(text, k)

\* Fault: half a token that is all that has arrived is taken for the whole.
Anywhere(text, i, complete) == TRUE

\* A token is followed by something that is not part of one, or by the end of a text
\* that is complete.
IsFollowed(text, i, complete) ==
    \/ complete
    \/ \E j \in 1..Len(text) :
         IsNext(text, i, j) /\ (text[j] = Rest => \E k \in 1..Len(text) : IsNext(text, j, k))

\* tokenIn: where the last one begins, or 0.
TokenIn(text, complete) ==
    LET found == {i \in 1..Len(text) : text[i] = Half /\ IsFollowed(text, i, complete)}
    IN  IF found = {} THEN 0 ELSE CHOOSE i \in found : \A j \in found : j <= i

-----------------------------------------------------------------------------
(* mintOneToken                                                             *)

Takes(complete) == taken' = [at |-> TokenIn(said, complete), of |-> said]

Stops == child' = IF child = "running" THEN "killed" ELSE child

\* One pass: the link first, which waits on whoever is handed it.
Looks == /\ loop = "looking" /\ ~told
         /\ \/ /\ LinkIn(said) /\ ~handed
               /\ handed' = TRUE /\ loop' = "linking" /\ UNCHANGED <<because, taken>>
            \/ /\ ~LinkIn(said) \/ handed
               /\ TokenIn(said, FALSE) # 0
               /\ loop' = "grace" /\ Takes(FALSE) /\ because' = "token" /\ UNCHANGED handed
         /\ UNCHANGED <<terminal, script, wrote, said, child, console, told, result, pending, shown>>

\* The rest of the pass, after link() has returned.
Linked == /\ loop = "linking"
          /\ IF TokenIn(said, FALSE) # 0
             THEN loop' = "grace" /\ Takes(FALSE) /\ because' = "token"
             ELSE loop' = "looking" /\ UNCHANGED <<taken, because>>
          /\ UNCHANGED <<terminal, script, wrote, said, child, console, told, handed, result, pending, shown>>

\* link() throws: opening a browser profile is the likeliest of them.
LinkThrows == /\ loop = "linking"
              /\ Stops /\ loop' = "settling" /\ because' = "throw"
              /\ UNCHANGED <<terminal, script, wrote, said, console, told, handed, taken, result, pending, shown>>

\* The child is given a moment, and then killed if it is still there.
Grace == /\ loop = "grace"
         /\ Stops /\ loop' = "settling"
         /\ UNCHANGED <<terminal, script, wrote, said, console, told, because, handed, taken, result, pending, shown>>

Ceiling == /\ loop = "looking" /\ ~told /\ (~LinkIn(said) \/ handed) /\ TokenIn(said, FALSE) = 0
           /\ Stops /\ loop' = "settling" /\ because' = "ceiling"
           /\ UNCHANGED <<terminal, script, wrote, said, console, told, handed, taken, result, pending, shown>>

\* The run is over, or two seconds have gone since it was killed.
Settled == /\ loop = "settling"
           /\ CASE because = "token"   -> loop' = "over" /\ result' = "minted"
                [] because = "throw"   -> loop' = "over" /\ result' = "threw"
                [] because = "ceiling" -> loop' = "after" /\ UNCHANGED result
           /\ UNCHANGED <<terminal, script, wrote, said, child, console, told, because, handed, taken, pending, shown>>

RunIsOver == /\ loop = "looking" /\ told
             /\ loop' = "after"
             /\ UNCHANGED <<terminal, script, wrote, said, child, console, told, because, handed, taken, result, pending, shown>>

\* After the loop: the link once more, which is waited on as before.
LinksLate == /\ loop = "after" /\ LinkIn(said) /\ ~handed
             /\ handed' = TRUE /\ loop' = "linkingLate"
             /\ UNCHANGED <<terminal, script, wrote, said, child, console, told, because, taken, result, pending, shown>>

\* Nothing catches what link() throws here: the child has ended or been killed.
LateLinkThrows ==
    /\ loop = "linkingLate"
    /\ loop' = "over" /\ result' = "threw"
    /\ UNCHANGED <<terminal, script, wrote, said, child, console, told, because, handed, taken, pending, shown>>

\* And then the token, in a text that is complete.
ReadsOnceMore ==
    /\ loop = "linkingLate" \/ (loop = "after" /\ (~LinkIn(said) \/ handed))
    /\ loop' = "over" /\ Takes(TRUE)
    /\ result' = IF TokenIn(said, TRUE) # 0 THEN "minted" ELSE "nothing"
    /\ UNCHANGED <<terminal, script, wrote, said, child, console, told, because, handed, pending, shown>>

Next == \/ Writes \/ Exits \/ Arrives \/ IsToldOfTheEnd
        \/ Empties \/ Fills \/ WritingFails \/ SaysTheEnd \/ LooksAtTheScreen \/ LooksForTheEnd
        \/ /\ ~between
           /\ \/ Looks \/ Linked \/ LinkThrows \/ Grace \/ Ceiling \/ Settled \/ RunIsOver
              \/ LinksLate \/ LateLinkThrows \/ ReadsOnceMore \/ IsKilled

Spec == Init /\ [][Next]_vars

-----------------------------------------------------------------------------
\* What came right behind the half that was taken, in the text it was taken from.
Behind(mark) == \E j \in 1..Len(taken.of) : IsNext(taken.of, taken.at, j) /\ taken.of[j] = mark

\* The token as the result has it is half of one.
IsAStub == result = "minted" /\ ~Behind(Rest)

\* A screen was written between the two halves of a token, and its line end came after the
\* first of them.
WasReadHalfDrawn == terminal = "console" /\ Behind(LineEnd)

\* What had arrived ended inside an escape sequence that stands in the token.
WasCutInAnEscape == /\ terminal = "expect" /\ taken.of # <<>> /\ Last(taken.of) = Esc
                    /\ IsNext(taken.of, taken.at, Len(taken.of))

\* watch.ts, "a match that runs to the end of what has been said so far is therefore not a
\* token: it is the first half of one, and taking it would put a stub in the Keychain".
NoStubIsTaken == ~IsAStub

\* mint.ts, watch.ts, windows-terminal.ts: the token a mint returns is half of one only where
\* the child ended, or was killed at the ceiling, half way through saying it; where a console
\* was read while the token was being drawn; or where a piece ended inside an escape sequence
\* that stands in the token, which is not taken out and does not look like part of one. No
\* other cut is taken, whenever the person comes back from the link.
OnlyThreeCutsLeaveAStub ==
    IsAStub => (child # "running" /\ because # "token") \/ WasReadHalfDrawn \/ WasCutInAnEscape

\* mint.ts, windows-terminal.ts: a child that said a token and ended by itself is not
\* answered with "nothing", unless the last screen of a console could not be written, or was
\* written, and its end said, between the two halves of one look.
OnlyTheLastScreenLosesAToken ==
    result = "nothing" /\ because = "nothing" /\ child = "exited" /\ wrote = Len(script) /\ Contains(script, Half)
        => terminal = "console" /\ (screen # Picture \/ seen # screen)
=============================================================================
