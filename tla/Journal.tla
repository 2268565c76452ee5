------------------------------- MODULE Journal -------------------------------
(***************************************************************************)
(* The relay's own log, of a bounded size: openJournal of                  *)
(* src/journal/internal/bounded.ts. What is said is written in turn; the   *)
(* live file becomes the kept one before a line would take it over its     *)
(* half of the bound. A line is its number, and takes SizeOf it.           *)
(***************************************************************************)
EXTENDS Naturals, Sequences, Functions

CONSTANTS MostLines,    \* bound: how much is said
          SizeOf,       \* of each line
          LiveAtMost,   \* half of the bound
          MostRestarts  \* bound

VARIABLES file, old,  \* the lines of the live file and of the kept one
          sizes,      \* and the bytes of either, as the file system has them
          handle,     \* open
          live,       \* the bytes counted
          queue,      \* what is to be done, in turn: lines, and Closing
          turn,       \* how far the one in hand is
          closed,     \* nothing more is listened to
          said, restarts,
          written     \* history: every line that reached the disk

vars == <<file, old, sizes, handle, live, queue, turn, closed, said, restarts, written>>
disk == <<file, old, sizes, written>>

Closing == 0

Init == /\ file = <<>> /\ old = <<>> /\ sizes = [live |-> 0, kept |-> 0] /\ handle = FALSE /\ live = 0
        /\ queue = <<>> /\ turn = "opening" /\ closed = FALSE
        /\ said = 0 /\ restarts = 0 /\ written = <<>>

Say == /\ ~closed /\ said < MostLines
       /\ said' = said + 1 /\ queue' = Append(queue, said + 1)
       /\ UNCHANGED <<disk, handle, live, turn, closed, restarts>>

Close == /\ ~closed /\ Closing \notin Range(queue)
         /\ queue' = Append(queue, Closing)
         /\ UNCHANGED <<disk, handle, live, turn, closed, said, restarts>>

InHand(line) == queue # <<>> /\ Head(queue) = line
Lines == 1..MostLines

\* The turn is over, well or not.
Over == queue' = Tail(queue) /\ turn' = "opening"

\* The size is read, so that the bound survives a restart.
SizeOnDisk == sizes.live

\* Before the line is written, never after.
WouldBeOver(line) == live > 0 /\ live + SizeOf[line] > LiveAtMost

Opens == \E line \in Lines :
    /\ InHand(line) /\ turn = "opening"
    /\ \/ ~handle /\ Over /\ UNCHANGED <<handle, live>>  \* the file would not open
       \/ /\ live' = IF handle THEN live ELSE SizeOnDisk
          /\ handle' = TRUE /\ turn' = "counting" /\ UNCHANGED queue
    /\ UNCHANGED <<disk, closed, said, restarts>>

Counts == \E line \in Lines :
    /\ InHand(line) /\ turn = "counting"
    /\ IF WouldBeOver(line) THEN turn' = "rotating" /\ handle' = FALSE
       ELSE turn' = "writing" /\ UNCHANGED handle
    /\ UNCHANGED <<disk, live, queue, closed, said, restarts>>

\* Fault: the live file is emptied, and the kept one stays what it was.
KeptAsItWas == old

\* rename: the live file becomes the kept one.
Kept == file

\* And is opened anew.
Rotates == \E line \in Lines :
    /\ InHand(line) /\ turn = "rotating"
    /\ \/ Over /\ UNCHANGED <<file, old, sizes, live>>
       \/ /\ old' = Kept /\ file' = <<>> /\ live' = 0
          /\ sizes' = [live |-> 0, kept |-> sizes.live]
          /\ turn' = "reopening" /\ UNCHANGED queue
    /\ UNCHANGED <<handle, closed, said, restarts, written>>

Reopens == \E line \in Lines :
    /\ InHand(line) /\ turn = "reopening"
    /\ \/ Over /\ UNCHANGED <<handle, live>>
       \/ handle' = TRUE /\ live' = SizeOnDisk /\ turn' = "writing" /\ UNCHANGED queue
    /\ UNCHANGED <<disk, closed, said, restarts>>

Writes == \E line \in Lines :
    /\ InHand(line) /\ turn = "writing"
    /\ Over
    /\ \/ UNCHANGED <<disk, live>>
       \/ /\ file' = Append(file, line) /\ written' = Append(written, line)
          /\ sizes' = [sizes EXCEPT !.live = @ + SizeOf[line]]
          /\ live' = live + SizeOf[line]
          /\ UNCHANGED old
    /\ UNCHANGED <<handle, closed, said, restarts>>

Closes == /\ InHand(Closing)
          /\ closed' = TRUE /\ handle' = FALSE /\ Over
          /\ UNCHANGED <<disk, live, said, restarts>>

\* The service stops, with what was in the queue, and another begins.
Restarts == /\ restarts < MostRestarts /\ restarts' = restarts + 1
            /\ handle' = FALSE /\ live' = 0 /\ queue' = <<>> /\ turn' = "opening" /\ closed' = FALSE
            /\ UNCHANGED <<disk, said>>

Next == Say \/ Close \/ Opens \/ Counts \/ Rotates \/ Reopens \/ Writes \/ Closes \/ Restarts

Spec == Init /\ [][Next]_vars

-----------------------------------------------------------------------------
TypeOK ==
    /\ Range(file) \union Range(old) \subseteq Lines
    /\ turn \in {"opening", "counting", "rotating", "reopening", "writing"}
    /\ Range(queue) \subseteq Lines \union {Closing}
    /\ handle => live = sizes.live

\* bounded.ts, "no line said before a rotation is lost by it", but for the older half of
\* everything there is: the two files are the end of what was written, in its order, and
\* nothing has gone from them while there is not a full one kept. And the live file is "never
\* over the bound even for an instant", nor is the kept one, but for a line that is over it
\* by itself: not after a rotation that failed, or a restart.
TheTwoFilesAreTheEnd ==
    /\ \E n \in 0..Len(written) : old \o file = SubSeq(written, n + 1, Len(written))
    /\ old \o file # written => old # <<>>
    /\ Len(file) > 1 => sizes.live <= LiveAtMost
    /\ Len(old) > 1  => sizes.kept <= LiveAtMost
=============================================================================
