--------------------------------- MODULE Around --------------------------------
(***************************************************************************)
(* What stands around an exchange. On the user's own machine: the          *)
(* mechanism put on it and taken off (Machine), the Windows login item     *)
(* (Startup), the minting of one Send token (Minting), the Claude Desktop  *)
(* profiles (Profiles) and the page (Page). On the wire: the relay's front *)
(* door (Front), the asking of a proxy for a tunnel (Handshake), the       *)
(* holding and writing on of a body (Body) and the counting of a reply's   *)
(* tokens as it passes (Scan). They share no state in the code and none    *)
(* here; a behaviour is one of one part, and the rest stands still.        *)
(***************************************************************************)
EXTENDS Integers, Sequences, FiniteSets

CONSTANTS None, MostCommands,
          Ours, Theirs, MostMints, MostEdits,
          Ports, Pids, MostDeaths,
          Link, Half, Rest, LineEnd, Esc, EscEnd, Scripts, MostDraws,
          Folders, NameFor, UsersOwn, Viewers, Clicks, MostComings, AtFirst, MostWindows,
          Seats, NoSeat, Models, Percents, FiveHours, RestsFor, Resets, LastMoment, MostNews,
          Callers,
          NameLengths, Heads, Payload,
          Pieces, Limit, Attempts,
          Replies, CarryBytes

ASSUME NamesAssumption == Ours \intersect Theirs = {}
ASSUME FoldersAssumption == /\ Folders \subseteq Nat /\ UsersOwn \in Folders
                            /\ AtFirst \subseteq SUBSET Folders
ASSUME NameForAssumption == DOMAIN NameFor = Folders
\* An HTTP head is never empty, and a body is held by the piece.
ASSUME HeadsAssumption == 0 \notin Heads
ASSUME LengthsAssumption == NameLengths \union Heads \subseteq Nat
ASSUME LimitAssumption == Limit < Pieces /\ Attempts \in Nat \ {0}
ASSUME SeatsAssumption == NoSeat \notin Seats
ASSUME PercentsAssumption == Percents \subseteq Int /\ FiveHours \in Int
ASSUME CarryAssumption == CarryBytes \in Nat /\ Replies \subseteq Seq(Int)
\* Nothing known is none of what may be known, and no moment of a list.
ASSUME NoneAssumption == None \notin Percents \union Nat /\ None # "no Seat has room"

VARIABLES part,
          ca, leaf, made, mint, job, relay, serving, store, command, at, copy, outcome, ran, edits,
          meant, edited,
          item, process, doing, deaths, commands, slipped,
          terminal, script, wrote, utterance, child, driver, draws, screen, seen, between, told, loop, because, handed, taken, result, pending, shown,
          past, open, held, fresh, asks, lists, click,
          now, week, five, until, hasToken, choice, standing, rows, news,
          listener, client, asked, tunnels, upstream, hears, leftEarly,
          proxy, step, have, read, sent, ended, clock, socket,
          caller, said, unread, flowing, readSoFar, answer, attempt, written, stage,
          reply, passed, carry, most, over

machine   == <<ca, leaf, made, mint, job, relay, serving, store, command, at, copy, outcome, ran,
               edits, meant, edited>>
startup   == <<item, process, doing, deaths, commands, slipped>>
minting   == <<terminal, script, wrote, utterance, child, driver, draws, screen, seen, between, told, loop,
               because, handed, taken, result, pending, shown>>
profiles  == <<past, open, held, fresh, asks, lists, click>>
table     == <<now, week, five, until, hasToken, choice, standing, rows, news>>
front     == <<listener, client, asked, tunnels, upstream, hears, leftEarly>>
handshake == <<proxy, step, have, read, sent, ended, clock, socket>>
body      == <<caller, said, unread, flowing, readSoFar, answer, attempt, written, stage>>
scan      == <<reply, passed, carry, most, over>>

desk == <<machine, startup, minting, profiles, table>>
wire == <<front, handshake, body, scan>>
vars == <<part, desk, wire>>

M == INSTANCE Machine
S == INSTANCE Startup
T == INSTANCE Minting WITH said <- utterance
F == INSTANCE Profiles
P == INSTANCE Page
D == INSTANCE Front WITH relay <- listener
H == INSTANCE Handshake WITH taken <- read
B == INSTANCE Body WITH at <- stage
C == INSTANCE Scan

ASSUME MarksAssumption ==
    LineEnd # Half /\ Esc # EscEnd /\ {Esc, EscEnd} \intersect {Half, Rest, LineEnd} = {}
\* A token has both its halves, if its child is let, with nothing but escapes between them.
ASSUME ScriptsAssumption ==
    \A s \in Scripts : /\ s \in Seq({s[i] : i \in DOMAIN s})
                       /\ \A i, j \in 1..Len(s) : s[i] = Half /\ T!IsNext(s, i, j) => s[j] = Rest

\* No command is none of the commands there may be.
ASSUME CommandsAssumption == None \notin S!Commands

Parts == {"machine", "startup", "minting", "profiles", "page", "front", "handshake", "body", "scan"}

\* A part that is not this behaviour's begins in one of its states, whichever.
Init == /\ part \in Parts
        /\ M!Init /\ (part # "machine" => ~store.there)
        /\ S!Init
        /\ T!Init /\ (part # "minting" => terminal = "expect" /\ script = CHOOSE s \in Scripts : TRUE)
        /\ F!Init /\ (part # "profiles" => past = <<Folders>> /\ open = {})
        /\ P!Init
        /\ D!Init
        /\ H!Init /\ (part # "handshake" => proxy = CHOOSE p \in H!Http : TRUE)
        /\ B!Init
        /\ C!Init /\ (part # "scan" => reply = CHOOSE r \in Replies : TRUE)

OnTheDesk == \/ part = "machine"  /\ M!Next /\ UNCHANGED <<startup, minting, profiles, table>>
             \/ part = "startup"  /\ S!Next /\ UNCHANGED <<machine, minting, profiles, table>>
             \/ part = "minting"  /\ T!Next /\ UNCHANGED <<machine, startup, profiles, table>>
             \/ part = "profiles" /\ F!Next /\ UNCHANGED <<machine, startup, minting, table>>
             \/ part = "page"     /\ P!Next /\ UNCHANGED <<machine, startup, minting, profiles>>

OnTheWire == \/ part = "front"     /\ D!Next /\ UNCHANGED <<handshake, body, scan>>
             \/ part = "handshake" /\ H!Next /\ UNCHANGED <<front, body, scan>>
             \/ part = "body"      /\ B!Next /\ UNCHANGED <<front, handshake, scan>>
             \/ part = "scan"      /\ C!Next /\ UNCHANGED <<front, handshake, body>>

Next == /\ UNCHANGED part
        /\ \/ OnTheDesk /\ UNCHANGED wire
           \/ OnTheWire /\ UNCHANGED desk

\* A script that was never started owes nothing, so its fairness asks nothing of the other
\* parts.
Spec == Init /\ [][Next]_vars /\ S!Fairness

-----------------------------------------------------------------------------
\* The properties, each stated and explained in its part.
TheUsersVariablesStay       == M!TheUsersVariablesStay
NoWindowIsStrandedInSilence == M!NoWindowIsStrandedInSilence
TheRelayStandsWithItsItem   == S!TheRelayStandsWithItsItem

OnlyThreeCutsLeaveAStub  == T!OnlyThreeCutsLeaveAStub
OnlyTheLastScreenLosesAToken == T!OnlyTheLastScreenLosesAToken
NoStubIsTaken            == T!NoStubIsTaken
OnlyAMovedNameIsMistaken == F!OnlyAMovedNameIsMistaken
TheTableAgreesWithAuto   == P!TheTableAgreesWithAuto

OnlyALateDialIsOrphaned       == D!OnlyALateDialIsOrphaned
TheTunnelStartsAtItsFirstByte == H!TheTunnelStartsAtItsFirstByte
NoByteIsLost                  == B!NoByteIsLost
ACutLosesNoCount              == C!ACutLosesNoCount
=============================================================================
