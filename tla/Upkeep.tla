-------------------------------- MODULE Upkeep -------------------------------
(***************************************************************************)
(* What the service and its commands keep up between requests: the round   *)
(* that reads usage (Round), the Stats logins (Logins), the history        *)
(* (History), the log (Journal), the Proving Window (Proving) and the page *)
(* kept current (Live). They share no state in the code and none here; a   *)
(* behaviour is one of one part, and the rest stands still.                *)
(***************************************************************************)
EXTENDS Naturals, Sequences, FiniteSets

CONSTANTS None,
          Seats, Rounds, AtATime, KnownAtFirst,
          Snapshots, Windows, Accounts, Organizations, MostSignIns, MostReadings, MostChanges,
          Facts, Prices, Sessions, Keepers, MostRows, MostCrashes, MostTidies,
          MostLines, SizeOf, LiveAtMost, MostRestarts,
          Paths, Apart, MostCommands, MostRequests, MostSessions,
          Shapes, Figures, Slots, MostTurns, MostFalls

ASSUME AtATimeAssumption == AtATime \in Nat \ {0}
ASSUME SizesAssumption   == SizeOf \in [1..MostLines -> Nat \ {0}]
ASSUME BoundAssumption   == LiveAtMost \in Nat \ {0}
ASSUME SeatsAssumption   == IsFiniteSet(Seats)
ASSUME NoneAssumption    == None \notin Nat \union Paths \union {"not-sent", "no-answer", "answered"}
ASSUME FactsAssumption   == \A f \in Facts : f.tokens \in Nat \union {None}
ASSUME PricesAssumption  == \A model \in DOMAIN Prices : Prices[model] \in Nat

VARIABLES part,
          usage, round, ask,
          accountOf, expired, holds, kept, owns, held, run, begun, were,
          file, ended, mended, keep, tidy, bounds, fate,
          log, old, sizes, handle, live, queue, turn, closed, said, restarts, written,
          store, window, ours, theirs, relay, picked, started, covered, logged, second, did, another,
          command, claimed, typed, requests, signIns,
          truth, up, document, leaving, polls, post, turns, falls

rounds  == <<usage, round, ask>>
logins  == <<accountOf, expired, holds, kept, owns, held, run, begun, were>>
history == <<file, ended, mended, keep, tidy, bounds, fate>>
journal == <<log, old, sizes, handle, live, queue, turn, closed, said, restarts, written>>
proving == <<store, window, ours, theirs, relay, picked, started, covered, logged, second, did, another,
             command, claimed, typed, requests, signIns>>
page    == <<truth, up, document, leaving, polls, post, turns, falls>>
vars    == <<part, rounds, logins, history, journal, proving, page>>

H == INSTANCE History
R == INSTANCE Round
L == INSTANCE Logins
J == INSTANCE Journal WITH file <- log
P == INSTANCE Proving
V == INSTANCE Live

Init == /\ part \in {"rounds", "logins", "history", "journal", "proving", "page"}
        /\ R!Init /\ (part # "rounds" => usage = CHOOSE u \in KnownAtFirst : TRUE)
        /\ L!Init /\ H!Init /\ J!Init /\ P!Init
        /\ V!Init /\ truth = CHOOSE t \in [shape : Shapes, figure : Figures] : TRUE

Next == /\ UNCHANGED part
        /\ \/ part = "rounds"  /\ R!Next /\ UNCHANGED <<logins, history, journal, proving, page>>
           \/ part = "logins"  /\ L!Next /\ UNCHANGED <<rounds, history, journal, proving, page>>
           \/ part = "history" /\ H!Next /\ UNCHANGED <<rounds, logins, journal, proving, page>>
           \/ part = "journal" /\ J!Next /\ UNCHANGED <<rounds, logins, history, proving, page>>
           \/ part = "proving" /\ P!Next /\ UNCHANGED <<rounds, logins, history, journal, page>>
           \/ part = "page"    /\ V!Next /\ UNCHANGED <<rounds, logins, history, journal, proving>>

\* A round that never began and a page that was never opened owe nothing, so their fairness
\* asks nothing of the other parts.
Spec == Init /\ [][Next]_vars /\ R!Fairness /\ V!Fairness

-----------------------------------------------------------------------------
\* The properties, each stated and explained in its part.
ARoundAddsUp   == R!ARoundAddsUp
EveryRoundEnds == R!EveryRoundEnds

AKeptLoginIsItsProfiles      == L!AKeptLoginIsItsProfiles
OnlyAnAnswerMakesASeatVanish == L!OnlyAnAnswerMakesASeatVanish

OnlyARewriteLosesARow == H!OnlyARewriteLosesARow
TheTwoFilesAreTheEnd  == J!TheTwoFilesAreTheEnd

CoveredWasPaidByASeat == P!CoveredWasPaidByASeat
ACopyIsNotUndone      == P!ACopyIsNotUndone
ThePageCatchesUp      == V!ThePageCatchesUp
=============================================================================
