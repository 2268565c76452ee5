---------------------------------- MODULE Live ---------------------------------
(***************************************************************************)
(* The page kept current (src/page/live.js, page/internal/serve.ts): the   *)
(* open page asks for the figures every five seconds, whether the last     *)
(* asking was answered or not, and writes them into what is there. A page  *)
(* whose structure is another by now is loaded anew, and so is one whose   *)
(* button was pressed. Two askings may be under way, their answers may     *)
(* come in either order, and the relay may go down and come back.          *)
(***************************************************************************)
EXTENDS Naturals

CONSTANTS None,
          Shapes, Figures,        \* what structure and liveValues tell apart
          Slots,                  \* askings under way at once
          MostTurns, MostFalls    \* bounds: changes of what is true, falls of the relay

VARIABLES truth,     \* what pageState makes of the world: its shape, its figures
          up,        \* the relay is up
          document,  \* what the tab holds: nothing, the browser's own error, a page
          leaving,   \* location.reload() was called
          polls,     \* the askings: none, under way, or the answer on its way back
          post,      \* the POST of a button: None, under way, answered
          turns, falls

vars == <<truth, up, document, leaving, polls, post, turns, falls>>

NoPoll == [at |-> "none"]
IsAPage == document.at = "page"

Init == /\ truth \in [shape : Shapes, figure : Figures]
        /\ up = TRUE /\ document = [at |-> "none"] /\ leaving = FALSE
        /\ polls = [s \in Slots |-> NoPoll] /\ post = None
        /\ turns = 0 /\ falls = 0

\* By the user or by the relay itself.
Turns == /\ turns < MostTurns /\ turns' = turns + 1
         /\ truth' \in [shape : Shapes, figure : Figures] \ {truth}

Becomes == /\ document.at # "none" /\ Turns
           /\ UNCHANGED <<up, document, leaving, polls, post, falls>>

\* draw, with the structure it was drawn from in data-structure.
Drawn == [at |-> "page", structure |-> truth.shape, figure |-> truth.figure, stopped |-> FALSE]

\* The tab is pointed at the relay.
Opens == /\ document.at = "none" /\ up
         /\ document' = Drawn
         /\ UNCHANGED <<truth, up, leaving, polls, post, turns, falls>>

\* setInterval(refresh, every), and the Refresh button.
Asks(s) == /\ IsAPage /\ ~document.stopped /\ polls[s] = NoPoll
           /\ polls' = [polls EXCEPT ![s] = [at |-> "asked"]]
           /\ UNCHANGED <<truth, up, document, leaving, post, turns, falls>>

\* structure and liveValues, of one gathering.
Answer == [at |-> "answered", shape |-> truth.shape, figure |-> truth.figure]

\* GET /state
IsAnswered(s) == /\ polls[s].at = "asked" /\ up
                 /\ polls' = [polls EXCEPT ![s] = Answer]
                 /\ UNCHANGED <<truth, up, document, leaving, post, turns, falls>>

\* No relay there: the catch drops it.
IsRefused(s) == /\ polls[s].at = "asked" /\ ~up
                /\ polls' = [polls EXCEPT ![s] = NoPoll]
                /\ UNCHANGED <<truth, up, document, leaving, post, turns, falls>>

\* Fault: whatever the answer's structure, its figures are written in.
FitsAnyway(answer) == TRUE

Fits(answer) == answer.shape = document.structure

\* An answer to a page that has stopped is written into it all the same.
Hears(s) == /\ polls[s].at = "answered" /\ IsAPage
            /\ polls' = [polls EXCEPT ![s] = NoPoll]
            /\ IF Fits(polls[s])
               THEN /\ document' = [document EXCEPT !.figure = polls[s].figure]
                    /\ UNCHANGED leaving
               ELSE /\ document' = [document EXCEPT !.stopped = TRUE] /\ leaving' = TRUE
            /\ UNCHANGED <<truth, up, post, turns, falls>>

\* act
Presses == /\ IsAPage /\ post = None
           /\ post' = "asked"
           /\ UNCHANGED <<truth, up, document, leaving, polls, turns, falls>>

\* POST /act: done, or refused with a sentence nobody reads.
IsDone == /\ post = "asked" /\ up
          /\ post' = "answered"
          /\ \/ Turns
             \/ UNCHANGED <<truth, turns>>
          /\ UNCHANGED <<up, document, leaving, polls, falls>>

\* Whatever the status.
Reloads == /\ post = "answered"
           /\ post' = None /\ leaving' = TRUE
           /\ UNCHANGED <<truth, up, document, polls, turns, falls>>

\* GET /: the new page knows nothing of what the old one asked.
Loads == /\ leaving /\ leaving' = FALSE
         /\ document' = IF up THEN Drawn ELSE [at |-> "error"]
         /\ polls' = [s \in Slots |-> NoPoll] /\ post' = None
         /\ UNCHANGED <<truth, up, turns, falls>>

\* What it was asked and had not answered is not answered any more.
Falls == /\ up /\ document.at # "none" /\ falls < MostFalls
         /\ up' = FALSE /\ falls' = falls + 1
         /\ polls' = [s \in Slots |-> IF polls[s].at = "asked" THEN NoPoll ELSE polls[s]]
         /\ post' = IF post = "asked" THEN None ELSE post
         /\ UNCHANGED <<truth, document, leaving, turns>>

\* The login item.
ComesBack == /\ ~up /\ up' = TRUE
             /\ UNCHANGED <<truth, document, leaving, polls, post, turns, falls>>

Next == \/ Becomes \/ Opens \/ Presses \/ IsDone \/ Reloads \/ Loads \/ Falls \/ ComesBack
        \/ \E s \in Slots : Asks(s) \/ IsAnswered(s) \/ IsRefused(s) \/ Hears(s)

\* A tab asks while it is open; what is asked is answered or refused; a reload takes place;
\* the service manager starts the relay again. Nobody is made to open the page, nor to press.
Fairness == /\ WF_vars(\E s \in Slots : Asks(s)) /\ WF_vars(Loads) /\ WF_vars(ComesBack)
            /\ \A s \in Slots : WF_vars(IsAnswered(s)) /\ WF_vars(IsRefused(s)) /\ WF_vars(Hears(s))

Spec == Init /\ [][Next]_vars /\ Fairness

-----------------------------------------------------------------------------
\* live.js: "the page reloads rather than patching": once nothing changes any more, the open
\* page comes to have the shape and to show the figures that are true, through answers that
\* overtake each other, reloads, buttons and falls of the relay. Only a reload that met a
\* relay that was down leaves the browser's own page, on which nothing asks again.
ThePageCatchesUp ==
    <>[](IsAPage => document.structure = truth.shape /\ document.figure = truth.figure)
=============================================================================
