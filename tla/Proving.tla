-------------------------------- MODULE Proving --------------------------------
(***************************************************************************)
(* The Proving Window (scripts/prove.ts, src/coverage): which paths of     *)
(* Claude Desktop the relay carries, measured on a Window of its own whose *)
(* store holds a credential that buys nothing, the negative control. A     *)
(* path is started, worked in by a person, and finished; it is covered     *)
(* where the work was done, the control was armed, and the relay's own log *)
(* has exchanges the chosen Seat paid for and none that another paid.      *)
(*                                                                         *)
(* A Window reads its store when it starts and never again. The commands   *)
(* are typed one after another; the Window is opened, worked in and closed *)
(* beside them, and a command may be broken off half way.                  *)
(***************************************************************************)
EXTENDS Naturals

CONSTANTS None,
          Paths,
          Apart,        \* paths of processes that take neither the relay nor the control
          MostCommands, \* bounds: commands that take their time, requests, sign-ins
          MostRequests, MostSessions

VARIABLES store,    \* what the Proving Window's own store holds: relay, control
          window,   \* what the Window that is open runs with, or None
          ours,     \* the claude.ai session in its Desktop folder, 0 for none
          theirs,   \* the session in the folder the user works in
          relay,    \* its relay is up
          picked,   \* a Seat is picked to pay in it
          started,  \* started.json: the path under way
          covered,  \* coverage.json: the paths found covered; the other verdicts are not told apart
          logged,   \* what the relay's log says of exchanges since the start: here, kept, turned over
          second,   \* it is still the second the path was started in
          did,      \* how work on the path was done: through the relay, round it, by an older Window
          another,  \* since the start, another paid for an exchange: at once, later
          command,  \* the command under way
          claimed,  \* the session the last --copy-login said is in the folder now
          typed, requests, signIns

here   == <<store, relay, picked>>
row    == <<started, covered, logged, second, did, another>>
logins == <<ours, theirs, claimed>>
bounds == <<typed, requests, signIns>>
vars   == <<here, window, row, logins, command, bounds>>

\* The session of one who signs in in the Proving Window.
Own == MostSessions + 2

NoCommand == [kind |-> "none"]
NoLog == [here |-> {}, kept |-> {}, turned |-> 0]

Init == /\ store = {} /\ window = None /\ ours = 0 /\ theirs = 1 /\ relay = FALSE /\ picked = FALSE
        /\ started = None /\ covered = {}
        /\ logged = NoLog /\ second = FALSE /\ did = {} /\ another = {}
        /\ command = NoCommand /\ claimed = None
        /\ typed = 0 /\ requests = 0 /\ signIns = 0

Types(c) == /\ command = NoCommand /\ typed < MostCommands
            /\ typed' = typed + 1 /\ command' = c

Ends == command' = NoCommand

\* controlIsArmed
Armed == "control" \in store

-----------------------------------------------------------------------------
(* The Window and the person.                                               *)

\* --open: the relay's address at launch, whatever the store holds.
Opens == /\ command = NoCommand /\ window = None
         /\ window' = [control |-> Armed, session |-> ours, older |-> FALSE]
         /\ UNCHANGED <<here, logins, row, command, bounds>>

\* By hand, while --copy-login is under way.
OpensMeanwhile ==
    /\ command.kind = "copy login" /\ window = None
    /\ window' = [control |-> Armed, session |-> ours, older |-> FALSE]
    /\ command' = [command EXCEPT !.beside = TRUE]
    /\ UNCHANGED <<here, logins, row, bounds>>

\* The app writes its own state out on the way down.
Quits == /\ window # None
         /\ window' = None /\ ours' = window.session
         /\ UNCHANGED <<here, theirs, row, command, claimed, bounds>>

\* In either Window: a new session.
SignsIn == /\ signIns < MostSessions /\ signIns' = signIns + 1
           /\ \/ /\ theirs' = theirs + 1
                 /\ UNCHANGED <<window, ours, claimed>>
              \/ /\ window # None
                 /\ window' = [window EXCEPT !.session = Own] /\ ours' = Own /\ claimed' = None
                 /\ UNCHANGED theirs
           /\ UNCHANGED <<here, row, command, typed, requests>>

\* relay use, relay off: in that home.
Picks == /\ relay /\ picked' = ~picked
         /\ UNCHANGED <<store, window, logins, relay, row, command, bounds>>

Does(how, p) == did' = IF started = p THEN did \union {how} ELSE did

\* The Window's own credential pays, and only where it is not the control.
Unpaid == IF window.older THEN "older" ELSE "round"

\* A request on a path that takes neither variable: the app's own login pays.
GoesRound(p) == /\ p \in Apart /\ Does("round", p)
                /\ UNCHANGED <<logged, another>>

\* Nobody is picked: the credential goes as it came.
GoesAsItCame(p) == /\ p \notin Apart /\ relay /\ ~picked
                   /\ IF window.control THEN UNCHANGED did ELSE Does(Unpaid, p)
                   /\ UNCHANGED <<logged, another>>

\* A line is stamped with its whole second, so one of the second of the start is before it.
\* One that says "unverified" decides nothing.
Says(kind) == logged' = IF second \/ kind = "unverified" THEN logged
                        ELSE [logged EXCEPT !.here = @ \union {kind}]

\* A Seat pays, and what the upstream said of it goes into the log.
GoesThrough(p) ==
    /\ p \notin Apart /\ relay /\ picked
    /\ \E kind \in {"verified", "mismatch", "unverified"} :
         /\ Says(kind)
         /\ another' = IF started = None \/ kind # "mismatch" THEN another
                     ELSE another \union {IF second THEN "at once" ELSE "later"}
    /\ \/ Does("through", p)
       \/ UNCHANGED did

Works(p) == /\ window # None /\ requests < MostRequests /\ requests' = requests + 1
            /\ GoesRound(p) \/ GoesAsItCame(p) \/ GoesThrough(p)
            /\ UNCHANGED <<here, window, logins, started, covered, second, command, typed, signIns>>

\* The log rotates: what was kept is let go.
TurnsOver == /\ relay /\ started # None /\ logged.turned < 2
             /\ logged' = [here |-> {}, kept |-> logged.here, turned |-> logged.turned + 1]
             /\ UNCHANGED <<here, window, logins, started, covered, second, did, another, command, bounds>>

SecondPasses == /\ second /\ second' = FALSE
                /\ UNCHANGED <<here, window, logins, started, covered, logged, did, another, command, bounds>>

-----------------------------------------------------------------------------
(* --set-up and --tear-down                                                 *)

TypesSetUp == /\ Types([kind |-> "set up", at |-> "installs"])
              /\ UNCHANGED <<here, window, logins, row, requests, signIns>>

\* A fresh checkout, the certificate, the service and our names in the store.
Installs == /\ command.kind = "set up" /\ command.at = "installs"
            /\ relay' = TRUE /\ store' = store \union {"relay"}
            /\ command' = [command EXCEPT !.at = "arms"]
            /\ UNCHANGED <<window, logins, picked, row, bounds>>

\* The control goes in last. A Window that is open has read its store already.
Arms == /\ command.kind = "set up" /\ command.at = "arms"
        /\ store' = store \union {"control"} /\ Ends
        /\ window' = IF window = None \/ window.control THEN window ELSE [window EXCEPT !.older = TRUE]
        /\ UNCHANGED <<logins, relay, picked, row, bounds>>

TypesTearDown == /\ Types([kind |-> "tear down", at |-> "uninstalls"])
                 /\ UNCHANGED <<here, window, logins, row, requests, signIns>>

Uninstalls == /\ command.kind = "tear down" /\ command.at = "uninstalls"
              /\ relay' = FALSE /\ store' = store \ {"relay"}
              /\ command' = [command EXCEPT !.at = "removes"]
              /\ UNCHANGED <<window, logins, picked, row, bounds>>

\* The one folder everything of the Proving Window is in.
Removes == /\ command.kind = "tear down" /\ command.at = "removes" /\ Ends
           /\ store' = {} /\ ours' = 0 /\ picked' = FALSE
           /\ started' = None /\ covered' = {} /\ logged' = NoLog
           /\ second' = FALSE /\ did' = {} /\ another' = {} /\ claimed' = None
           /\ UNCHANGED <<window, theirs, relay, bounds>>

-----------------------------------------------------------------------------
(* --copy-login                                                             *)

\* A list of processes that could not be read shows no Window.
IsSeen(read) == window # None /\ read

\* isWindowRunningOn
TypesCopyLogin ==
    /\ \E read \in BOOLEAN :
         Types([kind |-> "copy login", at |-> IF IsSeen(read) THEN "asks" ELSE "reads",
                from |-> 0, beside |-> window # None /\ ~read])
    /\ UNCHANGED <<here, window, logins, row, requests, signIns>>

\* closeWindowOn: by another list. Where there is none to ask, the command ends.
AsksItToQuit == /\ command.kind = "copy login" /\ command.at = "asks"
                /\ \E read \in BOOLEAN :
                     IF IsSeen(read) THEN command' = [command EXCEPT !.at = "waits"] ELSE Ends
                /\ UNCHANGED <<here, window, logins, row, bounds>>

\* Fault: it was asked to quit, which is taken for gone.
WasAsked == TRUE

\* untilItIsTrue
IsGone == window = None

SeesItGone == /\ command.kind = "copy login" /\ command.at = "waits"
              /\ \/ IsGone /\ command' = [command EXCEPT !.at = "reads"]
                 \/ command' = [command EXCEPT !.at = "reads", !.beside = window # None]
              /\ UNCHANGED <<here, window, logins, row, bounds>>

\* loginIn(live)
ReadsTheLive == /\ command.kind = "copy login" /\ command.at = "reads"
                /\ command' = [command EXCEPT !.at = "copies", !.from = theirs]
                /\ UNCHANGED <<here, window, logins, row, bounds>>

\* One name after the other, each removed and then copied; our store is put back as it was.
Copies == /\ command.kind = "copy login" /\ command.at = "copies"
          /\ ours' = theirs /\ claimed' = None
          /\ command' = [command EXCEPT !.at = "reads back"]
          /\ UNCHANGED <<here, window, theirs, row, bounds>>

\* loginIn(the copy), controlIsArmed
ReadsBack == /\ command.kind = "copy login" /\ command.at = "reads back" /\ Ends
             /\ claimed' = IF Armed /\ ours = command.from /\ ours # 0
                           THEN [session |-> ours, beside |-> command.beside] ELSE None
             /\ UNCHANGED <<here, window, ours, theirs, row, bounds>>

\* It gives up waiting, or it is broken off; half way through the copying there is no session.
BreaksOff == /\ command # NoCommand /\ Ends
             /\ IF command.kind = "copy login" /\ command.at = "copies"
                THEN ours' = 0 /\ claimed' = None ELSE UNCHANGED <<ours, claimed>>
             /\ UNCHANGED <<here, window, theirs, row, bounds>>

-----------------------------------------------------------------------------
(* --start, --finish and --not-applicable                                   *)

Starts(p) == /\ command = NoCommand /\ Armed /\ picked
             /\ started' = p /\ logged' = NoLog /\ second' = TRUE /\ did' = {} /\ another' = {}
             /\ UNCHANGED <<here, window, logins, covered, command, bounds>>

\* Fault: the file that was turned over is not read.
TheLogAlone == logged.here

\* whatTheRelaySaw: both generations of the log.
WhatTheRelaySaw == logged.here \union logged.kept

\* judgePath
Judged(worked, armed, saw) == IF armed /\ worked /\ "mismatch" \notin saw /\ "verified" \in saw
                              THEN "covered" ELSE "not-covered"

\* A row of the same key is replaced.
WithRow(p, verdict) == (covered \ {p}) \union {q \in {p} : verdict = "covered"}

\* The person says whether the work was done.
Finishes(p) == /\ command = NoCommand /\ started = p
               /\ covered' = WithRow(p, Judged(did # {}, Armed, WhatTheRelaySaw))
               /\ started' = None
               /\ logged' = NoLog /\ second' = FALSE /\ did' = {} /\ another' = {}
               /\ UNCHANGED <<here, window, logins, command, bounds>>

IsNotApplicable(p) == /\ command = NoCommand
                      /\ covered' = WithRow(p, "not-applicable")
                      /\ UNCHANGED <<here, window, logins, started, logged, second, did, another, command, bounds>>

Next == \/ Opens \/ OpensMeanwhile \/ Quits \/ SignsIn \/ Picks \/ TurnsOver \/ SecondPasses
        \/ \E p \in Paths : Works(p) \/ Starts(p) \/ Finishes(p) \/ IsNotApplicable(p)
        \/ TypesSetUp \/ Installs \/ Arms \/ TypesTearDown \/ Uninstalls \/ Removes
        \/ TypesCopyLogin \/ AsksItToQuit \/ SeesItGone \/ ReadsTheLive \/ Copies \/ ReadsBack \/ BreaksOff

Spec == Init /\ [][Next]_vars

-----------------------------------------------------------------------------
IsCovered(p) == started = p /\ started' = None /\ p \in covered'

\* prove.ts, matrix.ts: a path comes to be covered only where its work went through the relay
\* and a Seat paid for it. What breaks that is a path whose process takes neither the relay
\* nor the control, and a Window that stood open while the control was armed. And a path is
\* not covered over an exchange that another paid for, unless its line fell into the second of
\* the start, or out of the log as it turned over a second time.
CoveredWasPaidByASeat ==
    [][\A p \in Paths : IsCovered(p) =>
         /\ "round" \in did => p \in Apart
         /\ "later" \in another => logged.turned = 2]_vars

\* prove.ts: the session --copy-login said it had copied is the one in the folder from then
\* on, through any number of Windows opened and closed, unless one was open beside the
\* copying, opened meanwhile or missed in a list that could not be read, and wrote its own
\* back as it closed.
ACopyIsNotUndone == claimed # None /\ ~claimed.beside => ours = claimed.session
=============================================================================
