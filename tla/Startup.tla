------------------------------- MODULE Startup -------------------------------
(***************************************************************************)
(* The relay as a Windows login item (startup-item.ts): a script in the    *)
(* user's Startup folder that runs the relay, waits for it, and runs it    *)
(* again five seconds after it has gone. One for each Window, told apart   *)
(* by the port they were given. Installing one, taking it off and starting *)
(* it again all stop what runs of it first: the list of processes is read, *)
(* and each process in it that is this item's is ended, while every script *)
(* goes on doing the one thing it is for.                                  *)
(*                                                                         *)
(* A pid is not given to another process between the reading of a list and *)
(* the end of the last process in it.                                      *)
(***************************************************************************)
EXTENDS Naturals, FiniteSets

CONSTANTS Ports, None,
          Pids,                      \* bound: the processes there may be at a time
          MostDeaths, MostCommands   \* bounds: relays that die by themselves, commands run

VARIABLES item,     \* the ports whose script is in the Startup folder
          process,  \* a supervisor or a relay, of a port, or None
          doing,    \* the command each port's is at, or None
          deaths, commands,
          slipped   \* history: what was started while a command had its list in hand, or not listed

vars == <<item, process, doing, deaths, commands, slipped>>

Kinds    == {"supervisor", "relay"}
Commands == [what : {"install", "uninstall", "restart"}, at : {"list", "end"},
             left : SUBSET Pids, blind : BOOLEAN]

Running(p, kind) == {i \in Pids : process[i] # None /\ process[i].port = p /\ process[i].kind = kind}

Init == /\ item = {} /\ process = [i \in Pids |-> None] /\ doing = [p \in Ports |-> None]
        /\ deaths = 0 /\ commands = 0 /\ slipped = {}

Free == {i \in Pids : process[i] = None /\ \A p \in Ports : doing[p] # None => i \notin doing[p].left}

\* of: the script a relay was run by.
Starts(kind, p, i, s) == [process EXCEPT ![i] = [kind |-> kind, port |-> p, of |-> s]]

Without(i) == [j \in Pids |-> IF j = i THEN None
                             ELSE IF process[j] # None /\ process[j].of = i
                             THEN [process[j] EXCEPT !.of = None] ELSE process[j]]

-----------------------------------------------------------------------------
(* The script: Do, Run and wait, Sleep, Loop.                               *)

Children(s) == {i \in Pids : process[i] # None /\ process[i].of = s}

\* Fault: the script runs the relay once.
Once(s) == Children(s) = {} /\ deaths = 0

RunsAgain(s) == Children(s) = {}

\* A relay whose port is taken ends at once, which is as if it had not been started.
SupervisorRuns(s) ==
    /\ process[s] # None /\ process[s].kind = "supervisor" /\ RunsAgain(s)
    /\ Running(process[s].port, "relay") = {}
    /\ \E i \in Free :
         /\ process' = Starts("relay", process[s].port, i, s)
         /\ slipped' = IF \/ s \in slipped
                          \/ doing[process[s].port] # None /\ doing[process[s].port].at = "end"
                       THEN slipped \union {i} ELSE slipped
    /\ UNCHANGED <<item, doing, deaths, commands>>

RelayDies(i) == /\ process[i] # None /\ process[i].kind = "relay"
                /\ deaths < MostDeaths /\ deaths' = deaths + 1
                /\ process' = Without(i) /\ slipped' = slipped \ {i}
                /\ UNCHANGED <<item, doing, commands>>

-----------------------------------------------------------------------------
(* install, uninstall and restart: write or remove the item, then stop, and *)
(* start it but for an uninstall.                                           *)

Goes(p, what) == doing' = [doing EXCEPT ![p] = what]

Typed(p, what) == /\ doing[p] = None /\ commands < MostCommands /\ commands' = commands + 1
                  /\ what = "restart" => p \in item
                  /\ item' = CASE what = "install"   -> item \union {p}
                               [] what = "uninstall" -> item \ {p}
                               [] what = "restart"   -> item
                  /\ Goes(p, [what |-> what, at |-> "list", left |-> {}, blind |-> FALSE])
                  /\ UNCHANGED <<process, deaths, slipped>>

\* By the item's name or by the relay's whole command line, arguments and all.
IsOurs(i, p) == process[i].port = p

\* ours(): PowerShell lists the processes, or fails and there seem to be none.
Lists(p) == /\ doing[p] # None /\ doing[p].at = "list"
            /\ \/ Goes(p, [doing[p] EXCEPT !.at = "end",
                              !.left = {i \in Pids : process[i] # None /\ IsOurs(i, p)}])
               \/ Goes(p, [doing[p] EXCEPT !.at = "end", !.blind = TRUE])
            /\ UNCHANGED <<item, process, deaths, commands, slipped>>

\* In the order they were listed, whatever it is. One already gone is let be.
EndsOne(p, i) ==
    /\ doing[p] # None /\ doing[p].at = "end" /\ i \in doing[p].left
    /\ Goes(p, [doing[p] EXCEPT !.left = @ \ {i}])
    /\ process' = Without(i) /\ slipped' = slipped \ {i}
    /\ UNCHANGED <<item, deaths, commands>>

Finishes(p) ==
    /\ doing[p] # None /\ doing[p].at = "end" /\ doing[p].left = {}
    /\ IF doing[p].what = "uninstall" THEN UNCHANGED process
       ELSE \E i \in Free : process' = Starts("supervisor", p, i, None)
    /\ slipped' = IF doing[p].blind THEN slipped \union Running(p, "relay") \union Running(p, "supervisor")
                  ELSE slipped
    /\ Goes(p, None)
    /\ UNCHANGED <<item, deaths, commands>>

Next == \/ \E i \in Pids : SupervisorRuns(i) \/ RelayDies(i)
        \/ \E p \in Ports :
             \/ \E what \in {"install", "uninstall", "restart"} : Typed(p, what)
             \/ Lists(p) \/ Finishes(p) \/ \E i \in Pids : EndsOne(p, i)

\* A script that is waiting for its time and a command that was typed both go on.
Fairness == /\ \A i \in Pids : WF_vars(SupervisorRuns(i))
            /\ \A p \in Ports : WF_vars(Lists(p) \/ Finishes(p) \/ \E i \in Pids : EndsOne(p, i))

Spec == Init /\ [][Next]_vars /\ Fairness

-----------------------------------------------------------------------------
TypeOK == /\ item \subseteq Ports
          /\ process \in [Pids -> [kind : Kinds, port : Ports, of : Pids \union {None}] \union {None}]
          /\ doing \in [Ports -> Commands \union {None}]

\* After an uninstall nothing of the relay runs, but what a script started while the
\* command had its list in hand, and what a list that could not be read did not show.
OnlyASlipOutlivesTheItem ==
    \A p \in Ports : p \notin item /\ doing[p] = None =>
      Running(p, "relay") \union Running(p, "supervisor") \subseteq slipped

\* "And it has to come back if it dies": while the item is there and no command is at it,
\* a relay of its port is running sooner or later.
TheRelayComesBack ==
    \A p \in Ports :
      p \in item /\ doing[p] = None ~> Running(p, "relay") # {} \/ p \notin item \/ doing[p] # None

\* The relay stands with its item: it comes back while the item is there, and once the item
\* is taken off nothing of it is left running but what slipped past the command's list.
TheRelayStandsWithItsItem == []OnlyASlipOutlivesTheItem /\ TheRelayComesBack
=============================================================================
