-------------------------------- MODULE Usage --------------------------------
(***************************************************************************)
(* The usage file between the two processes that write it: the service,    *)
(* which learns from every reply and is asked by every decision, and the   *)
(* command of scripts/refresh.ts, which folds in what the Stats logins     *)
(* say. Each opens a memory of its own over the one file.                  *)
(***************************************************************************)
EXTENDS Allowance, Sequences

CONSTANTS Askers,         \* decisions waiting for known() in the service
          Heard, Logins, Times,  \* inputs, see Ledger.tla
          AtMostQueued    \* bound: work in line in the service

ASSUME InputsAssumption == /\ Heard \subseteq Exchanges
                           /\ Logins \subseteq UsageAsRead
                           /\ Times \subseteq Moments

VARIABLES now,                         \* the clock, in units of the cooldowns
          file,
          held, jobs, saving, answer,  \* the service's memory
          cHeld, cJobs, cSaving,       \* the command's
          cmd                          \* the command, or None when it is not running

service == <<held, jobs, saving, answer>>
theirs  == <<cHeld, cJobs, cSaving, cmd>>
vars    == <<now, file, service, theirs>>

Service == INSTANCE Memory
Command == INSTANCE Memory WITH Askers <- {}, answer <- <<>>,
             held <- cHeld, jobs <- cJobs, saving <- cSaving

Init == /\ now \in Times /\ \A t \in Times : now <= t
        /\ Service!Init
        /\ cHeld = None /\ cJobs = <<>> /\ cSaving = None
        /\ cmd = None

-----------------------------------------------------------------------------
(* The service.                                                             *)

\* onExchange, or a probe of the refresh round: nobody waits for it.
Hears(x) == /\ Len(jobs) < AtMostQueued
            /\ Service!RememberExchange(x, now, None)
            /\ UNCHANGED <<now, theirs>>

\* A decision asks, by the moment it was begun at.
Asks(k, at) == /\ Len(jobs) < AtMostQueued /\ at <= now
               /\ answer[k] = None /\ ~Service!AwaitedBy(k)
               /\ Service!AskKnown(k, at)
               /\ UNCHANGED <<now, theirs>>

GoesOn(k) == Service!Take(k) /\ UNCHANGED <<now, theirs>>

Works == Service!Work /\ UNCHANGED <<now, theirs>>

\* A crash or a restart of the service. The command goes on.
Restarts == Service!Restart /\ UNCHANGED <<now, theirs>>

-----------------------------------------------------------------------------
(* The command.                                                             *)

\* Its moment is taken at its start, and reading the logins takes a while.
Starts == /\ cmd = None
          /\ \E found \in SUBSET Seats \ {{}} : cmd' = [at |-> now, left |-> found]
          /\ UNCHANGED <<now, file, service, cHeld, cJobs, cSaving>>

\* One rememberReading after the other, each awaited.
Remembers(s, usage) ==
    /\ cmd # None /\ s \in cmd.left /\ cJobs = <<>>
    /\ Command!RememberReading(s, usage, cmd.at, "refresh")
    /\ cmd' = [cmd EXCEPT !.left = @ \ {s}]
    /\ UNCHANGED <<now, service>>

TheirWork == /\ Command!Load \/ Command!Change \/ Command!Saved
             /\ UNCHANGED <<now, service, cmd>>

Gone == /\ cHeld' = None /\ cJobs' = <<>> /\ cSaving' = None
        /\ cmd' = None

\* It is through, or an error ended it: a write that failed, or somebody's ^C.
Ends == /\ cmd # None
        /\ Gone
        /\ UNCHANGED <<now, file, service>>

Ticks == /\ now + 1 \in Times
         /\ now' = now + 1
         /\ UNCHANGED <<file, service, theirs>>

Next == \/ \E x \in Heard : Hears(x)
        \/ \E k \in Askers, at \in Times : Asks(k, at)
        \/ \E k \in Askers : GoesOn(k)
        \/ Works \/ Restarts
        \/ Starts \/ \E s \in Seats, usage \in Logins : Remembers(s, usage)
        \/ TheirWork \/ Ends
        \/ Ticks

Spec == Init /\ [][Next]_vars

\* File operations finish, one way or the other.
FairSpec == Spec /\ WF_vars(Works)

-----------------------------------------------------------------------------
TypeOK == /\ now \in Times
          /\ Service!TypeOK /\ Command!TypeOK
          /\ cmd = None \/ cmd \in [at : Times, left : SUBSET Seats]

\* memory.ts, "one at a time, in the order asked": see Memory.tla.
IsALedger == Service!IsALedger

\* known.ts, "the newer reading wins", in the memory of either process: a reading that
\* took long to arrive does not undo what real traffic taught meanwhile.
ReadingsNeverAge == Service!ReadingsNeverAge /\ Command!ReadingsNeverAge

\* ADR 0005, a cooldown and not a Seat being retired: whatever the headers, the order
\* of the news and the restarts, every Seat is back within the five-hour window.
NoSeatIsRetired ==
    \A s \in Seats, m \in Models :
      /\ file[s].until[m] <= now + AtMostCooldown
      /\ held # None => held[s].until[m] <= now + AtMostCooldown

\* seatTaughtBy: a figure in anybody's memory, or on its way to the file, is one the
\* Seat's own Organization answered with, or one its own login told.
OnlyItsOwnFiguresTeach ==
    \A picture \in {file, held, saving, cHeld, cSaving} \ {None}, s \in Seats, w \in Windows :
      LET known == picture[s].windows[w] IN
      known # None /\ known.via = "exchange" =>
        \E x \in Heard : /\ x.seat = s /\ x.paidBy # "somebodyElse"
                         /\ x.figures[w] = known.spent /\ x.resets[w] = known.resetsAt

\* "Errors do not poison the queue": whoever asks is answered, unless the service
\* ends first, however many writes before it failed.
EveryAskerIsAnswered ==
    \A k \in Askers : Service!AwaitedBy(k) ~> answer[k] # None \/ held = None

\* refresh.ts, line 54: "So a reading taken today is still the right reading when the
\* Seat is filled next week": what the file holds is never replaced by an older reading.
AReadingTakenIsKept ==
    [][\A s \in Seats, w \in Windows :
         file[s].windows[w] # None =>
           /\ file'[s].windows[w] # None
           /\ file'[s].windows[w].readAt >= file[s].windows[w].readAt]_vars
=============================================================================
