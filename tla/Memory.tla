------------------------------- MODULE Memory -------------------------------
(***************************************************************************)
(* The memory of what the Seats have spent: src/usage/internal/memory.ts,  *)
(* as one process opens it. Everything asked of it goes through one queue, *)
(* one piece of work at a time, each kept in line until it is over.        *)
(***************************************************************************)
EXTENDS Allowance, Sequences

CONSTANTS Askers,  \* whoever may be waiting for known(), one call at a time each
          Heard, Logins, Times  \* inputs, see Ledger.tla

VARIABLES file,    \* the content of the usage file, shared by every process
          held,    \* the map in memory, or None before it is loaded
          jobs,    \* the queue behind `tail`, the work in hand first
          saving,  \* what is being written, or None
          answer   \* what known() resolved to and its caller has not taken, or None

vars == <<file, held, jobs, saving, answer>>

Nothing == [s \in Seats |-> NothingKnown]

Opened == /\ held = None /\ jobs = <<>> /\ saving = None
          /\ answer = [k \in Askers |-> None]
Init   == file = Nothing /\ Opened

-----------------------------------------------------------------------------
\* inTurn: behind whatever was asked before.
InTurn(job) == jobs' = Append(jobs, job)

\* rememberExchange. A reply that teaches about nobody is not even queued. by is who
\* awaits it, or None.
RememberExchange(x, at, by) ==
    /\ IF SeatTaughtBy(x) = NoSeat THEN UNCHANGED jobs
       ELSE InTurn([kind |-> "exchange", seat |-> SeatTaughtBy(x), news |-> x, at |-> at, by |-> by])
    /\ UNCHANGED <<file, held, saving, answer>>

RememberReading(s, usage, at, by) ==
    /\ InTurn([kind |-> "reading", seat |-> s, news |-> usage, at |-> at, by |-> by])
    /\ UNCHANGED <<file, held, saving, answer>>

\* Fault: known() read past the queue, of what is in memory now.
AskPastTheQueue(k, at) ==
    /\ answer' = [answer EXCEPT ![k] = [s \in Seats |-> AsOf((IF held = None THEN file ELSE held)[s], at)]]
    /\ UNCHANGED <<file, held, jobs, saving>>

\* known.
AskKnown(k, at) ==
    /\ InTurn([kind |-> "known", at |-> at, by |-> k])
    /\ UNCHANGED <<file, held, saving, answer>>

AwaitedBy(k) == \E i \in DOMAIN jobs : jobs[i].by = k

-----------------------------------------------------------------------------
(* The work at the head of the line.                                        *)

\* load: the file is read once in the life of a process.
Load == /\ jobs # <<>> /\ held = None
        /\ held' = file
        /\ UNCHANGED <<file, jobs, saving, answer>>

\* The file is there and cannot be read: the work in hand is lost, the next one tries
\* again, and an asker goes on with nothing known (the catch in payer/index.ts).
LoadFails == /\ jobs # <<>> /\ held = None
             /\ jobs' = Tail(jobs)
             /\ answer' = IF Head(jobs).kind = "known"
                          THEN [answer EXCEPT ![Head(jobs).by] = Nothing] ELSE answer
             /\ UNCHANGED <<file, held, saving>>

Fold(memory, job) ==
    CASE job.kind = "exchange" -> [memory EXCEPT ![job.seat] = FoldExchange(@, job.news, job.at)]
      [] job.kind = "reading"  -> [memory EXCEPT ![job.seat] = FoldReading(@, job.news, job.at)]
      [] job.kind = "known"    -> memory

\* change up to its write: fold, set, and the picture to be saved, without the
\* cooldowns that have run out.
Change ==
    /\ jobs # <<>> /\ Head(jobs).kind # "known" /\ held # None /\ saving = None
    /\ held' = Fold(held, Head(jobs))
    /\ saving' = [s \in Seats |-> [held'[s] EXCEPT !.until = StillCooling(@, Head(jobs).at)]]
    /\ UNCHANGED <<file, jobs, answer>>

\* The picture is moved into place.
Saved == /\ saving # None
         /\ file' = saving /\ saving' = None
         /\ jobs' = Tail(jobs)
         /\ UNCHANGED <<held, answer>>

\* Fault: inTurn with tail.then(work) and no catch: one error rejects all work behind it.
SaveFailsForAll ==
    /\ saving # None
    /\ saving' = None
    /\ jobs' = <<>>
    /\ UNCHANGED <<file, held, answer>>

\* The write fails. What was set stays set, and errors do not poison the queue.
SaveFails == /\ saving # None
             /\ saving' = None
             /\ jobs' = Tail(jobs)
             /\ UNCHANGED <<file, held, answer>>

AnswerKnown ==
    /\ jobs # <<>> /\ Head(jobs).kind = "known" /\ held # None
    /\ answer' = [answer EXCEPT ![Head(jobs).by] = [s \in Seats |-> AsOf(held[s], Head(jobs).at)]]
    /\ jobs' = Tail(jobs)
    /\ UNCHANGED <<file, held, saving>>

Work == Load \/ LoadFails \/ Change \/ Saved \/ SaveFails \/ AnswerKnown

\* A caller goes on with its answer.
Take(k) ==
    /\ answer[k] # None
    /\ answer' = [answer EXCEPT ![k] = None]
    /\ UNCHANGED <<file, held, jobs, saving>>

\* The process ends, whatever it was doing, and another one opens the memory.
Restart ==
    /\ held' = None /\ jobs' = <<>> /\ saving' = None
    /\ answer' = [k \in Askers |-> None]
    /\ UNCHANGED file

-----------------------------------------------------------------------------
TypeOK ==
    /\ file \in Pictures
    /\ held = None \/ held \in Pictures
    /\ saving = None \/ saving \in Pictures
    /\ \A i \in DOMAIN jobs : /\ jobs[i].kind \in {"exchange", "reading", "known"}
                              /\ jobs[i].at \in Moments
    /\ \A k \in Askers : answer[k] = None \/ answer[k] \in Pictures

-----------------------------------------------------------------------------
(* The refinement of Ledger.tla.                                            *)

\* Work whose effect on the memory is still to come, and the memory after it.
Ahead       == IF saving = None THEN jobs ELSE Tail(jobs)

\* The memory after the work in line, one piece of it after the other.
Folded(memory, work) ==
    LET after[n \in 0..Len(work)] == IF n = 0 THEN memory ELSE Fold(after[n - 1], work[n])
    IN  after[Len(work)]

After(work) == Folded(IF held = None THEN file ELSE held, work)

\* What an asker is going to be told, or has been.
Promised(k) ==
    LET asks == {i \in DOMAIN jobs : jobs[i].kind = "known" /\ jobs[i].by = k} IN
    IF asks = {} THEN answer[k]
    ELSE LET i == CHOOSE i \in asks : TRUE
         IN  [s \in Seats |->
                AsOf(After(SubSeq(jobs, IF saving = None THEN 1 ELSE 2, i - 1))[s], jobs[i].at)]

Ledger == INSTANCE Ledger WITH
            open <- held # None,
            ledger <- After(Ahead),
            promised <- [k \in Askers |-> Promised(k)]

\* The queue makes every call appear to take effect when it is made: what an asker
\* is told holds all the news told before it asked and none told after, whatever
\* loads, saves and failed saves lie between.
IsALedger == Ledger!Spec

\* keepTheBetter: no reading in memory is ever replaced by one about an earlier moment.
ReadingsNeverAge ==
    [][held # None /\ held' # None =>
         \A s \in Seats, w \in Windows :
           held[s].windows[w] # None =>
             /\ held'[s].windows[w] # None
             /\ held'[s].windows[w].readAt >= held[s].windows[w].readAt]_vars
=============================================================================
