------------------------------- MODULE Ledger -------------------------------
(***************************************************************************)
(* What the memory of src/usage promises those who call it in one process: *)
(* every call takes effect at the moment it is made. News is in the ledger *)
(* as soon as it is told, and whoever asks is told the ledger as it stood  *)
(* when they asked, however long the files beneath it take. Nothing is     *)
(* promised while the file has not been read, which may fail, or over a    *)
(* restart.                                                                *)
(***************************************************************************)
EXTENDS Allowance

CONSTANTS Askers,  \* callers of known()
          Heard,   \* the exchanges there is news of
          Logins,  \* what a Stats login may say of a Seat
          Times    \* bound: the moments news and questions are about

VARIABLES open,     \* the file has been read
          ledger,   \* everything told so far
          promised  \* what each asker is to be told, or None when nothing is asked

vars == <<open, ledger, promised>>

TellExchange(x, at) ==
    /\ SeatTaughtBy(x) # NoSeat
    /\ ledger' = [ledger EXCEPT ![SeatTaughtBy(x)] = FoldExchange(@, x, at)]
    /\ UNCHANGED promised

TellReading(s, usage, at) ==
    /\ ledger' = [ledger EXCEPT ![s] = FoldReading(@, usage, at)]
    /\ UNCHANGED promised

Ask(k, at) ==
    /\ promised[k] = None
    /\ promised' = [promised EXCEPT ![k] = [s \in Seats |-> AsOf(ledger[s], at)]]
    /\ UNCHANGED ledger

Take(k) ==
    /\ promised' = [promised EXCEPT ![k] = None]
    /\ UNCHANGED ledger

Init == open = FALSE

Next == \/ ~open \/ ~open'
        \/ /\ open /\ open'
           /\ \E at \in Times :
                \/ \E x \in Heard : TellExchange(x, at)
                \/ \E s \in Seats, usage \in Logins : TellReading(s, usage, at)
                \/ \E k \in Askers : Ask(k, at)
                \/ \E k \in Askers : Take(k)

Spec == Init /\ [][Next]_vars
=============================================================================
