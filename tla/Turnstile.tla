------------------------------ MODULE Turnstile ------------------------------
(***************************************************************************)
(* What src/relay/internal/gate.ts promises whoever enters, with nothing   *)
(* of how: somebody inside, a line outside, one way to move up.            *)
(*                                                                         *)
(* A newcomer joins the line exactly when the places are taken, the front  *)
(* of the line goes in first, and leaving is the only way out. A newcomer  *)
(* who finds a free place takes it even past a line, and the front of the  *)
(* line goes in without counting the places again: gate.ts promises no     *)
(* more than that, and Gate.tla says when the places do hold.              *)
(***************************************************************************)
EXTENDS Integers, Sequences, FiniteSets

CONSTANTS Callers,  \* whoever may come
          Limit     \* places inside

VARIABLES inside,   \* those who are in
          line      \* those who wait, longest first

vars == <<inside, line>>

Init == inside = {} /\ line = <<>>

Outside(c) == c \notin inside /\ \A i \in 1..Len(line) : line[i] # c

WalkIn(c) ==
    /\ Outside(c) /\ Cardinality(inside) < Limit
    /\ inside' = inside \union {c}
    /\ UNCHANGED line

Join(c) ==
    /\ Outside(c) /\ Cardinality(inside) >= Limit
    /\ line' = Append(line, c)
    /\ UNCHANGED inside

MoveUp ==
    /\ line # <<>>
    /\ inside' = inside \union {Head(line)}
    /\ line' = Tail(line)

Leave(c) ==
    /\ c \in inside
    /\ inside' = inside \ {c}
    /\ UNCHANGED line

Next == MoveUp \/ \E c \in Callers : WalkIn(c) \/ Join(c) \/ Leave(c)

Spec == Init /\ [][Next]_vars
=============================================================================
