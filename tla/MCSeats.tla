------------------------------- MODULE MCSeats -------------------------------
EXTENDS Sitting, TLC

CONSTANTS a, b, s, o1, o2, ann, bob, collect, other

\* A Seat of ann's, one of bob's, and a Seat of old that is on no Worklist, in the
\* Organization of a.
SomeNames == {a, b, s}
TheirOrganizations == (a :> o1) @@ (b :> o2) @@ (s :> o1)
TheirAccounts == (a :> ann) @@ (b :> bob) @@ (s :> bob)
TheirMultipliers == (a :> 1) @@ (b :> 5) @@ (s :> 1)

AnyMachine == {[vault |-> "Keychain", moves |-> TRUE], [vault |-> "one file", moves |-> FALSE]}

AllOfThem == {{a, b}}
SomeWishes == {NoWish, [NoWish EXCEPT !.only = a], [NoWish EXCEPT !.remint = a],
               [NoWish EXCEPT !.adopt = <<s, a>>],
               [NoWish EXCEPT !.adopt = <<a, a>>], [NoWish EXCEPT !.list = TRUE]}
=============================================================================
