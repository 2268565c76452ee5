------------------------------- MODULE MCUpkeep ------------------------------
(***************************************************************************)
(* Small instances of the parts of Upkeep.                                 *)
(***************************************************************************)
EXTENDS Upkeep, TLC

CONSTANTS a, b, c, claude, other, session, place

\* Seats nothing is known of, and Seats known in part.
New  == [w \in {"fiveHour", "sevenDay"} |-> None]
Half == [New EXCEPT !["fiveHour"] = "fresh"]
SomeUsage == {[s \in Seats |-> New],
              [s \in Seats |-> IF s = a THEN Half ELSE [Half EXCEPT !["sevenDay"] = "old"]]}

\* Rows of one Seat: priced and not, counted and not, refused and not, old and new.
Row == [day |-> "old", seat |-> a, model |-> claude, refused |-> FALSE, tokens |-> 2, session |-> session]
SomeFacts == {Row, [Row EXCEPT !.model = other, !.session = None],
              [Row EXCEPT !.day = "new", !.refused = TRUE],
              [Row EXCEPT !.model = other, !.tokens = None]}
SomePrices   == claude :> 3
SomeSessions == session :> place

SomeSizes == <<1, 2, 1, 1, 2>>
=============================================================================
