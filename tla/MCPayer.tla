------------------------------ MODULE MCPayer -------------------------------
EXTENDS Payer, TLC

TheModel == CHOOSE m \in Models : TRUE

OneFact == {[model |-> TheModel, looksLikeCode |-> TRUE]}

Reply(s, paidBy, refused, limited, figure, reset) ==
    [seat |-> s, paidBy |-> paidBy, refused |-> refused, limited |-> limited,
     model |-> TheModel, looksLikeCode |-> TRUE,
     figures |-> [w \in Windows |-> figure], resets |-> [w \in Windows |-> reset]]

\* An answer that says nothing; a 429 whose window is spent and whose reset is already
\* past when the clock is at 1; a Refusal the flat period applies to; and one that
\* another Organization was named for.
SomeReplies ==
    UNION { {Reply(s, "unsaid", FALSE, FALSE, None, None),
             Reply(s, "itsOwner", TRUE, TRUE, TRUE, 1),
             Reply(s, "unsaid", TRUE, FALSE, None, None),
             Reply(s, "somebodyElse", TRUE, TRUE, TRUE, 1)} : s \in Seats }
    \union {Reply(NoSeat, "unsaid", TRUE, FALSE, None, None)}

\* Any order of the Seats, and any of them with nothing left.
SomeOrders == {order \in [Seats -> 0..Cardinality(Seats)] :
                 \A s, t \in Seats : order[s] = order[t] => s = t \/ order[s] = 0}

Both == Permutations(Requests)
=============================================================================
