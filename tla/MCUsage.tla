------------------------------ MODULE MCUsage -------------------------------
EXTENDS Usage, TLC

\* Replies worth telling apart: a 429 whose own figure says the window is spent and
\* that names its reset, and a Refusal of another kind with room left, which the flat
\* period applies to. And one that names another Organization as its payer.
Reply(s, paidBy, refused, limited, figure, reset) ==
    [seat |-> s, paidBy |-> paidBy, refused |-> refused, limited |-> limited,
     model |-> CHOOSE m \in Models : TRUE, looksLikeCode |-> TRUE,
     figures |-> [w \in Windows |-> figure], resets |-> [w \in Windows |-> reset]]

SomeReplies == UNION { {Reply(s, "itsOwner", TRUE, TRUE, TRUE, 4),
                        Reply(s, "unsaid", TRUE, FALSE, FALSE, None),
                        Reply(s, "somebodyElse", TRUE, TRUE, TRUE, 3)} : s \in Seats }

OneLogin == {[w \in Windows |-> [spent |-> FALSE, resetsAt |-> None]]}
=============================================================================
