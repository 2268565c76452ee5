-------------------------------- MODULE MCAround -------------------------------
(***************************************************************************)
(* Small instances of the parts of Around.                                 *)
(***************************************************************************)
EXTENDS Around

CONSTANTS c1, p, q, s, t, m, mine, proxyUrl, trust, k1, k2, k3, v, w

\* Two Desktop folders are called the same.
SomeNames == [f \in 0..2 |-> IF f = 0 THEN "Main" ELSE "Work"]

\* A login that goes well; a token said twice, the second last of all; nothing; a token with
\* an escape in it, and one with another behind it.
SomeScripts == {<<"link", "nl", "half", "rest", "nl">>,
                <<"half", "rest", "nl", "half", "rest">>, <<"x", "nl">>,
                <<"esc", "m", "half", "esc", "m", "rest", "nl">>,
                <<"link", "nl", "half", "esc", "m", "esc", "m", "rest", "esc", "m">>}

\* The marks of Scan.
Usage == -1
Colon == -2
Brace == -3
EndBrace == -4
Else == -5

\* Replies of two objects of counts, plain, with an object inside, and too long for the
\* window, with nothing, another object or half a marker between them.
Objects == {<<Usage, Colon, Brace, 1, EndBrace>>,
            <<Usage, Colon, Brace, Brace, 2, EndBrace, 3, EndBrace>>,
            <<Usage, Colon, Brace, Else, Else, Brace, Else, Else, EndBrace,
              Else, 4, EndBrace>>}
Between == {<<>>, <<Else, Brace, 5, EndBrace>>, <<Usage, Else>>}

SomeReplies == {first \o middle \o second : first \in Objects, middle \in Between, second \in Objects}
=============================================================================
