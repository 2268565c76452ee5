----------------------------- MODULE GateProofs -----------------------------
(***************************************************************************)
(* Proofs about Gate.tla, for any set of callers and any limit.            *)
(*                                                                         *)
(* The argument is one inductive invariant. TurnsAccounted needs the type  *)
(* and the finiteness of the turns out; NoLostTurn needs to know that a    *)
(* wake-up leaves the queue one shorter and the woken one longer; and that *)
(* nobody is resumed twice needs the line to hold each waiter once.        *)
(***************************************************************************)
EXTENDS Gate, SequenceTheorems, FiniteSetTheorems, TLAPS

Elems(s)    == {s[i] : i \in 1..Len(s)}
Distinct(s) == \A i, j \in 1..Len(s) : s[i] = s[j] => i = j
Waiters     == {c \in Callers : turn[c] = "waiting"}

IInv == /\ TypeOK
        /\ LineIsTheWaiters
        /\ IsFiniteSet(Holders) /\ TurnsAccounted
        /\ NoLostTurn

-----------------------------------------------------------------------------
(* Sequences.                                                               *)

\* A newcomer at the end of a line keeps everybody in it once.
LEMMA AppendDistinct ==
  ASSUME NEW S, NEW s \in Seq(S), NEW e \in S, Distinct(s), e \notin Elems(s)
  PROVE  Distinct(Append(s, e)) /\ Elems(Append(s, e)) = Elems(s) \union {e}
<1> DEFINE t == Append(s, e)
<1>1. /\ Len(s) \in Nat /\ Len(t) = Len(s) + 1
      /\ \A i \in 1..Len(s) : t[i] = s[i]
      /\ t[Len(s) + 1] = e
  BY AppendProperties, LenProperties
<1> HIDE DEF t
<1>2. Distinct(t)  BY <1>1 DEF Distinct, Elems
<1>3. Elems(t) = Elems(s) \union {e}
  <2>1. ASSUME NEW x \in Elems(t) PROVE x \in Elems(s) \union {e}
    BY <1>1, <2>1 DEF Elems
  <2>2. ASSUME NEW x \in Elems(s) PROVE x \in Elems(t)
    <3>1. PICK i \in 1..Len(s) : x = s[i]  BY DEF Elems
    <3>2. i \in 1..Len(t) /\ t[i] = x  BY <3>1, <1>1
    <3> QED BY <3>2 DEF Elems
  <2>3. e \in Elems(t)
    <3>1. Len(s) + 1 \in 1..Len(t)  BY <1>1
    <3> QED BY <3>1, <1>1 DEF Elems
  <2> QED BY <2>1, <2>2, <2>3
<1> QED BY <1>2, <1>3 DEF t

\* Taking the first of a line away takes that one, and nobody else, out of it.
LEMMA TailDistinct ==
  ASSUME NEW S, NEW s \in Seq(S), s # <<>>, Distinct(s)
  PROVE  Distinct(Tail(s)) /\ Elems(Tail(s)) = Elems(s) \ {Head(s)}
<1> DEFINE t == Tail(s)
<1>1. /\ Len(s) \in Nat \ {0} /\ Len(t) = Len(s) - 1
      /\ \A i \in 1..Len(t) : t[i] = s[i + 1]
      /\ Head(s) = s[1]
  BY HeadTailProperties, LenProperties, EmptySeq
<1> HIDE DEF t
<1>2. Distinct(t)
  <2>1. ASSUME NEW i \in 1..Len(t), NEW j \in 1..Len(t), t[i] = t[j] PROVE i = j
    <3>1. i + 1 \in 1..Len(s) /\ j + 1 \in 1..Len(s) /\ s[i + 1] = s[j + 1]
      BY <1>1, <2>1
    <3> QED BY <3>1 DEF Distinct
  <2> QED BY <2>1 DEF Distinct
<1>3. ASSUME NEW x \in Elems(t) PROVE x \in Elems(s) \ {Head(s)}
  <2>1. PICK i \in 1..Len(t) : x = t[i]  BY <1>3 DEF Elems
  <2>2. i + 1 \in 1..Len(s) /\ 1 \in 1..Len(s) /\ x = s[i + 1] /\ i + 1 # 1
    BY <2>1, <1>1
  <2> QED BY <2>2, <1>1 DEF Distinct, Elems
<1>4. ASSUME NEW x \in Elems(s), x # Head(s) PROVE x \in Elems(t)
  <2>1. PICK i \in 1..Len(s) : x = s[i]  BY <1>4 DEF Elems
  <2>2. i - 1 \in 1..Len(t) /\ t[i - 1] = x  BY <2>1, <1>1, <1>4
  <2> QED BY <2>2 DEF Elems
<1> QED BY <1>2, <1>3, <1>4 DEF t

\* The first of two lines laid end to end is the first of the one in front.
LEMMA HeadOfConcat ==
  ASSUME NEW S, NEW s \in Seq(S), NEW t \in Seq(S), s # <<>>
  PROVE  /\ s \o t # <<>>
         /\ Head(s \o t) = Head(s)
         /\ Tail(s \o t) = Tail(s) \o t
<1>1. /\ s \o t \in Seq(S) /\ Len(s \o t) = Len(s) + Len(t)
      /\ \A i \in 1..(Len(s) + Len(t)) :
           (s \o t)[i] = IF i <= Len(s) THEN s[i] ELSE t[i - Len(s)]
  BY ConcatProperties
<1>2. Len(s) \in Nat \ {0} /\ Len(t) \in Nat  BY EmptySeq, LenProperties
<1>3. s \o t # <<>>  BY ConcatEqualIffEmpty
<1>4. Head(s \o t) = Head(s)  BY <1>1, <1>2
<1>5. /\ Tail(s) \in Seq(S) /\ Len(Tail(s)) = Len(s) - 1
      /\ \A i \in 1..(Len(s) - 1) : Tail(s)[i] = s[i + 1]
  BY HeadTailProperties
<1>6. /\ Tail(s \o t) \in Seq(S) /\ Len(Tail(s \o t)) = Len(s) + Len(t) - 1
      /\ \A i \in 1..(Len(s) + Len(t) - 1) : Tail(s \o t)[i] = (s \o t)[i + 1]
  BY <1>1, <1>3, HeadTailProperties
<1>7. /\ Tail(s) \o t \in Seq(S) /\ Len(Tail(s) \o t) = Len(s) - 1 + Len(t)
      /\ \A i \in 1..(Len(s) - 1 + Len(t)) :
           (Tail(s) \o t)[i] = IF i <= Len(s) - 1 THEN Tail(s)[i] ELSE t[i - (Len(s) - 1)]
  BY <1>5, ConcatProperties
<1>8. \A i \in 1..Len(Tail(s \o t)) : Tail(s \o t)[i] = (Tail(s) \o t)[i]
  BY <1>1, <1>2, <1>5, <1>6, <1>7
<1>9. Tail(s \o t) = Tail(s) \o t  BY <1>2, <1>6, <1>7, <1>8, SeqEqual
<1> QED BY <1>3, <1>4, <1>9

\* Moving the first of the back line to the end of the front line changes nothing
\* about the two laid end to end.
LEMMA MoveAcross ==
  ASSUME NEW S, NEW s \in Seq(S), NEW t \in Seq(S), t # <<>>
  PROVE  Append(s, Head(t)) \o Tail(t) = s \o t
<1>1. Head(t) \in S /\ Tail(t) \in Seq(S)  BY HeadTailProperties
<1>2. <<Head(t)>> \in Seq(S)  BY <1>1
<1>3. Append(s, Head(t)) = s \o <<Head(t)>>  BY <1>1, AppendIsConcat
<1>4. <<Head(t)>> \o Tail(t) = t
  <2>1. t = SubSeq(t, 1, Len(t)) /\ Tail(t) = SubSeq(t, 2, Len(t))
    BY SubSeqFull, TailIsSubSeq
  <2>2. 1 \in 1..Len(t) /\ Len(t) \in 1..Len(t)  BY EmptySeq
  <2>3. SubSeq(t, 1, Len(t)) = <<t[1]>> \o SubSeq(t, 2, Len(t))
    BY <2>2, SubSeqRecursiveFirst
  <2> QED BY <2>1, <2>3
<1> QED BY <1>1, <1>2, <1>3, <1>4, ConcatAssociative

-----------------------------------------------------------------------------
(* What each operation does to the line.                                    *)

LEMMA LineIsASequence == TypeOK => Line \in Seq(Callers)
BY ConcatProperties DEF TypeOK, Line

LEMMA QueueingJoinsTheEnd ==
  ASSUME TypeOK, NEW c \in Callers, queue' = Append(queue, c), woken' = woken
  PROVE  Line' = Append(Line, c)
<1>1. queue \in Seq(Callers) /\ woken \in Seq(Callers) /\ <<c>> \in Seq(Callers)
  BY DEF TypeOK
<1>2. Append(queue, c) = queue \o <<c>>  BY <1>1, AppendIsConcat
<1>3. Line \in Seq(Callers) /\ Append(Line, c) = Line \o <<c>>
  BY LineIsASequence, AppendIsConcat
<1> QED BY <1>1, <1>2, <1>3, ConcatAssociative DEF Line

LEMMA ResumingLeavesTheFront ==
  ASSUME TypeOK, NEW c \in Callers, Resume(c)
  PROVE  Line # <<>> /\ c = Head(Line) /\ Line' = Tail(Line)
BY HeadOfConcat DEF TypeOK, Resume, Line

LEMMA WakingKeepsTheLine ==
  ASSUME TypeOK, WakeOne
  PROVE  Line' = Line
<1>1. CASE queue = <<>>  BY <1>1 DEF WakeOne, Line
<1>2. CASE queue # <<>>  BY <1>2, MoveAcross DEF WakeOne, Line, TypeOK
<1> QED BY <1>1, <1>2

LEMMA ReleasingKeepsTheLine ==
  ASSUME TypeOK, Release
  PROVE  Line' = Line
<1>1. Line \in Seq(Callers)  BY LineIsASequence
<1> QED BY <1>1, ConcatEmptySeq DEF Release, Line

-----------------------------------------------------------------------------
(* The invariant, one part at a time.                                       *)

LEMMA LineAsElems ==
  LineIsTheWaiters <=> Distinct(Line) /\ Elems(Line) = Waiters
BY DEF LineIsTheWaiters, Distinct, Elems, Waiters

\* A caller at the front of a line without doubles was waiting, and is not among
\* those left behind it.
LEMMA FrontWaits ==
  ASSUME TypeOK, LineIsTheWaiters, Line # <<>>
  PROVE  /\ Head(Line) \in Waiters
         /\ Distinct(Tail(Line)) /\ Elems(Tail(Line)) = Waiters \ {Head(Line)}
<1>1. Line \in Seq(Callers)  BY LineIsASequence
<1>2. 1 \in 1..Len(Line) /\ Head(Line) = Line[1]  BY <1>1, EmptySeq
<1>3. Head(Line) \in Elems(Line)  BY <1>2 DEF Elems
<1> QED BY <1>1, <1>3, TailDistinct, LineAsElems

LEMMA LineInit == Init => LineIsTheWaiters
<1> SUFFICES ASSUME Init PROVE LineIsTheWaiters  OBVIOUS
<1>1. Line = <<>>  BY ConcatEmptySeq, EmptySeq DEF Init, Line
<1>2. Len(Line) = 0  BY <1>1
<1> QED BY <1>2 DEF LineIsTheWaiters, Init

LEMMA LineNext ==
  ASSUME TypeOK, LineIsTheWaiters, [Next]_vars
  PROVE  LineIsTheWaiters'
<1> SUFFICES Distinct(Line') /\ Elems(Line') = Waiters'
  BY DEF LineIsTheWaiters, Distinct, Elems, Waiters
<1>0. Line \in Seq(Callers) /\ Distinct(Line) /\ Elems(Line) = Waiters
  BY LineIsASequence, LineAsElems
<1>1. CASE UNCHANGED vars  BY <1>0, <1>1 DEF vars, Line, Waiters
<1>2. ASSUME NEW c \in Callers, Enter(c)
      PROVE  Distinct(Line') /\ Elems(Line') = Waiters'
  <2>1. CASE inFlight >= Limit
    <3>1. Line' = Append(Line, c)  BY <1>2, <2>1, QueueingJoinsTheEnd DEF Enter
    <3>2. c \notin Waiters /\ Waiters' = Waiters \union {c}
      BY <1>2, <2>1 DEF Enter, Waiters, TypeOK
    <3> QED BY <1>0, <3>1, <3>2, AppendDistinct
  <2>2. CASE ~(inFlight >= Limit)
    <3>1. Line' = Line  BY <1>2, <2>2 DEF Enter, Line
    <3>2. Waiters' = Waiters  BY <1>2, <2>2 DEF Enter, Waiters, TypeOK
    <3> QED BY <1>0, <3>1, <3>2
  <2> QED BY <2>1, <2>2
<1>3. ASSUME NEW c \in Callers, Resume(c)
      PROVE  Distinct(Line') /\ Elems(Line') = Waiters'
  <2>1. Line # <<>> /\ c = Head(Line) /\ Line' = Tail(Line)
    BY <1>3, ResumingLeavesTheFront
  <2>2. Waiters' = Waiters \ {c}  BY <1>3 DEF Resume, Waiters, TypeOK
  <2> QED BY <2>1, <2>2, FrontWaits
<1>4. ASSUME NEW c \in Callers, GiveBack(c)
      PROVE  Distinct(Line') /\ Elems(Line') = Waiters'
  <2>1. Line' = Line  BY <1>4, WakingKeepsTheLine DEF GiveBack, vars, Line
  <2>2. Waiters' = Waiters  BY <1>4 DEF GiveBack, vars, Waiters, TypeOK
  <2> QED BY <1>0, <2>1, <2>2
<1>5. ASSUME NEW c \in Callers, Forget(c)
      PROVE  Distinct(Line') /\ Elems(Line') = Waiters'
  <2>1. Line' = Line  BY <1>5 DEF Forget, Line
  <2>2. Waiters' = Waiters  BY <1>5 DEF Forget, Waiters, TypeOK
  <2> QED BY <1>0, <2>1, <2>2
<1>6. CASE Release
  <2>1. Line' = Line  BY <1>6, ReleasingKeepsTheLine
  <2>2. Waiters' = Waiters  BY <1>6 DEF Release, Waiters
  <2> QED BY <1>0, <2>1, <2>2
<1> QED BY <1>1, <1>2, <1>3, <1>4, <1>5, <1>6 DEF Next

\* A turn taken is one holder more, a turn given back one holder less.
LEMMA HoldersCount ==
  ASSUME TypeOK, IsFiniteSet(Holders), NEW c \in Callers
  PROVE  /\ Cardinality(Holders) \in Nat
         /\ c \notin Holders =>
              /\ IsFiniteSet(Holders \union {c})
              /\ Cardinality(Holders \union {c}) = Cardinality(Holders) + 1
         /\ c \in Holders =>
              /\ IsFiniteSet(Holders \ {c})
              /\ Cardinality(Holders \ {c}) = Cardinality(Holders) - 1
              /\ Cardinality(Holders) > 0
<1>1. Cardinality(Holders) \in Nat  BY FS_CardinalityType
<1>2. ASSUME c \notin Holders
      PROVE  /\ IsFiniteSet(Holders \union {c})
             /\ Cardinality(Holders \union {c}) = Cardinality(Holders) + 1
  BY <1>2, FS_AddElement
<1>3. ASSUME c \in Holders
      PROVE  /\ IsFiniteSet(Holders \ {c})
             /\ Cardinality(Holders \ {c}) = Cardinality(Holders) - 1
             /\ Cardinality(Holders) > 0
  <2>1. /\ IsFiniteSet(Holders \ {c})
        /\ Cardinality(Holders \ {c}) = Cardinality(Holders) - 1
    BY <1>3, FS_RemoveElement
  <2>2. Cardinality(Holders \ {c}) \in Nat  BY <2>1, FS_CardinalityType
  <2> QED BY <1>1, <2>1, <2>2
<1> QED BY <1>1, <1>2, <1>3

\* The counter and the turns out move together. A caller at the front of the woken
\* is not already a holder because the line holds only those who wait.
LEMMA CountNext ==
  ASSUME IInv, [Next]_vars
  PROVE  IsFiniteSet(Holders') /\ TurnsAccounted'
<1> USE DEF IInv, TurnsAccounted
<1>1. CASE UNCHANGED vars  BY <1>1 DEF vars, Holders
<1>2. ASSUME NEW c \in Callers, Enter(c) PROVE IsFiniteSet(Holders') /\ TurnsAccounted'
  <2>1. c \notin Holders  BY <1>2 DEF Enter, Holders
  <2>2. CASE inFlight >= Limit
    <3>1. Holders' = Holders /\ inFlight' = inFlight
      BY <1>2, <2>2 DEF Enter, Holders, TypeOK
    <3> QED BY <3>1
  <2>3. CASE ~(inFlight >= Limit)
    <3>1. Holders' = Holders \union {c} /\ inFlight' = inFlight + 1
      BY <1>2, <2>3 DEF Enter, Holders, TypeOK
    <3> QED BY <2>1, <3>1, HoldersCount
  <2> QED BY <2>2, <2>3
<1>3. ASSUME NEW c \in Callers, Resume(c) PROVE IsFiniteSet(Holders') /\ TurnsAccounted'
  <2>1. c \in Waiters  BY <1>3, ResumingLeavesTheFront, FrontWaits
  <2>2. c \notin Holders  BY <2>1 DEF Waiters, Holders
  <2>3. Holders' = Holders \union {c} /\ inFlight' = inFlight + 1
    BY <1>3 DEF Resume, Holders, TypeOK
  <2> QED BY <2>2, <2>3, HoldersCount
<1>4. ASSUME NEW c \in Callers, GiveBack(c) PROVE IsFiniteSet(Holders') /\ TurnsAccounted'
  <2>1. CASE turn[c] = "given"  BY <1>4, <2>1 DEF GiveBack, vars, Holders
  <2>2. CASE turn[c] # "given"
    <3>1. c \in Holders  BY <1>4, <2>2 DEF GiveBack, Holders
    <3>2. Holders' = Holders \ {c} /\ inFlight' = inFlight - 1
      BY <1>4, <2>2 DEF GiveBack, Holders, TypeOK
    <3> QED BY <3>1, <3>2, HoldersCount
  <2> QED BY <2>1, <2>2
<1>5. ASSUME NEW c \in Callers, Forget(c) PROVE IsFiniteSet(Holders') /\ TurnsAccounted'
  <2>1. Holders' = Holders /\ inFlight' = inFlight
    BY <1>5 DEF Forget, Holders, TypeOK
  <2> QED BY <2>1
<1>6. CASE Release  BY <1>6 DEF Release, Holders
<1> QED BY <1>1, <1>2, <1>3, <1>4, <1>5, <1>6 DEF Next

\* What a wake-up does to the two halves of the line.
LEMMA WakingTypes ==
  ASSUME TypeOK, WakeOne
  PROVE  /\ queue' \in Seq(Callers) /\ woken' \in Seq(Callers)
         /\ queue = <<>> => queue' = <<>> /\ Len(woken') = Len(woken)
         /\ queue # <<>> => Len(woken') = Len(woken) + 1
<1>1. CASE queue = <<>>  BY <1>1 DEF WakeOne, TypeOK
<1>2. CASE queue # <<>>
  <2>1. Head(queue) \in Callers /\ Tail(queue) \in Seq(Callers)
    BY <1>2, HeadTailProperties DEF TypeOK
  <2>2. /\ Append(woken, Head(queue)) \in Seq(Callers)
        /\ Len(Append(woken, Head(queue))) = Len(woken) + 1
    BY <2>1, AppendProperties DEF TypeOK
  <2> QED BY <1>2, <2>1, <2>2 DEF WakeOne
<1> QED BY <1>1, <1>2

LEMMA TypeNext ==
  ASSUME IInv, [Next]_vars
  PROVE  TypeOK'
<1> USE DEF IInv, TypeOK
<1>1. CASE UNCHANGED vars  BY <1>1 DEF vars
<1>2. ASSUME NEW c \in Callers, Enter(c) PROVE TypeOK'
  <2>1. CASE inFlight >= Limit
    <3>1. queue' \in Seq(Callers)  BY <1>2, <2>1, AppendProperties, SMTT(40) DEF Enter
    <3> QED BY <1>2, <2>1, <3>1 DEF Enter
  <2>2. CASE ~(inFlight >= Limit)  BY <1>2, <2>2 DEF Enter
  <2> QED BY <2>1, <2>2
<1>3. ASSUME NEW c \in Callers, Resume(c) PROVE TypeOK'
  BY <1>3, HeadTailProperties DEF Resume
<1>4. ASSUME NEW c \in Callers, GiveBack(c) PROVE TypeOK'
  <2>1. CASE turn[c] = "given"  BY <1>4, <2>1 DEF GiveBack, vars
  <2>2. CASE turn[c] # "given"
    <3>1. c \in Holders  BY <1>4, <2>2 DEF GiveBack, Holders
    <3>2. inFlight > 0  BY <3>1, HoldersCount DEF TurnsAccounted
    <3>3. queue' \in Seq(Callers) /\ woken' \in Seq(Callers)
      BY <1>4, <2>2, WakingTypes DEF GiveBack
    <3> QED BY <1>4, <2>2, <3>2, <3>3, SMTT(40) DEF GiveBack
  <2> QED BY <2>1, <2>2
<1>5. ASSUME NEW c \in Callers, Forget(c) PROVE TypeOK'
  BY <1>5 DEF Forget
<1>6. CASE Release  BY <1>6, ConcatProperties, EmptySeq DEF Release
<1> QED BY <1>1, <1>2, <1>3, <1>4, <1>5, <1>6 DEF Next

\* The turns owed never fall below the limit while somebody is left in the queue.
LEMMA NoLostTurnNext ==
  ASSUME IInv, [Next]_vars
  PROVE  NoLostTurn'
<1> USE LimitAssumption DEF NoLostTurn, Owed
<1>0. /\ inFlight \in Nat /\ Len(woken) \in Nat
      /\ TypeOK /\ NoLostTurn
  BY LenProperties DEF IInv, TypeOK
<1>1. CASE UNCHANGED vars  BY <1>0, <1>1 DEF vars
<1>2. ASSUME NEW c \in Callers, Enter(c) PROVE NoLostTurn'
  BY <1>0, <1>2 DEF Enter
<1>3. ASSUME NEW c \in Callers, Resume(c) PROVE NoLostTurn'
  <2>1. Len(Tail(woken)) = Len(woken) - 1
    BY <1>3, HeadTailProperties DEF Resume, IInv, TypeOK
  <2> QED BY <1>0, <1>3, <2>1 DEF Resume
<1>4. ASSUME NEW c \in Callers, GiveBack(c) PROVE NoLostTurn'
  <2>1. CASE turn[c] = "given"  BY <1>0, <1>4, <2>1 DEF GiveBack, vars
  <2>2. CASE turn[c] # "given"
    <3>1. inFlight' = inFlight - 1 /\ WakeOne  BY <1>4, <2>2 DEF GiveBack
    <3> QED BY <1>0, <3>1, WakingTypes
  <2> QED BY <2>1, <2>2
<1>5. ASSUME NEW c \in Callers, Forget(c) PROVE NoLostTurn'
  BY <1>0, <1>5 DEF Forget
<1>6. CASE Release  BY <1>6 DEF Release
<1> QED BY <1>1, <1>2, <1>3, <1>4, <1>5, <1>6 DEF Next

-----------------------------------------------------------------------------
(* The theorems.                                                            *)

\* The inductive invariant holds of every behaviour of a gate.
THEOREM Invariance == Spec => []IInv
<1>1. Init => IInv
  <2> SUFFICES ASSUME Init PROVE IInv  OBVIOUS
  <2>1. TypeOK  BY EmptySeq DEF Init, TypeOK
  <2>2. Holders = {}  BY DEF Init, Holders
  <2>3. IsFiniteSet(Holders) /\ TurnsAccounted
    BY <2>2, FS_EmptySet DEF Init, TurnsAccounted
  <2>4. NoLostTurn  BY DEF Init, NoLostTurn
  <2> QED BY <2>1, <2>3, <2>4, LineInit DEF IInv
<1>2. IInv /\ [Next]_vars => IInv'
  <2> SUFFICES ASSUME IInv, [Next]_vars PROVE IInv'  OBVIOUS
  <2>1. TypeOK'  BY TypeNext
  <2>2. LineIsTheWaiters'  BY LineNext DEF IInv
  <2>3. IsFiniteSet(Holders') /\ TurnsAccounted'  BY CountNext
  <2>4. NoLostTurn'  BY NoLostTurnNext
  <2> QED BY <2>1, <2>2, <2>3, <2>4 DEF IInv
<1> QED BY <1>1, <1>2, PTL DEF Spec

\* TypeOK of Gate.tla: the counter of gate.ts never goes below zero.
THEOREM TypeCorrect == Spec => []TypeOK
<1>1. IInv => TypeOK  BY DEF IInv
<1> QED BY <1>1, Invariance, PTL

\* LineIsTheWaiters of Gate.tla: gate.ts forgets no wait and resolves none twice.
THEOREM LineCorrect == Spec => []LineIsTheWaiters
<1>1. IInv => LineIsTheWaiters  BY DEF IInv
<1> QED BY <1>1, Invariance, PTL

\* TurnsAccounted of Gate.tla: whoever calls its turn back however often, the
\* counter is the number of turns out.
THEOREM CountCorrect == Spec => []TurnsAccounted
<1>1. IInv => TurnsAccounted  BY DEF IInv
<1> QED BY <1>1, Invariance, PTL

\* NoLostTurn of Gate.tla: nobody is left in the queue with a turn to spare.
THEOREM NoTurnIsLost == Spec => []NoLostTurn
<1>1. IInv => NoLostTurn  BY DEF IInv
<1> QED BY <1>1, Invariance, PTL

\* A caller that neither waits nor holds is outside the turnstile.
LEMMA AskersAreOutside ==
  ASSUME IInv, NEW c \in Callers, turn[c] = "none"
  PROVE  Promise!Outside(c)
<1>1. c \notin Holders /\ c \notin Elems(Line)
  BY LineAsElems DEF IInv, Waiters, Holders
<1> QED BY <1>1 DEF Promise!Outside, Elems

\* Each operation of gate.ts is a step of the turnstile or changes nothing of it.
LEMMA NextIsATurnstile ==
  ASSUME IInv, [Next]_vars
  PROVE  [Promise!Next]_<<Holders, Line>>
<1> USE DEF Promise!Next
<1>. Promise!Cardinality(Holders) = Cardinality(Holders)
  BY DEF Promise!Cardinality, Cardinality
<1>0. TypeOK /\ inFlight = Promise!Cardinality(Holders)
  BY DEF IInv, TurnsAccounted
<1>1. CASE UNCHANGED vars  BY <1>1 DEF vars, Line, Holders
<1>2. ASSUME NEW c \in Callers, Enter(c) PROVE Promise!Join(c) \/ Promise!WalkIn(c)
  <2>1. Promise!Outside(c)  BY <1>2, AskersAreOutside DEF Enter
  <2>2. CASE inFlight >= Limit
    <3>1. Line' = Append(Line, c)
      BY <1>0, <1>2, <2>2, QueueingJoinsTheEnd DEF Enter
    <3>2. Holders' = Holders  BY <1>0, <1>2, <2>2 DEF Enter, Holders, TypeOK
    <3> QED BY <1>0, <2>1, <2>2, <3>1, <3>2 DEF Promise!Join
  <2>3. CASE ~(inFlight >= Limit)
    <3>1. Line' = Line  BY <1>2, <2>3 DEF Enter, Line
    <3>2. Holders' = Holders \union {c}
      BY <1>0, <1>2, <2>3 DEF Enter, Holders, TypeOK
    <3>3. Promise!Cardinality(Holders) < Limit
      BY <1>0, <2>3, LimitAssumption DEF TypeOK
    <3> QED BY <2>1, <3>1, <3>2, <3>3 DEF Promise!WalkIn
  <2> QED BY <2>2, <2>3
<1>3. ASSUME NEW c \in Callers, Resume(c) PROVE Promise!MoveUp
  <2>1. Line # <<>> /\ c = Head(Line) /\ Line' = Tail(Line)
    BY <1>0, <1>3, ResumingLeavesTheFront
  <2>2. Holders' = Holders \union {c}  BY <1>0, <1>3 DEF Resume, Holders, TypeOK
  <2> QED BY <2>1, <2>2 DEF Promise!MoveUp
<1>4. ASSUME NEW c \in Callers, GiveBack(c)
      PROVE  Promise!Leave(c) \/ UNCHANGED <<Holders, Line>>
  <2>1. CASE turn[c] = "given"  BY <1>4, <2>1 DEF GiveBack, vars, Holders, Line
  <2>2. CASE turn[c] # "given"
    <3>1. Line' = Line  BY <1>0, <1>4, <2>2, WakingKeepsTheLine DEF GiveBack
    <3>2. c \in Holders /\ Holders' = Holders \ {c}
      BY <1>0, <1>4, <2>2 DEF GiveBack, Holders, TypeOK
    <3> QED BY <3>1, <3>2 DEF Promise!Leave
  <2> QED BY <2>1, <2>2
<1>5. ASSUME NEW c \in Callers, Forget(c) PROVE UNCHANGED <<Holders, Line>>
  BY <1>0, <1>5 DEF Forget, Holders, Line, TypeOK
<1>6. CASE Release
  BY <1>0, <1>6, ReleasingKeepsTheLine DEF Release, Holders
<1> QED BY <1>1, <1>2, <1>3, <1>4, <1>5, <1>6 DEF Next

\* IsATurnstile of Gate.tla: gate.ts implements the turnstile, for every limit and
\* any callers.
THEOREM GateIsATurnstile == Spec => IsATurnstile
<1>1. Init => Promise!Init
  BY ConcatEmptySeq, EmptySeq DEF Init, Promise!Init, Holders, Line
<1>2. IInv /\ [Next]_vars => [Promise!Next]_<<Holders, Line>>
  BY NextIsATurnstile
<1> QED BY <1>1, <1>2, Invariance, PTL DEF Spec, IsATurnstile, Promise!Spec, Promise!vars

\* An operation that makes the turns owed exceed the limit is an arrival that walks
\* in past somebody woken, or shutdown.
LEMMA NextOverfills ==
  ASSUME IInv, [Next]_vars, Owed' > Owed, Owed' > Limit
  PROVE  \/ woken # <<>> /\ \E c \in Callers : turn[c] = "none" /\ turn'[c] = "held"
         \/ queue # <<>> /\ queue' = <<>> /\ inFlight' = inFlight
<1> USE LimitAssumption DEF Owed
<1>0. inFlight \in Nat /\ Len(woken) \in Nat /\ TypeOK
  BY LenProperties DEF IInv, TypeOK
<1>1. CASE UNCHANGED vars  BY <1>0, <1>1 DEF vars
<1>2. ASSUME NEW c \in Callers, Enter(c)
      PROVE  woken # <<>> /\ turn[c] = "none" /\ turn'[c] = "held"
  <2>1. ~(inFlight >= Limit) /\ inFlight' = inFlight + 1 /\ woken' = woken
    BY <1>0, <1>2 DEF Enter
  <2>2. Len(woken) > 0  BY <1>0, <2>1
  <2> QED BY <1>0, <1>2, <2>1, <2>2, EmptySeq DEF Enter, TypeOK
<1>3. ASSUME NEW c \in Callers, Resume(c) PROVE FALSE
  <2>1. Len(Tail(woken)) = Len(woken) - 1
    BY <1>0, <1>3, HeadTailProperties DEF Resume, TypeOK
  <2> QED BY <1>0, <1>3, <2>1 DEF Resume
<1>4. ASSUME NEW c \in Callers, GiveBack(c) PROVE FALSE
  <2>1. CASE turn[c] = "given"  BY <1>0, <1>4, <2>1 DEF GiveBack, vars
  <2>2. CASE turn[c] # "given"
    <3>1. inFlight' = inFlight - 1 /\ WakeOne  BY <1>4, <2>2 DEF GiveBack
    <3> QED BY <1>0, <3>1, WakingTypes
  <2> QED BY <2>1, <2>2
<1>5. ASSUME NEW c \in Callers, Forget(c) PROVE FALSE
  BY <1>0, <1>5 DEF Forget
<1>6. CASE Release  BY <1>6 DEF Release
<1> QED BY <1>1, <1>2, <1>3, <1>4, <1>5, <1>6 DEF Next

\* OnlyAnOvertakeOverfills of Gate.tla, for every limit and any callers.
THEOREM OverfillExplained == Spec => OnlyAnOvertakeOverfills
<1>1. IInv /\ [Next]_vars =>
        [Owed' > Owed /\ Owed' > Limit
         => \/ woken # <<>> /\ \E c \in Callers : turn[c] = "none" /\ turn'[c] = "held"
            \/ queue # <<>> /\ queue' = <<>> /\ inFlight' = inFlight]_vars
  BY NextOverfills
<1> QED BY <1>1, Invariance, PTL DEF Spec, OnlyAnOvertakeOverfills

-----------------------------------------------------------------------------
(* How far the limit does hold.                                             *)

\* A step in which nobody walks in past the woken and nothing is released.
Orderly == /\ woken # <<>> => \A c \in Callers : ~(turn[c] = "none" /\ turn'[c] = "held")
           /\ ~Release

\* The bound ADR 0017 asks of a gate: never more turns out than the limit. It holds
\* of every behaviour in which each woken waiter runs before the next newcomer asks,
\* whatever the limit, the callers and the order of everything else.
THEOREM TheLimitHoldsWithoutOvertaking ==
  Spec /\ [][Orderly]_vars => [](inFlight <= Limit)
<1> DEFINE Bounded == Owed <= Limit
<1>1. Init => Bounded
  BY LimitAssumption, EmptySeq DEF Init, Owed
<1>2. IInv /\ IInv' /\ Bounded /\ [Next]_vars /\ [Orderly]_vars => Bounded'
  <2> SUFFICES ASSUME IInv, IInv', Bounded, [Next]_vars, [Orderly]_vars, ~Bounded'
               PROVE  FALSE
    OBVIOUS
  <2>0. /\ inFlight \in Nat /\ Len(woken) \in Nat
        /\ inFlight' \in Nat /\ Len(woken') \in Nat
    BY LenProperties DEF IInv, TypeOK
  <2>1. Owed' > Owed /\ Owed' > Limit  BY <2>0, LimitAssumption DEF Owed
  <2>2. CASE UNCHANGED vars  BY <2>0, <2>1, <2>2 DEF vars, Owed
  <2>3. CASE Next /\ Orderly
    <3>1. queue # <<>> /\ queue' = <<>> /\ inFlight' = inFlight
      BY <2>1, <2>3, NextOverfills DEF Orderly
    <3>2. ASSUME NEW c \in Callers PROVE ~Enter(c)
      BY <2>0, <2>1, <3>1 DEF Enter, Owed
    <3>3. ASSUME NEW c \in Callers PROVE ~Resume(c)
      BY <2>0, <3>1 DEF Resume
    <3>4. ASSUME NEW c \in Callers PROVE ~GiveBack(c)
      BY <2>0, <3>1 DEF GiveBack, vars
    <3>5. ASSUME NEW c \in Callers PROVE ~Forget(c)
      BY <3>1 DEF Forget
    <3> QED BY <2>3, <3>2, <3>3, <3>4, <3>5 DEF Next, Orderly
  <2> QED BY <2>2, <2>3
<1>3. IInv /\ Bounded => inFlight <= Limit
  BY LenProperties, LimitAssumption DEF IInv, TypeOK, Owed
<1> QED BY <1>1, <1>2, <1>3, Invariance, PTL DEF Spec
=============================================================================
