----------------------------- MODULE SittingProofs -----------------------------
(***************************************************************************)
(* Theorems about Sitting.tla, with the store of Seats.tla under it: for   *)
(* any Seats, Organizations, machines, processes, wishes and sign-ins. The *)
(* invariant follows a token from where it was read to where it is kept:   *)
(* in a call of the store, in the copy of a vault of one file, in a backup *)
(* being taken or put back (Vaults), it is under a name whose Organization *)
(* it pays for; and what a sitting or a command has in hand fits the await *)
(* it stands at (CallFits, SitFits, CmdFits).                              *)
(***************************************************************************)
EXTENDS Sitting, FunctionTheorems, FiniteSetTheorems, WellFoundedInduction, TLAPS

\* What may be under a name, and vaults with nothing else in them.
Own(n) == IF n \in Names THEN {OrganizationOf[n], None} ELSE {None}
Vaults == {v \in [Names -> Tokens] : \A n \in Names : v[n] \in Own(n)}

-----------------------------------------------------------------------------
(* The order of the Worklist. Every finite set can be told apart by place,  *)
(* has a first, and can be put in the order the Seats are filled in.        *)

LEMMA LargestExists ==
    ASSUME NEW S \in SUBSET Nat, IsFiniteSet(S), S # {}
    PROVE  \E x \in S : \A y \in S : y <= x
<1> DEFINE Above(x) == {y \in S : y > x}
           Counts == {Cardinality(Above(x)) : x \in S}
<1>1. \A x \in S : IsFiniteSet(Above(x)) /\ Cardinality(Above(x)) \in Nat
  BY FS_Subset, FS_CardinalityType
<1>2. Counts \subseteq Nat /\ Counts # {}
  BY <1>1
<1>3. PICK n \in Counts : \A m \in Counts : ~(<<m, n>> \in OpToRel(<, Nat))
  <2> HIDE DEF Counts
  <2> QED BY <1>2, WFMin, NatLessThanWellFounded
<1>4. PICK x \in S : n = Cardinality(Above(x))
  OBVIOUS
<1>5. \A y \in S : ~(Cardinality(Above(y)) < Cardinality(Above(x)))
  BY <1>1, <1>3, <1>4 DEF OpToRel
<1>6. ASSUME NEW y \in S, y > x  PROVE FALSE
  <2>1. Above(y) \subseteq Above(x) /\ y \in Above(x) /\ y \notin Above(y)
    <3>1. \A z \in S : z \in Nat /\ (z > y => z > x)
      BY <1>6
    <3>2. ~(y > y)
      BY <3>1
    <3> QED BY <1>6, <3>1, <3>2
  <2>2. Cardinality(Above(y)) <= Cardinality(Above(x)) /\ Cardinality(Above(y)) # Cardinality(Above(x))
    <3> HIDE DEF Above
    <3> QED BY <2>1, <1>1, FS_Subset
  <2> QED BY <2>2, <1>1, <1>5
<1> QED BY <1>6

\* A finite set in some order, as the code's names and accounts stand.
Enumeration(S) == CHOOSE s \in [1..Cardinality(S) -> S] : \A i, j \in DOMAIN s : s[i] = s[j] => i = j

\* It has a place for each of its elements.
LEMMA PlacesApart ==
    ASSUME NEW S, IsFiniteSet(S)
    PROVE  \A e \in S : /\ Place(Enumeration(S), e) \in 1..Cardinality(S)
                        /\ Enumeration(S)[Place(Enumeration(S), e)] = e
<1> DEFINE n == Cardinality(S)
           order == Enumeration(S)
<1>1. n \in Nat /\ ExistsBijection(1..n, S)
  BY FS_CardinalityType
<1>2. PICK f : f \in Bijection(1..n, S)
  BY <1>1 DEF ExistsBijection
<1>3. f \in [1..n -> S] /\ \A i, j \in DOMAIN f : f[i] = f[j] => i = j
  <2>1. f \in [1..n -> S] /\ \A i, j \in 1..n : f[i] = f[j] => i = j
    BY <1>2 DEF Bijection, Injection, IsInjective
  <2> QED BY <2>1
<1>4. order \in [1..n -> S] /\ \A i, j \in DOMAIN order : order[i] = order[j] => i = j
  BY <1>3 DEF Enumeration
<1> HIDE DEF order
<1>5. order \in Injection(1..n, S)
  BY <1>4 DEF Injection, IsInjective
<1>6. IsFiniteSet(1..n) /\ Cardinality(1..n) = n
  BY <1>1, FS_Interval
<1>7. order \in Surjection(1..n, S)
  BY <1>5, <1>6, FS_Injection
<1>8. \A e \in S : \E i \in 1..n : order[i] = e
  BY <1>7 DEF Surjection
<1>9. \A e \in S : Place(order, e) \in 1..n /\ order[Place(order, e)] = e
  BY <1>4, <1>8 DEF Place
<1> QED BY <1>9 DEF order

LEMMA OrderPlaces ==
    /\ \A n \in Names : Place(Order, n) \in Nat /\ Order[Place(Order, n)] = n
    /\ \A x \in Accounts : Place(AccountOrder, x) \in Nat /\ AccountOrder[Place(AccountOrder, x)] = x
<1>1. Cardinality(Names) \in Nat /\ Cardinality(Accounts) \in Nat
  BY FiniteAssumption, FS_CardinalityType
<1>2. \A n \in Names : Place(Order, n) \in 1..Cardinality(Names) /\ Order[Place(Order, n)] = n
  <2>1. Order = Enumeration(Names)
    BY DEF Order, Enumeration
  <2> QED BY <2>1, FiniteAssumption, PlacesApart
<1>3. \A x \in Accounts : /\ Place(AccountOrder, x) \in 1..Cardinality(Accounts)
                          /\ AccountOrder[Place(AccountOrder, x)] = x
  <2>1. AccountOrder = Enumeration(Accounts)
    BY DEF AccountOrder, Enumeration
  <2> QED BY <2>1, FiniteAssumption, PlacesApart
<1> QED BY <1>1, <1>2, <1>3

\* Whatever Seats there are to see to, one of them is the first.
LEMMA FirstOfIsOne ==
    ASSUME NEW names \in SUBSET Names, names # {}
    PROVE  FirstOf(names) \in names
<1> DEFINE places == {Place(Order, n) : n \in names}
<1>1. places \subseteq Nat /\ places # {}
  BY OrderPlaces
<1>2. PICK k \in places : \A m \in places : ~(<<m, k>> \in OpToRel(<, Nat))
  <2> HIDE DEF places
  <2> QED BY <1>1, WFMin, NatLessThanWellFounded
<1>3. PICK n \in names : k = Place(Order, n)
  OBVIOUS
<1>4. \A i, j \in Nat : ~(<<i, j>> \in OpToRel(<, Nat)) => j <= i
  BY DEF OpToRel
<1>5. \A m \in names : Place(Order, n) <= Place(Order, m)
  BY <1>1, <1>2, <1>3, <1>4
<1> QED BY <1>5 DEF FirstOf

LEMMA BestOfIsANumber ==
    ASSUME NEW wanted \in SUBSET Names, NEW n \in wanted
    PROVE  BestOf(AccountOf[n], wanted) \in Nat
<1> DEFINE its   == {m \in wanted : AccountOf[m] = AccountOf[n]}
           worth == {Multiplier[m] : m \in its}
           of    == [m \in its |-> Multiplier[m]]
<1>1. IsFiniteSet(its)
  <2>1. its \in SUBSET Names
    OBVIOUS
  <2> QED BY <2>1, FiniteAssumption, FS_Subset
<1>2. of \in Surjection(its, worth)
  BY DEF Surjection
<1>3. IsFiniteSet(worth)
  <2> HIDE DEF its, worth, of
  <2> QED BY <1>1, <1>2, FS_Surjection
<1>4. worth \subseteq Nat /\ worth # {}
  BY SeatsAssumption
<1>5. \E w \in worth : \A v \in worth : v <= w
  <2> HIDE DEF worth
  <2> QED BY <1>3, <1>4, LargestExists
<1>6. BestOf(AccountOf[n], wanted) = CHOOSE w \in worth : \A v \in worth : v <= w
  BY DEF BestOf
<1> HIDE DEF worth
<1> QED BY <1>4, <1>5, <1>6

LEMMA GoesFirstIsAnOrder ==
    ASSUME NEW wanted \in SUBSET Names
    PROVE  /\ \A x \in wanted : ~GoesFirst(x, x, wanted)
           /\ \A x, y \in wanted : x # y => GoesFirst(x, y, wanted) \/ GoesFirst(y, x, wanted)
           /\ \A x, y, z \in wanted :
                GoesFirst(x, y, wanted) /\ GoesFirst(y, z, wanted) => GoesFirst(x, z, wanted)
<1> DEFINE best(n) == BestOf(AccountOf[n], wanted)
           acc(n)  == Place(AccountOrder, AccountOf[n])
           own(n)  == Place(Order, n)
<1>1. \A n \in wanted : best(n) \in Nat /\ acc(n) \in Nat /\ own(n) \in Nat /\ Multiplier[n] \in Nat
  BY BestOfIsANumber, OrderPlaces, SeatsAssumption
<1>2. \A x, y \in wanted : /\ acc(x) = acc(y) => AccountOf[x] = AccountOf[y]
                           /\ own(x) = own(y) => x = y
  BY OrderPlaces, SeatsAssumption
<1>3. \A x, y \in wanted :
        GoesFirst(x, y, wanted) <=>
          IF AccountOf[x] # AccountOf[y]
          THEN best(x) > best(y) \/ (best(x) = best(y) /\ acc(x) < acc(y))
          ELSE Multiplier[x] > Multiplier[y] \/ (Multiplier[x] = Multiplier[y] /\ own(x) < own(y))
  BY DEF GoesFirst
<1>4. \A x, y \in wanted : AccountOf[x] = AccountOf[y] => best(x) = best(y) /\ acc(x) = acc(y)
  OBVIOUS
<1> HIDE DEF best, acc, own
<1>5. ASSUME NEW x \in wanted  PROVE ~GoesFirst(x, x, wanted)
  BY <1>1, <1>3
<1>6. ASSUME NEW x \in wanted, NEW y \in wanted, x # y
      PROVE  GoesFirst(x, y, wanted) \/ GoesFirst(y, x, wanted)
  BY <1>6, <1>1, <1>2, <1>3
<1>7. ASSUME NEW x \in wanted, NEW y \in wanted, NEW z \in wanted,
             GoesFirst(x, y, wanted), GoesFirst(y, z, wanted)
      PROVE  GoesFirst(x, z, wanted)
  BY <1>7, <1>1, <1>2, <1>3, <1>4
<1> QED BY <1>5, <1>6, <1>7

\* The Worklist's order is one: each Seat that is to be filled is in it, once. The place of
\* a Seat is the number of those that go before it.
LEMMA EachIsFilledInTurn ==
    ASSUME NEW wanted \in SUBSET Names
    PROVE  LET todo == InTheOrderToFillThem(wanted) IN
           /\ todo \in [1..Cardinality(wanted) -> wanted]
           /\ \A i, j \in 1..Cardinality(wanted) : i < j => GoesFirst(todo[i], todo[j], wanted)
           /\ \A n \in wanted : \E i \in 1..Cardinality(wanted) : todo[i] = n
<1> DEFINE n == Cardinality(wanted)
           Before(x) == {y \in wanted : GoesFirst(y, x, wanted)}
           place == [x \in wanted |-> 1 + Cardinality(Before(x))]
<1>1. IsFiniteSet(wanted) /\ n \in Nat
  BY FiniteAssumption, FS_Subset, FS_CardinalityType
<1>2. \A x \in wanted : /\ Before(x) \subseteq wanted /\ x \notin Before(x)
                        /\ IsFiniteSet(Before(x)) /\ Cardinality(Before(x)) \in Nat
                        /\ Cardinality(Before(x)) < n
  <2> SUFFICES ASSUME NEW x \in wanted
               PROVE  /\ Before(x) \subseteq wanted /\ x \notin Before(x)
                      /\ IsFiniteSet(Before(x)) /\ Cardinality(Before(x)) \in Nat
                      /\ Cardinality(Before(x)) < n
    OBVIOUS
  <2>1. Before(x) \subseteq wanted /\ x \notin Before(x)
    BY GoesFirstIsAnOrder
  <2> HIDE DEF Before
  <2>2. /\ IsFiniteSet(Before(x)) /\ Cardinality(Before(x)) <= n
        /\ (n = Cardinality(Before(x)) => wanted = Before(x))
    BY <2>1, <1>1, FS_Subset
  <2>3. Cardinality(Before(x)) \in Nat
    BY <2>2, FS_CardinalityType
  <2> QED BY <2>1, <2>2, <2>3, <1>1
<1>3. ASSUME NEW x \in wanted, NEW y \in wanted, GoesFirst(x, y, wanted)
      PROVE  place[x] < place[y]
  <2>1. Before(x) \subseteq Before(y) /\ x \in Before(y) /\ x \notin Before(x)
    BY <1>3, GoesFirstIsAnOrder
  <2>2. Cardinality(Before(x)) < Cardinality(Before(y))
    <3> HIDE DEF Before
    <3>1. Cardinality(Before(x)) <= Cardinality(Before(y)) /\ Cardinality(Before(x)) # Cardinality(Before(y))
      BY <2>1, <1>2, FS_Subset
    <3> QED BY <3>1, <1>2
  <2> QED BY <2>2, <1>2
<1>4. place \in [wanted -> 1..n]
  BY <1>1, <1>2
<1>5. \A x, y \in wanted : place[x] = place[y] => x = y
  <2> HIDE DEF place
  <2>1. \A x, y \in wanted : place[x] \in Nat /\ place[y] \in Nat
    BY <1>1, <1>4
  <2> QED BY <2>1, <1>3, GoesFirstIsAnOrder
<1>6. \A i \in 1..n : \E x \in wanted : place[x] = i
  <2> HIDE DEF place
  <2>1. place \in Injection(wanted, 1..n)
    BY <1>4, <1>5 DEF Injection, IsInjective
  <2>2. IsFiniteSet(1..n) /\ Cardinality(1..n) = n
    BY <1>1, FS_Interval
  <2>3. place \in Surjection(wanted, 1..n)
    BY <2>1, <2>2, FS_Injection
  <2> QED BY <2>3 DEF Surjection
<1> HIDE DEF place
<1> DEFINE sorted == [i \in 1..n |-> CHOOSE x \in wanted : place[x] = i]
<1>7. /\ sorted \in [1..n -> wanted] /\ \A i \in 1..n : place[sorted[i]] = i
      /\ \A x \in wanted : sorted[place[x]] = x
  BY <1>4, <1>5, <1>6
<1>8. \A i, j \in 1..n : i < j => GoesFirst(sorted[i], sorted[j], wanted)
  <2> SUFFICES ASSUME NEW i \in 1..n, NEW j \in 1..n, i < j
               PROVE  GoesFirst(sorted[i], sorted[j], wanted)
    OBVIOUS
  <2> HIDE DEF sorted
  <2>1. sorted[i] # sorted[j] /\ ~(place[sorted[j]] < place[sorted[i]])
    BY <1>7
  <2> QED BY <2>1, <1>3, <1>7, GoesFirstIsAnOrder
<1> HIDE DEF sorted
<1> DEFINE InOrder(s) == \A i, j \in DOMAIN s : i < j => GoesFirst(s[i], s[j], wanted)
           todo == InTheOrderToFillThem(wanted)
<1>9. sorted \in [1..n -> wanted] /\ InOrder(sorted)
  BY <1>7, <1>8
<1>10. todo \in [1..n -> wanted] /\ InOrder(todo)
  BY <1>9 DEF InTheOrderToFillThem
<1> HIDE DEF todo
<1>11. \A i, j \in 1..n : i < j => GoesFirst(todo[i], todo[j], wanted)
  BY <1>10
<1>12. \A i, j \in 1..n : todo[i] = todo[j] => i = j
  <2>1. \A i, j \in 1..n : i < j => todo[i] # todo[j]
    BY <1>10, <1>11, GoesFirstIsAnOrder
  <2> QED BY <2>1
<1>13. todo \in Surjection(1..n, wanted)
  <2>1. todo \in Injection(1..n, wanted)
    BY <1>10, <1>12 DEF Injection, IsInjective
  <2> QED BY <2>1, <1>1, FS_Interval, FS_Injection
<1> QED BY <1>10, <1>11, <1>13 DEF Surjection, todo

LEMMA TheOrderIsASequence ==
    ASSUME NEW wanted \in SUBSET Names, wanted # {}
    PROVE  InTheOrderToFillThem(wanted) \in Seq(Names) /\ InTheOrderToFillThem(wanted) # <<>>
<1> DEFINE n == Cardinality(wanted)
           todo == InTheOrderToFillThem(wanted)
<1>1. n \in Nat /\ n # 0
  <2>1. IsFiniteSet(wanted)
    BY FiniteAssumption, FS_Subset
  <2> QED BY <2>1, FS_CardinalityType, FS_EmptySet
<1>2. todo \in [1..n -> wanted]
  BY EachIsFilledInTurn
<1> HIDE DEF todo, n
<1>3. todo \in Seq(wanted) /\ Len(todo) = n
  BY <1>1, <1>2
<1>4. Seq(wanted) \subseteq Seq(Names)
  OBVIOUS
<1> QED BY <1>1, <1>3, <1>4 DEF todo

-----------------------------------------------------------------------------
(* The store: what a call of it has in hand fits how far it is.             *)

Stages == {"idle", "read", "vault", "all of it", "write", "copying", "returned", "threw"}

Calls == [op : {"none", "add", "update", "remove", "list", "token"}, at : Stages,
          name : Names \union {None}, token : Tokens, seen : SUBSET Names,
          found : {None} \union Vaults \union SUBSET Names]

\* A name whose token is added or read, and the token, are of one Organization; only a
\* machine with one file holds a copy of it, and only to change it.
CallFits(c, oneFile) ==
    /\ c \in Calls
    /\ c.token \in Own(c.name)
    /\ (c.op = "none") = (c.at = "idle") /\ (c.at = "idle" => c = Idle)
    /\ c.op \in {"add", "update", "remove", "token"} => c.name \in Names
    /\ c.at = "all of it" => oneFile /\ c.op \in {"add", "remove"} /\ c.found \in Vaults
    /\ c.at \in {"write", "copying"} => c.op \in {"add", "update", "remove"}
    /\ c.op = "add" => c.token # None
    /\ c.op = "remove" => c.token = None
    /\ c.op = "token" /\ c.at = "returned" => c.token # None
    /\ c.op = "list" /\ c.at = "returned" => c.found \in SUBSET Names

\* As it stood before a step of the store, and after it.
SameCall(c, d) == /\ d.op = c.op /\ d.name = c.name /\ c # Idle /\ d # Idle
                  /\ c.op \in {"add", "remove"} => d.token = c.token

LEMMA PutUnderItsName ==
    ASSUME NEW v \in Vaults, NEW n \in Names, NEW t \in Own(n)
    PROVE  [v EXCEPT ![n] = t] \in Vaults
<1>1. t \in Tokens
  BY NamesAssumption DEF Own, Tokens
<1> QED BY <1>1 DEF Vaults

\* A step changes the vault under the name it was called for, and leaves the calls of the
\* other processes as they were.
LEMMA StoreFits ==
    ASSUME NEW p \in Processes, call \in [Processes -> Calls], CallFits(call[p], OneFile),
           vault \in Vaults, file = Torn \/ file \subseteq Names, StoreStep(p)
    PROVE  /\ vault' \in Vaults /\ (file' = Torn \/ file' \subseteq Names) /\ UNCHANGED machine
           /\ call' \in [Processes -> Calls] /\ \A q \in Processes \ {p} : call'[q] = call[q]
           /\ CallFits(call'[p], OneFile) /\ SameCall(call[p], call'[p])
<1> DEFINE c == call[p]
           Founds == {None} \union Vaults \union SUBSET Names
           At(at) == [c EXCEPT !.at = at]
           Looks(at, found) == [c EXCEPT !.found = found, !.at = at]
           TheSame(d) == /\ d \in Calls /\ d.op = c.op /\ d.name = c.name
                         /\ d.at \in Stages \ {"idle"}
           Leaves == /\ call' \in [Processes -> Calls] /\ \A q \in Processes \ {p} : call'[q] = call[q]
                     /\ CallFits(call'[p], OneFile) /\ SameCall(call[p], call'[p])
           Keeps == vault' \in Vaults /\ (file' = Torn \/ file' \subseteq Names) /\ UNCHANGED machine
<1> USE NoneAssumption
<1>1. c \in Calls /\ c.op # "none" /\ c.at # "idle"
  BY DEF CallFits, StoreStep, ReadSeats, Put, Forget, PutItAllBack, LookForEach, LookForOne,
     WriteSeats, CopiedOver
<1>2. ASSUME NEW d, call' = [call EXCEPT ![p] = d], TheSame(d), d.token \in Own(c.name),
             c.op \in {"add", "remove"} => d.token = c.token,
             d.at = "all of it" => OneFile /\ c.op \in {"add", "remove"} /\ d.found \in Vaults,
             d.at \in {"write", "copying"} => c.op \in {"add", "update", "remove"},
             c.op = "token" /\ d.at = "returned" => d.token # None,
             c.op = "list" /\ d.at = "returned" => d.found \in SUBSET Names
      PROVE  Leaves
  <2>1. d # Idle /\ c # Idle
    <3>1. Idle.op = "none"
      BY DEF Idle
    <3> QED BY <3>1, <1>1, <1>2
  <2>2. CallFits(d, OneFile)
    BY <1>1, <1>2 DEF CallFits
  <2>3. SameCall(c, d)
    BY <1>2, <2>1 DEF SameCall
  <2>4. call'[p] = d /\ call' \in [Processes -> Calls] /\ \A q \in Processes \ {p} : call'[q] = call[q]
    BY <1>2
  <2> QED BY <2>2, <2>3, <2>4
<1>3. ASSUME NEW at \in {"vault", "write", "copying", "returned", "threw"},
             at = "returned" => c.op \notin {"list", "token"},
             at \in {"write", "copying"} => c.op \in {"add", "update", "remove"},
             call' = [call EXCEPT ![p] = At(at)]
      PROVE  Leaves
  <2>1. TheSame(At(at)) /\ At(at).token = c.token /\ At(at).at = at
    BY <1>1 DEF Calls, Stages
  <2> HIDE DEF At
  <2>2. c.token \in Own(c.name)
    BY DEF CallFits
  <2> QED BY <2>1, <2>2, <1>2, <1>3
<1>4. ASSUME NEW at \in {"all of it", "write", "returned"}, NEW found \in Founds,
             at = "all of it" => OneFile /\ c.op \in {"add", "remove"} /\ found \in Vaults,
             at = "write" => c.op \in {"add", "remove"},
             at = "returned" => c.op = "list" /\ found \in SUBSET Names,
             call' = [call EXCEPT ![p] = Looks(at, found)]
      PROVE  Leaves
  <2>1. /\ TheSame(Looks(at, found)) /\ Looks(at, found).token = c.token
        /\ Looks(at, found).at = at /\ Looks(at, found).found = found
    BY <1>1 DEF Calls, Stages
  <2> HIDE DEF Looks
  <2>2. c.token \in Own(c.name)
    BY DEF CallFits
  <2> QED BY <2>1, <2>2, <1>2, <1>4
<1>5. ASSUME ReadSeats(p)  PROVE Leaves /\ Keeps
  <2>1. Keeps
    BY <1>5 DEF ReadSeats, disk
  <2>2. CASE file = Torn
    BY <2>1, <2>2, <1>3, <1>5 DEF ReadSeats, Goes
  <2>3. CASE file # Torn
    <3>1. PICK at \in {"vault", "write", "threw"} :
            /\ call' = [call EXCEPT ![p] = [c EXCEPT !.seen = file, !.at = at]]
            /\ at = "write" => c.op = "update"
      BY <2>3, <1>5 DEF ReadSeats
    <3> DEFINE d == [c EXCEPT !.seen = file, !.at = at]
    <3>2. TheSame(d) /\ d.token = c.token /\ d.at = at
      BY <2>3, <1>1 DEF Calls, Stages
    <3> HIDE DEF d
    <3>3. c.token \in Own(c.name)
      BY DEF CallFits
    <3> QED BY <2>1, <3>1, <3>2, <3>3, <1>2 DEF d
  <2> QED BY <2>2, <2>3
<1>6. ASSUME Put(p)  PROVE Leaves /\ Keeps
  <2>1. Keeps
    BY <1>6 DEF Put, CallFits, Calls, Vaults
  <2>2. \/ call' = [call EXCEPT ![p] = At("threw")]
        \/ call' = [call EXCEPT ![p] = At("write")]
        \/ OneFile /\ call' = [call EXCEPT ![p] = Looks("all of it", vault)]
    BY <1>6 DEF Put, Goes
  <2> QED BY <2>1, <2>2, <1>3, <1>4, <1>6 DEF Put
<1>7. ASSUME Forget(p)  PROVE Leaves /\ Keeps
  <2>1. Keeps
    <3>1. c.name \in Names /\ None \in Own(c.name)
      BY <1>7 DEF Forget, CallFits, Own
    <3>2. [vault EXCEPT ![c.name] = None] \in Vaults
      BY <3>1, PutUnderItsName
    <3> QED BY <3>2, <1>7 DEF Forget
  <2>2. \/ call' = [call EXCEPT ![p] = At("write")]
        \/ OneFile /\ call' = [call EXCEPT ![p] = Looks("all of it", vault)]
    BY <1>7 DEF Forget, Goes
  <2> QED BY <2>1, <2>2, <1>3, <1>4, <1>7 DEF Forget
<1>8. ASSUME PutItAllBack(p)  PROVE Leaves /\ Keeps
  <2>1. Keeps
    <3>1. c.name \in Names /\ c.token \in Own(c.name) /\ c.found \in Vaults
      BY <1>8 DEF PutItAllBack, CallFits
    <3>2. [c.found EXCEPT ![c.name] = c.token] \in Vaults
      BY <3>1, PutUnderItsName
    <3> QED BY <3>2, <1>8 DEF PutItAllBack
  <2>2. \/ call' = [call EXCEPT ![p] = Looks("write", None)]
        \/ call' = [call EXCEPT ![p] = At("threw")]
    BY <1>8 DEF PutItAllBack, Goes
  <2>3. c.op \in {"add", "remove"} /\ None \in Founds
    BY <1>8 DEF PutItAllBack, CallFits
  <2> HIDE DEF Founds, At, Looks, Keeps, Leaves
  <2>4. ASSUME call' = [call EXCEPT ![p] = Looks("write", None)]  PROVE Leaves
    BY <2>3, <2>4, <1>4
  <2>5. ASSUME call' = [call EXCEPT ![p] = At("threw")]  PROVE Leaves
    BY <2>5, <1>3
  <2> QED BY <2>1, <2>2, <2>4, <2>5
<1>9. ASSUME LookForEach(p)  PROVE Leaves /\ Keeps
  <2>1. Keeps
    BY <1>9 DEF LookForEach, disk
  <2>2. {n \in c.seen : vault[n] # None} \in SUBSET Names
    BY <1>1 DEF Calls
  <2>3. \/ \E found \in SUBSET Names : call' = [call EXCEPT ![p] = Looks("returned", found)]
        \/ call' = [call EXCEPT ![p] = At("threw")]
    BY <1>9, <2>2 DEF LookForEach, Found, Goes
  <2> QED BY <2>1, <2>3, <1>3, <1>4, <1>9 DEF LookForEach
<1>10. ASSUME LookForOne(p)  PROVE Leaves /\ Keeps
  <2>1. Keeps
    BY <1>10 DEF LookForOne, disk
  <2>2. CASE call' = [call EXCEPT ![p] = At("threw")]
    BY <2>1, <2>2, <1>3
  <2>3. CASE /\ vault[c.name] # None
             /\ call' = [call EXCEPT ![p] = [c EXCEPT !.token = vault[c.name], !.at = "returned"]]
    <3> DEFINE d == [c EXCEPT !.token = vault[c.name], !.at = "returned"]
    <3>1. c.op = "token" /\ c.name \in Names /\ vault[c.name] \in Own(c.name) \intersect Tokens
      BY <1>10 DEF LookForOne, CallFits, Vaults
    <3>2. TheSame(d) /\ d.token = vault[c.name] /\ d.at = "returned"
      BY <3>1, <1>1 DEF Calls, Stages
    <3>3. call' = [call EXCEPT ![p] = d]
      BY <2>3
    <3> HIDE DEF d
    <3> QED BY <2>1, <2>3, <3>1, <3>2, <3>3, <1>2
  <2> QED BY <2>2, <2>3, <1>10 DEF LookForOne, Goes
<1>11. ASSUME WriteSeats(p) \/ CopiedOver(p)  PROVE Leaves /\ Keeps
  <2>1. /\ c.at \in {"write", "copying"} /\ c.op \in {"add", "update", "remove"}
        /\ c.seen \subseteq Names /\ c.name \in Names
    BY <1>1, <1>11 DEF WriteSeats, CopiedOver, CallFits, Calls
  <2>2. Changed(p) \subseteq Names
    BY <2>1 DEF Changed
  <2>3. Keeps
    BY <2>2, <1>11 DEF WriteSeats, CopiedOver
  <2>4. \/ call' = [call EXCEPT ![p] = At("returned")]
        \/ call' = [call EXCEPT ![p] = At("threw")]
        \/ call' = [call EXCEPT ![p] = At("copying")]
    BY <1>11 DEF WriteSeats, CopiedOver, Goes
  <2> QED BY <2>1, <2>3, <2>4, <1>3
<1> QED BY <1>5, <1>6, <1>7, <1>8, <1>9, <1>10, <1>11 DEF StoreStep

-----------------------------------------------------------------------------
(* The sitting and the commands.                                            *)

Points == {"idle", "listing", "settling", "stray", "adopting", "adding it", "removing it", "choosing",
           "listing again", "seat", "minting", "probing", "keeping", "backing up", "packing"}
Truths == BOOLEAN
Phrases == {"none", "held", "off"}
Changes == SUBSET Names
AName == Names \union {None}
Adoptions == {None} \union (Names \X Names)
Fills == Seq(Names)
Dates == Nat \union {None}
Packs == {None} \union Vaults

Sittings ==
    [pc : Points, keyboard : Truths, phrase : Phrases, wanted : Changes,
     only : AName, remint : AName, adopt : Adoptions, list : Truths,
     held : Changes, strays : Changes, settled : Truths, into : AName, from : AName, todo : Fills,
     before : Dates, moved : Truths, token : Tokens, asked : Changes, packed : Packs, touched : Truths]

\* Where nothing is awaited of the store, where a list is, while a Seat is adopted, and
\* from the announcement of a Seat to its backup.
AtRest   == {"idle", "settling", "choosing", "seat", "minting", "probing"}
Listing  == {"listing", "listing again", "backing up"}
Adopting == {"adopting", "adding it", "removing it", "choosing"}
AfterAMint == {"probing", "keeping", "backing up", "packing"}
Filling  == {"seat", "minting"} \union AfterAMint

\* What a sitting has in hand fits the await it stands at, and its call of the store.
SitFits(s, c) ==
    /\ s \in Sittings
    /\ s.pc \in AtRest => c = Idle
    /\ s.pc \in Listing => c.op = "list"
    /\ s.pc \in {"stray", "adopting"} => c.op = "token" /\ c.name = s.from
    /\ s.pc \in Adopting => s.from \in Names /\ s.into \in Names
    /\ s.pc \in {"adding it", "removing it"} => OrganizationOf[s.from] = OrganizationOf[s.into]
    /\ s.pc = "adding it" => c.op = "add" /\ c.name = s.into
    /\ s.pc = "removing it" => c.op = "remove" /\ c.name = s.from
    /\ s.pc = "probing" => s.token # None
    /\ s.pc = "keeping" => c.op = "add"
    /\ s.pc = "packing" => s.packed \in Vaults /\ (c = Idle \/ c.op = "token")
    /\ s.pc \in Filling => s.todo # <<>>

\* A mint that wrote the login either goes on, begun when the login was older, or its
\* sitting knows that it is over.
Warned(s, now) ==
    /\ s.before # None => s.before <= now
    /\ s.touched => \/ s.pc = "minting" /\ (s.before # None => s.before < now)
                    \/ s.pc \in AfterAMint /\ s.moved

\* Between adding a token to its new Seat and removing it from the old one, the new has it.
OneIsHeld(s, c, v) ==
    s.from # s.into =>
      /\ s.pc = "adding it" /\ c.at \in {"write", "copying", "returned"} => v[s.into] # None
      /\ s.pc = "removing it" => v[s.into] # None

Posts == {"idle", "listing", "listing again", "updating", "removing", "adding", "packing"}
Tasks == {"none", "refresh", "undo", "backup", "restore"}
Commands == [pc : Posts, what : Tasks, meant : Truths, todo : Changes, tokens : Packs]

CmdFits(m, c) ==
    /\ m \in Commands
    /\ m.pc = "idle" => c = Idle
    /\ m.pc \in {"listing", "listing again"} => c.op = "list"
    /\ m.pc = "updating" => c = Idle \/ c.op = "update"
    /\ m.pc = "removing" => m.meant /\ (c = Idle \/ c.op = "remove")
    /\ m.pc = "adding" => /\ m.tokens \in Vaults /\ \A n \in m.todo : m.tokens[n] # None
                          /\ c = Idle \/ c.op = "add"
    /\ m.pc = "packing" => m.tokens \in Vaults /\ (c = Idle \/ c.op = "token")

IInv ==
    /\ machine \in Machines /\ (file = Torn \/ file \subseteq Names)
    /\ vault \in Vaults /\ archive \in Vaults
    /\ worklist \in Readings \union {None} /\ login \in 0..MostWrites /\ payer \in Names \union {None}
    /\ call \in [Processes -> Calls] /\ \A p \in Processes : CallFits(call[p], OneFile)
    /\ SitFits(sit, call[Collect]) /\ Warned(sit, login)
    /\ cmd \in [Others -> Commands] /\ told \in BOOLEAN
    /\ \A p \in Others : CmdFits(cmd[p], call[p]) /\ (cmd[p].meant => told)
    /\ ~OneFile /\ ~told => OneIsHeld(sit, call[Collect], vault)

\* Of each field's values, the ones the steps below write.
LEMMA ValuesFit ==
    /\ Points = {"idle", "listing", "settling", "stray", "adopting", "adding it", "removing it", "choosing",
                 "listing again", "seat", "minting", "probing", "keeping", "backing up", "packing"}
    /\ TRUE \in Truths /\ FALSE \in Truths /\ {"none", "held", "off"} \subseteq Phrases
    /\ {} \in Changes /\ None \in AName /\ None \in Adoptions /\ None \in Dates /\ None \in Tokens
    /\ None \in Packs /\ Names \subseteq AName /\ Vaults \subseteq Packs /\ Nat \subseteq Dates
    /\ Organizations \subseteq Tokens /\ <<>> \in Fills
BY DEF Points, Truths, Phrases, Changes, AName, Adoptions, Dates, Tokens, Packs, Fills

LEMMA IdleFits == ASSUME NEW oneFile PROVE CallFits(Idle, oneFile)
<1>1. /\ Idle.op = "none" /\ Idle.at = "idle" /\ Idle.name = None /\ Idle.token = None
      /\ Idle \in Calls
  BY DEF Idle, Calls, Stages, Tokens
<1> QED BY <1>1, NoneAssumption DEF CallFits, Own

\* What is called for, with a token of its own Organization, fits.
LEMMA CallingFits ==
    ASSUME NEW oneFile, NEW op \in {"add", "update", "remove", "list", "token"},
           NEW name \in Names \union {None}, NEW token \in Own(name),
           op # "list" => name \in Names, op = "add" => token # None, op = "remove" => token = None
    PROVE  LET c == Calling(op, name, token) IN
           CallFits(c, oneFile) /\ c.op = op /\ c.name = name /\ c.at = "read" /\ c.token = token
<1> DEFINE c == Calling(op, name, token)
<1>1. token \in Tokens
  BY NamesAssumption DEF Own, Tokens
<1>2. c.op = op /\ c.name = name /\ c.at = "read" /\ c.token = token /\ c \in Calls
  BY <1>1 DEF Calling, Idle, Calls, Stages
<1> HIDE DEF c
<1>3. CallFits(c, oneFile)
  BY <1>2 DEF CallFits
<1> QED BY <1>2, <1>3 DEF c

\* A step of the sitting: what it leaves in hand, and in its call of the store, is all
\* there is to see to.
LEMMA TheSittingMoves ==
    ASSUME IInv, UNCHANGED <<machine, disk, cmd, told>>,
           NEW c, call' = [call EXCEPT ![Collect] = c] \/ (UNCHANGED call /\ c = call[Collect]),
           CallFits(c, OneFile), SitFits(sit', c), Warned(sit', login'), login' \in 0..MostWrites,
           OneIsHeld(sit', c, vault) \/ told \/ OneFile,
           archive' \in Vaults, worklist' \in Readings \union {None}, payer' \in Names \union {None}
    PROVE  IInv'
<1>1. Collect \in Processes /\ Collect \notin Others
  BY CollectAssumption DEF Others
<1>2. /\ call' \in [Processes -> Calls] /\ call'[Collect] = c
      /\ \A p \in Others : p \in Processes /\ call'[p] = call[p]
  BY <1>1 DEF IInv, CallFits, Others
<1>3. \A p \in Processes : CallFits(call'[p], OneFile)
  BY <1>1, <1>2 DEF IInv, Others
<1>4. \A p \in Others : CmdFits(cmd'[p], call'[p]) /\ (cmd'[p].meant => told')
  BY <1>2 DEF IInv
<1>5. OneFile' = OneFile /\ vault' = vault /\ file' = file /\ cmd' = cmd /\ told' = told /\ machine' = machine
  BY DEF OneFile, disk
<1> QED BY <1>2, <1>3, <1>4, <1>5 DEF IInv

\* A sitting that is over.
LEMMA NoSittingFits ==
    /\ SitFits(NoSitting, Idle) /\ NoSitting.pc = "idle"
    /\ \A now : Warned(NoSitting, now)
    /\ \A c, v : OneIsHeld(NoSitting, c, v)
<1>1. NoSitting \in Sittings
  BY ValuesFit DEF NoSitting, Sittings
<1>2. /\ NoSitting.pc = "idle" /\ NoSitting.before = None /\ ~NoSitting.touched
      /\ NoSitting.from = None /\ NoSitting.into = None
  BY DEF NoSitting
<1> HIDE DEF NoSitting
<1>3. SitFits(NoSitting, Idle)
  BY <1>1, <1>2 DEF SitFits, AtRest, Listing, Adopting, Filling, AfterAMint
<1>4. \A now : Warned(NoSitting, now)
  BY <1>2 DEF Warned
<1>5. \A c, v : OneIsHeld(NoSitting, c, v)
  BY <1>2 DEF OneIsHeld
<1> QED BY <1>2, <1>3, <1>4, <1>5

\* What may be used of the invariant in a step of the sitting.
InHand(c) ==
    /\ c = call[Collect] /\ CallFits(c, OneFile) /\ SitFits(sit, c) /\ Warned(sit, login)
    /\ login \in 0..MostWrites /\ archive \in Vaults /\ vault \in Vaults
    /\ worklist \in Readings \union {None} /\ payer \in Names \union {None}
    /\ ~OneFile /\ ~told => OneIsHeld(sit, c, vault)

\* The call of the store is this one from here on, and it fits.
Asked(c) == /\ CallFits(c, OneFile)
            /\ call' = [call EXCEPT ![Collect] = c] \/ (UNCHANGED call /\ c = call[Collect])

LEMMA TheSittingEnds ==
    ASSUME IInv, UNCHANGED <<machine, disk, cmd, told>>, Ends,
           call' = [call EXCEPT ![Collect] = Idle] \/ (UNCHANGED call /\ sit.pc \in AtRest),
           login' = login, archive' \in Vaults, worklist' = worklist, payer' = payer
    PROVE  IInv'
<1>1. call' = [call EXCEPT ![Collect] = Idle] \/ (UNCHANGED call /\ Idle = call[Collect])
  BY DEF IInv, SitFits
<1>2. SitFits(sit', Idle) /\ Warned(sit', login') /\ OneIsHeld(sit', Idle, vault)
  BY NoSittingFits DEF Ends
<1> QED BY <1>1, <1>2, IdleFits, TheSittingMoves DEF IInv

\* Most steps only talk to the store, or to the person.
LEMMA ItOnlyTalks ==
    ASSUME IInv, OnlyTalks, NEW c, Asked(c), SitFits(sit', c), Warned(sit', login),
           OneIsHeld(sit', c, vault) \/ told \/ OneFile
    PROVE  IInv'
<1>1. UNCHANGED <<machine, disk, cmd, told, login, worklist, payer, archive>>
  BY DEF OnlyTalks, Elsewhere, bounds
<1>2. CallFits(c, OneFile) /\ (call' = [call EXCEPT ![Collect] = c] \/ (UNCHANGED call /\ c = call[Collect]))
  BY DEF Asked
<1> QED BY <1>1, <1>2, TheSittingMoves DEF IInv

LEMMA TheSittingIsOver == ASSUME IInv, OnlyTalks, Ends, Heard(Collect)  PROVE IInv'
<1>1. UNCHANGED <<machine, disk, cmd, told, login, worklist, payer, archive>>
  BY DEF OnlyTalks, Elsewhere, bounds
<1>2. archive' \in Vaults
  BY <1>1 DEF IInv
<1> QED BY <1>1, <1>2, TheSittingEnds DEF Heard

\* What is asked of the store is a call that fits, and so is none.
LEMMA AskFits ==
    ASSUME NEW op \in {"add", "update", "remove", "list", "token"},
           NEW name \in Names \union {None}, NEW token \in Own(name), Ask(op, name, token),
           op # "list" => name \in Names, op = "add" => token # None, op = "remove" => token = None
    PROVE  \E c : Asked(c) /\ c.op = op /\ c.name = name /\ c.at = "read" /\ c.token = token
<1> DEFINE c == Calling(op, name, token)
<1>1. CallFits(c, OneFile) /\ c.op = op /\ c.name = name /\ c.at = "read" /\ c.token = token
  BY CallingFits
<1>2. Asked(c)
  BY <1>1 DEF Ask, Asked
<1> QED BY <1>1, <1>2

LEMMA HeardFits == ASSUME Heard(Collect)  PROVE Asked(Idle)
BY IdleFits DEF Heard, Asked

LEMMA TheListing ==
    ASSUME IInv, Start \/ Listed \/ TakesUpAStray \/ SettlesAStray
    PROVE  IInv'
<1> DEFINE c == call[Collect]
<1> USE NoneAssumption
<1>0. InHand(c)
  BY CollectAssumption DEF IInv, InHand
<1>1. CASE Start
  <2>1. PICK w \in Wishes, wanted \in Readings, there \in BOOLEAN :
          /\ sit' = [NoSitting EXCEPT !.pc = "listing", !.wanted = wanted,
                           !.keyboard = there, !.only = w.only,
                           !.remint = w.remint, !.adopt = w.adopt, !.list = w.list]
          /\ worklist' \in Readings \union {None}
    BY <1>1, <1>0 DEF Start, InHand
  <2>2. /\ w \in [only : Names \union {None}, remint : Names \union {None},
                  adopt : {None} \union (Names \X Names), list : BOOLEAN]
        /\ wanted \subseteq Names
    BY InputsAssumption
  <2>3. /\ w.only \in AName /\ w.remint \in AName /\ w.list \in Truths /\ there \in Truths
        /\ w.adopt \in Adoptions /\ wanted \in Changes /\ "listing" \in Points
    BY <2>2, ValuesFit DEF AName, Truths, Adoptions, Changes
  <2>4. sit' \in Sittings /\ sit'.pc = "listing" /\ sit'.before = None /\ ~sit'.touched /\ sit'.from = sit'.into
    <3>1. NoSitting \in Sittings
      BY NoSittingFits DEF SitFits
    <3>2. NoSitting.before = None /\ NoSitting.touched = FALSE /\ NoSitting.from = NoSitting.into
      BY DEF NoSitting
    <3> HIDE DEF NoSitting
    <3>3. sit' \in Sittings
      BY <2>1, <2>3, <3>1 DEF Sittings
    <3>4. sit'.pc = "listing" /\ sit'.before = None /\ ~sit'.touched /\ sit'.from = sit'.into
      BY <2>1, <3>1, <3>2 DEF Sittings
    <3> QED BY <3>3, <3>4
  <2> DEFINE d == Calling("list", None, None)
  <2>5. CallFits(d, OneFile) /\ d.op = "list" /\ call' = [call EXCEPT ![Collect] = d]
    <3>1. None \in Own(None)
      BY DEF Own
    <3>2. CallFits(d, OneFile) /\ d.op = "list"
      BY <3>1, CallingFits
    <3> QED BY <1>1, <3>2 DEF Start, Ask
  <2> HIDE DEF d
  <2>6. SitFits(sit', d) /\ Warned(sit', login') /\ OneIsHeld(sit', d, vault)
    BY <2>4, <2>5 DEF SitFits, Warned, OneIsHeld, AtRest, Listing, Adopting, Filling, AfterAMint
  <2>7. UNCHANGED <<machine, disk, cmd, told, login, archive, payer>>
    BY <1>1 DEF Start
  <2> QED BY <2>1, <2>5, <2>6, <2>7, <1>0, TheSittingMoves DEF InHand
<1> HIDE DEF NoSitting
<1>2. CASE Listed
  <2>1. /\ sit \in Sittings /\ ~sit.touched /\ (sit.before # None => sit.before <= login) /\ OnlyTalks
        /\ c.op = "list" /\ (c.at = "returned" => c.found \in SUBSET Names) /\ c.seen \subseteq Names
    BY <1>2, <1>0 DEF Listed, InHand, SitFits, Warned, AtRest, Listing, AfterAMint, CallFits, Calls
  <2>2. CASE Ends /\ Heard(Collect)
    BY <2>1, <2>2, TheSittingIsOver
  <2>3. CASE /\ sit.adopt # None
             /\ sit' = [sit EXCEPT !.pc = "adopting", !.from = sit.adopt[1], !.into = sit.adopt[2]]
             /\ Ask("token", sit.adopt[1], None)
    <3>1. sit.adopt[1] \in Names /\ sit.adopt[2] \in Names
      BY <2>1, <2>3 DEF Sittings, Adoptions
    <3>2. PICK d : Asked(d) /\ d.op = "token" /\ d.name = sit.adopt[1]
      BY <3>1, <2>3, AskFits DEF Own
    <3>3. sit' \in Sittings
      BY <2>1, <2>3, <3>1, ValuesFit DEF Sittings
    <3>4. /\ sit'.pc = "adopting" /\ sit'.from = sit.adopt[1] /\ sit'.into = sit.adopt[2]
          /\ sit'.before = sit.before /\ sit'.touched = sit.touched
      BY <2>1, <2>3 DEF Sittings
    <3>5. SitFits(sit', d) /\ Warned(sit', login) /\ OneIsHeld(sit', d, vault)
      BY <2>1, <3>1, <3>2, <3>3, <3>4
         DEF SitFits, Warned, OneIsHeld, AtRest, Listing, Adopting, Filling, AfterAMint
    <3> QED BY <2>1, <3>2, <3>5, ItOnlyTalks
  <2>4. CASE /\ Returned(Collect) /\ Heard(Collect)
             /\ sit' = [sit EXCEPT !.pc = "settling", !.held = c.found, !.strays = c.seen \ sit.wanted]
    <3>1. c.found \in Changes /\ c.seen \ sit.wanted \in Changes
      BY <2>1, <2>4 DEF Returned, Changes
    <3>3. sit' \in Sittings
      BY <2>1, <2>4, <3>1, ValuesFit, ZenonT(60) DEF Sittings
    <3>4. sit'.pc = "settling" /\ sit'.before = sit.before /\ sit'.touched = sit.touched
      BY <2>1, <2>4 DEF Sittings
    <3>5. SitFits(sit', Idle) /\ Warned(sit', login) /\ OneIsHeld(sit', Idle, vault)
      BY <2>1, <3>3, <3>4 DEF SitFits, Warned, OneIsHeld, AtRest, Listing, Adopting, Filling, AfterAMint
    <3> QED BY <2>1, <2>4, <3>5, HeardFits, ItOnlyTalks
  <2> QED BY <1>2, <2>2, <2>3, <2>4 DEF Listed
<1>3. CASE TakesUpAStray
  <2>1. /\ sit \in Sittings /\ ~sit.touched /\ (sit.before # None => sit.before <= login) /\ OnlyTalks
    BY <1>3, <1>0 DEF TakesUpAStray, InHand, SitFits, Warned, AtRest, AfterAMint
  <2>2. PICK n \in sit.strays : /\ sit' = [sit EXCEPT !.pc = "stray", !.strays = @ \ {n}, !.from = n]
                               /\ Ask("token", n, None)
    BY <1>3 DEF TakesUpAStray
  <2>3. n \in Names /\ n \in AName /\ sit.strays \ {n} \in Changes
    BY <2>1, ValuesFit DEF Sittings, Changes
  <2>4. PICK d : Asked(d) /\ d.op = "token" /\ d.name = n
    BY <2>2, <2>3, AskFits DEF Own
  <2>5. sit' \in Sittings
    BY <2>1, <2>2, <2>3, ValuesFit DEF Sittings
  <2>6. sit'.pc = "stray" /\ sit'.from = n /\ sit'.before = sit.before /\ sit'.touched = sit.touched
    BY <2>1, <2>2 DEF Sittings
  <2>7. SitFits(sit', d) /\ Warned(sit', login) /\ OneIsHeld(sit', d, vault)
    BY <2>1, <2>4, <2>5, <2>6 DEF SitFits, Warned, OneIsHeld, AtRest, Listing, Adopting, Filling, AfterAMint
  <2> QED BY <2>1, <2>4, <2>7, ItOnlyTalks
<1>4. CASE SettlesAStray
  <2>1. /\ sit \in Sittings /\ ~sit.touched /\ (sit.before # None => sit.before <= login) /\ OnlyTalks
        /\ c.op = "token" /\ c.name = sit.from /\ sit.from \in Names
    BY <1>4, <1>0 DEF SettlesAStray, InHand, SitFits, Warned, AtRest, AfterAMint, CallFits
  <2>2. CASE sit' = [sit EXCEPT !.pc = "settling", !.from = None] /\ Heard(Collect)
    <3>1. sit' \in Sittings
      BY <2>1, <2>2, ValuesFit DEF Sittings
    <3>2. sit'.pc = "settling" /\ sit'.before = sit.before /\ sit'.touched = sit.touched
      BY <2>1, <2>2 DEF Sittings
    <3>3. SitFits(sit', Idle) /\ Warned(sit', login) /\ OneIsHeld(sit', Idle, vault)
      BY <2>1, <3>1, <3>2 DEF SitFits, Warned, OneIsHeld, AtRest, Listing, Adopting, Filling, AfterAMint
    <3> QED BY <2>1, <2>2, <3>3, HeardFits, ItOnlyTalks
  <2>3. ASSUME NEW n \in sit.wanted, sit' = [sit EXCEPT !.pc = "adopting", !.into = n],
               Ask("token", sit.from, None)
        PROVE  IInv'
    <3>1. n \in Names /\ n \in AName
      BY <2>1, ValuesFit DEF Sittings, Changes
    <3>2. PICK d : Asked(d) /\ d.op = "token" /\ d.name = sit.from
      BY <2>1, <2>3, AskFits DEF Own
    <3>3. sit' \in Sittings
      BY <2>1, <2>3, <3>1, ValuesFit DEF Sittings
    <3>4. /\ sit'.pc = "adopting" /\ sit'.from = sit.from /\ sit'.into = n
          /\ sit'.before = sit.before /\ sit'.touched = sit.touched
      BY <2>1, <2>3 DEF Sittings
    <3>5. SitFits(sit', d) /\ Warned(sit', login) /\ OneIsHeld(sit', d, vault)
      BY <2>1, <3>1, <3>2, <3>3, <3>4
         DEF SitFits, Warned, OneIsHeld, AtRest, Listing, Adopting, Filling, AfterAMint
    <3> QED BY <2>1, <3>2, <3>5, ItOnlyTalks
  <2> QED BY <1>4, <2>2, <2>3 DEF SettlesAStray
<1> QED BY <1>1, <1>2, <1>3, <1>4

\* The Probe proves a token for a Seat only where it is the token of its Organization.
LEMMA WhatIsProvedPays ==
    ASSUME NEW n, NEW token, TRUE \in Proved(n, token)  PROVE token = OrganizationOf[n]
<1>1. PICK answer \in Answers(token) : ProvesTheSeat(Judge(n, answer)) = TRUE
  BY DEF Proved
<1>2. answer.paidBy # None /\ answer.paidBy = OrganizationOf[n]
  BY <1>1 DEF ProvesTheSeat, Judge
<1> QED BY <1>2 DEF Answers

LEMMA AnAdoptionEnds ==
    ASSUME sit \in Sittings, ~sit.touched, sit.before # None => sit.before <= login,
           NEW kept \in BOOLEAN, AdoptionEnds(kept)
    PROVE  SitFits(sit', Idle) /\ Warned(sit', login) /\ OneIsHeld(sit', Idle, vault)
<1>1. CASE Ends
  BY <1>1, NoSittingFits DEF Ends
<1>2. CASE sit' = [sit EXCEPT !.pc = "settling", !.from = None, !.into = None, !.settled = @ \/ kept]
  <2>1. (sit.settled \/ kept) \in Truths
    BY DEF Truths
  <2>2. sit' \in Sittings
    BY <1>2, <2>1, ValuesFit, ZenonT(60) DEF Sittings
  <2>3. sit'.pc = "settling" /\ sit'.before = sit.before /\ sit'.touched = sit.touched
    BY <1>2 DEF Sittings
  <2> QED BY <2>2, <2>3 DEF SitFits, Warned, OneIsHeld, AtRest, Listing, Adopting, Filling, AfterAMint
<1> QED BY <1>1, <1>2 DEF AdoptionEnds

LEMMA TheAdoption ==
    ASSUME IInv, ProbesForAdoption \/ AddedIt \/ RemovedIt \/ NamesItInTheChoice
    PROVE  IInv'
<1> DEFINE c == call[Collect]
<1> USE NoneAssumption
<1>0. InHand(c)
  BY CollectAssumption DEF IInv, InHand
<1>1. /\ sit \in Sittings /\ ~sit.touched /\ (sit.before # None => sit.before <= login)
      /\ sit.from \in Names /\ sit.into \in Names
  BY <1>0 DEF ProbesForAdoption, AddedIt, RemovedIt, NamesItInTheChoice,
              InHand, SitFits, Warned, Adopting, AfterAMint
<1>2. CASE ProbesForAdoption
  <2>1. OnlyTalks /\ c.op = "token" /\ c.name = sit.from /\ c.token \in Own(c.name)
        /\ (c.at = "returned" => c.token # None)
    BY <1>2, <1>0 DEF ProbesForAdoption, InHand, SitFits, CallFits
  <2>2. CASE AdoptionEnds(FALSE) /\ Heard(Collect)
    <3>1. SitFits(sit', Idle) /\ Warned(sit', login) /\ OneIsHeld(sit', Idle, vault)
      BY <1>1, <2>2, AnAdoptionEnds
    <3> QED BY <2>1, <2>2, <3>1, HeardFits, ItOnlyTalks
  <2>3. CASE /\ Returned(Collect) /\ TRUE \in Proved(sit.into, c.token)
             /\ sit' = [sit EXCEPT !.pc = "adding it", !.token = c.token]
             /\ Ask("add", sit.into, c.token)
    <3>1. c.token = OrganizationOf[sit.from] /\ c.token = OrganizationOf[sit.into] /\ c.token # None
      BY <1>1, <2>1, <2>3, WhatIsProvedPays DEF Returned, Own
    <3>2. c.token \in Own(sit.into) /\ c.token \in Tokens
      BY <1>1, <3>1, NamesAssumption DEF Own, Tokens
    <3>3. PICK d : Asked(d) /\ d.op = "add" /\ d.name = sit.into /\ d.at = "read"
      BY <1>1, <2>3, <3>1, <3>2, AskFits
    <3>4. sit' \in Sittings
      BY <1>1, <2>3, <3>2, ValuesFit, ZenonT(60) DEF Sittings
    <3>5. /\ sit'.pc = "adding it" /\ sit'.from = sit.from /\ sit'.into = sit.into
          /\ sit'.before = sit.before /\ sit'.touched = sit.touched
      BY <1>1, <2>3 DEF Sittings
    <3>6. SitFits(sit', d) /\ Warned(sit', login) /\ OneIsHeld(sit', d, vault)
      BY <1>1, <3>1, <3>3, <3>4, <3>5
         DEF SitFits, Warned, OneIsHeld, AtRest, Listing, Adopting, Filling, AfterAMint
    <3> QED BY <2>1, <3>3, <3>6, ItOnlyTalks
  <2> QED BY <1>2, <2>2, <2>3 DEF ProbesForAdoption
<1>3. CASE AddedIt
  <2>1. /\ OnlyTalks /\ OrganizationOf[sit.from] = OrganizationOf[sit.into]
        /\ sit.pc = "adding it"
    BY <1>3, <1>0 DEF AddedIt, InHand, SitFits
  <2>2. CASE Ends /\ Heard(Collect)
    BY <2>1, <2>2, TheSittingIsOver
  <2>3. CASE /\ Returned(Collect) /\ sit' = [sit EXCEPT !.pc = "removing it", !.token = None]
             /\ Ask("remove", sit.from, None)
    <3>1. None \in Own(sit.from)
      BY DEF Own
    <3>2. PICK d : Asked(d) /\ d.op = "remove" /\ d.name = sit.from
      BY <1>1, <2>3, <3>1, AskFits
    <3>3. sit' \in Sittings
      BY <1>1, <2>3, ValuesFit DEF Sittings
    <3>4. /\ sit'.pc = "removing it" /\ sit'.from = sit.from /\ sit'.into = sit.into
          /\ sit'.before = sit.before /\ sit'.touched = sit.touched
      BY <1>1, <2>3 DEF Sittings
    <3>5. SitFits(sit', d) /\ Warned(sit', login)
      BY <1>1, <2>1, <3>2, <3>3, <3>4 DEF SitFits, Warned, AtRest, Listing, Adopting, Filling, AfterAMint
    <3>6. OneIsHeld(sit', d, vault) \/ told \/ OneFile
      BY <1>0, <2>1, <2>3, <3>4 DEF InHand, OneIsHeld, Returned
    <3> QED BY <2>1, <3>2, <3>5, <3>6, ItOnlyTalks
  <2> QED BY <1>3, <2>2, <2>3 DEF AddedIt
<1>4. CASE RemovedIt
  <2>1. OnlyTalks /\ Heard(Collect)
    BY <1>4 DEF RemovedIt
  <2>2. CASE Ends
    BY <2>1, <2>2, TheSittingIsOver
  <2>3. CASE sit' = [sit EXCEPT !.pc = "choosing"]
    <3>1. sit' \in Sittings
      BY <1>1, <2>3, ValuesFit DEF Sittings
    <3>2. /\ sit'.pc = "choosing" /\ sit'.from = sit.from /\ sit'.into = sit.into
          /\ sit'.before = sit.before /\ sit'.touched = sit.touched
      BY <1>1, <2>3 DEF Sittings
    <3>3. SitFits(sit', Idle) /\ Warned(sit', login) /\ OneIsHeld(sit', Idle, vault)
      BY <1>1, <3>1, <3>2 DEF SitFits, Warned, OneIsHeld, AtRest, Listing, Adopting, Filling, AfterAMint
    <3> QED BY <2>1, <3>3, HeardFits, ItOnlyTalks
  <2>4. CASE AdoptionEnds(TRUE)
    <3>1. SitFits(sit', Idle) /\ Warned(sit', login) /\ OneIsHeld(sit', Idle, vault)
      BY <1>1, <2>4, AnAdoptionEnds
    <3> QED BY <2>1, <3>1, HeardFits, ItOnlyTalks
  <2> QED BY <1>4, <2>2, <2>3, <2>4 DEF RemovedIt
<1>5. CASE NamesItInTheChoice
  <2>1. SitFits(sit', Idle) /\ Warned(sit', login) /\ OneIsHeld(sit', Idle, vault)
    BY <1>1, <1>5, AnAdoptionEnds DEF NamesItInTheChoice
  <2>2. UNCHANGED <<machine, disk, cmd, told, login, call, worklist, archive>> /\ payer' \in Names
    BY <1>1, <1>5 DEF NamesItInTheChoice, Elsewhere, bounds
  <2>3. Idle = call[Collect]
    BY <1>0, <1>5 DEF NamesItInTheChoice, InHand, SitFits, AtRest
  <2> QED BY <1>0, <2>1, <2>2, <2>3, IdleFits, TheSittingMoves DEF InHand
<1> QED BY <1>2, <1>3, <1>4, <1>5

LEMMA TheStandings ==
    ASSUME IInv, ListsAgain \/ ListedAgain \/ Stands  PROVE IInv'
<1> DEFINE c == call[Collect]
<1> USE NoneAssumption
<1>0. InHand(c)
  BY CollectAssumption DEF IInv, InHand
<1>1. sit \in Sittings /\ ~sit.touched /\ (sit.before # None => sit.before <= login) /\ OnlyTalks
  BY <1>0 DEF ListsAgain, ListedAgain, Stands, InHand, SitFits, Warned, AfterAMint
<1>2. CASE ListsAgain
  <2>1. PICK d : Asked(d) /\ d.op = "list"
    <3>1. None \in Own(None)
      BY DEF Own
    <3>2. Ask("list", None, None)
      BY <1>2 DEF ListsAgain
    <3>3. \E d : Asked(d) /\ d.op = "list" /\ d.name = None /\ d.at = "read" /\ d.token = None
      BY <3>1, <3>2, AskFits
    <3> QED BY <3>3
  <2>2. sit' \in Sittings
    BY <1>1, <1>2, ValuesFit, ZenonT(60) DEF ListsAgain, Sittings
  <2>3. sit'.pc = "listing again" /\ sit'.before = sit.before /\ sit'.touched = sit.touched
    BY <1>1, <1>2 DEF ListsAgain, Sittings
  <2>4. SitFits(sit', d) /\ Warned(sit', login) /\ OneIsHeld(sit', d, vault)
    BY <1>1, <2>1, <2>2, <2>3 DEF SitFits, Warned, OneIsHeld, AtRest, Listing, Adopting, Filling, AfterAMint
  <2> QED BY <1>1, <2>1, <2>4, ItOnlyTalks
<1>3. CASE ListedAgain
  <2>1. Heard(Collect) /\ c.op = "list" /\ (c.at = "returned" => c.found \in Changes)
    BY <1>3, <1>0 DEF ListedAgain, InHand, SitFits, Listing, CallFits, Changes
  <2>2. CASE Ends
    BY <1>1, <2>1, <2>2, TheSittingIsOver
  <2>3. CASE /\ Returned(Collect)
             /\ sit' = [sit EXCEPT !.pc = "settling", !.settled = FALSE, !.held = c.found]
    <3>1. sit' \in Sittings
      BY <1>1, <2>1, <2>3, ValuesFit DEF Returned, Sittings
    <3>2. sit'.pc = "settling" /\ sit'.before = sit.before /\ sit'.touched = sit.touched
      BY <1>1, <2>3 DEF Sittings
    <3>3. SitFits(sit', Idle) /\ Warned(sit', login) /\ OneIsHeld(sit', Idle, vault)
      BY <1>1, <3>1, <3>2 DEF SitFits, Warned, OneIsHeld, AtRest, Listing, Adopting, Filling, AfterAMint
    <3> QED BY <1>1, <2>1, <3>3, HeardFits, ItOnlyTalks
  <2> QED BY <1>3, <2>2, <2>3 DEF ListedAgain
<1>4. CASE Stands
  <2>1. UNCHANGED call /\ c = Idle
    BY <1>4, <1>0 DEF Stands, InHand, SitFits, AtRest
  <2>2. Asked(Idle)
    BY <2>1, IdleFits DEF Asked
  <2>3. CASE Ends
    BY <1>1, <2>2, <2>3, NoSittingFits, ItOnlyTalks DEF Ends
  <2>4. ASSUME NEW todo \in SUBSET Names, todo # {},
               sit' = [NoSitting EXCEPT !.pc = "seat", !.keyboard = sit.keyboard,
                         !.todo = InTheOrderToFillThem(todo)]
        PROVE  IInv'
    <3>1. InTheOrderToFillThem(todo) \in Fills /\ InTheOrderToFillThem(todo) # <<>>
      BY <2>4, TheOrderIsASequence DEF Fills
    <3>2. NoSitting \in Sittings /\ NoSitting.before = None /\ NoSitting.touched = FALSE
      BY ValuesFit DEF NoSitting, Sittings
    <3>3. sit.keyboard \in Truths
      BY <1>1 DEF Sittings
    <3> HIDE DEF NoSitting
    <3>4. sit' \in Sittings
      BY <2>4, <3>1, <3>2, <3>3, ValuesFit DEF Sittings
    <3>5. /\ sit'.pc = "seat" /\ sit'.before = None /\ sit'.touched = FALSE
          /\ sit'.todo = InTheOrderToFillThem(todo)
      BY <2>4, <3>2 DEF Sittings
    <3>6. SitFits(sit', Idle) /\ Warned(sit', login) /\ OneIsHeld(sit', Idle, vault)
      BY <3>1, <3>4, <3>5 DEF SitFits, Warned, OneIsHeld, AtRest, Listing, Adopting, Filling, AfterAMint
    <3> QED BY <1>1, <2>2, <3>6, ItOnlyTalks
  <2>5. PICK broken \in SUBSET (sit.wanted \intersect sit.held) :
          LET missing == (sit.wanted \ sit.held) \union broken \union ({sit.remint} \ {None})
              todo    == IF sit.only = None THEN missing ELSE missing \intersect {sit.only}
          IN  IF todo = {} \/ sit.list THEN Ends
              ELSE sit' = [NoSitting EXCEPT !.pc = "seat", !.keyboard = sit.keyboard,
                                  !.todo = InTheOrderToFillThem(todo)]
    BY <1>4 DEF Stands
  <2> DEFINE missing == (sit.wanted \ sit.held) \union broken \union ({sit.remint} \ {None})
             todo    == IF sit.only = None THEN missing ELSE missing \intersect {sit.only}
  <2>6. todo \in SUBSET Names
    BY <1>1 DEF Sittings, Changes, AName
  <2> HIDE DEF missing
  <2>7. \/ Ends
        \/ /\ todo # {}
           /\ sit' = [NoSitting EXCEPT !.pc = "seat", !.keyboard = sit.keyboard,
                         !.todo = InTheOrderToFillThem(todo)]
    BY <2>5 DEF missing
  <2> QED BY <2>3, <2>4, <2>6, <2>7
<1> QED BY <1>2, <1>3, <1>4

LEMMA ARestIsLeft ==
    ASSUME NEW S, NEW todo \in Seq(S), Len(todo) > 1  PROVE Tail(todo) \in Seq(S) /\ Tail(todo) # <<>>
<1>1. Len(todo) \in Nat /\ Tail(todo) \in Seq(S) /\ Len(Tail(todo)) = Len(todo) - 1
  OBVIOUS
<1>2. Len(Tail(todo)) # 0
  BY <1>1
<1>3. Tail(todo) # <<>>
  <2>1. Len(<<>>) = 0
    OBVIOUS
  <2> QED BY <1>2, <2>1, Zenon
<1> QED BY <1>1, <1>3

\* After one Seat, whatever was in hand: over where the login may have moved.
LEMMA ItCarriesOn ==
    ASSUME NEW s \in Sittings, s.todo # <<>>, s.before # None => s.before <= login,
           s.touched => s.moved, CarriesOn(s)
    PROVE  SitFits(sit', Idle) /\ Warned(sit', login) /\ OneIsHeld(sit', Idle, vault)
<1> USE NoneAssumption
<1>1. CASE Ends
  BY <1>1, NoSittingFits DEF Ends
<1>2. CASE /\ ~s.moved /\ Len(s.todo) > 1
           /\ sit' = [s EXCEPT !.pc = "seat", !.todo = Tail(@), !.before = None, !.token = None,
                         !.asked = {}, !.packed = None]
  <2>1. s.todo \in Seq(Names)
    BY DEF Sittings, Fills
  <2>2. Tail(s.todo) \in Fills /\ Tail(s.todo) # <<>>
    <3>1. Len(s.todo) > 1
      BY <1>2, Zenon
    <3> QED BY <2>1, <3>1, ARestIsLeft DEF Fills
  <2>3. sit' \in Sittings
    BY <1>2, <2>2, ValuesFit DEF Sittings
  <2>4. sit'.pc = "seat" /\ sit'.before = None /\ sit'.todo = Tail(s.todo) /\ sit'.touched = s.touched
    BY <1>2 DEF Sittings
  <2> QED BY <1>2, <2>2, <2>3, <2>4 DEF SitFits, Warned, OneIsHeld, AtRest, Listing, Adopting, Filling, AfterAMint
<1> QED BY <1>1, <1>2 DEF CarriesOn

LEMMA TheMint ==
    ASSUME IInv, Announces \/ MintWritesTheLogin \/ SignsIn \/ Minted \/ Probed  PROVE IInv'
<1> DEFINE c == call[Collect]
<1> USE NoneAssumption
<1>0. InHand(c)
  BY CollectAssumption DEF IInv, InHand
<1>1. /\ sit \in Sittings /\ (sit.before # None => sit.before <= login) /\ login \in Nat
      /\ sit.before \in Nat \union {None} /\ MostWrites \in Nat
  <2>1. sit \in Sittings /\ (sit.before # None => sit.before <= login) /\ login \in 0..MostWrites
    BY <1>0 DEF InHand, SitFits, Warned
  <2>2. MostWrites \in Nat
    BY InputsAssumption
  <2>3. sit.before \in Nat \union {None}
    BY <2>1 DEF Sittings, Dates
  <2> QED BY <2>1, <2>2, <2>3
<1>2. CASE Announces
  <2>1. UNCHANGED call /\ c = Idle /\ OnlyTalks /\ ~sit.touched /\ sit.todo # <<>>
    BY <1>2, <1>0 DEF Announces, InHand, SitFits, Warned, AtRest, Filling, AfterAMint
  <2>2. Asked(Idle)
    BY <2>1, IdleFits DEF Asked
  <2>3. CASE Ends
    BY <2>1, <2>2, <2>3, NoSittingFits, ItOnlyTalks DEF Ends
  <2>4. ASSUME NEW before \in {login, None}, sit' = [sit EXCEPT !.pc = "minting", !.before = before]
        PROVE  IInv'
    <3>1. before \in Dates
      BY <1>1 DEF Dates
    <3>2. sit' \in Sittings
      BY <1>1, <2>4, <3>1, ValuesFit DEF Sittings
    <3>3. sit'.pc = "minting" /\ sit'.before = before /\ sit'.todo = sit.todo /\ sit'.touched = sit.touched
      BY <1>1, <2>4 DEF Sittings
    <3>4. SitFits(sit', Idle) /\ Warned(sit', login) /\ OneIsHeld(sit', Idle, vault)
      BY <1>1, <2>1, <3>2, <3>3 DEF SitFits, Warned, OneIsHeld, AtRest, Listing, Adopting, Filling, AfterAMint
    <3> QED BY <2>1, <2>2, <3>4, ItOnlyTalks
  <2> QED BY <1>2, <2>3, <2>4 DEF Announces
<1>3. CASE MintWritesTheLogin
  <2>1. /\ UNCHANGED <<machine, disk, cmd, told, call, worklist, payer, archive>> /\ login' = login + 1
        /\ login < MostWrites /\ sit.pc = "minting"
    BY <1>3 DEF MintWritesTheLogin, bounds
  <2>2. c = Idle /\ sit.todo # <<>>
    BY <2>1, <1>0 DEF InHand, SitFits, AtRest, Filling
  <2>3. sit' \in Sittings
    BY <1>1, <1>3, ValuesFit DEF MintWritesTheLogin, Sittings
  <2>4. sit'.pc = sit.pc /\ sit'.before = sit.before /\ sit'.todo = sit.todo
    BY <1>1, <1>3 DEF MintWritesTheLogin, Sittings
  <2>5. SitFits(sit', Idle) /\ Warned(sit', login') /\ OneIsHeld(sit', Idle, vault)
    BY <1>1, <2>1, <2>2, <2>3, <2>4 DEF SitFits, Warned, OneIsHeld, AtRest, Listing, Adopting, Filling, AfterAMint
  <2>6. login' \in 0..MostWrites
    BY <1>1, <2>1
  <2> QED BY <1>0, <2>1, <2>2, <2>5, <2>6, IdleFits, TheSittingMoves DEF InHand
<1>4. CASE SignsIn
  <2>1. /\ UNCHANGED <<machine, disk, cmd, told, call, worklist, payer, archive, sit>>
        /\ login' = login + 1 /\ login' \in 0..MostWrites
    BY <1>1, <1>4 DEF SignsIn, bounds
  <2>2. Warned(sit', login')
    BY <1>0, <1>1, <2>1 DEF InHand, Warned
  <2>3. SitFits(sit', c) /\ (OneIsHeld(sit', c, vault) \/ told \/ OneFile)
    BY <1>0, <2>1 DEF InHand
  <2> QED BY <1>0, <2>1, <2>2, <2>3, TheSittingMoves DEF InHand
<1>5. CASE Minted
  <2>1. UNCHANGED call /\ c = Idle /\ OnlyTalks /\ sit.pc = "minting" /\ sit.todo # <<>>
    BY <1>5, <1>0 DEF Minted, InHand, SitFits, AtRest, Filling
  <2>2. Asked(Idle)
    BY <2>1, IdleFits DEF Asked
  <2>3. PICK after \in {login, None} :
          LET looked == [sit EXCEPT !.moved = Moved(sit.before, after)] IN
          \/ NothingMinted(looked)
          \/ \E o \in Organizations : sit' = [looked EXCEPT !.pc = "probing", !.token = o]
          \/ Ends
    BY <1>5 DEF Minted
  <2> DEFINE looked == [sit EXCEPT !.moved = Moved(sit.before, after)]
  <2>4. looked \in Sittings /\ looked.moved = Moved(sit.before, after)
    <3>1. Moved(sit.before, after) \in Truths
      BY DEF Moved, Truths
    <3> HIDE DEF Moved
    <3>2. looked \in Sittings
      BY <1>1, <3>1 DEF Sittings
    <3>3. looked.moved = Moved(sit.before, after)
      BY <1>1, <3>1, Zenon DEF Sittings
    <3> QED BY <3>2, <3>3
  <2>5. looked.todo = sit.todo /\ looked.before = sit.before /\ looked.touched = sit.touched
    BY <1>1 DEF Sittings
  <2>6. sit.touched => Moved(sit.before, after)
    BY <1>0, <1>1, <2>1 DEF InHand, Warned, Moved, AfterAMint
  <2>7. looked.touched => looked.moved
    BY <2>4, <2>5, <2>6, Zenon
  <2> HIDE DEF looked
  <2>8. CASE CarriesOn(looked)
    <3>1. SitFits(sit', Idle) /\ Warned(sit', login) /\ OneIsHeld(sit', Idle, vault)
      BY <1>1, <2>1, <2>4, <2>5, <2>7, <2>8, ItCarriesOn
    <3> QED BY <2>1, <2>2, <3>1, ItOnlyTalks
  <2>9. ASSUME NEW o \in Organizations, sit' = [looked EXCEPT !.pc = "probing", !.token = o]
        PROVE  IInv'
    <3>1. o \in Tokens /\ o # None
      BY NamesAssumption DEF Tokens
    <3>2. sit' \in Sittings
      BY <2>4, <2>9, <3>1, ValuesFit DEF Sittings
    <3>3. /\ sit'.pc = "probing" /\ sit'.before = looked.before /\ sit'.todo = looked.todo
          /\ sit'.touched = looked.touched /\ sit'.moved = looked.moved /\ sit'.token = o
      BY <2>4, <2>9 DEF Sittings
    <3>4. SitFits(sit', Idle) /\ Warned(sit', login) /\ OneIsHeld(sit', Idle, vault)
      BY <1>1, <2>1, <2>5, <2>7, <3>1, <3>2, <3>3 DEF SitFits, Warned, OneIsHeld, AtRest, Listing, Adopting, Filling, AfterAMint
    <3> QED BY <2>1, <2>2, <3>4, ItOnlyTalks
  <2>10. CASE Ends
    BY <2>1, <2>2, <2>10, NoSittingFits, ItOnlyTalks DEF Ends
  <2>11. \/ CarriesOn(looked) \/ Ends
         \/ \E o \in Organizations : sit' = [looked EXCEPT !.pc = "probing", !.token = o]
    BY <2>3 DEF looked, NothingMinted
  <2> QED BY <2>8, <2>9, <2>10, <2>11
<1>6. CASE Probed
  <2>1. /\ c = Idle /\ OnlyTalks /\ sit.token # None /\ sit.todo # <<>>
        /\ (sit.touched => sit.moved)
    BY <1>6, <1>0 DEF Probed, InHand, SitFits, Warned, AtRest, Filling, AfterAMint
  <2>2. CASE CarriesOn(sit) /\ UNCHANGED call
    <3>1. SitFits(sit', Idle) /\ Warned(sit', login) /\ OneIsHeld(sit', Idle, vault)
      BY <1>1, <2>1, <2>2, ItCarriesOn
    <3>2. Asked(Idle)
      BY <2>1, <2>2, IdleFits DEF Asked
    <3> QED BY <2>1, <3>1, <3>2, ItOnlyTalks
  <2>3. CASE /\ TRUE \in Proved(Seat, sit.token)
             /\ sit' = [sit EXCEPT !.pc = "keeping", !.token = None]
             /\ Ask("add", Seat, sit.token)
    <3>1. Seat \in Names
      BY <1>1, <2>1 DEF Seat, Sittings, Fills
    <3>2. sit.token = OrganizationOf[Seat]
      BY <2>3, WhatIsProvedPays
    <3>3. sit.token \in Own(Seat)
      BY <3>1, <3>2 DEF Own
    <3>4. PICK d : Asked(d) /\ d.op = "add" /\ d.name = Seat
      BY <2>1, <2>3, <3>1, <3>3, AskFits
    <3>5. sit' \in Sittings
      BY <1>1, <2>3, ValuesFit, ZenonT(60) DEF Sittings
    <3>6. /\ sit'.pc = "keeping" /\ sit'.before = sit.before /\ sit'.todo = sit.todo
          /\ sit'.touched = sit.touched /\ sit'.moved = sit.moved
      BY <1>1, <2>3 DEF Sittings
    <3>7. SitFits(sit', d) /\ Warned(sit', login) /\ OneIsHeld(sit', d, vault)
      BY <1>1, <2>1, <3>4, <3>5, <3>6 DEF SitFits, Warned, OneIsHeld, AtRest, Listing, Adopting, Filling, AfterAMint
    <3> QED BY <2>1, <3>4, <3>7, ItOnlyTalks
  <2> QED BY <1>6, <2>2, <2>3 DEF Probed
<1> QED BY <1>2, <1>3, <1>4, <1>5, <1>6

\* A Seat that was kept is the last thing to have gone well, whatever the backup comes to.
LEMMA WithAnotherPhrase ==
    ASSUME sit \in Sittings, NEW phrase \in {"none", "held", "off"}
    PROVE  LET s == [sit EXCEPT !.phrase = phrase] IN
           /\ s \in Sittings /\ s.todo = sit.todo /\ s.before = sit.before
           /\ s.touched = sit.touched /\ s.moved = sit.moved /\ s.pc = sit.pc
<1>1. phrase \in Phrases
  BY DEF Phrases
<1> QED BY <1>1 DEF Sittings

LEMMA ItGoesOnFrom ==
    ASSUME IInv, OnlyTalks, Heard(Collect), sit.pc \in {"keeping", "backing up", "packing"},
           NEW phrase \in {"none", "held", "off"}, CarriesOn([sit EXCEPT !.phrase = phrase])
    PROVE  IInv'
<1> DEFINE s == [sit EXCEPT !.phrase = phrase]
<1>1. /\ sit \in Sittings /\ (sit.before # None => sit.before <= login)
      /\ (sit.touched => sit.moved) /\ sit.todo # <<>>
  BY DEF IInv, SitFits, Warned, Filling, AfterAMint
<1>2. /\ s \in Sittings /\ s.todo = sit.todo /\ s.before = sit.before
      /\ s.touched = sit.touched /\ s.moved = sit.moved
  BY <1>1, WithAnotherPhrase
<1> HIDE DEF s
<1>3. CarriesOn(s)
  BY DEF s
<1>4. SitFits(sit', Idle) /\ Warned(sit', login) /\ OneIsHeld(sit', Idle, vault)
  <2>1. s.touched => s.moved
    BY <1>1, <1>2, Zenon
  <2> QED BY <1>1, <1>2, <1>3, <2>1, ItCarriesOn
<1> QED BY <1>4, HeardFits, ItOnlyTalks

LEMMA TheBackup ==
    ASSUME IInv, Kept \/ ListedForBackup \/ AsksForAToken \/ PacksAToken \/ BacksUp  PROVE IInv'
<1> DEFINE c == call[Collect]
<1> USE NoneAssumption
<1>0. InHand(c)
  BY CollectAssumption DEF IInv, InHand
<1>1. /\ sit \in Sittings /\ (sit.before # None => sit.before <= login)
      /\ (sit.touched => sit.moved) /\ sit.todo # <<>> /\ CallFits(c, OneFile)
  BY <1>0 DEF Kept, ListedForBackup, AsksForAToken, PacksAToken, BacksUp,
              InHand, SitFits, Warned, Filling, AfterAMint
<1>2. ASSUME OnlyTalks, sit.pc \in {"backing up", "packing"}, NotBackedUp  PROVE IInv'
  BY <1>2, ItGoesOnFrom DEF NotBackedUp
<1>3. CASE Kept
  <2>1. OnlyTalks /\ sit.pc = "keeping"
    BY <1>3 DEF Kept
  <2>2. CASE Ends /\ Heard(Collect)
    BY <2>1, <2>2, TheSittingIsOver
  <2>3. ASSUME NEW phrase \in {"none", "off"}, CarriesOn([sit EXCEPT !.phrase = phrase]), Heard(Collect)
        PROVE  IInv'
    BY <2>1, <2>3, ItGoesOnFrom
  <2>4. CASE /\ sit' = [sit EXCEPT !.pc = "backing up", !.phrase = "held"]
             /\ Ask("list", None, None)
    <3>1. PICK d : Asked(d) /\ d.op = "list"
      <4>1. None \in Own(None)
        BY DEF Own
      <4>2. \E d : Asked(d) /\ d.op = "list" /\ d.name = None /\ d.at = "read" /\ d.token = None
        BY <2>4, <4>1, AskFits
      <4> QED BY <4>2
    <3>2. sit' \in Sittings
      BY <1>1, <2>4, ValuesFit, ZenonT(60) DEF Sittings
    <3>3. /\ sit'.pc = "backing up" /\ sit'.before = sit.before /\ sit'.todo = sit.todo
          /\ sit'.touched = sit.touched /\ sit'.moved = sit.moved
      BY <1>1, <2>4 DEF Sittings
    <3>4. SitFits(sit', d) /\ Warned(sit', login) /\ OneIsHeld(sit', d, vault)
      BY <1>1, <3>1, <3>2, <3>3 DEF SitFits, Warned, OneIsHeld, AtRest, Listing, Adopting, Filling, AfterAMint
    <3> QED BY <2>1, <3>1, <3>4, ItOnlyTalks
  <2>5. \/ Ends /\ Heard(Collect)
        \/ \E phrase \in {"none", "off"} : CarriesOn([sit EXCEPT !.phrase = phrase]) /\ Heard(Collect)
        \/ /\ sit' = [sit EXCEPT !.pc = "backing up", !.phrase = "held"]
           /\ Ask("list", None, None)
    BY <1>3, Zenon DEF Kept, Phrase
  <2> QED BY <2>2, <2>3, <2>4, <2>5
<1>4. CASE ListedForBackup
  <2>1. OnlyTalks /\ sit.pc = "backing up" /\ c.op = "list" /\ (c.at = "returned" => c.found \in Changes)
    BY <1>4, <1>0 DEF ListedForBackup, InHand, SitFits, Listing, CallFits, Changes
  <2>2. CASE NotBackedUp
    BY <1>2, <2>1, <2>2
  <2>3. CASE /\ Returned(Collect)
             /\ sit' = [sit EXCEPT !.pc = "packing", !.asked = c.found, !.packed = [n \in Names |-> None]]
             /\ Heard(Collect)
    <3> DEFINE empty == [n \in Names |-> None]
    <3>1. empty \in Vaults /\ c.found \in Changes
      BY <2>1, <2>3 DEF Vaults, Tokens, Own, Returned
    <3> HIDE DEF empty
    <3>2. sit' = [sit EXCEPT !.pc = "packing", !.asked = c.found, !.packed = empty]
      BY <2>3 DEF empty
    <3>3. sit' \in Sittings
      BY <1>1, <3>1, <3>2, ValuesFit, ZenonT(60) DEF Sittings
    <3>4. /\ sit'.pc = "packing" /\ sit'.before = sit.before /\ sit'.todo = sit.todo
          /\ sit'.touched = sit.touched /\ sit'.moved = sit.moved /\ sit'.packed = empty
      BY <1>1, <3>2 DEF Sittings
    <3>5. SitFits(sit', Idle) /\ Warned(sit', login) /\ OneIsHeld(sit', Idle, vault)
      BY <1>1, <3>1, <3>3, <3>4 DEF SitFits, Warned, OneIsHeld, AtRest, Listing, Adopting, Filling, AfterAMint
    <3> QED BY <2>1, <2>3, <3>5, HeardFits, ItOnlyTalks
  <2> QED BY <1>4, <2>2, <2>3 DEF ListedForBackup
<1>5. CASE AsksForAToken
  <2>1. /\ OnlyTalks /\ sit' = sit /\ sit.pc = "packing" /\ sit.asked \in SUBSET Names /\ sit.asked # {}
        /\ Ask("token", FirstOf(sit.asked), None)
    BY <1>1, <1>5 DEF AsksForAToken, Sittings, Changes
  <2>2. FirstOf(sit.asked) \in Names
    BY <2>1, FirstOfIsOne
  <2> DEFINE n == FirstOf(sit.asked)
  <2> HIDE DEF n
  <2>3. PICK d : Asked(d) /\ d.op = "token"
    <3>1. n \in Names /\ None \in Own(n) /\ Ask("token", n, None)
      BY <2>1, <2>2 DEF n, Own
    <3> QED BY <3>1, AskFits
  <2>4. SitFits(sit', d) /\ Warned(sit', login) /\ OneIsHeld(sit', d, vault)
    BY <1>0, <1>1, <2>1, <2>3 DEF InHand, SitFits, Warned, OneIsHeld, AtRest, Listing, Adopting, Filling, AfterAMint
  <2> QED BY <2>1, <2>3, <2>4, ItOnlyTalks
<1>6. CASE PacksAToken
  <2>1. OnlyTalks /\ sit.pc = "packing" /\ sit.packed \in Vaults /\ (c = Idle \/ c.op = "token") /\ Answered(Collect)
    BY <1>6, <1>0 DEF PacksAToken, InHand, SitFits
  <2>2. CASE NotBackedUp
    BY <1>2, <2>1, <2>2
  <2>3. CASE /\ Returned(Collect) /\ Heard(Collect)
             /\ sit' = [sit EXCEPT !.asked = @ \ {c.name}, !.packed[c.name] = c.token]
    <3>1. c.op = "token"
      <4>1. Idle.at = "idle"
        BY DEF Idle
      <4> QED BY <4>1, <2>1 DEF Answered
    <3>2. c.name \in Names /\ c.token \in Own(c.name)
      BY <1>1, <3>1 DEF CallFits
    <3> DEFINE packed == [sit.packed EXCEPT ![c.name] = c.token]
    <3>3. packed \in Vaults /\ sit.asked \ {c.name} \in Changes
      BY <1>1, <2>1, <3>2, PutUnderItsName DEF Sittings, Changes
    <3>4. sit' = [sit EXCEPT !.asked = sit.asked \ {c.name}, !.packed = packed]
      BY <1>1, <2>3 DEF Sittings
    <3> HIDE DEF packed
    <3>5. sit' \in Sittings
      BY <1>1, <3>3, <3>4, ValuesFit, ZenonT(60) DEF Sittings
    <3>6. /\ sit'.pc = sit.pc /\ sit'.before = sit.before /\ sit'.todo = sit.todo
          /\ sit'.touched = sit.touched /\ sit'.moved = sit.moved /\ sit'.packed = packed
      BY <1>1, <3>4 DEF Sittings
    <3>7. SitFits(sit', Idle) /\ Warned(sit', login) /\ OneIsHeld(sit', Idle, vault)
      BY <1>1, <2>1, <3>3, <3>5, <3>6 DEF SitFits, Warned, OneIsHeld, AtRest, Listing, Adopting, Filling, AfterAMint
    <3> QED BY <2>1, <2>3, <3>7, HeardFits, ItOnlyTalks
  <2> QED BY <1>6, <2>2, <2>3 DEF PacksAToken
<1>7. CASE BacksUp
  <2>1. /\ UNCHANGED <<machine, disk, cmd, told, login, worklist, payer>> /\ c = Idle
        /\ sit.packed \in Vaults /\ sit.pc = "packing"
    BY <1>0, <1>7 DEF BacksUp, Elsewhere, bounds, InHand, SitFits
  <2>2. CASE archive' = sit.packed /\ CarriesOn(sit) /\ UNCHANGED call
    <3>1. SitFits(sit', Idle) /\ Warned(sit', login) /\ OneIsHeld(sit', Idle, vault)
      BY <1>1, <2>2, ItCarriesOn
    <3>2. Warned(sit', login') /\ archive' \in Vaults /\ Idle = call[Collect] /\ UNCHANGED call
      BY <2>1, <2>2, <3>1
    <3> QED BY <1>0, <2>1, <3>1, <3>2, IdleFits, TheSittingMoves DEF InHand
  <2>3. CASE NotBackedUp /\ UNCHANGED archive
    BY <1>2, <1>7, <2>1, <2>3 DEF OnlyTalks, BacksUp
  <2> QED BY <1>7, <2>2, <2>3 DEF BacksUp
<1> QED BY <1>3, <1>4, <1>5, <1>6, <1>7

-----------------------------------------------------------------------------
(* The other commands.                                                      *)

\* A step of one of them, as TheSittingMoves.
LEMMA TheyMove ==
    ASSUME IInv, UNCHANGED <<machine, disk, worklist, login, payer, sit>>,
           NEW p \in Others,
           NEW m, cmd' = [cmd EXCEPT ![p] = m] \/ (UNCHANGED cmd /\ m = cmd[p]),
           NEW c, call' = [call EXCEPT ![p] = c] \/ (UNCHANGED call /\ c = call[p]),
           CallFits(c, OneFile), CmdFits(m, c), m.meant => told',
           told' \in BOOLEAN, told => told', archive' \in Vaults
    PROVE  IInv'
<1>1. Collect \in Processes /\ Collect # p /\ p \in Processes
  BY CollectAssumption DEF Others
<1>2. /\ call' \in [Processes -> Calls] /\ call'[p] = c
      /\ \A q \in Processes \ {p} : call'[q] = call[q]
  BY <1>1 DEF IInv, CallFits
<1>3. /\ cmd' \in [Others -> Commands] /\ cmd'[p] = m
      /\ \A q \in Others \ {p} : cmd'[q] = cmd[q]
  BY DEF IInv, CmdFits
<1>4. OneFile' = OneFile /\ vault' = vault /\ file' = file /\ machine' = machine
  BY DEF OneFile, disk
<1>5. \A q \in Processes : CallFits(call'[q], OneFile)
  BY <1>1, <1>2 DEF IInv
<1>6. \A q \in Others : CmdFits(cmd'[q], call'[q]) /\ (cmd'[q].meant => told')
  <2> SUFFICES ASSUME NEW q \in Others  PROVE CmdFits(cmd'[q], call'[q]) /\ (cmd'[q].meant => told')
    OBVIOUS
  <2>1. CASE q = p
    BY <2>1, <1>2, <1>3
  <2>2. CASE q # p
    <3>1. cmd'[q] = cmd[q] /\ call'[q] = call[q]
      BY <2>2, <1>2, <1>3 DEF Others
    <3>2. CmdFits(cmd[q], call[q]) /\ (cmd[q].meant => told)
      BY DEF IInv
    <3> QED BY <3>1, <3>2
  <2> QED BY <2>1, <2>2
<1>7. /\ SitFits(sit', call'[Collect]) /\ Warned(sit', login')
      /\ (~OneFile /\ ~told' => OneIsHeld(sit', call'[Collect], vault))
  <2>1. sit' = sit /\ login' = login /\ call'[Collect] = call[Collect]
    BY <1>1, <1>2
  <2> QED BY <2>1 DEF IInv
<1>8. worklist' = worklist /\ login' = login /\ payer' = payer
  OBVIOUS
<1> QED BY <1>2, <1>3, <1>4, <1>5, <1>6, <1>7, <1>8 DEF IInv

LEMMA NoCommandFits ==
    NoCommand \in Commands /\ CmdFits(NoCommand, Idle) /\ ~NoCommand.meant
<1>1. NoCommand \in Commands /\ NoCommand.pc = "idle" /\ ~NoCommand.meant
  BY ValuesFit DEF NoCommand, Commands, Posts, Tasks
<1> HIDE DEF NoCommand
<1> QED BY <1>1 DEF CmdFits

\* What may be used of the invariant in a step of one of them, whose call this is.
InTheirHand(p, c) ==
    /\ c = call[p] /\ CallFits(c, OneFile) /\ CmdFits(cmd[p], c) /\ (cmd[p].meant => told)
    /\ cmd[p] \in Commands /\ told \in BOOLEAN /\ archive \in Vaults

LEMMA ItIsInTheirHand == ASSUME IInv, NEW p \in Others  PROVE InTheirHand(p, call[p])
BY DEF IInv, InTheirHand, Others, CmdFits

\* It is over, and nothing is awaited.
LEMMA TheyEnd ==
    ASSUME IInv, NEW p \in Others, Does(p, NoCommand),
           Heard(p) \/ (UNCHANGED call /\ call[p] = Idle),
           UNCHANGED <<machine, disk, worklist, login, payer, sit, told>>, archive' \in Vaults
    PROVE  IInv'
<1>1. told \in BOOLEAN
  BY DEF IInv
<1>2. cmd' = [cmd EXCEPT ![p] = NoCommand]
  BY DEF Does
<1>3. call' = [call EXCEPT ![p] = Idle] \/ (UNCHANGED call /\ Idle = call[p])
  BY DEF Heard
<1> HIDE DEF NoCommand
<1> QED BY <1>1, <1>2, <1>3, IdleFits, NoCommandFits, TheyMove

\* It has the answer to a list, or asks for one more, and goes on.
LEMMA TheyGoOn ==
    ASSUME IInv, NEW p \in Others, UNCHANGED <<machine, disk, worklist, login, payer, sit, told, archive>>,
           NEW m, Does(p, m) \/ (UNCHANGED cmd /\ m = cmd[p]), NEW c, CallFits(c, OneFile),
           call' = [call EXCEPT ![p] = c] \/ (UNCHANGED call /\ c = call[p]),
           CmdFits(m, c), m.meant => cmd[p].meant
    PROVE  IInv'
<1>1. told \in BOOLEAN /\ archive \in Vaults /\ (m.meant => told)
  BY ItIsInTheirHand DEF InTheirHand
<1>2. cmd' = [cmd EXCEPT ![p] = m] \/ (UNCHANGED cmd /\ m = cmd[p])
  BY DEF Does
<1> QED BY <1>1, <1>2, TheyMove

LEMMA TheyList ==
    ASSUME IInv, NEW p \in Others,
           \/ \E what \in {"refresh", "undo", "backup"} : Begins(p, what)
           \/ RefreshLists(p) \/ UndoLists(p) \/ BackupLists(p) \/ BackupListsAgain(p)
    PROVE  IInv'
<1> DEFINE c == call[p]
<1> USE NoneAssumption
<1>0. InTheirHand(p, c)
  BY ItIsInTheirHand
<1>1. /\ cmd[p] \in Commands /\ CmdFits(cmd[p], c) /\ CallFits(c, OneFile)
      /\ told \in BOOLEAN /\ archive \in Vaults /\ (cmd[p].meant => told)
  BY <1>0 DEF InTheirHand
<1>2. /\ CallFits(Calling("list", None, None), OneFile)
      /\ Calling("list", None, None).op = "list"
  <2>1. None \in Own(None)
    BY DEF Own
  <2> QED BY <2>1, CallingFits
<1> DEFINE d == Calling("list", None, None)
<1> HIDE DEF d
<1>3. ASSUME NEW what \in {"refresh", "undo", "backup"}, Begins(p, what)  PROVE IInv'
  <2>1. PICK meant \in BOOLEAN, read \in Readings :
          /\ told' = (told \/ meant)
          /\ Does(p, [NoCommand EXCEPT !.pc = "listing", !.what = what, !.meant = meant,
                        !.todo = IF what = "refresh" THEN read ELSE {}])
    BY <1>3 DEF Begins
  <2> DEFINE todo == IF what = "refresh" THEN read ELSE {}
             m == [NoCommand EXCEPT !.pc = "listing", !.what = what, !.meant = meant, !.todo = todo]
  <2>2. NoCommand \in Commands
    BY NoCommandFits
  <2> HIDE DEF NoCommand
  <2>3. todo \in Changes /\ meant \in Truths /\ what \in Tasks /\ "listing" \in Posts
    BY InputsAssumption DEF Changes, Truths, Tasks, Posts
  <2> HIDE DEF todo
  <2>4. m \in Commands
    BY <2>2, <2>3 DEF Commands
  <2>5. m.pc = "listing"
    BY <2>2 DEF Commands
  <2>6. m.meant = meant
    BY <2>2, <2>3, Zenon DEF Commands
  <2>7. cmd' = [cmd EXCEPT ![p] = m]
    BY <2>1 DEF Does, todo
  <2> HIDE DEF m
  <2>8. CmdFits(m, d)
    BY <1>2, <2>4, <2>5 DEF CmdFits, d
  <2>9. UNCHANGED <<machine, disk, worklist, login, payer, sit, archive>> /\ call' = [call EXCEPT ![p] = d]
    BY <1>3 DEF Begins, Untouched, AskFor, d
  <2>10. (m.meant => told') /\ told' \in BOOLEAN /\ (told => told')
    <3>1. told' \in BOOLEAN
      BY <2>1
    <3>2. (m.meant => told') /\ (told => told')
      BY <2>1, <2>6, Zenon
    <3> QED BY <3>1, <3>2
  <2>11. CallFits(d, OneFile) /\ archive' \in Vaults
    BY <1>1, <1>2, <2>9 DEF d
  <2> QED BY <2>7, <2>8, <2>9, <2>10, <2>11, TheyMove
<1>4. CASE RefreshLists(p) \/ UndoLists(p) \/ BackupLists(p) \/ BackupListsAgain(p)
  <2>1. /\ UNCHANGED <<machine, disk, worklist, login, payer, sit, told, archive>>
        /\ c.op = "list" /\ (c.at = "returned" => c.found \in Changes) /\ c.seen \subseteq Names
    BY <1>1, <1>4 DEF RefreshLists, UndoLists, BackupLists, BackupListsAgain, Untouched, bounds,
                      CmdFits, CallFits, Calls, Changes
  <2>2. CASE Does(p, NoCommand) /\ Heard(p)
    <3>1. archive' \in Vaults
      BY <1>1, <2>1
    <3> QED BY <2>1, <2>2, <3>1, TheyEnd
  <2>3. ASSUME NEW changed \in SUBSET (cmd[p].todo \intersect c.seen), Heard(p),
               Does(p, [cmd[p] EXCEPT !.pc = "updating", !.todo = changed])
        PROVE  IInv'
    <3> DEFINE m == [cmd[p] EXCEPT !.pc = "updating", !.todo = changed]
    <3>1. changed \in Changes /\ "updating" \in Posts
      BY <2>1 DEF Changes, Posts
    <3>2. m \in Commands
      BY <1>1, <3>1 DEF Commands
    <3>3. m.pc = "updating" /\ m.meant = cmd[p].meant
      BY <1>1 DEF Commands
    <3>4. Does(p, m)
      BY <2>3
    <3> HIDE DEF m
    <3>5. CmdFits(m, Idle) /\ (m.meant => cmd[p].meant)
      BY <3>2, <3>3 DEF CmdFits
    <3> QED BY <2>1, <2>3, <3>4, <3>5, IdleFits, TheyGoOn DEF Heard
  <2>4. CASE /\ Returned(p) /\ cmd[p].meant /\ Heard(p)
             /\ Does(p, [cmd[p] EXCEPT !.pc = "removing", !.todo = c.found])
    <3> DEFINE m == [cmd[p] EXCEPT !.pc = "removing", !.todo = c.found]
    <3>1. c.found \in Changes /\ "removing" \in Posts
      BY <2>1, <2>4 DEF Returned, Posts
    <3>2. m \in Commands
      BY <1>1, <3>1 DEF Commands
    <3>3. m.pc = "removing" /\ m.meant = cmd[p].meant
      BY <1>1 DEF Commands
    <3>4. Does(p, m)
      BY <2>4
    <3> HIDE DEF m
    <3>5. m.meant
      BY <2>4, <3>3, Zenon
    <3>6. CmdFits(m, Idle)
      BY <3>2, <3>3, <3>5 DEF CmdFits
    <3>7. cmd[p].meant
      BY <2>4
    <3> QED BY <2>1, <2>4, <3>4, <3>6, <3>7, IdleFits, TheyGoOn DEF Heard
  <2>5. CASE Does(p, [cmd[p] EXCEPT !.pc = "listing again"]) /\ AskFor(p, "list", None, None)
    <3> DEFINE m == [cmd[p] EXCEPT !.pc = "listing again"]
    <3>1. m \in Commands /\ m.pc = "listing again" /\ m.meant = cmd[p].meant
      <4>1. "listing again" \in Posts
        BY DEF Posts
      <4> QED BY <1>1, <4>1 DEF Commands
    <3>2. Does(p, m)
      BY <2>5
    <3> HIDE DEF m
    <3>3. CmdFits(m, d) /\ (m.meant => cmd[p].meant)
      BY <1>2, <3>1 DEF CmdFits, d
    <3>4. call' = [call EXCEPT ![p] = d] /\ CallFits(d, OneFile)
      BY <1>2, <2>5 DEF AskFor, d
    <3> QED BY <2>1, <3>2, <3>3, <3>4, TheyGoOn
  <2>6. CASE /\ Returned(p) /\ Heard(p)
             /\ Does(p, [cmd[p] EXCEPT !.pc = "packing", !.todo = c.found,
                           !.tokens = [n \in Names |-> None]])
    <3> DEFINE empty == [n \in Names |-> None]
    <3>1. empty \in Vaults /\ empty \in Packs /\ c.found \in Changes /\ "packing" \in Posts
      BY <2>1, <2>6 DEF Vaults, Packs, Tokens, Own, Returned, Posts
    <3> HIDE DEF empty
    <3> DEFINE m == [cmd[p] EXCEPT !.pc = "packing", !.todo = c.found, !.tokens = empty]
    <3>2. m \in Commands
      BY <1>1, <3>1 DEF Commands
    <3>3. m.pc = "packing" /\ m.meant = cmd[p].meant /\ m.tokens = empty
      BY <1>1 DEF Commands
    <3>4. Does(p, m)
      BY <2>6 DEF empty
    <3> HIDE DEF m
    <3>5. CmdFits(m, Idle) /\ (m.meant => cmd[p].meant)
      BY <3>1, <3>2, <3>3 DEF CmdFits
    <3> QED BY <2>1, <2>6, <3>4, <3>5, IdleFits, TheyGoOn DEF Heard
  <2>7. CASE RefreshLists(p)
    BY <2>2, <2>3, <2>7 DEF RefreshLists
  <2>8. CASE UndoLists(p)
    BY <2>2, <2>4, <2>8 DEF UndoLists, MayUndo
  <2>9. CASE BackupLists(p)
    BY <2>2, <2>5, <2>9 DEF BackupLists
  <2>10. CASE BackupListsAgain(p)
    BY <2>2, <2>6, <2>10 DEF BackupListsAgain
  <2> QED BY <1>4, <2>7, <2>8, <2>9, <2>10
<1> QED BY <1>3, <1>4

LEMMA TheyWork ==
    ASSUME IInv, NEW p \in Others, Restores(p) \/ TakesTheNext(p) \/ IsDone(p) \/ IsThrough(p)
    PROVE  IInv'
<1> DEFINE c == call[p]
<1> USE NoneAssumption
<1>0. InTheirHand(p, c)
  BY ItIsInTheirHand
<1>1. /\ cmd[p] \in Commands /\ CmdFits(cmd[p], c) /\ CallFits(c, OneFile)
      /\ told \in BOOLEAN /\ archive \in Vaults /\ (cmd[p].meant => told)
  BY <1>0 DEF InTheirHand
<1>2. CASE Restores(p)
  <2> DEFINE todo == {n \in Names : archive[n] # None}
             m == [NoCommand EXCEPT !.pc = "adding", !.what = "restore", !.tokens = archive, !.todo = todo]
  <2>1. UNCHANGED <<machine, disk, worklist, login, payer, sit, told, archive, call>> /\ c = Idle /\ Does(p, m)
    BY <1>1, <1>2 DEF Restores, Untouched, CmdFits
  <2>2. NoCommand \in Commands /\ ~NoCommand.meant
    BY NoCommandFits
  <2> HIDE DEF NoCommand
  <2>3. todo \in Changes /\ archive \in Packs /\ "restore" \in Tasks /\ "adding" \in Posts
        /\ \A n \in todo : archive[n] # None
    BY <1>1, ValuesFit DEF Changes, Tasks, Posts
  <2> HIDE DEF todo
  <2>4. m \in Commands
    BY <2>2, <2>3 DEF Commands
  <2>5. m.pc = "adding" /\ m.tokens = archive /\ m.todo = todo
    BY <2>2 DEF Commands
  <2>6. m.meant = NoCommand.meant
    BY <2>2 DEF Commands
  <2> HIDE DEF m
  <2>7. CmdFits(m, Idle)
    BY <1>1, <2>3, <2>4, <2>5 DEF CmdFits
  <2>8. m.meant => cmd[p].meant
    BY <2>2, <2>6, Zenon
  <2> QED BY <2>1, <2>7, <2>8, IdleFits, TheyGoOn
<1>3. CASE TakesTheNext(p)
  <2> DEFINE n == FirstOf(cmd[p].todo)
             m == [cmd[p] EXCEPT !.todo = @ \ {n}]
  <2>1. /\ UNCHANGED <<machine, disk, worklist, login, payer, sit, told, archive>> /\ c = Idle /\ Does(p, m)
        /\ cmd[p].todo \in SUBSET Names /\ cmd[p].todo # {} /\ cmd[p].pc \in AtTheSeats
    BY <1>1, <1>3 DEF TakesTheNext, Untouched, bounds, Commands, Changes
  <2>2. n \in cmd[p].todo /\ n \in Names
    BY <2>1, FirstOfIsOne
  <2>3. /\ cmd[p].pc = "updating" => AskFor(p, "update", n, None)
        /\ cmd[p].pc = "removing" => AskFor(p, "remove", n, None)
        /\ cmd[p].pc = "adding"   => AskFor(p, "add", n, cmd[p].tokens[n])
        /\ cmd[p].pc = "packing"  => AskFor(p, "token", n, None)
    BY <1>3 DEF TakesTheNext
  <2> HIDE DEF n
  <2>4. /\ m \in Commands /\ m.pc = cmd[p].pc /\ m.meant = cmd[p].meant
        /\ m.tokens = cmd[p].tokens /\ m.todo = cmd[p].todo \ {n}
    <3>1. cmd[p].todo \ {n} \in Changes
      BY <2>1 DEF Changes
    <3>2. m \in Commands
      BY <1>1, <3>1 DEF Commands
    <3>3. m.pc = cmd[p].pc /\ m.meant = cmd[p].meant /\ m.tokens = cmd[p].tokens /\ m.todo = cmd[p].todo \ {n}
      BY <1>1 DEF Commands
    <3> QED BY <3>2, <3>3
  <2> HIDE DEF m
  <2>5. ASSUME NEW op \in {"update", "remove", "add", "token"}, NEW token \in Own(n),
               AskFor(p, op, n, token), op = "add" => token # None, op = "remove" => token = None,
               m.pc = "updating" => op = "update", m.pc = "removing" => op = "remove",
               m.pc = "adding" => op = "add", m.pc = "packing" => op = "token"
        PROVE  IInv'
    <3> DEFINE d == Calling(op, n, token)
    <3>1. CallFits(d, OneFile) /\ d.op = op /\ call' = [call EXCEPT ![p] = d]
      BY <2>2, <2>5, CallingFits DEF AskFor
    <3> HIDE DEF d
    <3>2. CmdFits(m, d)
      BY <1>1, <2>1, <2>4, <2>5, <3>1 DEF CmdFits, AtTheSeats
    <3>3. m.meant => cmd[p].meant
      BY <2>4, Zenon
    <3> QED BY <2>1, <3>1, <3>2, <3>3, TheyGoOn
  <2>6. None \in Own(n)
    BY DEF Own
  <2>7. CASE cmd[p].pc = "updating"
    BY <2>3, <2>4, <2>5, <2>6, <2>7
  <2>8. CASE cmd[p].pc = "removing"
    BY <2>3, <2>4, <2>5, <2>6, <2>8
  <2>9. CASE cmd[p].pc = "adding"
    <3>1. cmd[p].tokens[n] \in Own(n) /\ cmd[p].tokens[n] # None
      BY <1>1, <2>2, <2>9 DEF CmdFits, Vaults
    <3> QED BY <2>3, <2>4, <2>5, <2>9, <3>1
  <2>10. CASE cmd[p].pc = "packing"
    BY <2>3, <2>4, <2>5, <2>6, <2>10
  <2> QED BY <2>1, <2>7, <2>8, <2>9, <2>10 DEF AtTheSeats
<1>4. CASE IsDone(p)
  <2>1. /\ UNCHANGED <<machine, disk, worklist, login, payer, sit, told, archive>> /\ Heard(p)
        /\ cmd[p].pc \in AtTheSeats /\ c # Idle
    <3>1. Idle.at = "idle"
      BY DEF Idle
    <3> QED BY <1>4, <3>1 DEF IsDone, Untouched, bounds, Answered
  <2>2. CASE Does(p, NoCommand)
    BY <1>1, <2>1, <2>2, TheyEnd
  <2>3. CASE cmd[p].pc = "packing" /\ Does(p, [cmd[p] EXCEPT !.tokens[c.name] = c.token])
    <3>1. c.op = "token" /\ c.name \in Names /\ c.token \in Own(c.name) /\ cmd[p].tokens \in Vaults
      BY <1>1, <2>1, <2>3 DEF CmdFits, CallFits
    <3> DEFINE tokens == [cmd[p].tokens EXCEPT ![c.name] = c.token]
               m == [cmd[p] EXCEPT !.tokens = tokens]
    <3>2. tokens \in Vaults /\ tokens \in Packs
      BY <3>1, PutUnderItsName, ValuesFit
    <3>3. Does(p, m)
      BY <1>1, <2>3 DEF Commands
    <3> HIDE DEF tokens
    <3>4. m \in Commands
      BY <1>1, <3>2 DEF Commands
    <3>5. m.pc = cmd[p].pc /\ m.meant = cmd[p].meant /\ m.tokens = tokens
      BY <1>1 DEF Commands
    <3> HIDE DEF m
    <3>6. CmdFits(m, Idle)
      BY <2>3, <3>2, <3>4, <3>5 DEF CmdFits
    <3>7. m.meant => cmd[p].meant
      BY <3>5, Zenon
    <3> QED BY <2>1, <3>3, <3>6, <3>7, IdleFits, TheyGoOn DEF Heard
  <2>4. CASE UNCHANGED cmd
    <3>1. CmdFits(cmd[p], Idle)
      BY <1>1, <2>1 DEF CmdFits, AtTheSeats
    <3>2. call' = [call EXCEPT ![p] = Idle]
      BY <2>1 DEF Heard
    <3> QED BY <2>1, <2>4, <3>1, <3>2, IdleFits, TheyGoOn
  <2> QED BY <1>4, <2>2, <2>3, <2>4 DEF IsDone
<1>5. CASE IsThrough(p)
  <2>1. /\ UNCHANGED <<machine, disk, worklist, login, payer, sit, told, call>> /\ c = Idle
        /\ Does(p, NoCommand)
    BY <1>5 DEF IsThrough, bounds
  <2>2. archive' \in Vaults
    BY <1>1, <1>5 DEF IsThrough, CmdFits
  <2> QED BY <2>1, <2>2, TheyEnd
<1> QED BY <1>2, <1>3, <1>4, <1>5

\* A process that dies leaves nothing in hand: what the disk holds fitted without it.
LEMMA ADeath == ASSUME IInv, NEW p \in Processes, Dies(p)  PROVE IInv'
<1>1. /\ UNCHANGED <<machine, disk, worklist, login, payer, archive, told>> /\ Heard(p)
      /\ archive \in Vaults /\ call \in [Processes -> Calls]
  BY DEF Dies, Untouched, bounds, IInv
<1>2. CASE p = Collect
  <2>1. Ends /\ UNCHANGED cmd /\ Heard(Collect)
    BY <1>2 DEF Dies, Heard
  <2>2. archive' \in Vaults /\ login' = login /\ worklist' = worklist /\ payer' = payer
    BY <1>1
  <2>3. call' = [call EXCEPT ![Collect] = Idle]
    BY <2>1 DEF Heard
  <2> QED BY <1>1, <2>1, <2>2, <2>3, TheSittingEnds
<1>3. CASE p # Collect
  <2>1. p \in Others /\ Does(p, NoCommand) /\ UNCHANGED sit /\ archive' \in Vaults
    BY <1>1, <1>3 DEF Dies, Others
  <2> QED BY <1>1, <2>1, TheyEnd
<1> QED BY <1>2, <1>3

-----------------------------------------------------------------------------
(* The store.                                                               *)

\* With the Keychain, a name is emptied only by a call to remove it; and once a token was
\* put there, a call to add it leaves it there.
LEMMA OnlyARemoveEmpties ==
    ASSUME NEW p \in Processes, call \in [Processes -> Calls], CallFits(call[p], OneFile),
           vault \in Vaults, StoreStep(p), ~OneFile
    PROVE  /\ \A n \in Names : vault[n] # None /\ vault'[n] = None => call[p].op = "remove" /\ call[p].name = n
           /\ \/ call[p].op # "add"
              \/ call[p].at \in {"write", "copying", "returned"} /\ vault[call[p].name] = None
              \/ call'[p].at \in {"write", "copying", "returned"} => vault'[call[p].name] # None
<1> DEFINE c == call[p]
<1>1. c \in Calls /\ vault \in [Names -> Tokens]
  BY DEF CallFits, Vaults
<1>2. CASE Put(p)
  <2>1. c.op = "add" /\ c.name \in Names /\ c.token # None
    BY <1>2 DEF Put, CallFits
  <2>2. CASE UNCHANGED vault /\ Goes(p, "threw")
    <3>1. call'[p].at = "threw"
      BY <2>2, <1>1 DEF Goes, Calls
    <3> QED BY <2>2, <3>1
  <2>3. CASE vault' = [vault EXCEPT ![c.name] = c.token]
    BY <1>1, <2>1, <2>3
  <2> QED BY <1>2, <2>2, <2>3 DEF Put
<1>3. CASE Forget(p)
  <2>1. c.op = "remove" /\ c.name \in Names /\ vault' \in {vault, [vault EXCEPT ![c.name] = None]}
    BY <1>3 DEF Forget, CallFits
  <2> QED BY <1>1, <2>1
<1>4. CASE PutItAllBack(p)
  BY <1>4 DEF PutItAllBack, CallFits
<1>5. CASE ReadSeats(p)
  <2>1. vault' = vault /\ c.at = "read"
    BY <1>5 DEF ReadSeats, disk
  <2>2. CASE c.op = "add"
    <3>1. call'[p].at \in {"vault", "threw"}
      BY <1>1, <1>5, <2>2 DEF ReadSeats, Goes, Calls
    <3> QED BY <2>1, <3>1
  <2> QED BY <2>1, <2>2
<1>6. CASE LookForEach(p) \/ LookForOne(p)
  BY <1>6 DEF LookForEach, LookForOne, disk
<1>7. CASE WriteSeats(p) \/ CopiedOver(p)
  BY <1>7 DEF WriteSeats, CopiedOver
<1> QED BY <1>2, <1>3, <1>4, <1>5, <1>6, <1>7 DEF StoreStep

\* The call of a sitting is one to remove only at the end of an adoption, and that of a
\* command only where the user meant it.
LEMMA WhoRemoves ==
    ASSUME IInv, NEW p \in Processes, call[p].op = "remove"
    PROVE  told \/ (p = Collect /\ sit.pc = "removing it")
<1>1. Idle.op = "none"
  BY DEF Idle
<1>2. CASE p = Collect
  <2>1. SitFits(sit, call[p]) /\ sit.pc \in Points
    BY <1>2 DEF IInv, SitFits, Sittings
  <2> QED BY <1>1, <1>2, <2>1 DEF SitFits, Points, AtRest, Listing
<1>3. CASE p # Collect
  <2>1. CmdFits(cmd[p], call[p]) /\ (cmd[p].meant => told) /\ cmd[p].pc \in Posts
    BY <1>3 DEF IInv, Others, CmdFits, Commands
  <2>2. cmd[p].pc = "removing"
    BY <1>1, <2>1 DEF CmdFits, Posts
  <2> QED BY <2>1, <2>2 DEF CmdFits
<1> QED BY <1>2, <1>3

LEMMA TheStoreSteps == ASSUME IInv, NEW p \in Processes, Stores(p)  PROVE IInv'
<1>1. /\ StoreStep(p) /\ call \in [Processes -> Calls] /\ CallFits(call[p], OneFile) /\ vault \in Vaults
      /\ (file = Torn \/ file \subseteq Names)
      /\ UNCHANGED <<worklist, login, payer, archive, sit, cmd, told>>
  BY DEF Stores, IInv, bounds
<1>2. /\ vault' \in Vaults /\ (file' = Torn \/ file' \subseteq Names) /\ UNCHANGED machine
      /\ call' \in [Processes -> Calls] /\ \A q \in Processes \ {p} : call'[q] = call[q]
      /\ CallFits(call'[p], OneFile) /\ SameCall(call[p], call'[p])
  BY <1>1, StoreFits
<1>3. OneFile' = OneFile
  BY <1>2 DEF OneFile
<1>4. \A q \in Processes : CallFits(call'[q], OneFile)
  BY <1>2 DEF IInv
<1>5. Collect \in Processes
  BY CollectAssumption
<1>6. SitFits(sit', call'[Collect]) /\ Warned(sit', login')
  <2>1. SitFits(sit, call[Collect]) /\ Warned(sit, login)
    BY DEF IInv
  <2>2. CASE p # Collect
    BY <1>1, <1>2, <1>5, <2>1, <2>2
  <2>3. CASE p = Collect
    BY <1>1, <1>2, <2>1, <2>3 DEF SitFits, SameCall
  <2> QED BY <2>2, <2>3
<1>7. \A q \in Others : CmdFits(cmd'[q], call'[q]) /\ (cmd'[q].meant => told')
  <2> SUFFICES ASSUME NEW q \in Others  PROVE CmdFits(cmd'[q], call'[q]) /\ (cmd'[q].meant => told')
    OBVIOUS
  <2>1. CmdFits(cmd[q], call[q]) /\ (cmd[q].meant => told) /\ q \in Processes
    BY DEF IInv, Others
  <2>2. CASE p # q
    BY <1>1, <1>2, <2>1, <2>2
  <2>3. CASE p = q
    BY <1>1, <1>2, <2>1, <2>3 DEF CmdFits, SameCall
  <2> QED BY <2>2, <2>3
<1>8. ASSUME ~OneFile, ~told  PROVE OneIsHeld(sit, call'[Collect], vault')
  <2>1. OneIsHeld(sit, call[Collect], vault) /\ SitFits(sit, call[Collect])
    BY <1>8 DEF IInv
  <2>2. /\ \A n \in Names : vault[n] # None /\ vault'[n] = None => call[p].op = "remove" /\ call[p].name = n
        /\ \/ call[p].op # "add"
           \/ call[p].at \in {"write", "copying", "returned"} /\ vault[call[p].name] = None
           \/ call'[p].at \in {"write", "copying", "returned"} => vault'[call[p].name] # None
    BY <1>1, <1>8, OnlyARemoveEmpties
  <2> SUFFICES ASSUME sit.from # sit.into  PROVE OneIsHeld(sit, call'[Collect], vault')
    BY DEF OneIsHeld
  <2>3. CASE sit.pc = "removing it"
    <3>1. sit.into \in Names /\ vault[sit.into] # None
      BY <2>1, <2>3 DEF SitFits, OneIsHeld, Adopting
    <3>2. p = Collect => call[p].name = sit.from
      BY <2>1, <2>3 DEF SitFits
    <3>3. call[p].op = "remove" => p = Collect
      BY <1>8, WhoRemoves
    <3>4. vault'[sit.into] # None
      BY <2>2, <3>1, <3>2, <3>3
    <3> QED BY <2>3, <3>4 DEF OneIsHeld
  <2>4. CASE sit.pc = "adding it"
    <3>1. sit.into \in Names /\ call[Collect].op = "add" /\ call[Collect].name = sit.into
      BY <2>1, <2>4 DEF SitFits, Adopting
    <3>2. call[Collect].at \in {"write", "copying", "returned"} => vault[sit.into] # None
      BY <2>1, <2>4 DEF OneIsHeld
    <3>3. call'[Collect].at \in {"write", "copying", "returned"} => vault'[sit.into] # None
      <4>1. CASE p = Collect
        BY <2>2, <3>1, <3>2, <4>1
      <4>2. CASE p # Collect
        <5>1. call'[Collect] = call[Collect]
          BY <1>2, <1>5, <4>2
        <5>2. call[p].op # "remove"
          BY <1>8, <2>4, WhoRemoves
        <5> QED BY <2>2, <3>1, <3>2, <5>1, <5>2
      <4> QED BY <4>1, <4>2
    <3> QED BY <2>4, <3>3 DEF OneIsHeld
  <2> QED BY <2>3, <2>4 DEF OneIsHeld
<1>9. ~OneFile' /\ ~told' => OneIsHeld(sit', call'[Collect], vault')
  BY <1>1, <1>3, <1>8
<1>10. /\ machine' \in Machines /\ archive' \in Vaults /\ worklist' \in Readings \union {None}
       /\ login' \in 0..MostWrites /\ payer' \in Names \union {None}
       /\ cmd' \in [Others -> Commands] /\ told' \in BOOLEAN
  BY <1>1, <1>2 DEF IInv
<1> QED BY <1>2, <1>3, <1>4, <1>6, <1>7, <1>9, <1>10 DEF IInv

-----------------------------------------------------------------------------
(* The invariant, and what follows from it.                                 *)

LEMMA ItFitsAtFirst == Init => IInv
<1> SUFFICES ASSUME Init  PROVE IInv
  OBVIOUS
<1> DEFINE filled == [n \in Names |-> IF n \in AtFirst THEN OrganizationOf[n] ELSE None]
           empty == [n \in Names |-> None]
<1>1. filled \in Vaults /\ empty \in Vaults
  BY NamesAssumption DEF Vaults, Tokens, Own
<1> HIDE DEF filled, empty
<1>2. machine \in Machines /\ file = AtFirst /\ vault = filled /\ call = [p \in Processes |-> Idle]
  BY DEF Init, StoreInit, filled
<1>3. /\ worklist = None /\ login = 0 /\ payer \in AtFirst /\ archive = empty /\ sit = NoSitting
      /\ cmd = [p \in Others |-> NoCommand] /\ told = FALSE
  BY DEF Init, empty
<1>4. CallFits(Idle, OneFile) /\ Idle \in Calls
  BY IdleFits DEF CallFits
<1>5. call \in [Processes -> Calls] /\ \A p \in Processes : call[p] = Idle
  BY <1>2, <1>4
<1>6. SitFits(sit, call[Collect]) /\ Warned(sit, login) /\ OneIsHeld(sit, call[Collect], vault)
  BY <1>3, <1>5, NoSittingFits, CollectAssumption
<1>7. cmd \in [Others -> Commands] /\ \A p \in Others : CmdFits(cmd[p], call[p]) /\ (cmd[p].meant => told)
  <2> HIDE DEF NoCommand
  <2>1. cmd \in [Others -> Commands]
    BY <1>3, NoCommandFits
  <2>2. ASSUME NEW p \in Others  PROVE CmdFits(cmd[p], call[p]) /\ (cmd[p].meant => told)
    <3>1. cmd[p] = NoCommand /\ call[p] = Idle
      BY <1>3, <1>5 DEF Others
    <3> QED BY <3>1, NoCommandFits
  <2> QED BY <2>1, <2>2
<1>8. /\ file \subseteq Names /\ login \in 0..MostWrites /\ payer \in Names \union {None}
      /\ worklist \in Readings \union {None} /\ told \in BOOLEAN
  <2>1. MostWrites \in Nat /\ AtFirst \subseteq Names
    BY InputsAssumption
  <2>2. login \in 0..MostWrites
    BY <1>3, <2>1
  <2> QED BY <1>2, <1>3, <2>1, <2>2
<1>9. \A p \in Processes : CallFits(call[p], OneFile)
  BY <1>4, <1>5
<1> QED BY <1>1, <1>2, <1>3, <1>5, <1>6, <1>7, <1>8, <1>9 DEF IInv

LEMMA ItStillFits == IInv /\ UNCHANGED vars => IInv'
<1> SUFFICES ASSUME IInv, UNCHANGED vars  PROVE IInv'
  OBVIOUS
<1>1. UNCHANGED <<machine, file, vault, call, worklist, login, payer, archive, sit, cmd, told>>
  BY DEF vars, disk, bounds
<1>2. OneFile' = OneFile
  BY <1>1 DEF OneFile
<1> QED BY <1>1, <1>2 DEF IInv

LEMMA EveryStepFits == IInv /\ [Next]_vars => IInv'
<1> SUFFICES ASSUME IInv, [Next]_vars  PROVE IInv'
  OBVIOUS
<1>1. CASE Start \/ Listed \/ TakesUpAStray \/ SettlesAStray
  BY <1>1, TheListing
<1>2. CASE ProbesForAdoption \/ AddedIt \/ RemovedIt \/ NamesItInTheChoice
  BY <1>2, TheAdoption
<1>3. CASE ListsAgain \/ ListedAgain \/ Stands
  BY <1>3, TheStandings
<1>4. CASE Announces \/ MintWritesTheLogin \/ SignsIn \/ Minted \/ Probed
  BY <1>4, TheMint
<1>5. CASE Kept \/ ListedForBackup \/ AsksForAToken \/ PacksAToken \/ BacksUp
  BY <1>5, TheBackup
<1>6. ASSUME NEW p \in Others, TheirStep(p)  PROVE IInv'
  BY <1>6, TheyList, TheyWork DEF TheirStep
<1>7. ASSUME NEW p \in Processes, Stores(p) \/ Dies(p)  PROVE IInv'
  BY <1>7, TheStoreSteps, ADeath
<1>8. CASE UNCHANGED vars
  BY <1>8, ItStillFits
<1> QED BY <1>1, <1>2, <1>3, <1>4, <1>5, <1>6, <1>7, <1>8 DEF Next

\* What a sitting has in hand fits where it stands, through every order of the commands,
\* of their calls of the store, and of their deaths.
THEOREM WhatIsInHandFits == Spec => []IInv
BY ItFitsAtFirst, EveryStepFits, PTL DEF Spec

\* Every variable keeps to its type.
THEOREM TypeCorrect == Spec => []TypeOK
<1>1. IInv => TypeOK
  <2> SUFFICES ASSUME IInv  PROVE TypeOK
    OBVIOUS
  <2>1. vault \in [Names -> Tokens] /\ archive \in [Names -> Tokens]
    BY DEF IInv, Vaults
  <2>2. ASSUME NEW p \in Processes
        PROVE  /\ call[p].at \in {"idle", "read", "vault", "all of it", "write", "copying", "returned", "threw"}
               /\ call[p].op \in {"none", "add", "update", "remove", "list", "token"}
               /\ call[p].seen \subseteq Names /\ call[p].token \in Tokens
               /\ (call[p].op = "none") = (call[p].at = "idle")
    BY DEF IInv, CallFits, Calls, Stages
  <2>3. StoreTypeOK
    BY <2>1, <2>2 DEF StoreTypeOK, IInv
  <2>4. sit \in Sittings /\ SitFits(sit, call[Collect])
    BY DEF IInv, SitFits
  <2>5. sit.phrase \in {"none", "held", "off"} /\ sit.wanted \subseteq Names /\ sit.token \in Tokens
    BY <2>4 DEF Sittings, Phrases, Changes
  <2>6. sit.pc = "idle" => call[Collect] = Idle
    BY <2>4 DEF SitFits, AtRest
  <2>7. \A p \in Others : cmd[p].pc = "idle" => call[p] = Idle
    BY DEF IInv, CmdFits
  <2> QED BY <2>1, <2>3, <2>5, <2>6, <2>7 DEF TypeOK, IInv
<1> QED BY <1>1, WhatIsInHandFits, PTL

\* Whatever is kept in the vault or in the archive pays for the Seat it is kept under.
THEOREM NoSeatIsPaidByAnother == Spec => []EveryTokenPaysForItsSeat
<1>1. IInv => EveryTokenPaysForItsSeat
  BY DEF IInv, Vaults, Own, EveryTokenPaysForItsSeat
<1> QED BY <1>1, WhatIsInHandFits, PTL

\* A mint that wrote the user's own login is the last of its sitting.
THEOREM AWrittenLoginIsTheLast == Spec => []AMovedLoginEndsTheSitting
<1>1. IInv => AMovedLoginEndsTheSitting
  BY DEF IInv, Warned, AfterAMint, AMovedLoginEndsTheSitting
<1> QED BY <1>1, WhatIsInHandFits, PTL

LEMMA OnlyTheStoreEmpties ==
    ASSUME IInv, [Next]_vars, NEW n \in Names, vault[n] # None, vault'[n] = None
    PROVE  \E p \in Processes : StoreStep(p)
<1>1. vault' # vault
  OBVIOUS
<1> QED BY <1>1 DEF Next, Start, Listed, TakesUpAStray, SettlesAStray, ProbesForAdoption, AddedIt,
     RemovedIt, NamesItInTheChoice, ListsAgain, Stands, ListedAgain, Announces, MintWritesTheLogin,
     SignsIn, Minted, Probed, Kept, ListedForBackup, AsksForAToken, PacksAToken, BacksUp, TheirStep,
     Begins, RefreshLists, UndoLists, BackupLists, BackupListsAgain, Restores, TakesTheNext, IsDone,
     IsThrough, Stores, Dies, OnlyTalks, Elsewhere, Untouched, disk, vars

\* A token leaves its name only where the user told an undo to forget, or where another
\* Seat of its Organization holds one like it, whoever writes or dies meanwhile.
THEOREM NoTokenIsDropped == Spec => ATokenIsNotDropped
<1> DEFINE Excused(n) == \/ told \/ (sit.from = n /\ sit.into = n)
                         \/ \E m \in Names \ {n} : vault[m] = vault[n]
<1>1. ASSUME IInv, [Next]_vars, NEW n \in Names, vault[n] # None, vault'[n] = None, ~OneFile
      PROVE  Excused(n)
  <2>1. PICK p \in Processes : StoreStep(p)
    BY <1>1, OnlyTheStoreEmpties
  <2>2. call[p].op = "remove" /\ call[p].name = n
    BY <1>1, <2>1, OnlyARemoveEmpties DEF IInv
  <2> SUFFICES ASSUME ~told, sit.from # sit.into  PROVE Excused(n)
    <3>1. ~told => sit.from = n
      BY <1>1, <2>2, WhoRemoves DEF IInv, SitFits
    <3> QED BY <3>1
  <2>3. p = Collect /\ sit.pc = "removing it"
    BY <1>1, <2>2, WhoRemoves
  <2>4. /\ sit.from = n /\ sit.into \in Names /\ OrganizationOf[n] = OrganizationOf[sit.into]
        /\ vault[sit.into] # None
    BY <1>1, <2>2, <2>3 DEF IInv, SitFits, OneIsHeld, Adopting
  <2>5. vault[n] = OrganizationOf[n] /\ vault[sit.into] = OrganizationOf[sit.into]
    BY <1>1, <2>4 DEF IInv, Vaults, Own
  <2> QED BY <2>4, <2>5
<1>2. IInv /\ [Next]_vars =>
        [\A n \in Names : vault[n] # None /\ vault'[n] = None /\ ~OneFile => Excused(n)]_vars
  BY <1>1
<1> QED BY <1>2, WhatIsInHandFits, PTL DEF Spec, ATokenIsNotDropped

=============================================================================
