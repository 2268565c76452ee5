------------------------------ MODULE AroundProofs -----------------------------
(***************************************************************************)
(* The parts that stand around an exchange, whatever the number of         *)
(* callers, pieces, folders, Seats, names and moments is. Each part has an *)
(* inductive invariant of its own; a step of the whole is one of one part, *)
(* and leaves the invariants of the others alone.                          *)
(***************************************************************************)
EXTENDS Around, FiniteSetTheorems, SequenceTheorems, TLAPS

\* A record of these fields, whatever is in them.
IsRecord(r, fields) == DOMAIN r = fields /\ r = [x \in fields |-> r[x]]

\* A step of the whole is one of one part, or stutters; every other part stands still.
LEMMA Apart ==
  ASSUME [Next]_vars
  PROVE  /\ M!Next \/ UNCHANGED machine
         /\ S!Next \/ UNCHANGED startup
         /\ T!Next \/ UNCHANGED minting
         /\ F!Next \/ UNCHANGED profiles
         /\ P!Next \/ UNCHANGED table
         /\ D!Next \/ UNCHANGED front
         /\ H!Next \/ UNCHANGED handshake
         /\ B!Next \/ UNCHANGED body
         /\ C!Next \/ UNCHANGED scan
<1>1. CASE UNCHANGED vars
  <2>1. UNCHANGED desk /\ UNCHANGED wire
    BY <1>1 DEF vars
  <2> QED BY <2>1 DEF desk, wire
<1>2. CASE OnTheDesk /\ UNCHANGED wire
  <2>1. UNCHANGED front /\ UNCHANGED handshake /\ UNCHANGED body /\ UNCHANGED scan
    BY <1>2 DEF wire
  <2> QED BY <1>2, <2>1 DEF OnTheDesk
<1>3. CASE OnTheWire /\ UNCHANGED desk
  <2>1. /\ UNCHANGED machine /\ UNCHANGED startup /\ UNCHANGED minting
        /\ UNCHANGED profiles /\ UNCHANGED table
    BY <1>3 DEF desk
  <2> QED BY <1>3, <2>1 DEF OnTheWire
<1> QED BY <1>1, <1>2, <1>3 DEF Next

-----------------------------------------------------------------------------
(* The relay's front door.                                                  *)

\* An open upstream has its listeners; one that is dialled has a caller there, or one that
\* is known to have left early; and so has one that came of such a dial.
TheTunnelFits(c) ==
    /\ upstream[c] = "open" => c \in hears
    /\ upstream[c] \in {"dialling", "open"} => client[c] = "open" \/ c \in leftEarly

DInv == /\ client \in [Callers -> {"away", "open", "gone"}]
        /\ upstream \in [Callers -> {"none", "dialling", "open", "closed"}]
        /\ \A c \in Callers : TheTunnelFits(c)

\* Whoever goes takes an upstream along that hears it, and is early where it is dialled.
LEMMA GoingFits ==
  ASSUME DInv, NEW gone \in SUBSET Callers, D!ClientsGo(gone), hears' = hears
  PROVE  DInv'
<1>1. /\ client' \in [Callers -> {"away", "open", "gone"}]
      /\ upstream' \in [Callers -> {"none", "dialling", "open", "closed"}]
  BY DEF DInv, D!ClientsGo
<1>2. ASSUME NEW c \in Callers PROVE TheTunnelFits(c)'
  BY <1>2 DEF DInv, D!ClientsGo, D!HeardLeaving, TheTunnelFits
<1> QED BY <1>1, <1>2 DEF DInv

LEMMA DStep ==
  ASSUME DInv, D!Next \/ UNCHANGED front
  PROVE  DInv'
<1>1. CASE UNCHANGED front
  BY <1>1 DEF front, DInv, TheTunnelFits
<1>2. CASE D!Closes
  BY <1>2 DEF D!Closes, D!ClientsGo, D!HeardLeaving, DInv, TheTunnelFits
<1>3. CASE D!Closed
  BY <1>3 DEF D!Closed, DInv, TheTunnelFits
<1>4. ASSUME NEW c \in Callers, D!Connects(c) PROVE DInv'
  BY <1>4 DEF D!Connects, DInv, TheTunnelFits
<1>5. ASSUME NEW c \in Callers, D!AsksForATunnel(c) PROVE DInv'
  BY <1>5 DEF D!AsksForATunnel, DInv, TheTunnelFits
<1>6. ASSUME NEW c \in Callers, D!DialComesBack(c) PROVE DInv'
  BY <1>6 DEF D!DialComesBack, DInv, TheTunnelFits
<1>7. ASSUME NEW c \in Callers, D!DialFails(c) PROVE DInv'
  BY <1>7 DEF D!DialFails, DInv, TheTunnelFits
<1>8. ASSUME NEW c \in Callers, D!CallerLeaves(c) PROVE DInv'
  BY <1>8, GoingFits DEF D!CallerLeaves
<1>9. ASSUME NEW c \in Callers, D!UpstreamCloses(c) PROVE DInv'
  BY <1>9 DEF D!UpstreamCloses, DInv, TheTunnelFits
<1> QED BY <1>1, <1>2, <1>3, <1>4, <1>5, <1>6, <1>7, <1>8, <1>9 DEF D!Next

\* A connection is open with nobody at the other end of its tunnel only where the caller
\* left while it was dialled, for any callers.
THEOREM AnOrphanWasLateDialled == Spec => []OnlyALateDialIsOrphaned
<1>1. Init => DInv
  BY DEF Init, D!Init, DInv, TheTunnelFits
<1>2. DInv /\ [Next]_vars => DInv'
  BY Apart, DStep
<1>3. DInv => OnlyALateDialIsOrphaned
  BY DEF DInv, TheTunnelFits, OnlyALateDialIsOrphaned, D!OnlyALateDialIsOrphaned
<1> QED BY <1>1, <1>2, <1>3, PTL DEF Spec

-----------------------------------------------------------------------------
(* The asking of a proxy for a tunnel.                                      *)

\* The fields a proxy's answer is read in, and how many bytes come before each.
Fields == {"greeting", "password", "reply", "name", "address"}

ThePassword(p) == IF p.method = "password" THEN 2 ELSE 0
TheLength(p) == IF p.kind = "name" THEN 1 ELSE 0

Before(p, field) ==
    CASE field = "greeting" -> 0
      [] field = "password" -> 2
      [] field = "reply"    -> 2 + ThePassword(p)
      [] field = "name"     -> 2 + ThePassword(p) + 4
      [] field = "address"  -> 2 + ThePassword(p) + 4 + TheLength(p)

\* A field is read only of a proxy that has it.
HasTheField(p, field) ==
    /\ p.way = "socks"
    /\ field = "password" => p.method = "password"
    /\ field = "name" => p.kind = "name"

\* What has been taken off the connection is what came before the field, and what is read
\* of it so far, which is never all of it.
TheFieldIsHalfRead ==
    step \in Fields => /\ HasTheField(proxy, step)
                       /\ have < H!Needs
                       /\ read = Before(proxy, step) + have

HInv == /\ proxy \in H!Socks \union H!Http
        /\ have \in Nat /\ sent \in Nat /\ read \in Nat /\ read <= sent
        /\ step \in Fields \union {"head", "open", "failed"}
        /\ step = "head" => proxy.way = "http"
        /\ TheFieldIsHalfRead
        /\ TheTunnelStartsAtItsFirstByte

\* What is known of the lengths of a proxy's answers.
LEMMA ItsLengths ==
  ASSUME NEW p \in H!Socks \union H!Http
  PROVE  /\ H!AddressOf(p) \in Nat /\ H!TunnelStart(p) \in Nat
         /\ p.way \in {"socks", "http"}
         /\ p.way = "socks" => H!TunnelStart(p) = Before(p, "address") + H!AddressOf(p) + 2
         /\ p.way = "http" => H!TunnelStart(p) = p.head /\ p.head \in Nat
         /\ \A field \in Fields : Before(p, field) \in Nat
<1>1. /\ p.way \in {"socks", "http"} /\ p.length \in Nat \union {0}
      /\ p.kind \in {"ipv4", "ipv6", "name", "unknown"}
      /\ p.way = "http" => p.head \in Nat
  BY LengthsAssumption DEF H!Socks, H!Http, H!Kinds
<1>2. H!AddressOf(p) \in Nat
  BY <1>1 DEF H!AddressOf
<1>3. \A field \in Fields : Before(p, field) \in Nat
  BY DEF Fields, Before, ThePassword, TheLength
<1> DEFINE address == H!AddressOf(p)
<1>4. address \in Nat
  BY <1>2
<1> HIDE DEF address
<1>5. H!TunnelStart(p) = IF p.way = "http" THEN p.head
                         ELSE 2 + (IF p.method = "password" THEN 2 ELSE 0) + 4
                                + (IF p.kind = "name" THEN 1 ELSE 0) + address + 2
  BY DEF H!TunnelStart, address
<1>6. /\ H!TunnelStart(p) \in Nat
      /\ p.way = "socks" => H!TunnelStart(p) = Before(p, "address") + address + 2
      /\ p.way = "http" => H!TunnelStart(p) = p.head
  BY <1>1, <1>4, <1>5 DEF Before, ThePassword, TheLength
<1> QED BY <1>1, <1>2, <1>3, <1>6 DEF address

\* Every field has at least a byte.
LEMMA FieldsAreLong ==
  ASSUME proxy \in H!Socks \union H!Http, step \in Fields
  PROVE  H!Needs \in Nat \ {0}
<1> DEFINE address == H!AddressOf(proxy)
<1>1. address \in Nat
  BY ItsLengths
<1> HIDE DEF address
<1>2. H!Needs = CASE step \in {"greeting", "password"} -> 2 [] step = "reply" -> 4
                  [] step = "name" -> 1 [] step = "address" -> address + 2
  BY DEF H!Needs, address
<1> QED BY <1>1, <1>2 DEF Fields

\* After a field comes the one behind it, or the tunnel, or nothing.
LEMMA TheNextField ==
  ASSUME HInv, step \in Fields
  PROVE  /\ H!After \in Fields \union {"open", "failed"}
         /\ H!After \in Fields => /\ HasTheField(proxy, H!After)
                                  /\ Before(proxy, H!After) = Before(proxy, step) + H!Needs
         /\ H!After = "open" => H!TunnelStart(proxy) = Before(proxy, step) + H!Needs
<1> DEFINE address == H!AddressOf(proxy)
<1>1. /\ address \in Nat
      /\ proxy.way = "socks" => H!TunnelStart(proxy) = Before(proxy, "address") + address + 2
  BY ItsLengths DEF HInv
<1>2. HasTheField(proxy, step)
  BY DEF HInv, TheFieldIsHalfRead
<1>3. proxy.method \in {"none", "password", "neither"}
  BY DEF HInv, H!Socks, H!Http
<1>4. step = "address" => H!Needs = address + 2
  BY DEF H!Needs
<1> HIDE DEF address
<1>5. CASE step = "greeting"
  BY <1>2, <1>3, <1>5 DEF H!After, H!Needs, Fields, HasTheField, Before, ThePassword
<1>6. CASE step = "password"
  BY <1>2, <1>6 DEF H!After, H!Needs, Fields, HasTheField, Before, ThePassword
<1>7. CASE step = "reply"
  BY <1>2, <1>7 DEF H!After, H!Needs, Fields, HasTheField, Before, ThePassword, TheLength
<1>8. CASE step = "name"
  BY <1>2, <1>8 DEF H!After, H!Needs, Fields, HasTheField, Before, ThePassword, TheLength
<1>9. CASE step = "address"
  <2>1. H!After = "open"
    BY <1>9 DEF H!After
  <2>2. Before(proxy, "address") \in Nat
    BY ItsLengths DEF HInv, Fields
  <2> QED BY <1>1, <1>2, <1>4, <1>9, <2>1, <2>2 DEF HasTheField, Fields
<1> QED BY <1>5, <1>6, <1>7, <1>8, <1>9 DEF Fields

LEMMA BytesAreRead ==
  ASSUME HInv, H!Reads
  PROVE  HInv'
<1> DEFINE needs == H!Needs
           n == H!Takes
           before == Before(proxy, step)
<1>1. /\ step \in Fields /\ proxy' = proxy /\ sent' = sent /\ read' = read + n
      /\ sent - read > 0
  BY DEF H!Reads, H!Reading, H!Buffered, Fields
<1>2. /\ needs \in Nat /\ before \in Nat /\ have \in Nat /\ read \in Nat /\ sent \in Nat
      /\ have < needs /\ read = before + have
  BY <1>1, FieldsAreLong, ItsLengths DEF HInv, TheFieldIsHalfRead
<1>3. n = IF sent - read >= needs - have THEN needs - have ELSE sent - read
  BY DEF H!Takes, H!Buffered
<1> HIDE DEF needs, n, before
<1>4. n \in Nat /\ read' \in Nat /\ read' <= sent' /\ have + n <= needs /\ have + n \in Nat
  BY <1>1, <1>2, <1>3
<1>5. CASE have + n >= needs
  <2>1. have' = 0 /\ step' = H!After
    BY <1>5 DEF H!Reads, H!GoesOn, needs, n
  <2>2. read' = before + needs
    BY <1>1, <1>2, <1>4, <1>5
  <2>3. /\ step' \in Fields \union {"open", "failed"}
        /\ step' \in Fields => HasTheField(proxy, step') /\ Before(proxy, step') = before + needs
        /\ step' = "open" => H!TunnelStart(proxy) = before + needs
    BY <1>1, <2>1, TheNextField DEF needs, before
  <2>4. step' \in Fields => H!Needs' \in Nat \ {0}
    <3>1. H!AddressOf(proxy') \in Nat
      BY <1>1, ItsLengths DEF HInv
    <3> DEFINE address == H!AddressOf(proxy')
    <3> HIDE DEF address
    <3>2. H!Needs' = CASE step' \in {"greeting", "password"} -> 2 [] step' = "reply" -> 4
                       [] step' = "name" -> 1 [] step' = "address" -> address + 2
      BY DEF H!Needs, address
    <3> QED BY <3>1, <3>2 DEF Fields, address
  <2>5. TheFieldIsHalfRead'
    <3>1. step' \in Fields => /\ HasTheField(proxy', step') /\ have' < H!Needs'
                              /\ read' = Before(proxy', step') + have'
      BY <1>1, <1>2, <2>1, <2>2, <2>3, <2>4
    <3> QED BY <3>1 DEF TheFieldIsHalfRead
  <2>6. TheTunnelStartsAtItsFirstByte'
    BY <1>1, <2>2, <2>3 DEF TheTunnelStartsAtItsFirstByte, H!TheTunnelStartsAtItsFirstByte
  <2>7. step' \in Fields \union {"head", "open", "failed"} /\ step' # "head"
    BY <2>3 DEF Fields
  <2> QED BY <1>1, <1>4, <2>1, <2>5, <2>6, <2>7 DEF HInv
<1>6. CASE ~(have + n >= needs)
  <2>1. have' = have + n /\ step' = step
    BY <1>6 DEF H!Reads, needs, n
  <2>2. H!Needs' = needs
    BY <1>1, <2>1 DEF H!Needs, needs
  <2>3. TheFieldIsHalfRead'
    <3>1. HasTheField(proxy', step') /\ have' < H!Needs' /\ read' = Before(proxy', step') + have'
      BY <1>1, <1>2, <1>4, <1>6, <2>1, <2>2 DEF HInv, TheFieldIsHalfRead, before
    <3> QED BY <3>1 DEF TheFieldIsHalfRead
  <2>4. step' \in Fields /\ step' # "head" /\ step' # "open"
    BY <1>1, <2>1 DEF Fields
  <2>5. TheTunnelStartsAtItsFirstByte'
    BY <2>4 DEF TheTunnelStartsAtItsFirstByte, H!TheTunnelStartsAtItsFirstByte
  <2> QED BY <1>1, <1>4, <2>1, <2>3, <2>4, <2>5 DEF HInv
<1> QED BY <1>5, <1>6

LEMMA HStep ==
  ASSUME HInv, H!Next \/ UNCHANGED handshake
  PROVE  HInv'
<1> USE DEF TheTunnelStartsAtItsFirstByte, H!TheTunnelStartsAtItsFirstByte, TheFieldIsHalfRead
\* Whatever fails, and whatever leaves what was read alone.
<1>1. ASSUME UNCHANGED <<proxy, have, read, sent>>, step' = "failed" PROVE HInv'
  <2>1. "failed" \notin Fields
    BY DEF Fields
  <2> QED BY <1>1, <2>1 DEF HInv
<1>2. ASSUME UNCHANGED <<proxy, step, have, read>>, sent' \in Nat, sent <= sent' PROVE HInv'
  <2>1. H!Needs' = H!Needs
    BY <1>2 DEF H!Needs
  <2>2. read' <= sent'
    BY <1>2 DEF HInv
  <2> QED BY <1>2, <2>1, <2>2 DEF HInv
<1>3. sent \in Nat
  BY DEF HInv
<1>4. CASE UNCHANGED handshake
  BY <1>2, <1>3, <1>4 DEF handshake
<1>5. CASE H!Connected \/ H!Ends
  BY <1>2, <1>3, <1>5 DEF H!Connected, H!Ends
<1>6. CASE H!Reads
  BY <1>6, BytesAreRead
<1>7. CASE H!RunsDry \/ H!EndsWithoutAHead \/ H!Rings
  BY <1>1, <1>7 DEF H!RunsDry, H!EndsWithoutAHead, H!Rings, H!GoesOn
<1>8. CASE H!ReadsHead
  <2>1. /\ step = "head" /\ read' = proxy.head /\ sent >= proxy.head
        /\ step' = IF proxy.granted THEN "open" ELSE "failed"
        /\ UNCHANGED <<proxy, have, sent>>
    BY <1>8 DEF H!ReadsHead, H!GoesOn, H!TakenOfTheHead
  <2>2. H!TunnelStart(proxy) = proxy.head /\ proxy.head \in Nat
    BY <2>1, ItsLengths DEF HInv
  <2>3. step' \in {"open", "failed"} /\ step' \notin Fields
    BY <2>1 DEF Fields
  <2> QED BY <2>1, <2>2, <2>3 DEF HInv
<1>9. ASSUME NEW n \in 1..H!TunnelStart(proxy) + Payload, H!Sends(n) PROVE HInv'
  <2>1. n \in Nat /\ sent' = n /\ sent < n
    BY <1>9 DEF H!Sends
  <2> QED BY <1>2, <1>3, <1>9, <2>1 DEF H!Sends
<1> QED BY <1>4, <1>5, <1>6, <1>7, <1>8, <1>9 DEF H!Next

\* However long the names and heads of a proxy's answers are, and however they are cut, the
\* tunnel is handed over at its first byte.
THEOREM TheTunnelIsWhole == Spec => []TheTunnelStartsAtItsFirstByte
<1>1. Init => HInv
  <2>1. SUFFICES ASSUME Init PROVE HInv
    OBVIOUS
  <2>2. proxy \in H!Socks \union H!Http /\ have = 0 /\ read = 0 /\ sent = 0
    BY <2>1 DEF Init, H!Init
  <2>3. step = IF proxy.way = "http" THEN "head" ELSE "greeting"
    BY <2>1 DEF Init, H!Init
  <2>4. proxy.way \in {"socks", "http"}
    BY <2>2, ItsLengths
  <2>5. step = "greeting" => HasTheField(proxy, step) /\ H!Needs = 2 /\ Before(proxy, step) = 0
    BY <2>3, <2>4 DEF HasTheField, H!Needs, Before
  <2> QED BY <2>2, <2>3, <2>4, <2>5 DEF HInv, TheFieldIsHalfRead, Fields,
              TheTunnelStartsAtItsFirstByte, H!TheTunnelStartsAtItsFirstByte
<1>2. HInv /\ [Next]_vars => HInv'
  BY Apart, HStep
<1>3. HInv => TheTunnelStartsAtItsFirstByte
  BY DEF HInv
<1> QED BY <1>1, <1>2, <1>3, PTL DEF Spec

-----------------------------------------------------------------------------
(* A body, held and written on.                                             *)

\* The pieces of a body from the one after the k-th on, in their order, none left out.
IsFrom(pieces, k) == pieces \in Seq(Nat) /\ \A i \in 1..Len(pieces) : pieces[i] = k + i

\* What was gone through and what still waits are, one after the other, all there is.
AreAll(through) == /\ IsFrom(through, 0) /\ IsFrom(unread, Len(through))
                   /\ Len(through) + Len(unread) = said

IsWholeUnlessBroken(pieces) == IsFrom(pieces, 0) /\ (caller = "finished" => Len(pieces) = said)

\* The stream stands still while a body that is too long waits for its first attempt.
TheRestWaits == AreAll(readSoFar) /\ attempt = 0 /\ ~flowing

BInv == /\ said \in Nat /\ attempt \in Nat /\ caller \in {"sending", "finished", "broke off"}
        /\ stage \in {"holding", "decided", "piping", "ended"}
        /\ stage = "holding" => AreAll(readSoFar) /\ answer = "none" /\ attempt = 0
        /\ stage # "holding" => answer \in {"whole", "not whole"}
        /\ answer = "whole" => caller # "sending" /\ IsWholeUnlessBroken(readSoFar)
        /\ stage = "decided" /\ answer = "not whole" => TheRestWaits
        /\ stage = "piping" => AreAll(written) /\ answer = "not whole"
        /\ stage = "ended" => /\ IsWholeUnlessBroken(written)
                              /\ answer = "not whole" => caller = "finished"

LEMMA LengthsAreNumbers == \A pieces \in Seq(Nat) : Len(pieces) \in Nat
OBVIOUS

\* Counting goes on: one more element, which is the next number.
LEMMA OneMore ==
  ASSUME NEW f, NEW g, NEW k \in Nat, NEW m \in Nat,
         \A i \in 1..m : f[i] = k + i, \A i \in 1..m : g[i] = f[i], g[m + 1] = k + m + 1
  PROVE  \A i \in 1..(m + 1) : g[i] = k + i
OBVIOUS

\* Counting begins later: the first element is left out.
LEMMA OneFewer ==
  ASSUME NEW f, NEW g, NEW k \in Nat, NEW m \in Nat,
         \A i \in 1..m : f[i] = k + i, \A i \in 1..(m - 1) : g[i] = f[i + 1]
  PROVE  \A i \in 1..(m - 1) : g[i] = (k + 1) + i
<1> TAKE i \in 1..(m - 1)
<1>1. i + 1 \in 1..m /\ g[i] = f[i + 1] /\ i \in Nat
  OBVIOUS
<1>2. f[i + 1] = k + (i + 1)
  BY <1>1
<1> QED BY <1>1, <1>2

\* A piece is added at the end of what waits, and what waited first is taken on.
LEMMA APieceIsAdded ==
  ASSUME NEW through \in Seq(Nat), AreAll(through), said \in Nat, said' = said + 1,
         unread' = Append(unread, said')
  PROVE  AreAll(through)'
<1> DEFINE k == Len(through)
           m == Len(unread)
<1>1. /\ unread \in Seq(Nat) /\ k \in Nat /\ m \in Nat
      /\ \A i \in 1..m : unread[i] = k + i
      /\ k + m = said
  BY LengthsAreNumbers DEF AreAll, IsFrom
<1>2. /\ unread' \in Seq(Nat) /\ Len(unread') = m + 1
      /\ \A i \in 1..m : unread'[i] = unread[i]
      /\ unread'[m + 1] = said + 1
  BY <1>1, AppendProperties
<1> HIDE DEF k, m
<1>3. k + m + 1 = said + 1 /\ k + (m + 1) = said + 1
  BY <1>1
<1>4. \A i \in 1..(m + 1) : unread'[i] = k + i
  <2>1. /\ k \in Nat /\ m \in Nat /\ \A i \in 1..m : unread[i] = k + i
        /\ \A i \in 1..m : unread'[i] = unread[i]
    BY <1>1, <1>2
  <2>2. unread'[m + 1] = k + m + 1
    BY <1>2, <1>3
  <2>3. ASSUME NEW i \in 1..(m + 1) PROVE unread'[i] = k + i
    <3>1. CASE i \in 1..m
      BY <2>1, <3>1
    <3>2. CASE i = m + 1
      <4>1. k \in Nat /\ m \in Nat
        BY <2>1
      <4>2. k + m + 1 = k + i
        BY ONLY <4>1, <3>2
      <4>3. unread'[i] = k + m + 1
        BY ONLY <2>2, <3>2
      <4> QED BY ONLY <4>2, <4>3
    <3>3. i \in 1..m \/ i = m + 1
      BY <2>1
    <3> QED BY <3>1, <3>2, <3>3
  <2> QED BY <2>3
<1>5. IsFrom(unread', k)
  BY <1>2, <1>4 DEF IsFrom
<1>6. k + Len(unread') = said'
  BY <1>2, <1>3
<1> QED BY <1>5, <1>6 DEF AreAll, k

LEMMA APieceGoesThrough ==
  ASSUME NEW through \in Seq(Nat), AreAll(through), said \in Nat, UNCHANGED said,
         unread # <<>>, unread' = Tail(unread)
  PROVE  LET on == Append(through, Head(unread)) IN
         on \in Seq(Nat) /\ IsFrom(on, 0) /\ IsFrom(unread', Len(on)) /\ Len(on) + Len(unread') = said
<1> DEFINE on == Append(through, Head(unread))
           k == Len(through)
           m == Len(unread)
<1>1. /\ unread \in Seq(Nat) /\ k \in Nat /\ m \in Nat
      /\ \A i \in 1..m : unread[i] = k + i
      /\ k + m = said
      /\ \A i \in 1..k : through[i] = 0 + i
  BY LengthsAreNumbers DEF AreAll, IsFrom
<1>2. /\ Head(unread) \in Nat /\ unread' \in Seq(Nat) /\ Len(unread') = m - 1
      /\ \A i \in 1..(m - 1) : unread'[i] = unread[i + 1]
  BY <1>1, HeadTailProperties
<1>3. m > 0 /\ Head(unread) = unread[1]
  BY <1>1
<1>4. /\ on \in Seq(Nat) /\ Len(on) = k + 1
      /\ \A i \in 1..k : on[i] = through[i]
      /\ on[k + 1] = Head(unread)
  BY <1>2, AppendProperties
<1> HIDE DEF on, k, m
<1>5. unread[1] = k + 1
  BY <1>1, <1>3
<1>6. \A i \in 1..(k + 1) : on[i] = 0 + i
  <2>1. /\ k \in Nat /\ 0 \in Nat /\ \A i \in 1..k : through[i] = 0 + i
        /\ \A i \in 1..k : on[i] = through[i]
    BY <1>1, <1>4
  <2>2. on[k + 1] = 0 + k + 1
    BY <1>1, <1>3, <1>4, <1>5
  <2> QED BY ONLY <2>1, <2>2, OneMore
<1>7. \A i \in 1..(m - 1) : unread'[i] = (k + 1) + i
  BY <1>1, <1>2, OneFewer
<1>8. Len(on) + Len(unread') = said
  <2>1. k \in Nat /\ m \in Nat /\ k + m = said /\ Len(on) = k + 1 /\ Len(unread') = m - 1
    BY <1>1, <1>2, <1>4
  <2> QED BY ONLY <2>1
<1>9. IsFrom(on, 0) /\ IsFrom(unread', Len(on))
  BY <1>2, <1>4, <1>6, <1>7 DEF IsFrom
<1> QED BY <1>4, <1>8, <1>9 DEF on

LEMMA BStep ==
  ASSUME BInv, B!Next \/ UNCHANGED body
  PROVE  BInv'
<1>1. CASE UNCHANGED body
  BY <1>1 DEF body, BInv, AreAll, IsWholeUnlessBroken, TheRestWaits
<1>2. CASE B!SendsAPiece
  <2>0. said \in Nat
    BY DEF BInv
  <2>1. /\ caller = "sending" /\ said' = said + 1 /\ said' \in Nat
        /\ UNCHANGED <<caller, flowing, readSoFar, answer, attempt, written, stage>>
    BY <1>2, <2>0 DEF B!SendsAPiece
  <2>2. ~flowing \/ stage \in {"holding", "piping"} => unread' = Append(unread, said')
    BY <1>2 DEF B!SendsAPiece
  <2>3. answer # "whole" /\ stage # "ended"
    BY <2>1 DEF BInv
  <2>4. stage = "holding" => AreAll(readSoFar)'
    <3>1. SUFFICES ASSUME stage = "holding" PROVE AreAll(readSoFar)'
      OBVIOUS
    <3>2. AreAll(readSoFar) /\ readSoFar \in Seq(Nat) /\ said \in Nat
      BY <3>1 DEF BInv, AreAll, IsFrom
    <3>3. unread' = Append(unread, said')
      BY <2>2, <3>1
    <3> QED BY <2>1, <3>2, <3>3, APieceIsAdded DEF AreAll
  <2>5. stage = "decided" => TheRestWaits'
    <3>1. SUFFICES ASSUME stage = "decided" PROVE TheRestWaits'
      OBVIOUS
    <3>2. TheRestWaits /\ said \in Nat
      BY <2>3, <3>1 DEF BInv
    <3>3. AreAll(readSoFar) /\ readSoFar \in Seq(Nat) /\ unread' = Append(unread, said')
      BY <2>2, <3>2 DEF TheRestWaits, AreAll, IsFrom
    <3> QED BY <2>1, <3>2, <3>3, APieceIsAdded DEF TheRestWaits, AreAll
  <2>6. stage = "piping" => AreAll(written)'
    <3>1. SUFFICES ASSUME stage = "piping" PROVE AreAll(written)'
      OBVIOUS
    <3>2. AreAll(written) /\ written \in Seq(Nat) /\ said \in Nat
      BY <3>1 DEF BInv, AreAll, IsFrom
    <3>3. unread' = Append(unread, said')
      BY <2>2, <3>1
    <3> QED BY <2>1, <3>2, <3>3, APieceIsAdded DEF AreAll
  <2> QED BY <2>1, <2>3, <2>4, <2>5, <2>6 DEF BInv
<1>3. CASE B!Finishes
  BY <1>3 DEF B!Finishes, BInv, AreAll, IsWholeUnlessBroken, TheRestWaits
<1>4. CASE B!BreaksOff
  BY <1>4 DEF B!BreaksOff, BInv, AreAll, IsWholeUnlessBroken, TheRestWaits
<1>5. CASE B!Holds
  <2>1. /\ stage = "holding" /\ unread # <<>>
        /\ readSoFar' = Append(readSoFar, Head(unread)) /\ unread' = Tail(unread)
        /\ UNCHANGED <<caller, said, attempt, written>>
        /\ \/ UNCHANGED <<flowing, answer, stage>>
           \/ flowing' = FALSE /\ answer' = "not whole" /\ stage' = "decided"
    BY <1>5 DEF B!Holds, B!FlowsAtTheLimit
  <2>2. AreAll(readSoFar) /\ readSoFar \in Seq(Nat) /\ answer = "none" /\ attempt = 0 /\ said \in Nat
    BY <2>1 DEF BInv, AreAll, IsFrom
  <2>3. AreAll(readSoFar)'
    BY <2>1, <2>2, APieceGoesThrough DEF AreAll
  <2> QED BY <2>1, <2>2, <2>3 DEF BInv, TheRestWaits
<1>6. CASE B!HoldsTheEnd
  <2>1. /\ stage = "holding" /\ answer' = "whole" /\ stage' = "decided" /\ caller # "sending"
        /\ caller = "finished" => unread = <<>>
        /\ UNCHANGED <<caller, said, unread, flowing, readSoFar, attempt, written>>
    BY <1>6 DEF B!HoldsTheEnd
  <2>2. AreAll(readSoFar)
    BY <2>1 DEF BInv
  <2>3. Len(<<>>) = 0
    OBVIOUS
  <2>4. caller = "finished" => Len(readSoFar) = said
    <3>1. Len(readSoFar) \in Nat /\ Len(readSoFar) + Len(unread) = said
      BY <2>2, LengthsAreNumbers DEF AreAll, IsFrom
    <3>2. caller = "finished" => Len(unread) = 0
      BY <2>1, <2>3
    <3> QED BY <3>1, <3>2
  <2>5. IsWholeUnlessBroken(readSoFar)'
    BY <2>1, <2>2, <2>4 DEF IsWholeUnlessBroken, AreAll
  <2> QED BY <2>1, <2>5 DEF BInv
<1>7. CASE B!SendsOn
  <2>1. /\ stage = "decided" /\ attempt' = attempt + 1 /\ written' = readSoFar
        /\ UNCHANGED <<caller, said, unread, readSoFar, answer>>
        /\ answer = "whole" => stage' = "ended"
        /\ answer # "whole" => (attempt = 0 => stage' = "piping")
    BY <1>7 DEF B!SendsOn, B!WrittenFirst
  <2>2. attempt' \in Nat
    <3>1. attempt \in Nat
      BY DEF BInv
    <3> QED BY <2>1, <3>1
  <2>3. CASE answer = "whole"
    BY <2>1, <2>2, <2>3 DEF BInv, IsWholeUnlessBroken
  <2>4. CASE answer = "not whole"
    <3>1. TheRestWaits /\ stage' = "piping"
      BY <2>1, <2>4 DEF BInv, TheRestWaits
    <3>2. AreAll(written)'
      BY <2>1, <3>1 DEF TheRestWaits, AreAll
    <3> QED BY <2>1, <2>2, <2>4, <3>1, <3>2 DEF BInv
  <2> QED BY <2>1, <2>3, <2>4 DEF BInv
<1>8. CASE B!Pipes
  <2>1. /\ stage = "piping" /\ unread # <<>>
        /\ written' = Append(written, Head(unread)) /\ unread' = Tail(unread)
        /\ UNCHANGED <<caller, said, flowing, readSoFar, answer, attempt, stage>>
    BY <1>8 DEF B!Pipes
  <2>2. AreAll(written) /\ written \in Seq(Nat) /\ answer = "not whole" /\ said \in Nat
    BY <2>1 DEF BInv, AreAll, IsFrom
  <2>3. AreAll(written)'
    BY <2>1, <2>2, APieceGoesThrough DEF AreAll
  <2> QED BY <2>1, <2>2, <2>3 DEF BInv
<1>9. CASE B!PipesTheEnd
  <2>1. /\ stage = "piping" /\ unread = <<>> /\ caller = "finished" /\ stage' = "ended"
        /\ UNCHANGED <<caller, said, unread, flowing, readSoFar, answer, attempt, written>>
    BY <1>9 DEF B!PipesTheEnd
  <2>2. AreAll(written) /\ answer = "not whole"
    BY <2>1 DEF BInv
  <2>3. Len(<<>>) = 0
    OBVIOUS
  <2>4. Len(written) = said
    <3>1. Len(written) \in Nat /\ Len(written) + Len(unread) = said
      BY <2>2, LengthsAreNumbers DEF AreAll, IsFrom
    <3>2. Len(unread) = 0
      BY <2>1, <2>3
    <3> QED BY <3>1, <3>2
  <2>5. IsWholeUnlessBroken(written)'
    BY <2>1, <2>2, <2>4 DEF IsWholeUnlessBroken, AreAll
  <2> QED BY <2>1, <2>2, <2>5 DEF BInv
<1>10. CASE B!IsRefused
  BY <1>10 DEF B!IsRefused, B!MaySendAgain, BInv, IsWholeUnlessBroken
<1> QED BY <1>1, <1>2, <1>3, <1>4, <1>5, <1>6, <1>7, <1>8, <1>9, <1>10 DEF B!Next

\* However long a body is, however much of it is held and however often it is sent, every
\* attempt writes it from its first piece on with none left out, and one that was ended has
\* all of it, unless its caller broke off while it was being held.
THEOREM EveryByteIsWritten == Spec => []NoByteIsLost
<1>1. Init => BInv
  <2>1. SUFFICES ASSUME Init PROVE BInv
    OBVIOUS
  <2>2. /\ caller = "sending" /\ said = 0 /\ unread = <<>> /\ readSoFar = <<>>
        /\ answer = "none" /\ attempt = 0 /\ stage = "holding"
    BY <2>1 DEF Init, B!Init
  <2>3. <<>> \in Seq(Nat) /\ Len(<<>>) = 0
    OBVIOUS
  <2>4. AreAll(readSoFar)
    BY <2>2, <2>3 DEF AreAll, IsFrom
  <2> QED BY <2>2, <2>4 DEF BInv
<1>2. BInv /\ [Next]_vars => BInv'
  BY Apart, BStep
<1>3. BInv => NoByteIsLost
  <2>1. SUFFICES ASSUME BInv PROVE NoByteIsLost
    OBVIOUS
  <2>2. stage \in {"piping", "ended"} => IsFrom(written, 0)
    BY <2>1 DEF BInv, AreAll, IsWholeUnlessBroken
  <2>3. IsFrom(written, 0) => written = [i \in 1..Len(written) |-> i]
    BY DEF IsFrom
  <2>4. stage = "ended" /\ caller = "finished" => Len(written) = said
    BY <2>1 DEF BInv, IsWholeUnlessBroken
  <2> QED BY <2>1, <2>2, <2>3, <2>4 DEF BInv, NoByteIsLost, B!NoByteIsLost
<1> QED BY <1>1, <1>2, <1>3, PTL DEF Spec

-----------------------------------------------------------------------------
(* The relay put on a machine and taken off it.                             *)

StoreFields == {"set", "app", "there"}
JobFields   == {"written", "taken"}

\* The names the user means to be set are, in a set of names, but for those they changed
\* while a command held its copy.
HasWhatIsMeant(set) == \A n \in Theirs : (n \in set) = (n \in meant) \/ n \in edited

HasNoneOfOurs(set) == set \intersect Ours = {}

\* Where a command is. Only an uninstall takes the job away for good; an install has
\* launchd take it before it opens the store; and an uninstall that comes to its end has
\* ours out of the store, or has said that it could not be changed.
ItsPlaceFits ==
    /\ command = "none" => at = ""
    /\ at = "rm" => command # "install"
    /\ at \in {"read", "save"} /\ command = "install" => job.taken
    /\ at = "save" => HasWhatIsMeant(copy)
    /\ at = "home" => HasNoneOfOurs(store.set) \/ outcome = "couldNot"

MInv == /\ IsRecord(store, StoreFields) /\ IsRecord(job, JobFields)
        /\ store.app => store.there
        /\ HasWhatIsMeant(store.set)
        /\ ItsPlaceFits
        /\ NoWindowIsStrandedInSilence

\* What a store with other names in it is.
LEMMA HoldingIs ==
  ASSUME NEW set, IsRecord(store, StoreFields)
  PROVE  LET new == M!Holding(set)
             one == [new EXCEPT !.there = TRUE] IN
         /\ IsRecord(new, StoreFields) /\ new.set = set /\ (new.app => new.there)
         /\ IsRecord(one, StoreFields) /\ one.set = set /\ (one.app => one.there)
<1> DEFINE new == M!Holding(set)
           one == [new EXCEPT !.there = TRUE]
<1>1. IsRecord(new, StoreFields)
  BY DEF M!Holding, IsRecord, StoreFields
<1>2. new.set = set /\ new.app = store.app
  BY DEF M!Holding, IsRecord, StoreFields
<1>3. new.there = (set # {} \/ store.app)
  BY DEF M!Holding, IsRecord, StoreFields
<1> HIDE DEF new
<1>4. IsRecord(one, StoreFields)
  BY <1>1 DEF IsRecord, StoreFields
<1>5. one.set = new.set /\ one.there = TRUE
  BY <1>1 DEF IsRecord, StoreFields
<1>6. new.app => new.there
  BY <1>2, <1>3, Zenon
<1> QED BY <1>1, <1>2, <1>4, <1>5, <1>6 DEF new

\* The same names are meant and in the store as before, and the job is as it was taken.
LEMMA TheStoreIsLeft ==
  ASSUME MInv, UNCHANGED <<store, meant, edited>>, IsRecord(job', JobFields),
         job'.taken = job.taken, ItsPlaceFits', NoWindowIsStrandedInSilence'
  PROVE  MInv'
BY DEF MInv, HasWhatIsMeant

LEMMA NothingIsBegun ==
  ASSUME MInv, UNCHANGED <<store, meant, edited, job, command, at, copy, outcome>>
  PROVE  MInv'
BY DEF MInv, HasWhatIsMeant, ItsPlaceFits, HasNoneOfOurs,
       NoWindowIsStrandedInSilence, M!NoWindowIsStrandedInSilence

LEMMA MStep ==
  ASSUME MInv, M!Next \/ UNCHANGED machine
  PROVE  MInv'
<1> USE DEF NoWindowIsStrandedInSilence, M!NoWindowIsStrandedInSilence
<1>1. CASE UNCHANGED machine
  BY <1>1, NothingIsBegun DEF machine
<1>2. ASSUME NEW m \in M!Minters, M!Looks(m) \/ M!SignsItself(m) \/ M!LooksForALeaf(m) \/ M!SignsALeaf(m)
      PROVE  MInv'
  BY <1>2, NothingIsBegun DEF M!Looks, M!SignsItself, M!LooksForALeaf, M!SignsALeaf,
                              M!service, M!file, M!progress
<1>3. CASE M!JobStarts \/ M!JobListens \/ M!JobDies \/ M!UserDeletesTheCertificates
  BY <1>3, NothingIsBegun DEF M!JobStarts, M!JobListens, M!JobDies, M!UserDeletesTheCertificates,
                              M!service, M!file, M!progress
<1>4. CASE M!Typed
  <2>1. UNCHANGED <<store, meant, edited, job, copy, outcome>>
        /\ at' \in {"authority", "bootout"} /\ command' # "none"
    BY <1>4 DEF M!Typed, M!service, M!file
  <2> QED BY <2>1 DEF MInv, HasWhatIsMeant, ItsPlaceFits
<1>5. CASE M!HasItsAuthority
  <2>1. UNCHANGED <<store, meant, edited, job, command, copy, outcome>>
        /\ at = "authority" /\ at' = "write"
    BY <1>5 DEF M!HasItsAuthority, M!Step, M!service, M!file
  <2> QED BY <2>1 DEF MInv, HasWhatIsMeant, ItsPlaceFits
<1>6. CASE M!WritesTheJob
  <2>1. /\ UNCHANGED <<store, meant, edited, command, copy, outcome>>
        /\ at = "write" /\ at' = "bootout"
        /\ job' = [job EXCEPT !.written = TRUE]
    BY <1>6 DEF M!WritesTheJob, M!Step, M!file
  <2>2. IsRecord(job', JobFields) /\ job'.taken = job.taken
    BY <2>1 DEF MInv, IsRecord, JobFields
  <2> QED BY <2>1, <2>2 DEF MInv, HasWhatIsMeant, ItsPlaceFits
<1>7. CASE M!BootsOut
  <2>1. /\ UNCHANGED <<store, meant, edited, command, copy, outcome>>
        /\ at' = IF command = "install" THEN "bootstrap" ELSE "rm"
        /\ job' = [job EXCEPT !.taken = FALSE] /\ at = "bootout"
    BY <1>7 DEF M!BootsOut, M!Step, M!file
  <2>2. IsRecord(job', JobFields)
    BY <2>1 DEF MInv, IsRecord, JobFields
  <2>3. at = "bootout" => command # "none"
    BY DEF MInv, ItsPlaceFits
  <2> QED BY <2>1, <2>2, <2>3 DEF MInv, HasWhatIsMeant, ItsPlaceFits
<1>8. CASE M!Bootstraps
  <2>1. UNCHANGED <<store, meant, edited>> /\ at = "bootstrap"
    BY <1>8 DEF M!Bootstraps, M!file
  <2>2. CASE job' = [job EXCEPT !.taken = TRUE] /\ M!Step("read")
    <3>1. IsRecord(job', JobFields) /\ job'.taken = TRUE
      BY <2>2 DEF MInv, IsRecord, JobFields
    <3> QED BY <2>1, <2>2, <3>1 DEF M!Step, MInv, HasWhatIsMeant, ItsPlaceFits
  <2>3. CASE M!Ends("threw") /\ UNCHANGED job
    BY <2>1, <2>3 DEF M!Ends, MInv, HasWhatIsMeant, ItsPlaceFits
  <2>4. CASE M!Ends("threw") /\ job' = [job EXCEPT !.taken = TRUE]
    <3>1. IsRecord(job', JobFields)
      BY <2>4 DEF MInv, IsRecord, JobFields
    <3> QED BY <2>1, <2>4, <3>1 DEF M!Ends, MInv, HasWhatIsMeant, ItsPlaceFits
  <2> QED BY <1>8, <2>2, <2>3, <2>4 DEF M!Bootstraps
<1>9. CASE M!RemovesTheJob
  <2>1. /\ UNCHANGED <<store, meant, edited, command, copy, outcome>> /\ at = "rm" /\ at' = "read"
        /\ job' = [job EXCEPT !.written = FALSE]
    BY <1>9 DEF M!RemovesTheJob, M!Step, M!file
  <2>2. IsRecord(job', JobFields) /\ job'.taken = job.taken
    BY <2>1 DEF MInv, IsRecord, JobFields
  <2> QED BY <2>1, <2>2 DEF MInv, HasWhatIsMeant, ItsPlaceFits
<1>10. CASE M!Reads
  <2>1. /\ UNCHANGED <<store, meant, edited, job, command, outcome>> /\ at = "read" /\ at' = "save"
        /\ copy' = store.set
    BY <1>10 DEF M!Reads, M!file, M!service
  <2> QED BY <2>1 DEF MInv, HasWhatIsMeant, ItsPlaceFits
<1>11. CASE M!StoreRefuses
  <2>1. UNCHANGED <<store, meant, edited, job>> /\ at \in {"read", "save"}
    BY <1>11 DEF M!StoreRefuses, M!file, M!service
  <2>2. CASE M!Ends("threw")
    BY <2>1, <2>2 DEF M!Ends, MInv, HasWhatIsMeant, ItsPlaceFits
  <2>3. CASE at' = "home" /\ outcome' = "couldNot" /\ UNCHANGED command
    BY <2>1, <2>3 DEF MInv, HasWhatIsMeant, ItsPlaceFits
  <2> QED BY <1>11, <2>2, <2>3 DEF M!StoreRefuses
<1>12. CASE M!Puts
  <2> DEFINE new == M!Holding(M!WithOurs(copy))
  <2>1. /\ store' = [new EXCEPT !.there = TRUE] /\ UNCHANGED <<meant, edited, job>>
        /\ command = "install" /\ at = "save" /\ at' = "" /\ outcome' = "done" /\ command' = "none"
    BY <1>12 DEF M!Puts, M!Ends, M!service
  <2>2. IsRecord(store', StoreFields) /\ store'.set = copy \union Ours /\ (store'.app => store'.there)
    BY <2>1, HoldingIs DEF MInv, M!WithOurs
  <2>3. HasWhatIsMeant(store.set)'
    <3>1. \A n \in Theirs : n \in copy \union Ours <=> n \in copy
      BY NamesAssumption
    <3>2. HasWhatIsMeant(copy)
      BY <2>1 DEF MInv, ItsPlaceFits
    <3>3. ASSUME NEW n \in Theirs PROVE (n \in copy \union Ours) = (n \in meant) \/ n \in edited
      BY <3>1, <3>2 DEF HasWhatIsMeant
    <3> QED BY <2>1, <2>2, <3>3 DEF HasWhatIsMeant
  <2>4. job.taken
    BY <2>1 DEF MInv, ItsPlaceFits
  <2> QED BY <2>1, <2>2, <2>3, <2>4 DEF MInv, ItsPlaceFits
<1>13. CASE M!Forgets
  <2>1. /\ store' = M!Holding(M!WithoutOurs(copy)) /\ UNCHANGED <<meant, edited, job, command>>
        /\ command = "uninstall" /\ at = "save" /\ at' = "home"
    BY <1>13 DEF M!Forgets, M!service
  <2>2. IsRecord(store', StoreFields) /\ store'.set = copy \ Ours /\ (store'.app => store'.there)
    BY <2>1, HoldingIs DEF MInv, M!WithoutOurs
  <2>3. HasWhatIsMeant(store.set)'
    BY <2>1, <2>2, NamesAssumption DEF MInv, ItsPlaceFits, HasWhatIsMeant
  <2> QED BY <2>1, <2>2, <2>3 DEF MInv, ItsPlaceFits, HasNoneOfOurs
<1>14. CASE M!RemovesTheHome
  <2>1. /\ UNCHANGED <<store, meant, edited, job, outcome>>
        /\ at = "home" /\ at' = "" /\ command' = "none"
    BY <1>14 DEF M!RemovesTheHome, M!Ends, M!file, M!service
  <2> QED BY <2>1 DEF MInv, HasWhatIsMeant, ItsPlaceFits, HasNoneOfOurs
<1>15. CASE M!CommandStops
  <2>1. /\ UNCHANGED <<store, meant, edited, job>>
        /\ outcome' \in {"threw", "died"} /\ at' = ""
    BY <1>15 DEF M!CommandStops, M!Ends, M!file, M!service
  <2> QED BY <2>1 DEF MInv, HasWhatIsMeant, ItsPlaceFits
<1>16. ASSUME NEW n \in Theirs, M!UserEdits(n) PROVE MInv'
  <2> DEFINE set == IF n \in store.set THEN store.set \ {n} ELSE store.set \union {n}
  <2>1. /\ store' = M!Holding(set)
        /\ meant' = IF n \in store.set THEN meant \ {n} ELSE meant \union {n}
        /\ edited' = IF at = "save" THEN edited \union {n} ELSE edited \ {n}
        /\ UNCHANGED <<job, command, at, copy, outcome>>
    BY <1>16 DEF M!UserEdits, M!service, M!progress
  <2>2. IsRecord(store', StoreFields) /\ store'.set = set /\ (store'.app => store'.there)
    BY <2>1, HoldingIs DEF MInv
  <2> HIDE DEF set
  <2>3. HasWhatIsMeant(store.set)'
    BY <2>1, <2>2 DEF MInv, HasWhatIsMeant, set
  <2>4. at = "save" => HasWhatIsMeant(copy)'
    BY <2>1 DEF MInv, ItsPlaceFits, HasWhatIsMeant
  <2>5. store'.set \intersect Ours = store.set \intersect Ours
    BY <2>2, NamesAssumption DEF set
  <2>6. ItsPlaceFits'
    BY <2>1, <2>4, <2>5 DEF MInv, ItsPlaceFits, HasNoneOfOurs
  <2>7. NoWindowIsStrandedInSilence'
    BY <2>1, <2>5 DEF MInv
  <2> QED BY <2>1, <2>2, <2>3, <2>6, <2>7 DEF MInv
<1> QED BY <1>1, <1>2, <1>3, <1>4, <1>5, <1>6, <1>7, <1>8, <1>9, <1>10, <1>11, <1>12, <1>13, <1>14,
           <1>15, <1>16 DEF M!Next

LEMMA TheMachineFits == Spec => []MInv
<1>1. Init => MInv
  <2>1. SUFFICES ASSUME Init PROVE MInv
    OBVIOUS
  <2>2. PICK mine \in SUBSET Theirs, app \in BOOLEAN :
          /\ store = [set |-> mine, app |-> app, there |-> mine # {} \/ app]
          /\ meant = mine
    BY <2>1 DEF Init, M!Init
  <2>3. IsRecord(store, StoreFields) /\ store.set = mine
    BY <2>2 DEF IsRecord, StoreFields
  <2>4. store.app => store.there
    BY <2>2, Zenon
  <2>5. at = "" /\ job = [written |-> FALSE, taken |-> FALSE]
    BY <2>1 DEF Init, M!Init
  <2>6. IsRecord(job, JobFields)
    BY <2>5 DEF IsRecord, JobFields
  <2>7. store.set \intersect Ours = {}
    BY <2>3, NamesAssumption
  <2> QED BY <2>2, <2>3, <2>4, <2>5, <2>6, <2>7
          DEF MInv, HasWhatIsMeant, ItsPlaceFits, NoWindowIsStrandedInSilence, M!NoWindowIsStrandedInSilence
<1>2. MInv /\ [Next]_vars => MInv'
  BY Apart, MStep
<1> QED BY <1>1, <1>2, PTL DEF Spec

\* Whatever installs, uninstalls and deaths come beside whatever the user edits: the only
\* change of theirs that is lost is one made while a command held its copy, and the file is
\* there while the app has anything in it.
THEOREM WhatIsTheirsStays == Spec => []TheUsersVariablesStay
<1>1. MInv => TheUsersVariablesStay
  BY DEF MInv, HasWhatIsMeant, TheUsersVariablesStay, M!TheUsersVariablesStay
<1> QED BY <1>1, TheMachineFits, PTL

\* A Window is left without a relay to go to only where the last command threw, died or
\* said the store could not be changed.
THEOREM NoWindowIsLeftInSilence == Spec => []NoWindowIsStrandedInSilence
<1>1. MInv => NoWindowIsStrandedInSilence
  BY DEF MInv
<1> QED BY <1>1, TheMachineFits, PTL

-----------------------------------------------------------------------------
(* Profiles, found and opened by name.                                      *)

ClickFields == {"at", "name", "shown", "of", "in", "folder"}
AskFields   == {"at", "of"}

\* In a list of profiles the folder that was shown, and no other, has the name.
HasItAs(names, f, name) == /\ f \in DOMAIN names /\ names[f] = name
                           /\ \A g \in DOMAIN names : names[g] = name => g = f

Moments == 1..Len(past)

\* At this moment this folder was there, and in the list of it was called so.
WasCalled(moment, f, name) == /\ moment \in Moments /\ f \in past[moment]
                              /\ F!NamesApart(past[moment])[f] = name

ThePastFits == past \in Seq(SUBSET Folders) /\ past # <<>>

AskFits(a) == /\ IsRecord(asks[a], AskFields)
              /\ asks[a].at = "found" => asks[a].of \in Moments
              /\ asks[a].at = "telling" => held # None

TheListsFit == /\ held # None => held \in 0..Len(past)
               /\ fresh => held # None
               /\ lists \subseteq Moments
               /\ asks = [a \in F!Askers |-> asks[a]] /\ \A a \in F!Askers : AskFits(a)

\* What was clicked was called so where it was shown, and what was found was where it was
\* found.
ClickFits(c) ==
    /\ IsRecord(click[c], ClickFields)
    /\ click[c].at = "idle" => click[c].folder = None
    /\ click[c].at # "idle" => WasCalled(click[c].of, click[c].shown, click[c].name)
    /\ click[c].folder # None => WasCalled(click[c].in, click[c].folder, click[c].name)

TheClicksFit == click = [c \in Clicks |-> click[c]] /\ \A c \in Clicks : ClickFits(c)

FInv == ThePastFits /\ TheListsFit /\ TheClicksFit

\* What was there at a moment stays what was there.
ThePastStays == /\ past' \in Seq(SUBSET Folders) /\ past' # <<>> /\ Len(past) <= Len(past')
                /\ \A m \in Moments : past'[m] = past[m]

LEMMA SameCount == \A X : F!Cardinality(X) = Cardinality(X)
BY DEF Cardinality, F!Cardinality

\* What comes before a folder in the list and has its name.
Earlier(folders, f) == {g \in folders : g < f /\ NameFor[g] = NameFor[f]}

LEMMA NameIs ==
  ASSUME NEW folders, NEW f \in folders
  PROVE  F!NamesApart(folders)[f] = <<NameFor[f], 1 + Cardinality(Earlier(folders, f))>>
BY SameCount DEF F!NamesApart, Earlier

LEMMA FewAreEarlier ==
  ASSUME NEW folders \in SUBSET Folders, NEW f \in folders
  PROVE  IsFiniteSet(Earlier(folders, f)) /\ Cardinality(Earlier(folders, f)) \in Nat
<1>1. f \in Nat
  BY FoldersAssumption
<1>2. IsFiniteSet(0..f)
  BY <1>1, FS_Interval
<1>3. ASSUME NEW h \in Earlier(folders, f) PROVE h \in 0..f
  <2>1. h \in Nat /\ h < f
    BY FoldersAssumption DEF Earlier
  <2> QED BY <1>1, <2>1
<1> QED BY <1>2, <1>3, FS_Subset, FS_CardinalityType

\* Of two folders of one name, the later has more of that name before it.
LEMMA TheLaterHasMore ==
  ASSUME NEW folders \in SUBSET Folders, NEW f \in folders, NEW g \in folders, f < g
  PROVE  F!NamesApart(folders)[f] # F!NamesApart(folders)[g]
<1>1. SUFFICES ASSUME NameFor[f] = NameFor[g]
               PROVE  Cardinality(Earlier(folders, f)) # Cardinality(Earlier(folders, g))
  <2>1. /\ Cardinality(Earlier(folders, f)) \in Nat /\ Cardinality(Earlier(folders, g)) \in Nat
    BY FewAreEarlier
  <2> DEFINE m == Cardinality(Earlier(folders, f))
             n == Cardinality(Earlier(folders, g))
  <2>2. F!NamesApart(folders)[f] = <<NameFor[f], 1 + m>> /\ F!NamesApart(folders)[g] = <<NameFor[g], 1 + n>>
    BY NameIs
  <2>3. m \in Nat /\ n \in Nat
    BY <2>1
  <2> HIDE DEF m, n
  <2> QED BY <2>2, <2>3 DEF m, n
<1>2. ASSUME NEW h \in Earlier(folders, f) PROVE h \in Earlier(folders, g)
  <2>1. h \in folders /\ h < f /\ NameFor[h] = NameFor[g]
    BY <1>1 DEF Earlier
  <2>2. h \in Nat /\ f \in Nat /\ g \in Nat
    BY <2>1, FoldersAssumption
  <2>3. h < g
    BY <2>1, <2>2
  <2> QED BY <2>1, <2>3 DEF Earlier
<1>3. f \in Earlier(folders, g) /\ f \notin Earlier(folders, f)
  BY <1>1, FoldersAssumption DEF Earlier
<1>4. IsFiniteSet(Earlier(folders, g))
  BY FewAreEarlier
<1> QED BY <1>2, <1>3, <1>4, FS_Subset

\* namesApart: no two profiles of a list are called the same.
LEMMA NamesAreApart ==
  ASSUME NEW folders \in SUBSET Folders, NEW f \in folders
  PROVE  HasItAs(F!NamesApart(folders), f, F!NamesApart(folders)[f])
<1>1. DOMAIN F!NamesApart(folders) = folders
  BY DEF F!NamesApart
<1>2. ASSUME NEW g \in folders, F!NamesApart(folders)[g] = F!NamesApart(folders)[f] PROVE g = f
  <2>1. f \in Nat /\ g \in Nat
    BY FoldersAssumption
  <2>2. ~(f < g) /\ ~(g < f)
    BY <1>2, TheLaterHasMore
  <2> QED BY <2>1, <2>2
<1> QED BY <1>1, <1>2 DEF HasItAs

\* The name of a folder is all in the folders up to it.
LEMMA SameUpToIt ==
  ASSUME FInv, NEW m \in Moments, NEW n \in Moments, NEW f \in past[m], F!UpTo(m, f) = F!UpTo(n, f)
  PROVE  f \in past[n] /\ F!NamesApart(past[n])[f] = F!NamesApart(past[m])[f]
<1>1. past[m] \in SUBSET Folders /\ past[n] \in SUBSET Folders
  BY DEF FInv, ThePastFits, Moments
<1>2. f \in Nat
  BY <1>1, FoldersAssumption
<1>3. f \in past[n]
  BY <1>2 DEF F!UpTo
<1>4. ASSUME NEW g \in Folders, g < f PROVE g \in past[n] <=> g \in past[m]
  <2>1. g \in Nat
    BY FoldersAssumption
  <2>2. g <= f
    BY <1>2, <1>4, <2>1
  <2> QED BY <2>2 DEF F!UpTo
<1>5. Earlier(past[n], f) = Earlier(past[m], f)
  BY <1>1, <1>4 DEF Earlier
<1> QED BY <1>3, <1>5, NameIs

LEMMA TheAnswerFits ==
  ASSUME FInv, NEW a \in F!Askers, NEW list \in F!AnswersTo(a)
  PROVE  list \in 0..Len(past)
<1>1. AskFits(a) /\ Len(past) \in Nat
  BY DEF FInv, TheListsFit, ThePastFits
<1>2. F!Before \in 0..Len(past)
  BY <1>1 DEF F!Before, F!Nothing, FInv, TheListsFit
<1>3. asks[a].at = "telling" => held \in 0..Len(past)
  BY <1>1 DEF AskFits, FInv, TheListsFit
<1>4. asks[a].at = "found" => asks[a].of \in 0..Len(past)
  BY <1>1 DEF AskFits, Moments
<1> QED BY <1>2, <1>3, <1>4 DEF F!AnswersTo

\* A moment that was is a moment that was.
LEMMA MomentsStay ==
  ASSUME ThePastFits, ThePastStays
  PROVE  /\ \A m \in Moments : m \in Moments' /\ past'[m] = past[m]
         /\ \A m \in 0..Len(past) : m \in 0..Len(past')
BY DEF ThePastFits, ThePastStays, Moments

LEMMA OtherClicksFit ==
  ASSUME FInv, ThePastStays, NEW c \in Clicks, click'[c] = click[c]
  PROVE  ClickFits(c)'
<1>1. ClickFits(c)
  BY DEF FInv, TheClicksFit
<1>2. ASSUME NEW m, NEW f, NEW name, WasCalled(m, f, name)
      PROVE  m \in Moments' /\ f \in past'[m] /\ F!NamesApart(past'[m])[f] = name
  BY <1>2, MomentsStay DEF WasCalled, FInv
<1>3. click[c].at # "idle" => WasCalled(click[c].of, click[c].shown, click[c].name)'
  <2>1. SUFFICES ASSUME click[c].at # "idle"
                 PROVE  WasCalled(click[c].of, click[c].shown, click[c].name)'
    OBVIOUS
  <2>2. WasCalled(click[c].of, click[c].shown, click[c].name)
    BY <1>1, <2>1 DEF ClickFits
  <2> QED BY <1>2, <2>2 DEF WasCalled
<1>4. click[c].folder # None => WasCalled(click[c].in, click[c].folder, click[c].name)'
  <2>1. SUFFICES ASSUME click[c].folder # None
                 PROVE  WasCalled(click[c].in, click[c].folder, click[c].name)'
    OBVIOUS
  <2>2. WasCalled(click[c].in, click[c].folder, click[c].name)
    BY <1>1, <2>1 DEF ClickFits
  <2> QED BY <1>2, <2>2 DEF WasCalled
<1> QED BY <1>1, <1>3, <1>4 DEF ClickFits

\* No click moves.
LEMMA ClicksStay ==
  ASSUME FInv, ThePastStays, UNCHANGED click
  PROVE  TheClicksFit'
BY OtherClicksFit DEF FInv, TheClicksFit

\* One click goes on, and the others are left.
LEMMA OneGoes ==
  ASSUME FInv, UNCHANGED past, NEW c \in Clicks, NEW r, F!Goes(c, r),
         IsRecord(r, ClickFields), r.at = "idle" => r.folder = None,
         r.at # "idle" => WasCalled(r.of, r.shown, r.name),
         r.folder # None => WasCalled(r.in, r.folder, r.name)
  PROVE  TheClicksFit'
<1>1. /\ click' = [d \in Clicks |-> click'[d]]
      /\ click'[c] = r /\ \A d \in Clicks \ {c} : click'[d] = click[d]
  BY DEF F!Goes, FInv, TheClicksFit
<1>2. ThePastStays
  BY DEF FInv, ThePastFits, ThePastStays
<1>3. ASSUME NEW d \in Clicks \ {c} PROVE ClickFits(d)'
  BY <1>1, <1>2, OtherClicksFit
<1>4. ClickFits(c)'
  BY <1>1 DEF ClickFits, WasCalled, Moments
<1> QED BY <1>1, <1>3, <1>4 DEF TheClicksFit

LEMMA IdleFits == /\ IsRecord(F!Idle, ClickFields) /\ F!Idle.at = "idle" /\ F!Idle.folder = None
BY DEF F!Idle, IsRecord, ClickFields

LEMMA ItComesBack ==
  ASSUME FInv, UNCHANGED past, NEW c \in Clicks, F!Goes(c, F!Idle)
  PROVE  TheClicksFit'
BY OneGoes, IdleFits

\* A click goes one next further with what it has.
LEMMA ItGoesOn ==
  ASSUME FInv, UNCHANGED past, NEW c \in Clicks, NEW next \in {"launch", "appears"}, click[c].at # "idle",
         F!Goes(c, [click[c] EXCEPT !.at = next])
  PROVE  TheClicksFit'
<1> DEFINE r == [click[c] EXCEPT !.at = next]
<1>1. ClickFits(c) /\ IsRecord(click[c], ClickFields)
  BY DEF FInv, TheClicksFit, ClickFits
<1>2. /\ IsRecord(r, ClickFields) /\ r.at = next /\ r.folder = click[c].folder /\ r.shown = click[c].shown
      /\ r.of = click[c].of /\ r.in = click[c].in /\ r.name = click[c].name
  BY <1>1 DEF IsRecord, ClickFields
<1>3. F!Goes(c, r)
  OBVIOUS
<1> HIDE DEF r
<1>4. r.at # "idle"
  BY <1>2
<1>5. /\ WasCalled(r.of, r.shown, r.name)
      /\ r.folder # None => WasCalled(r.in, r.folder, r.name)
  BY <1>1, <1>2 DEF ClickFits
<1> QED BY <1>2, <1>3, <1>4, <1>5, OneGoes

LEMMA ItIsClicked ==
  ASSUME FInv, NEW c \in Clicks, F!Clicked(c)
  PROVE  TheClicksFit'
<1>1. PICK list \in lists : \E f \in DOMAIN F!NamesOf(list) :
        F!Goes(c, [at |-> "find", name |-> F!NamesOf(list)[f], shown |-> f, of |-> list, in |-> 0,
                   folder |-> None])
  BY DEF F!Clicked
<1>2. PICK f \in DOMAIN F!NamesOf(list) :
        F!Goes(c, [at |-> "find", name |-> F!NamesOf(list)[f], shown |-> f, of |-> list, in |-> 0,
                   folder |-> None])
  BY <1>1
<1> DEFINE r == [at |-> "find", name |-> F!NamesOf(list)[f], shown |-> f, of |-> list, in |-> 0,
                 folder |-> None]
<1>3. UNCHANGED past
  BY DEF F!Clicked
<1>4. /\ IsRecord(r, ClickFields) /\ r.at = "find" /\ r.name = F!NamesOf(list)[f] /\ r.shown = f
      /\ r.of = list /\ r.folder = None
  BY DEF IsRecord, ClickFields
<1>5. F!Goes(c, r)
  BY <1>2
<1> HIDE DEF r
<1>6. list \in Moments
  BY DEF FInv, TheListsFit
<1>7. F!NamesOf(list) = F!NamesApart(past[list])
  <2>1. list # 0
    BY <1>6 DEF Moments
  <2> QED BY <2>1 DEF F!NamesOf, F!Nothing
<1>8. f \in past[list]
  BY <1>7 DEF F!NamesApart
<1>9. WasCalled(r.of, r.shown, r.name)
  BY <1>4, <1>6, <1>7, <1>8 DEF WasCalled
<1>10. r.at # "idle"
  BY <1>4
<1> QED BY <1>3, <1>4, <1>5, <1>9, <1>10, OneGoes

LEMMA ItIsFound ==
  ASSUME FInv, NEW c \in Clicks, F!Finds(c)
  PROVE  TheClicksFit'
<1>1. PICK list \in F!AnswersTo(c) :
        LET found == F!Named(F!NamesOf(list), click[c].name) IN
        IF found = {} THEN F!Goes(c, F!Idle)
        ELSE \E f \in found : /\ \A g \in found : f <= g
                              /\ F!Goes(c, [click[c] EXCEPT !.at = "look", !.in = list, !.folder = f])
  BY DEF F!Finds
<1>2. UNCHANGED past /\ c \in F!Askers
  BY DEF F!Finds, F!Askers
<1>3. CASE F!Goes(c, F!Idle)
  BY <1>2, <1>3, ItComesBack
<1>4. ASSUME NEW f \in F!Named(F!NamesOf(list), click[c].name),
             F!Goes(c, [click[c] EXCEPT !.at = "look", !.in = list, !.folder = f])
      PROVE  TheClicksFit'
  <2> DEFINE r == [click[c] EXCEPT !.at = "look", !.in = list, !.folder = f]
  <2>1. ClickFits(c) /\ IsRecord(click[c], ClickFields)
    BY DEF FInv, TheClicksFit, ClickFits
  <2>2. /\ IsRecord(r, ClickFields) /\ r.at = "look" /\ r.folder = f /\ r.in = list
        /\ r.shown = click[c].shown /\ r.of = click[c].of /\ r.name = click[c].name
    BY <2>1 DEF IsRecord, ClickFields
  <2>3. F!Goes(c, r)
    BY <1>4
  <2> HIDE DEF r
  <2>4. list \in 0..Len(past)
    BY <1>2, TheAnswerFits
  <2>5. f \in DOMAIN F!NamesOf(list) /\ F!NamesOf(list)[f] = click[c].name
    BY <1>4 DEF F!Named
  <2>6. list # F!Nothing
    BY <2>5 DEF F!NamesOf, F!NamesApart
  <2>7. list \in Moments
    BY <2>4, <2>6 DEF F!Nothing, Moments, FInv, ThePastFits
  <2>8. F!NamesOf(list) = F!NamesApart(past[list])
    BY <2>6 DEF F!NamesOf
  <2>9. f \in past[list]
    BY <2>5, <2>8 DEF F!NamesApart
  <2>10. WasCalled(r.in, r.folder, r.name)
    BY <2>2, <2>5, <2>7, <2>8, <2>9 DEF WasCalled
  <2>11. WasCalled(r.of, r.shown, r.name)
    <3>1. click[c].at # "idle"
      BY DEF F!Finds
    <3> QED BY <2>1, <2>2, <3>1 DEF ClickFits
  <2>12. r.at # "idle"
    BY <2>2
  <2> QED BY <1>2, <2>2, <2>3, <2>10, <2>11, <2>12, OneGoes
<1> QED BY <1>1, <1>3, <1>4

\* One asking goes on, and the others are left.
LEMMA OneAsks ==
  ASSUME FInv, UNCHANGED past, NEW a \in F!Askers, NEW r, asks' = [asks EXCEPT ![a] = r],
         IsRecord(r, AskFields), r.at = "found" => r.of \in Moments, r.at = "telling" => held' # None,
         held' # None => held' \in 0..Len(past), fresh' => held' # None, held # None => held' # None,
         lists' \subseteq Moments
  PROVE  TheListsFit'
<1>1. /\ asks' = [b \in F!Askers |-> asks'[b]] /\ asks'[a] = r
      /\ \A b \in F!Askers \ {a} : asks'[b] = asks[b]
  BY DEF FInv, TheListsFit
<1>2. ASSUME NEW b \in F!Askers \ {a} PROVE AskFits(b)'
  BY <1>1 DEF FInv, TheListsFit, AskFits, Moments
<1>3. AskFits(a)'
  BY <1>1 DEF AskFits, Moments
<1> QED BY <1>1, <1>2, <1>3 DEF TheListsFit, F!Askers, Moments

LEMMA ItIsAskedFor ==
  ASSUME FInv, NEW a \in F!Askers, F!AsksForTheList(a)
  PROVE  TheListsFit'
<1> DEFINE r == [asks[a] EXCEPT !.at = IF fresh THEN "telling" ELSE "finding"]
<1>1. asks' = [asks EXCEPT ![a] = r] /\ UNCHANGED <<past, held, fresh, lists>>
  BY DEF F!AsksForTheList
<1>2. IsRecord(asks[a], AskFields)
  BY DEF FInv, TheListsFit, AskFits
<1>3. IsRecord(r, AskFields) /\ r.at = IF fresh THEN "telling" ELSE "finding"
  BY <1>2 DEF IsRecord, AskFields
<1> HIDE DEF r
<1>4. r.at # "found" /\ (r.at = "telling" => held # None)
  BY <1>3 DEF FInv, TheListsFit
<1> QED BY <1>1, <1>3, <1>4, OneAsks DEF FInv, TheListsFit

LEMMA TheFoldersAreRead ==
  ASSUME FInv, NEW a \in F!Askers, F!ReadsTheFolders(a)
  PROVE  TheListsFit'
<1> DEFINE r == [at |-> "found", of |-> F!Now]
<1>1. asks' = [asks EXCEPT ![a] = r] /\ UNCHANGED <<past, held, fresh, lists>>
  BY DEF F!ReadsTheFolders
<1>2. IsRecord(r, AskFields) /\ r.at = "found" /\ r.of = Len(past)
  BY DEF IsRecord, AskFields, F!Now
<1> HIDE DEF r
<1>3. r.of \in Moments /\ r.at # "telling"
  BY <1>2 DEF FInv, ThePastFits, Moments
<1> QED BY <1>1, <1>2, <1>3, OneAsks DEF FInv, TheListsFit

LEMMA ItIsAnswered ==
  ASSUME FInv, UNCHANGED past, NEW a \in F!Askers, NEW list \in F!AnswersTo(a), F!IsAnswered(a, list),
         lists' \in {lists, lists \union ({list} \ {F!Nothing})}
  PROVE  TheListsFit'
<1>1. list \in 0..Len(past)
  BY TheAnswerFits
<1>2. asks' = [asks EXCEPT ![a] = F!Quiet]
  BY DEF F!IsAnswered
<1>3. IsRecord(F!Quiet, AskFields) /\ F!Quiet.at \notin {"found", "telling"}
  BY DEF F!Quiet, IsRecord, AskFields
<1>4. lists' \subseteq Moments
  BY <1>1 DEF FInv, TheListsFit, F!Nothing, Moments, ThePastFits
<1>5. \/ UNCHANGED <<held, fresh>>
      \/ held' = list /\ fresh' = TRUE
  BY DEF F!IsAnswered
<1>6. list # None
  <2>1. Len(past) \in Nat
    BY DEF FInv, ThePastFits
  <2>2. list \in Nat
    BY <1>1, <2>1
  <2> QED BY <2>2, NoneAssumption
<1> QED BY <1>1, <1>2, <1>3, <1>4, <1>5, <1>6, OneAsks DEF FInv, TheListsFit

LEMMA ListsStay ==
  ASSUME FInv, ThePastStays, UNCHANGED <<held, asks, lists>>, fresh' => fresh
  PROVE  TheListsFit'
<1>1. ASSUME NEW a \in F!Askers PROVE AskFits(a)'
  BY MomentsStay DEF FInv, TheListsFit, AskFits
<1> QED BY <1>1, MomentsStay DEF FInv, TheListsFit, F!Askers

LEMMA OneComesOrGoes ==
  ASSUME FInv, NEW f \in Folders, F!ComesOrGoes(f)
  PROVE  ThePastStays
<1>1. past \in Seq(SUBSET Folders) /\ F!There \in SUBSET Folders
  BY DEF FInv, ThePastFits, F!There, F!Now
<1> DEFINE there == IF f \in F!There THEN F!There \ {f} ELSE F!There \union {f}
<1>2. past' = Append(past, there) /\ there \in SUBSET Folders
  BY <1>1 DEF F!ComesOrGoes
<1> HIDE DEF there
<1> QED BY <1>1, <1>2 DEF ThePastStays, Moments

LEMMA FStep ==
  ASSUME FInv, F!Next \/ UNCHANGED profiles
  PROVE  FInv'
<1>1. ASSUME UNCHANGED past PROVE ThePastFits' /\ ThePastStays
  BY <1>1 DEF FInv, ThePastFits, ThePastStays
<1>2. ASSUME UNCHANGED <<past, held, asks, lists, click>>, fresh' => fresh PROVE FInv'
  BY <1>1, <1>2, ListsStay, ClicksStay DEF FInv
<1>3. CASE UNCHANGED profiles
  BY <1>2, <1>3 DEF profiles
<1>4. CASE F!Expires
  BY <1>2, <1>4 DEF F!Expires
<1>5. ASSUME NEW a \in F!Askers, F!AsksForTheList(a) \/ F!ReadsTheFolders(a) PROVE FInv'
  <2>1. UNCHANGED <<past, click>>
    BY <1>5 DEF F!AsksForTheList, F!ReadsTheFolders
  <2>2. TheListsFit'
    BY <1>5, ItIsAskedFor, TheFoldersAreRead
  <2> QED BY <1>1, <2>1, <2>2, ClicksStay DEF FInv
<1>6. ASSUME NEW v \in Viewers, F!Shows(v) PROVE FInv'
  <2>1. UNCHANGED <<past, click>> /\ v \in F!Askers
    BY <1>6 DEF F!Shows, F!Askers
  <2>2. PICK list \in F!AnswersTo(v) :
          F!IsAnswered(v, list) /\ lists' = lists \union ({list} \ {F!Nothing})
    BY <1>6 DEF F!Shows
  <2>3. TheListsFit'
    BY <2>1, <2>2, ItIsAnswered
  <2> QED BY <1>1, <2>1, <2>3, ClicksStay DEF FInv
<1>7. ASSUME NEW c \in Clicks, F!Finds(c) PROVE FInv'
  <2>1. UNCHANGED <<past, lists>> /\ c \in F!Askers
    BY <1>7 DEF F!Finds, F!Askers
  <2>2. PICK list \in F!AnswersTo(c) : F!IsAnswered(c, list)
    BY <1>7 DEF F!Finds
  <2>3. TheListsFit'
    BY <2>1, <2>2, ItIsAnswered
  <2> QED BY <1>1, <1>7, <2>1, <2>3, ItIsFound DEF FInv
<1>8. ASSUME NEW c \in Clicks, UNCHANGED <<past, held, fresh, asks, lists>>, TheClicksFit' PROVE FInv'
  BY <1>1, <1>8, ListsStay DEF FInv
<1>9. ASSUME NEW c \in Clicks, F!Clicked(c) PROVE FInv'
  BY <1>8, <1>9, ItIsClicked DEF F!Clicked
<1>10. ASSUME NEW c \in Clicks, F!LooksAndRaises(c) \/ F!Appears(c) PROVE FInv'
  BY <1>8, <1>10, ItComesBack DEF F!LooksAndRaises, F!Appears
<1>11. ASSUME NEW c \in Clicks, F!LooksAndGoesOn(c) PROVE FInv'
  BY <1>8, <1>11, ItGoesOn DEF F!LooksAndGoesOn
<1>12. ASSUME NEW c \in Clicks, F!Launches(c) PROVE FInv'
  BY <1>8, <1>12, ItGoesOn, ItComesBack DEF F!Launches
<1>13. ASSUME NEW f \in Folders, F!Closes(f) \/ F!OpensByHand(f) PROVE FInv'
  BY <1>2, <1>13 DEF F!Closes, F!OpensByHand
<1>14. ASSUME NEW f \in Folders, F!ComesOrGoes(f) PROVE FInv'
  <2>1. ThePastStays /\ UNCHANGED <<held, fresh, asks, lists, click>>
    BY <1>14, OneComesOrGoes DEF F!ComesOrGoes
  <2>2. ThePastFits'
    BY <2>1 DEF ThePastStays, ThePastFits
  <2> QED BY <2>1, <2>2, ListsStay, ClicksStay DEF FInv
<1> QED BY <1>3, <1>4, <1>5, <1>6, <1>7, <1>9, <1>10, <1>11, <1>12, <1>13, <1>14 DEF F!Next

\* For any folders, names and viewers, and findings that overlap in any order: a click opens
\* the folder that was shown under the name it comes back with, unless the folders up to that
\* one were others when the list it was looked up in was read than when the list it was
\* clicked on was.
THEOREM ANameOpensItsFolder == Spec => []OnlyAMovedNameIsMistaken
<1>1. Init => FInv
  <2>1. SUFFICES ASSUME Init PROVE FInv
    OBVIOUS
  <2>2. F!Init
    BY <2>1 DEF Init
  <2>3. ThePastFits
    BY <2>2, FoldersAssumption DEF F!Init, ThePastFits
  <2>4. IsRecord(F!Quiet, AskFields) /\ F!Quiet.at = "quiet"
    BY DEF F!Quiet, IsRecord, AskFields
  <2>5. TheListsFit
    BY <2>2, <2>4 DEF F!Init, TheListsFit, AskFits
  <2>6. TheClicksFit
    BY <2>2, IdleFits DEF F!Init, TheClicksFit, ClickFits
  <2> QED BY <2>3, <2>5, <2>6 DEF FInv
<1>2. FInv /\ [Next]_vars => FInv'
  BY Apart, FStep
<1>3. ASSUME FInv, NEW c \in Clicks, click[c].folder \notin {None, click[c].shown},
             F!UpTo(click[c].of, click[c].shown) = F!UpTo(click[c].in, click[c].shown)
      PROVE  FALSE
  <2> DEFINE f == click[c].shown
             g == click[c].folder
             m == click[c].of
             n == click[c].in
  <2>1. WasCalled(m, f, click[c].name) /\ WasCalled(n, g, click[c].name)
    BY <1>3 DEF FInv, TheClicksFit, ClickFits
  <2>2. F!UpTo(m, f) = F!UpTo(n, f) /\ f # g
    BY <1>3
  <2> HIDE DEF f, g, m, n
  <2>3. f \in past[n] /\ F!NamesApart(past[n])[f] = F!NamesApart(past[m])[f]
    BY <1>3, <2>1, <2>2, SameUpToIt DEF WasCalled
  <2>4. past[n] \in SUBSET Folders
    BY <1>3, <2>1 DEF FInv, ThePastFits, WasCalled, Moments
  <2>5. HasItAs(F!NamesApart(past[n]), f, F!NamesApart(past[n])[f])
    BY <2>3, <2>4, NamesAreApart
  <2>6. g \in DOMAIN F!NamesApart(past[n])
    BY <2>1 DEF WasCalled, F!NamesApart
  <2> QED BY <2>1, <2>2, <2>3, <2>5, <2>6 DEF HasItAs, WasCalled
<1>4. FInv => OnlyAMovedNameIsMistaken
  BY <1>3 DEF OnlyAMovedNameIsMistaken, F!OnlyAMovedNameIsMistaken
<1> QED BY <1>1, <1>2, <1>4, PTL DEF Spec

-----------------------------------------------------------------------------
(* What the page says, beside what Auto does.                               *)

\* What is known of a window was read at a moment, and is a number.
IsAReading(known) == known = None \/ (known.used \in Percents /\ known.readAt \in Int)

PInv == /\ now \in Int
        /\ DOMAIN week = Seats /\ DOMAIN five = Seats
        /\ week = [s \in Seats |-> week[s]] /\ five = [s \in Seats |-> five[s]]
        /\ \A s \in Seats : IsAReading(week[s]) /\ IsAReading(five[s])

LEMMA PStep ==
  ASSUME PInv, P!Next \/ UNCHANGED table
  PROVE  PInv'
<1>1. ASSUME NEW known \in P!Reading PROVE IsAReading(known)
  BY <1>1 DEF PInv, P!Reading, IsAReading
<1>2. CASE UNCHANGED table
  BY <1>2 DEF table, PInv
<1>3. ASSUME NEW s \in Seats, P!WeekIsRead(s) PROVE PInv'
  <2>1. PICK known \in P!Reading : week' = [week EXCEPT ![s] = known]
    BY <1>3 DEF P!WeekIsRead
  <2> QED BY <1>1, <1>3, <2>1 DEF P!WeekIsRead, PInv
<1>4. ASSUME NEW s \in Seats, P!FiveIsRead(s) PROVE PInv'
  <2>1. PICK known \in P!Reading : five' = [five EXCEPT ![s] = known]
    BY <1>4 DEF P!FiveIsRead
  <2> QED BY <1>1, <1>4, <2>1 DEF P!FiveIsRead, PInv
<1>5. ASSUME UNCHANGED <<week, five>>, now' \in {now, now + 1} PROVE PInv'
  BY <1>5 DEF PInv
<1>6. ASSUME NEW s \in Seats, P!TokenGoes(s) PROVE PInv'
  BY <1>5, <1>6 DEF P!TokenGoes
<1>7. ASSUME NEW s \in Seats, NEW m \in Models, P!Refuses(s, m) PROVE PInv'
  BY <1>5, <1>7 DEF P!Refuses
<1>8. ASSUME NEW m \in Models \union {None}, P!Decides(m) PROVE PInv'
  BY <1>5, <1>8 DEF P!Decides
<1>9. CASE P!Switches
  BY <1>5, <1>9 DEF P!Switches
<1>10. CASE P!Passes
  BY <1>5, <1>10 DEF P!Passes, P!facts
<1> QED BY <1>2, <1>3, <1>4, <1>6, <1>7, <1>8, <1>9, <1>10 DEF P!Next

\* A share that is known is a number.
LEMMA SharesAreNumbers ==
  ASSUME NEW known, IsAReading(known)
  PROVE  /\ P!Share(known) # None => P!Share(known) \in Int
         /\ P!AtLeast(P!Share(known), 100) => P!AtLeast(P!Share(known), 98)
<1>1. P!Share(known) # None => P!Share(known) \in Int
  <2>1. CASE known = None
    BY <2>1 DEF P!Share
  <2>2. CASE known # None
    <3>1. known.used \in Int
      BY <2>2, PercentsAssumption DEF IsAReading
    <3> QED BY <2>2, <3>1 DEF P!Share
  <2> QED BY <2>1, <2>2
<1> DEFINE share == P!Share(known)
<1> HIDE DEF share
<1>2. P!AtLeast(share, 100) => P!AtLeast(share, 98)
  BY <1>1 DEF P!AtLeast, share
<1> QED BY <1>1, <1>2 DEF share

\* A session that the Chooser has as spent is read as spent by the page; and what the page
\* alone has as spent has aged out.
LEMMA TwoJudgements ==
  ASSUME PInv, NEW s \in Seats
  PROVE  /\ P!FiveHourIsSpent(five[s]) => P!AtLeast(P!Share(five[s]), 100)
         /\ P!AtLeast(P!Share(five[s]), 100) /\ ~P!FiveHourIsSpent(five[s]) => P!AgedOut(s)
<1>1. IsAReading(five[s]) /\ now \in Int
  BY DEF PInv
<1>2. P!FiveHourIsSpent(five[s]) => P!AtLeast(P!Share(five[s]), 100)
  <2>1. SUFFICES ASSUME P!FiveHourIsSpent(five[s]) PROVE P!AtLeast(P!Share(five[s]), 100)
    OBVIOUS
  <2>2. five[s] # None /\ ~P!HasReset(five[s]) /\ five[s].used >= 100 /\ five[s].used \in Percents
    BY <1>1, <2>1 DEF P!FiveHourIsSpent, IsAReading
  <2> QED BY <2>2, NoneAssumption DEF P!Share, P!AtLeast
<1>3. P!AtLeast(P!Share(five[s]), 100) /\ ~P!FiveHourIsSpent(five[s]) => P!AgedOut(s)
  <2>1. SUFFICES ASSUME P!AtLeast(P!Share(five[s]), 100), ~P!FiveHourIsSpent(five[s]) PROVE P!AgedOut(s)
    OBVIOUS
  <2>2. five[s] # None /\ ~P!HasReset(five[s]) /\ five[s].used >= 100
    BY <2>1 DEF P!AtLeast, P!Share
  <2>3. five[s].resetsAt = None /\ ~(now - five[s].readAt < FiveHours)
    BY <2>1, <2>2 DEF P!FiveHourIsSpent
  <2>4. five[s].readAt \in Int
    BY <1>1, <2>2 DEF IsAReading
  <2>5. now - five[s].readAt >= FiveHours
    BY <1>1, <2>3, <2>4, PercentsAssumption
  <2> QED BY <2>1, <2>3, <2>5 DEF P!AgedOut
<1> QED BY <1>2, <1>3

\* One row of the table beside what Auto would do with its Seat.
LEMMA TheRowAgrees ==
  ASSUME PInv, NEW s \in Seats
  PROVE  /\ P!Group(s) # "spent" => P!CouldBeChosen(s, None)
         /\ P!CouldBeChosen(s, None) => /\ ~P!RuledOut(s, None)
                                        /\ P!Group(s) # "spent" \/ P!NearlyGone(s) \/ P!AgedOut(s)
         /\ P!Cord(s) = "quiet" => \A m \in Models \union {None} : P!CouldBeChosen(s, m)
<1>1. IsAReading(week[s]) /\ IsAReading(five[s])
  BY DEF PInv
<1>2. s \in hasToken /\ ~P!IsSpent(s) =>
        ~P!FiveHourIsSpent(five[s]) /\ P!WeekLeft(s)
  BY <1>1, SharesAreNumbers, TwoJudgements DEF P!IsSpent, P!WeekLeft
<1>3. P!Group(s) # "spent" <=> s \in hasToken /\ ~P!IsSpent(s)
  BY DEF P!Group
<1>4. P!Group(s) # "spent" => P!CouldBeChosen(s, None)
  BY <1>2, <1>3 DEF P!CouldBeChosen, P!RuledOut, P!OnCooldown
<1>5. ASSUME P!CouldBeChosen(s, None) PROVE P!Group(s) # "spent" \/ P!NearlyGone(s) \/ P!AgedOut(s)
  <2>1. s \in hasToken /\ ~P!FiveHourIsSpent(five[s]) /\ P!WeekLeft(s)
    BY <1>5 DEF P!CouldBeChosen, P!RuledOut
  <2> QED BY <1>3, <2>1, TwoJudgements DEF P!IsSpent, P!WeekLeft, P!NearlyGone
<1>6. ASSUME P!Cord(s) = "quiet", NEW m \in Models \union {None} PROVE P!CouldBeChosen(s, m)
  <2>1. s \in hasToken /\ ~P!IsSpent(s) /\ ~P!Cooling(s)
    BY <1>6 DEF P!Cord
  <2>2. ~P!OnCooldown(s, m)
    BY <2>1 DEF P!OnCooldown, P!Cooling
  <2> QED BY <1>2, <2>1, <2>2 DEF P!CouldBeChosen, P!RuledOut
<1>7. P!CouldBeChosen(s, None) => ~P!RuledOut(s, None)
  BY DEF P!CouldBeChosen
<1> QED BY <1>4, <1>5, <1>6, <1>7

LEMMA ThePageAgrees == PInv => TheTableAgreesWithAuto
<1> SUFFICES ASSUME PInv PROVE TheTableAgreesWithAuto
  OBVIOUS
<1>1. /\ P!PageState.heading = P!Heading /\ P!PageState.sub = P!Sub /\ P!PageState.picks = P!Suggested
      /\ \A s \in Seats : /\ P!PageState.seats[s].group = P!Group(s)
                          /\ P!PageState.seats[s].cord = P!Cord(s)
  BY DEF P!PageState, P!OneSeat
<1>2. ASSUME NEW s \in Seats, P!CouldBeChosen(s, None) PROVE s \in P!Suggested \union {P!Payer}
  BY <1>2, TheRowAgrees DEF P!Suggested
<1>3. choice.mode = "auto" =>
        P!Chosen(None) = IF \E s \in Seats : P!CouldBeChosen(s, None)
                         THEN {s \in Seats : P!CouldBeChosen(s, None)} ELSE {NoSeat}
  BY DEF P!Chosen
<1>4. ASSUME choice.mode = "auto", P!Heading = "Auto has not chosen yet" PROVE NoSeat \notin P!Chosen(None)
  <2>1. P!WithRoom # {}
    BY <1>4 DEF P!Heading, P!WaitingToChoose
  <2>2. PICK s \in Seats : P!Group(s) # "spent"
    BY <2>1 DEF P!WithRoom
  <2>3. P!CouldBeChosen(s, None)
    BY <2>2, TheRowAgrees
  <2> QED BY <1>3, <1>4, <2>3, SeatsAssumption
<1>5. ASSUME choice.mode = "auto", P!Sub = "no Seat has room" \/ P!Icon(P!PageState) = "off",
             NEW s \in P!Chosen(None) \ {NoSeat}
      PROVE  P!NearlyGone(s) \/ P!AgedOut(s)
  <2>1. P!Payer = NoSeat /\ ~P!WaitingToChoose
    <3>1. CASE P!Sub = "no Seat has room"
      BY <3>1, NoneAssumption DEF P!Sub
    <3>2. CASE P!Icon(P!PageState) = "off"
      <4>1. P!Payer = NoSeat /\ P!Sub # "nothing has asked yet"
        BY <1>1, <3>2 DEF P!Icon
      <4> QED BY <1>5, <4>1 DEF P!Sub
    <3> QED BY <1>5, <3>1, <3>2
  <2>2. P!WithRoom = {}
    BY <1>5, <2>1 DEF P!WaitingToChoose
  <2>3. s \in Seats /\ P!CouldBeChosen(s, None)
    BY <1>3, <1>5
  <2>4. P!Group(s) = "spent"
    BY <2>2, <2>3 DEF P!WithRoom
  <2> QED BY <2>3, <2>4, TheRowAgrees
<1> DEFINE paint == P!PageState
<1>6. \A s \in Seats :
        LET row == paint.seats[s] IN
        /\ row.group # "spent" => P!CouldBeChosen(s, None)
        /\ P!CouldBeChosen(s, None) => /\ s \in paint.picks \union {P!Payer}
                                       /\ row.group # "spent" \/ P!NearlyGone(s) \/ P!AgedOut(s)
        /\ row.cord = "quiet" /\ row.tag = None => \A m \in Models \union {None} : P!CouldBeChosen(s, m)
  BY <1>1, <1>2, TheRowAgrees
<1>7. choice.mode = "auto" =>
        /\ paint.heading = "Auto has not chosen yet" => NoSeat \notin P!Chosen(None)
        /\ paint.sub = "no Seat has room" \/ P!Icon(paint) = "off" =>
             \A s \in P!Chosen(None) \ {NoSeat} : P!NearlyGone(s) \/ P!AgedOut(s)
  BY <1>1, <1>4, <1>5
<1> HIDE DEF paint
<1> QED BY <1>6, <1>7 DEF TheTableAgreesWithAuto, P!TheTableAgreesWithAuto, paint

\* Whatever is known of any number of Seats, and however old it is, the table, the picks, the
\* heading and the icon tell what Auto does, but for the two bands that are named.
THEOREM OneStoryIsTold == Spec => []TheTableAgreesWithAuto
<1>1. Init => PInv
  <2>1. SUFFICES ASSUME Init PROVE PInv
    OBVIOUS
  <2>2. now = 1 /\ week = [s \in Seats |-> None] /\ five = [s \in Seats |-> None]
    BY <2>1 DEF Init, P!Init
  <2> QED BY <2>2 DEF PInv, IsAReading
<1>2. PInv /\ [Next]_vars => PInv'
  BY Apart, PStep
<1> QED BY <1>1, <1>2, ThePageAgrees, PTL DEF Spec

-----------------------------------------------------------------------------
(* Startup, the item and its processes.                                     *)

\* What is this item's and running, script or relay.
Alive(p) == S!Running(p, "relay") \union S!Running(p, "supervisor")

\* Where no command is at work and there is no item, only slips run; a command that is not
\* an uninstall has its item; and one that is ending what it listed has listed the rest.
OnlySlipsWithoutItem(p) == doing[p] = None /\ p \notin item => Alive(p) \subseteq slipped
ItsItemIsThere(p) == doing[p] # None /\ doing[p].what # "uninstall" => p \in item
TheListHasTheRest(p) ==
    doing[p] # None /\ doing[p].at = "end" /\ ~doing[p].blind =>
      Alive(p) \subseteq doing[p].left \union slipped

SInv == /\ S!TypeOK
        /\ \A p \in Ports : /\ OnlySlipsWithoutItem(p)
                            /\ ItsItemIsThere(p)
                            /\ TheListHasTheRest(p)

\* Whoever ends, ends alone: nothing begins to run, nothing changes its port.
LEMMA OneEnds ==
  ASSUME S!TypeOK, NEW i \in Pids, process' = S!Without(i)
  PROVE  /\ process' \in [Pids -> [kind : S!Kinds, port : Ports, of : Pids \union {None}] \union {None}]
         /\ \A p \in Ports : Alive(p)' \subseteq Alive(p) \ {i}
<1>1. process' \in [Pids -> [kind : S!Kinds, port : Ports, of : Pids \union {None}] \union {None}]
  BY DEF S!TypeOK, S!Without
<1>2. ASSUME NEW p \in Ports, NEW j \in Alive(p)'
      PROVE  j \in Alive(p) \ {i}
  <2>1. j \in Pids /\ process'[j] # None /\ process'[j].port = p
        /\ process'[j].kind \in {"relay", "supervisor"}
    BY <1>2 DEF Alive, S!Running
  <2>2. j # i /\ process[j] # None
    BY <2>1 DEF S!Without
  <2>3. process[j] \in [kind : S!Kinds, port : Ports, of : Pids \union {None}]
    BY <2>1, <2>2 DEF S!TypeOK
  <2>4. process[j].port = process'[j].port /\ process[j].kind = process'[j].kind
    BY <2>1, <2>2, <2>3 DEF S!Without
  <2> QED BY <2>1, <2>2, <2>4 DEF Alive, S!Running
<1> QED BY <1>1, <1>2

\* Whoever starts, starts alone, and under its own port.
LEMMA OneStarts ==
  ASSUME S!TypeOK, NEW kind \in S!Kinds, NEW q \in Ports, NEW i \in Pids, NEW s \in Pids \union {None},
         process' = S!Starts(kind, q, i, s)
  PROVE  /\ process' \in [Pids -> [kind : S!Kinds, port : Ports, of : Pids \union {None}] \union {None}]
         /\ Alive(q)' \subseteq Alive(q) \union {i}
         /\ \A p \in Ports \ {q} : Alive(p)' \subseteq Alive(p)
<1>1. process' \in [Pids -> [kind : S!Kinds, port : Ports, of : Pids \union {None}] \union {None}]
  BY DEF S!TypeOK, S!Starts
<1>2. ASSUME NEW p \in Ports, NEW j \in Alive(p)'
      PROVE  j \in Alive(p) \/ (j = i /\ p = q)
  <2>1. j \in Pids /\ process'[j] # None /\ process'[j].port = p
        /\ process'[j].kind \in {"relay", "supervisor"}
    BY <1>2 DEF Alive, S!Running
  <2>2. CASE j = i
    <3>1. process'[i] = [kind |-> kind, port |-> q, of |-> s]
      BY DEF S!TypeOK, S!Starts
    <3> QED BY <2>1, <2>2, <3>1
  <2>3. CASE j # i
    <3>1. process'[j] = process[j]
      BY <2>1, <2>3 DEF S!TypeOK, S!Starts
    <3> QED BY <2>1, <3>1 DEF Alive, S!Running
  <2> QED BY <2>2, <2>3
<1> QED BY <1>1, <1>2

-----------------------------------------------------------------------------
\* One step for each action.

LEMMA AScriptRuns ==
  ASSUME SInv, NEW s \in Pids, S!SupervisorRuns(s)
  PROVE  SInv'
<1>1. PICK q \in Ports : q = process[s].port /\ s \in Alive(q)
  <2>1. process[s] \in [kind : S!Kinds, port : Ports, of : Pids \union {None}]
    BY DEF SInv, S!TypeOK, S!SupervisorRuns
  <2> QED BY <2>1 DEF S!SupervisorRuns, Alive, S!Running
<1>2. PICK i \in S!Free :
        /\ process' = S!Starts("relay", q, i, s)
        /\ slipped' = IF s \in slipped \/ (doing[q] # None /\ doing[q].at = "end")
                      THEN slipped \union {i} ELSE slipped
  BY <1>1 DEF S!SupervisorRuns
<1>3. i \in Pids /\ "relay" \in S!Kinds /\ UNCHANGED <<item, doing>>
  BY <1>2 DEF S!Free, S!Kinds, S!SupervisorRuns
<1>4. /\ process' \in [Pids -> [kind : S!Kinds, port : Ports, of : Pids \union {None}] \union {None}]
      /\ Alive(q)' \subseteq Alive(q) \union {i}
      /\ \A p \in Ports \ {q} : Alive(p)' \subseteq Alive(p)
  BY <1>1, <1>2, <1>3, OneStarts DEF SInv
<1>5. S!TypeOK'
  BY <1>3, <1>4 DEF SInv, S!TypeOK
<1>6. slipped \subseteq slipped'
  BY <1>2
<1>7. ASSUME NEW p \in Ports
      PROVE  OnlySlipsWithoutItem(p)' /\ ItsItemIsThere(p)' /\ TheListHasTheRest(p)'
  <2>1. OnlySlipsWithoutItem(p) /\ ItsItemIsThere(p) /\ TheListHasTheRest(p)
    BY DEF SInv
  <2>2. ItsItemIsThere(p)'
    BY <1>3, <2>1 DEF ItsItemIsThere
  <2>3. CASE p # q
    <3>1. Alive(p)' \subseteq Alive(p)
      BY <1>4, <2>3
    <3>2. OnlySlipsWithoutItem(p)'
      BY <1>3, <1>6, <2>1, <3>1 DEF OnlySlipsWithoutItem
    <3>3. TheListHasTheRest(p)'
      BY <1>3, <1>6, <2>1, <3>1 DEF TheListHasTheRest
    <3> QED BY <2>2, <3>2, <3>3
  <2>4. CASE p = q
    <3>1. doing[q] = None /\ q \notin item => s \in slipped
      BY <1>1, <2>1, <2>4 DEF OnlySlipsWithoutItem
    <3>2. OnlySlipsWithoutItem(p)'
      BY <1>2, <1>3, <1>4, <2>1, <2>4, <3>1 DEF OnlySlipsWithoutItem
    <3>3. TheListHasTheRest(p)'
      BY <1>2, <1>3, <1>4, <2>1, <2>4 DEF TheListHasTheRest
    <3> QED BY <2>2, <3>2, <3>3
  <2> QED BY <2>3, <2>4
<1> QED BY <1>5, <1>7 DEF SInv

\* A relay that dies, and a process that is ended: what is left in a hand may shrink by it.
LEMMA AProcessEnds ==
  ASSUME SInv, NEW i \in Pids, process' = S!Without(i), slipped' = slipped \ {i}, UNCHANGED item,
         doing' \in [Ports -> S!Commands \union {None}],
         \A p \in Ports :
           \/ doing'[p] = doing[p]
           \/ /\ doing[p] # None /\ doing'[p] # None
              /\ doing'[p].what = doing[p].what /\ doing'[p].at = doing[p].at
              /\ doing'[p].blind = doing[p].blind
              /\ doing'[p].left = doing[p].left \ {i}
  PROVE  SInv'
<1>1. S!TypeOK' /\ \A p \in Ports : Alive(p)' \subseteq Alive(p) \ {i}
  BY OneEnds DEF SInv, S!TypeOK
<1>2. ASSUME NEW p \in Ports
      PROVE  OnlySlipsWithoutItem(p)' /\ ItsItemIsThere(p)' /\ TheListHasTheRest(p)'
  <2>1. OnlySlipsWithoutItem(p) /\ ItsItemIsThere(p) /\ TheListHasTheRest(p)
    BY DEF SInv
  <2>2. Alive(p)' \subseteq Alive(p) \ {i}
    BY <1>1
  <2>3. OnlySlipsWithoutItem(p)'
    BY <2>1, <2>2 DEF OnlySlipsWithoutItem
  <2>4. ItsItemIsThere(p)'
    BY <2>1 DEF ItsItemIsThere
  <2>5. TheListHasTheRest(p)'
    BY <2>1, <2>2 DEF TheListHasTheRest
  <2> QED BY <2>3, <2>4, <2>5
<1> QED BY <1>1, <1>2 DEF SInv

LEMMA ARelayDies ==
  ASSUME SInv, NEW i \in Pids, S!RelayDies(i)
  PROVE  SInv'
<1>1. doing' = doing /\ item' = item /\ process' = S!Without(i) /\ slipped' = slipped \ {i}
  BY DEF S!RelayDies
<1>2. doing' \in [Ports -> S!Commands \union {None}]
  BY <1>1 DEF SInv, S!TypeOK
<1> QED BY <1>1, <1>2, AProcessEnds

LEMMA OneIsEnded ==
  ASSUME SInv, NEW p \in Ports, NEW i \in Pids, S!EndsOne(p, i)
  PROVE  SInv'
<1> DEFINE new == [doing[p] EXCEPT !.left = @ \ {i}]
<1>1. doing[p] \in S!Commands
  BY DEF SInv, S!TypeOK, S!EndsOne
<1>2. /\ new \in S!Commands
      /\ new.what = doing[p].what /\ new.at = doing[p].at /\ new.blind = doing[p].blind
      /\ new.left = doing[p].left \ {i}
  BY <1>1 DEF S!Commands
<1>3. doing' = [doing EXCEPT ![p] = new] /\ item' = item /\ process' = S!Without(i) /\ slipped' = slipped \ {i}
  BY DEF S!EndsOne, S!Goes
<1> HIDE DEF new
<1>4. doing' \in [Ports -> S!Commands \union {None}]
  BY <1>2, <1>3 DEF SInv, S!TypeOK
<1>5. ASSUME NEW o \in Ports
      PROVE  \/ doing'[o] = doing[o]
             \/ /\ doing[o] # None /\ doing'[o] # None
                /\ doing'[o].what = doing[o].what /\ doing'[o].at = doing[o].at
                /\ doing'[o].blind = doing[o].blind
                /\ doing'[o].left = doing[o].left \ {i}
  <2>1. doing'[o] = IF o = p THEN new ELSE doing[o]
    BY <1>3 DEF SInv, S!TypeOK
  <2> QED BY <1>1, <1>2, <2>1, CommandsAssumption
<1> QED BY <1>3, <1>4, <1>5, AProcessEnds

\* A command begins, and writes or removes the item first.
LEMMA ACommandIsTyped ==
  ASSUME SInv, NEW p \in Ports,
         NEW what \in {"install", "uninstall", "restart"}, S!Typed(p, what)
  PROVE  SInv'
<1> DEFINE new == [what |-> what, at |-> "list", left |-> {}, blind |-> FALSE]
<1>1. new \in S!Commands /\ new # None /\ new.what = what /\ new.at = "list"
  <2>1. new \in S!Commands /\ new.what = what /\ new.at = "list"
    BY DEF S!Commands
  <2> QED BY <2>1, CommandsAssumption
<1>2. doing' = [doing EXCEPT ![p] = new] /\ UNCHANGED <<process, slipped>> /\ doing[p] = None
  BY DEF S!Typed, S!Goes
<1>3. item' = CASE what = "install"   -> item \union {p}
                [] what = "uninstall" -> item \ {p}
                [] what = "restart"   -> item
  BY DEF S!Typed
<1>4. what = "restart" => p \in item
  BY DEF S!Typed
<1> HIDE DEF new
<1>5. item' \subseteq Ports
  BY <1>3 DEF SInv, S!TypeOK
<1>6. S!TypeOK'
  BY <1>1, <1>2, <1>5 DEF SInv, S!TypeOK
<1>7. ASSUME NEW o \in Ports
      PROVE  OnlySlipsWithoutItem(o)' /\ ItsItemIsThere(o)' /\ TheListHasTheRest(o)'
  <2>1. OnlySlipsWithoutItem(o) /\ ItsItemIsThere(o) /\ TheListHasTheRest(o)
    BY DEF SInv
  <2>2. doing'[o] = IF o = p THEN new ELSE doing[o]
    BY <1>2 DEF SInv, S!TypeOK
  <2>3. Alive(o)' = Alive(o)
    BY <1>2 DEF Alive, S!Running
  <2>4. CASE o = p
    <3>1. what # "uninstall" => p \in item'
      BY <1>3, <1>4
    <3> QED BY <1>1, <2>2, <2>4, <3>1 DEF OnlySlipsWithoutItem, ItsItemIsThere, TheListHasTheRest
  <2>5. CASE o # p
    <3>1. o \in item' <=> o \in item
      BY <1>3, <2>5
    <3> QED BY <1>2, <2>1, <2>2, <2>3, <2>5, <3>1 DEF OnlySlipsWithoutItem, ItsItemIsThere, TheListHasTheRest
  <2> QED BY <2>4, <2>5
<1> QED BY <1>6, <1>7 DEF SInv

\* What is listed is everything of the item that runs, or nothing was listed at all.
LEMMA AListIsRead ==
  ASSUME SInv, NEW p \in Ports, S!Lists(p)
  PROVE  SInv'
<1>1. doing[p] \in S!Commands
  BY DEF SInv, S!TypeOK, S!Lists
<1>2. PICK new \in S!Commands :
        /\ doing' = [doing EXCEPT ![p] = new]
        /\ new.what = doing[p].what
        /\ new.blind \/ new.left = {i \in Pids : process[i] # None /\ S!IsOurs(i, p)}
  <2> DEFINE listed == [doing[p] EXCEPT !.at = "end",
                        !.left = {i \in Pids : process[i] # None /\ S!IsOurs(i, p)}]
             blindly == [doing[p] EXCEPT !.at = "end", !.blind = TRUE]
  <2>1. /\ listed \in S!Commands /\ listed.what = doing[p].what
        /\ listed.left = {i \in Pids : process[i] # None /\ S!IsOurs(i, p)}
    BY <1>1 DEF S!Commands
  <2>2. blindly \in S!Commands /\ blindly.what = doing[p].what /\ blindly.blind
    BY <1>1 DEF S!Commands
  <2>3. doing' = [doing EXCEPT ![p] = listed] \/ doing' = [doing EXCEPT ![p] = blindly]
    BY DEF S!Lists, S!Goes
  <2> HIDE DEF listed, blindly
  <2> QED BY <2>1, <2>2, <2>3
<1>3. UNCHANGED <<item, process, slipped>> /\ doing[p] # None
  BY DEF S!Lists
<1>4. S!TypeOK'
  BY <1>2, <1>3 DEF SInv, S!TypeOK
<1>5. ASSUME NEW o \in Ports
      PROVE  OnlySlipsWithoutItem(o)' /\ ItsItemIsThere(o)' /\ TheListHasTheRest(o)'
  <2>1. OnlySlipsWithoutItem(o) /\ ItsItemIsThere(o) /\ TheListHasTheRest(o)
    BY DEF SInv
  <2>2. doing'[o] = IF o = p THEN new ELSE doing[o]
    BY <1>2 DEF SInv, S!TypeOK
  <2>3. Alive(o)' = Alive(o)
    BY <1>3 DEF Alive, S!Running
  <2>4. CASE o = p
    <3>1. OnlySlipsWithoutItem(o)'
      BY <1>2, <2>2, <2>4, CommandsAssumption DEF OnlySlipsWithoutItem
    <3>2. ItsItemIsThere(o)'
      BY <1>2, <1>3, <2>1, <2>2, <2>4 DEF ItsItemIsThere
    <3>3. Alive(o) \subseteq {i \in Pids : process[i] # None /\ S!IsOurs(i, p)}
      BY <2>4 DEF Alive, S!Running, S!IsOurs
    <3>4. TheListHasTheRest(o)'
      BY <1>2, <2>2, <2>3, <2>4, <3>3 DEF TheListHasTheRest
    <3> QED BY <3>1, <3>2, <3>4
  <2>5. CASE o # p
    BY <1>3, <2>1, <2>2, <2>3, <2>5 DEF OnlySlipsWithoutItem, ItsItemIsThere, TheListHasTheRest
  <2> QED BY <2>4, <2>5
<1> QED BY <1>4, <1>5 DEF SInv

\* The list is done with. Only an uninstall leaves no item, and it starts nothing.
LEMMA ACommandFinishes ==
  ASSUME SInv, NEW p \in Ports, S!Finishes(p)
  PROVE  SInv'
<1>1. /\ doing[p] # None /\ doing[p].at = "end" /\ doing[p].left = {}
      /\ doing' = [doing EXCEPT ![p] = None] /\ UNCHANGED item
      /\ slipped' = IF doing[p].blind THEN slipped \union Alive(p) ELSE slipped
  BY DEF S!Finishes, S!Goes, Alive
<1>2. Alive(p) \subseteq slipped'
  BY <1>1 DEF SInv, TheListHasTheRest
<1>3. /\ process' \in [Pids -> [kind : S!Kinds, port : Ports, of : Pids \union {None}] \union {None}]
      /\ doing[p].what = "uninstall" => process' = process
      /\ \A o \in Ports \ {p} : Alive(o)' \subseteq Alive(o)
  <2>1. CASE doing[p].what = "uninstall"
    <3>1. process' = process
      BY <2>1 DEF S!Finishes
    <3> QED BY <3>1 DEF SInv, S!TypeOK, Alive, S!Running
  <2>2. CASE doing[p].what # "uninstall"
    <3>1. PICK i \in S!Free : process' = S!Starts("supervisor", p, i, None)
      BY <2>2 DEF S!Finishes
    <3>2. i \in Pids /\ "supervisor" \in S!Kinds
      BY DEF S!Free, S!Kinds
    <3> QED BY <2>2, <3>1, <3>2, OneStarts DEF SInv
  <2> QED BY <2>1, <2>2
<1>4. S!TypeOK'
  BY <1>1, <1>3 DEF SInv, S!TypeOK
<1>5. ASSUME NEW o \in Ports
      PROVE  OnlySlipsWithoutItem(o)' /\ ItsItemIsThere(o)' /\ TheListHasTheRest(o)'
  <2>1. OnlySlipsWithoutItem(o) /\ ItsItemIsThere(o) /\ TheListHasTheRest(o)
    BY DEF SInv
  <2>2. doing'[o] = IF o = p THEN None ELSE doing[o]
    BY <1>1 DEF SInv, S!TypeOK
  <2>3. CASE o = p
    <3>1. o \notin item' => Alive(o)' = Alive(o)
      BY <1>1, <1>3, <2>1, <2>3 DEF ItsItemIsThere, Alive, S!Running
    <3> QED BY <1>2, <2>2, <2>3, <3>1 DEF OnlySlipsWithoutItem, ItsItemIsThere, TheListHasTheRest
  <2>4. CASE o # p
    <3>1. Alive(o)' \subseteq Alive(o) /\ slipped \subseteq slipped' /\ item' = item
      BY <1>1, <1>3, <2>4
    <3> QED BY <2>1, <2>2, <2>4, <3>1 DEF OnlySlipsWithoutItem, ItsItemIsThere, TheListHasTheRest
  <2> QED BY <2>3, <2>4
<1> QED BY <1>4, <1>5 DEF SInv

-----------------------------------------------------------------------------
\* Together.

LEMMA AStepOfTheItems ==
  ASSUME SInv, S!Next \/ UNCHANGED startup
  PROVE  SInv'
<1>1. ASSUME NEW i \in Pids, S!SupervisorRuns(i) PROVE SInv'
  BY <1>1, AScriptRuns
<1>2. ASSUME NEW i \in Pids, S!RelayDies(i) PROVE SInv'
  BY <1>2, ARelayDies
<1>3. ASSUME NEW p \in Ports, NEW what \in {"install", "uninstall", "restart"}, S!Typed(p, what)
      PROVE SInv'
  BY <1>3, ACommandIsTyped
<1>4. ASSUME NEW p \in Ports, S!Lists(p) PROVE SInv'
  BY <1>4, AListIsRead
<1>5. ASSUME NEW p \in Ports, S!Finishes(p) PROVE SInv'
  BY <1>5, ACommandFinishes
<1>6. ASSUME NEW p \in Ports, NEW i \in Pids, S!EndsOne(p, i) PROVE SInv'
  BY <1>6, OneIsEnded
<1>7. CASE UNCHANGED startup
  BY <1>7 DEF startup, SInv, S!TypeOK, OnlySlipsWithoutItem, ItsItemIsThere, TheListHasTheRest, Alive, S!Running
<1> QED BY <1>1, <1>2, <1>3, <1>4, <1>5, <1>6, <1>7 DEF S!Next

\* startup-item.ts, uninstall: once it is over, for any number of ports and pids, every
\* process of the relay that still runs was started by a script while the list that was
\* read held the script and not it yet, by a script left that way, or was there when the
\* list of processes could not be read.
THEOREM NothingButASlipIsLeft == Spec => []S!OnlyASlipOutlivesTheItem
<1>1. Init => SInv
  <2> SUFFICES ASSUME S!Init PROVE SInv
    BY DEF Init
  <2>1. S!TypeOK
    BY DEF S!Init, S!TypeOK
  <2>2. ASSUME NEW p \in Ports PROVE Alive(p) = {} /\ doing[p] = None
    BY DEF S!Init, Alive, S!Running
  <2> QED BY <2>1, <2>2 DEF SInv, OnlySlipsWithoutItem, ItsItemIsThere, TheListHasTheRest
<1>2. SInv /\ [Next]_vars => SInv'
  BY AStepOfTheItems, Apart
<1>3. SInv => S!OnlyASlipOutlivesTheItem
  BY DEF SInv, S!OnlyASlipOutlivesTheItem, OnlySlipsWithoutItem, Alive
<1> QED BY <1>1, <1>2, <1>3, PTL DEF Spec

-----------------------------------------------------------------------------
(* One Send token minted.                                                   *)

\* What a child may say, and the line ends of the console it is drawn on.
Marks == {LineEnd} \union UNION {{s[i] : i \in DOMAIN s} : s \in Scripts}

HalfIn(text) == \E i \in 1..Len(text) : text[i] = Half

\* A half comes with the rest behind it, or with the end of the row that was being drawn.
HalvesAreFollowed(text) ==
    \A i \in 1..Len(text) : text[i] = Half => i + 1 \in 1..Len(text) /\ text[i + 1] \in {Rest, LineEnd}

\* What a console is told has no escapes in it, and its last screen is for a child that is
\* gone.
TheChildFits ==
    /\ terminal \in {"expect", "console"}
    /\ script \in Scripts /\ script \in Seq(Marks)
    /\ wrote \in Nat /\ wrote <= Len(script)
    /\ child \in {"running", "exited", "killed"}
    /\ driver \in {"lastFilling", "drawn", "over"} => child # "running"
    /\ driver # "watching" => terminal = "console"
    /\ terminal = "console" => \A i \in 1..Len(script) : script[i] \notin {Esc, EscEnd}
    /\ screen = None \/ (screen \in Seq(Marks) /\ HalvesAreFollowed(screen))

\* What is heard is a piece of the script from its first mark on, or holds a token's half
\* where the screen that was read does; and an end that is known is one.
TheHearingFits ==
    /\ utterance \in Seq(Marks) /\ seen \in Seq(Marks)
    /\ HalfIn(seen) => HalfIn(utterance)
    /\ terminal = "expect" => /\ Len(utterance) <= wrote
                              /\ \A i \in 1..Len(utterance) : utterance[i] = script[i]
                              /\ ~between
    /\ terminal = "console" => HalvesAreFollowed(utterance)
    /\ between => ~told
    /\ told => /\ child # "running"
               /\ terminal = "expect" => Len(utterance) = wrote

\* A half that was taken while the child was there had something after it.
IsTaken == /\ taken.of \in Seq(Marks) /\ taken.at \in 1..Len(taken.of)
           /\ taken.of[taken.at] = Half /\ T!IsFollowed(taken.of, taken.at, FALSE)
           /\ terminal = "expect" => /\ Len(taken.of) <= Len(script)
                                     /\ \A i \in 1..Len(taken.of) : taken.of[i] = script[i]
           /\ terminal = "console" => HalvesAreFollowed(taken.of)

\* Nothing is over but what was settled for, and a text that is complete is the last.
TheMintFits ==
    /\ because \in {"nothing", "token", "throw", "ceiling"}
    /\ loop \in {"looking", "linking"} => because = "nothing" /\ result = "none"
    /\ loop \in {"grace", "settling"} => because # "nothing" /\ result = "none"
    /\ loop = "grace" => because = "token"
    /\ loop \in {"settling", "after", "linkingLate"} => child # "running"
    /\ loop \in {"after", "linkingLate"} => /\ because \in {"nothing", "ceiling"} /\ result = "none"
                                            /\ because = "nothing" => told
    /\ because = "token" => IsTaken
    /\ result = "minted" /\ because # "token" => child # "running"
    /\ result = "nothing" /\ because = "nothing" => told /\ ~HalfIn(utterance)

TInv == TheChildFits /\ TheHearingFits /\ TheMintFits

\* As many as there are before the first that is not there.
LEMMA UpToTheFirst ==
  ASSUME NEW n \in Nat, NEW beginning \in SUBSET (1..n),
         \A k \in beginning : \A j \in 1..k : j \in beginning
  PROVE  /\ Cardinality(beginning) \in 0..n
         /\ \A j \in 1..n : j \in beginning <=> j <= Cardinality(beginning)
<1> DEFINE m == Cardinality(beginning)
<1>1. IsFiniteSet(1..n) /\ Cardinality(1..n) = n
  BY FS_Interval
<1>2. IsFiniteSet(beginning) /\ m \in Nat /\ m <= n
  BY <1>1, FS_Subset, FS_CardinalityType, ZenonT(60)
<1>3. ASSUME NEW j \in 1..n, j \in beginning PROVE j <= m
  <2>1. IsFiniteSet(1..j) /\ Cardinality(1..j) = j
    BY FS_Interval
  <2>2. 1..j \in SUBSET beginning
    BY <1>3
  <2> QED BY <1>2, <2>1, <2>2, FS_Subset
<1>4. ASSUME NEW j \in 1..n, j \notin beginning PROVE ~(j <= m)
  <2>1. IsFiniteSet(1..(j - 1)) /\ Cardinality(1..(j - 1)) = j - 1
    BY FS_Interval
  <2>2. ASSUME NEW k \in beginning PROVE k \in 1..(j - 1)
    <3>1. ~(j \in 1..k)
      BY <1>4, <2>2
    <3> QED BY <3>1
  <2>3. m <= j - 1
    BY <2>1, <2>2, FS_Subset
  <2> QED BY <1>2, <2>3
<1> QED BY <1>2, <1>3, <1>4

\* Some positions of a text have a last.
LEMMA TheLastOfSome ==
  ASSUME NEW n \in Nat, NEW some \in SUBSET (1..n), some # {}
  PROVE  \E i \in some : \A j \in some : j <= i
<1> DEFINE beginning == {k \in 1..n : \E i \in some : k <= i}
           m == Cardinality(beginning)
<1>1. \A k \in beginning : \A j \in 1..k : j \in beginning
  OBVIOUS
<1>2. m \in 0..n /\ \A j \in 1..n : j \in beginning <=> j <= m
  BY <1>1, UpToTheFirst
<1>3. \A i \in some : i \in beginning
  OBVIOUS
<1> HIDE DEF m
<1>4. \A i \in some : i <= m
  BY <1>2, <1>3
<1>5. m \in 1..n
  <2>1. PICK i \in some : i \in 1..n /\ i <= m
    BY <1>4
  <2> QED BY <1>2, <2>1
<1>6. m \in beginning
  BY <1>2, <1>5
<1>7. PICK i \in some : m <= i
  BY <1>6
<1>8. i = m
  BY <1>2, <1>4, <1>7
<1> QED BY <1>4, <1>7, <1>8

\* The last token in a text begins with a half of it.
LEMMA TheTokenFound ==
  ASSUME NEW some, NEW text \in Seq(some), NEW complete \in BOOLEAN
  PROVE  LET i == T!TokenIn(text, complete) IN
         /\ i # 0 => i \in 1..Len(text) /\ text[i] = Half /\ T!IsFollowed(text, i, complete)
         /\ complete /\ HalfIn(text) => i # 0
<1> DEFINE found == {i \in 1..Len(text) : text[i] = Half /\ T!IsFollowed(text, i, complete)}
           i == T!TokenIn(text, complete)
<1>1. i = IF found = {} THEN 0 ELSE CHOOSE k \in found : \A j \in found : j <= k
  BY DEF T!TokenIn
<1>2. found # {} => i \in found
  <2>1. found \in SUBSET (1..Len(text)) /\ Len(text) \in Nat
    OBVIOUS
  <2>2. found # {} => \E k \in found : \A j \in found : j <= k
    BY <2>1, TheLastOfSome
  <2> QED BY <1>1, <2>2
<1>3. complete /\ HalfIn(text) => found # {}
  BY DEF HalfIn, T!IsFollowed
<1>4. i # 0 => found # {}
  BY <1>1
<1> HIDE DEF i
<1> QED BY <1>2, <1>3, <1>4 DEF i

LEMMA AsMany == \A X : T!Cardinality(X) = Cardinality(X)
BY DEF Cardinality, T!Cardinality

\* What two screens share is known already, and the rest of the later one is new: with both,
\* nothing that is on it is missing.
LEMMA NothingOnTheScreenIsMissed ==
  ASSUME NEW before \in Seq(Marks), NEW text \in Seq(Marks)
  PROVE  /\ T!WhatIsNew(before, text) \in Seq(Marks)
         /\ HalfIn(text) => HalfIn(before) \/ HalfIn(T!WhatIsNew(before, text))
         /\ HalvesAreFollowed(text) => HalvesAreFollowed(T!WhatIsNew(before, text))
<1> DEFINE same == T!Same(before, text)
           m == Cardinality(same)
           new == T!WhatIsNew(before, text)
<1>1. /\ same \in SUBSET (1..Len(text)) /\ Len(text) \in Nat
      /\ \A k \in same : \A j \in 1..k : j \in same
  BY DEF T!Same
<1> HIDE DEF same
<1>2. m \in 0..Len(text) /\ \A j \in 1..Len(text) : j \in same <=> j <= m
  BY <1>1, UpToTheFirst
<1>3. new = SubSeq(text, m + 1, Len(text))
  BY AsMany DEF T!WhatIsNew, same
<1> HIDE DEF new, m
<1>4. /\ new \in Seq(Marks) /\ Len(new) = Len(text) - m
      /\ \A i \in 1..(Len(text) - m) : new[i] = text[m + i]
  <2>1. \A i \in (m + 1)..Len(text) : text[i] \in Marks
    BY <1>2
  <2> QED BY <1>1, <1>2, <1>3, <2>1, SubSeqProperties
<1>5. ASSUME NEW j \in 1..Len(text), text[j] = Half
      PROVE  HalfIn(before) \/ HalfIn(new)
  <2>1. CASE j <= m
    <3>1. j \in same
      BY <1>2, <2>1
    <3>2. j \in 1..Len(before) /\ before[j] = text[j]
      BY <3>1 DEF same, T!Same
    <3> QED BY <1>5, <3>2 DEF HalfIn
  <2>2. CASE ~(j <= m)
    <3>1. j - m \in 1..Len(new) /\ new[j - m] = text[j]
      BY <1>1, <1>2, <1>4, <2>2
    <3> QED BY <1>5, <3>1 DEF HalfIn
  <2> QED BY <2>1, <2>2
<1>6. ASSUME HalvesAreFollowed(text) PROVE HalvesAreFollowed(new)
  <2> SUFFICES ASSUME NEW i \in 1..Len(new), new[i] = Half
               PROVE  i + 1 \in 1..Len(new) /\ new[i + 1] \in {Rest, LineEnd}
    BY DEF HalvesAreFollowed
  <2>1. m + i \in 1..Len(text) /\ text[m + i] = Half
    BY <1>1, <1>2, <1>4
  <2>2. m + i + 1 \in 1..Len(text) /\ text[m + i + 1] \in {Rest, LineEnd}
    BY <1>6, <2>1 DEF HalvesAreFollowed
  <2>3. i + 1 \in 1..(Len(text) - m) /\ m + (i + 1) = m + i + 1
    BY <1>1, <1>2, <1>4, <2>2
  <2>4. new[i + 1] = text[m + (i + 1)]
    BY <1>4, <2>3
  <2> QED BY <1>4, <2>2, <2>3, <2>4
<1> QED BY <1>4, <1>5, <1>6 DEF HalfIn, new

\* What was heard before stays as it was, and what comes is put behind it.
LEMMA MoreIsHeard ==
  ASSUME utterance \in Seq(Marks), NEW text \in Seq(Marks), utterance' = utterance \o text
  PROVE  /\ utterance' \in Seq(Marks) /\ Len(utterance') = Len(utterance) + Len(text)
         /\ \A i \in 1..Len(utterance) : utterance'[i] = utterance[i]
         /\ \A i \in 1..Len(text) : utterance'[Len(utterance) + i] = text[i]
         /\ HalfIn(utterance) \/ HalfIn(text) => HalfIn(utterance)'
         /\ HalvesAreFollowed(utterance) /\ HalvesAreFollowed(text) => HalvesAreFollowed(utterance')
<1>1. /\ utterance' \in Seq(Marks) /\ Len(utterance') = Len(utterance) + Len(text)
      /\ \A i \in 1..(Len(utterance) + Len(text)) :
            utterance'[i] = IF i <= Len(utterance) THEN utterance[i] ELSE text[i - Len(utterance)]
  BY ConcatProperties
<1>2. Len(utterance) \in Nat /\ Len(text) \in Nat
  OBVIOUS
<1>3. \A i \in 1..Len(utterance) : utterance'[i] = utterance[i]
  BY <1>1, <1>2
<1>4. \A i \in 1..Len(text) : utterance'[Len(utterance) + i] = text[i]
  <2> TAKE i \in 1..Len(text)
  <2>1. Len(utterance) + i \in 1..(Len(utterance) + Len(text)) /\ ~(Len(utterance) + i <= Len(utterance))
        /\ Len(utterance) + i - Len(utterance) = i
    BY <1>2
  <2> QED BY <1>1, <2>1
<1>5. HalfIn(utterance) => HalfIn(utterance)'
  BY <1>1, <1>2, <1>3 DEF HalfIn
<1>6. HalfIn(text) => HalfIn(utterance)'
  <2> SUFFICES ASSUME NEW i \in 1..Len(text), text[i] = Half PROVE HalfIn(utterance)'
    BY DEF HalfIn
  <2>1. Len(utterance) + i \in 1..Len(utterance')
    BY <1>1, <1>2
  <2> QED BY <1>4, <2>1 DEF HalfIn
<1>7. ASSUME HalvesAreFollowed(utterance), HalvesAreFollowed(text) PROVE HalvesAreFollowed(utterance')
  <2> DEFINE n == Len(utterance)
             m == Len(text)
             all == utterance'
  <2>1. /\ Len(all) = n + m /\ n \in Nat /\ m \in Nat
        /\ \A i \in 1..n : all[i] = utterance[i]
        /\ \A i \in 1..m : all[n + i] = text[i]
    BY <1>1, <1>2, <1>3, <1>4
  <2>2. /\ \A i \in 1..n : utterance[i] = Half => i + 1 \in 1..n /\ utterance[i + 1] \in {Rest, LineEnd}
        /\ \A i \in 1..m : text[i] = Half => i + 1 \in 1..m /\ text[i + 1] \in {Rest, LineEnd}
    BY <1>7 DEF HalvesAreFollowed
  <2> HIDE DEF n, m, all
  <2>3. ASSUME NEW i \in 1..(n + m), all[i] = Half
        PROVE  i + 1 \in 1..(n + m) /\ all[i + 1] \in {Rest, LineEnd}
    <3>1. CASE i <= n
      <4>1. i \in 1..n
        BY <2>1, <3>1
      <4>2. i + 1 \in 1..n /\ utterance[i + 1] \in {Rest, LineEnd}
        BY <2>1, <2>2, <2>3, <4>1
      <4> QED BY <2>1, <4>2
    <3>2. CASE ~(i <= n)
      <4> DEFINE j == i - n
      <4>1. j \in 1..m /\ n + j = i /\ n + (j + 1) = i + 1
        BY <2>1, <3>2
      <4> HIDE DEF j
      <4>2. j + 1 \in 1..m /\ text[j + 1] \in {Rest, LineEnd}
        BY <2>1, <2>2, <2>3, <4>1
      <4>3. all[n + (j + 1)] = text[j + 1] /\ n + (j + 1) \in 1..(n + m)
        BY <2>1, <4>2
      <4> QED BY <4>1, <4>2, <4>3
    <3> QED BY <3>1, <3>2
  <2>4. \A i \in 1..Len(all) : all[i] = Half => i + 1 \in 1..Len(all) /\ all[i + 1] \in {Rest, LineEnd}
    BY <2>1, <2>3
  <2> QED BY <2>4 DEF HalvesAreFollowed, all
<1> QED BY <1>1, <1>3, <1>4, <1>5, <1>6, <1>7

\* What was taken is not heard of again.
LEMMA ItStaysTaken ==
  ASSUME UNCHANGED <<terminal, script, taken>>
  PROVE  IsTaken' = IsTaken
BY DEF IsTaken, HalvesAreFollowed, T!IsFollowed, T!IsNext, T!IsDressing

-----------------------------------------------------------------------------
\* The child and its terminal.

LEMMA TheChildGoesOn ==
  ASSUME TInv, T!Writes \/ T!Exits
  PROVE  TInv'
<1> USE DEF T!Writes, T!Exits, T!console, T!mint
<1>1. TheChildFits /\ TheHearingFits /\ TheMintFits /\ child = "running" /\ ~told
  BY DEF TInv, TheHearingFits
<1>2. wrote' \in Nat /\ wrote <= wrote' /\ wrote' <= Len(script)
  BY <1>1 DEF TheChildFits
<1>3. TheChildFits'
  BY <1>1, <1>2 DEF TheChildFits
<1>4. TheHearingFits'
  <2>1. Len(utterance) \in Nat /\ wrote \in Nat
    BY <1>1 DEF TheHearingFits, TheChildFits
  <2>2. terminal = "expect" => Len(utterance) <= wrote'
    BY <1>1, <1>2, <2>1 DEF TheHearingFits
  <2> QED BY <1>1, <2>2 DEF TheHearingFits, HalfIn, HalvesAreFollowed
<1>5. TheMintFits'
  BY <1>1, ItStaysTaken DEF TheMintFits, HalfIn
<1> QED BY <1>3, <1>4, <1>5 DEF TInv

LEMMA ItArrives ==
  ASSUME TInv, T!Arrives
  PROVE  TInv'
<1>1. TheChildFits /\ TheHearingFits /\ TheMintFits /\ ~told /\ terminal = "expect"
  BY DEF TInv, T!Arrives
<1>2. UNCHANGED <<terminal, script, wrote, child, driver, screen, seen, between, told, loop, because, taken, result>>
  BY DEF T!Arrives, T!console, T!mint
<1>3. PICK upTo \in (Len(utterance) + 1)..wrote :
        utterance' = utterance \o SubSeq(script, Len(utterance) + 1, upTo)
  BY DEF T!Arrives, T!Hears
<1> DEFINE n == Len(utterance)
           text == SubSeq(script, n + 1, upTo)
<1>4. /\ n \in Nat /\ wrote \in Nat /\ upTo \in Nat /\ n + 1 <= upTo /\ upTo <= wrote
      /\ script \in Seq(Marks) /\ wrote <= Len(script)
  BY <1>1, <1>3 DEF TheHearingFits, TheChildFits
<1>5. text \in Seq(Marks) /\ Len(text) = upTo - n /\ \A i \in 1..(upTo - n) : text[i] = script[n + i]
  <2>1. \A i \in (n + 1)..upTo : script[i] \in Marks
    BY <1>4
  <2> QED BY <1>4, <2>1, SubSeqProperties
<1>6. utterance' = utterance \o text /\ utterance \in Seq(Marks)
  BY <1>1, <1>3 DEF TheHearingFits
<1> HIDE DEF text
<1>7. /\ utterance' \in Seq(Marks) /\ Len(utterance') = n + Len(text)
      /\ \A i \in 1..n : utterance'[i] = utterance[i]
      /\ \A i \in 1..Len(text) : utterance'[n + i] = text[i]
      /\ HalfIn(utterance) => HalfIn(utterance)'
  BY <1>2, <1>5, <1>6, MoreIsHeard
<1>8. TheChildFits'
  BY <1>1, <1>2 DEF TheChildFits, HalvesAreFollowed
<1>9. TheHearingFits'
  <2>1. ASSUME NEW i \in 1..Len(utterance') PROVE utterance'[i] = script[i]
    <3>1. CASE i \in 1..n
      BY <1>1, <1>7, <3>1 DEF TheHearingFits
    <3>2. CASE i \notin 1..n
      <4>1. i - n \in 1..Len(text) /\ n + (i - n) = i /\ i - n \in 1..(upTo - n)
        BY <1>4, <1>5, <1>7, <3>2
      <4> QED BY <1>5, <1>7, <4>1
    <3> QED BY <3>1, <3>2
  <2>2. Len(utterance') <= wrote
    BY <1>4, <1>5, <1>7
  <2>3. HalfIn(seen)' => HalfIn(utterance)'
    BY <1>1, <1>2, <1>7 DEF TheHearingFits, HalfIn
  <2> QED BY <1>1, <1>2, <1>7, <2>1, <2>2, <2>3 DEF TheHearingFits
<1>10. TheMintFits'
  <2>1. IsTaken' = IsTaken
    BY <1>2, ItStaysTaken
  <2> QED BY <1>1, <1>2, <2>1 DEF TheMintFits
<1> QED BY <1>8, <1>9, <1>10 DEF TInv

LEMMA TheEndIsTold ==
  ASSUME TInv, T!IsToldOfTheEnd \/ T!IsKilled \/ T!LooksForTheEnd
  PROVE  TInv'
<1> USE DEF T!IsToldOfTheEnd, T!IsKilled, T!LooksForTheEnd, T!console, T!mint
<1>1. TheChildFits /\ TheHearingFits /\ TheMintFits
  BY DEF TInv
<1>2. /\ UNCHANGED <<terminal, script, wrote, child, driver, screen, seen, utterance, loop, because, taken, result>>
      /\ ~told /\ (between' => between /\ ~told') /\ (terminal = "expect" => ~between')
  BY <1>1 DEF TheHearingFits
<1>3. TheChildFits'
  BY <1>1, <1>2 DEF TheChildFits, HalvesAreFollowed
<1>4. told' => /\ child # "running"
               /\ terminal = "expect" => Len(utterance) = wrote
  BY <1>1 DEF TheChildFits, TheHearingFits
<1>5. TheHearingFits'
  BY <1>1, <1>2, <1>4 DEF TheHearingFits, HalfIn, HalvesAreFollowed
<1>6. TheMintFits'
  BY <1>1, <1>2, ItStaysTaken DEF TheMintFits, HalfIn
<1> QED BY <1>3, <1>5, <1>6 DEF TInv

-----------------------------------------------------------------------------
\* The console.

\* A screen that is drawn has the end of its row behind the last that was said.
LEMMA ThePictureFits ==
  ASSUME TheChildFits, terminal = "console"
  PROVE  T!Picture \in Seq(Marks) /\ HalvesAreFollowed(T!Picture)
<1> DEFINE text == SubSeq(script, 1, wrote)
           n == Len(script)
           whole == T!Picture
<1>1. script \in Seq(Marks) /\ wrote \in Nat /\ n \in Nat /\ wrote <= n /\ script \in Scripts
  BY DEF TheChildFits
<1>2. text \in Seq(Marks) /\ Len(text) = wrote /\ \A i \in 1..wrote : text[i] = script[i]
  <2>1. \A i \in 1..wrote : script[i] \in Marks
    BY <1>1
  <2> QED BY <1>1, <2>1, SubSeqProperties
<1>3. <<LineEnd>> \in Seq(Marks) /\ Len(<<LineEnd>>) = 1 /\ <<LineEnd>>[1] = LineEnd
  BY DEF Marks
<1> HIDE DEF text
<1>4. /\ whole \in Seq(Marks) /\ Len(whole) = wrote + 1
      /\ \A i \in 1..wrote : whole[i] = script[i]
      /\ whole[wrote + 1] = LineEnd
  <2>1. whole = text \o <<LineEnd>>
    BY DEF T!Picture, text
  <2> HIDE DEF whole
  <2>2. /\ whole \in Seq(Marks) /\ Len(whole) = wrote + 1
        /\ \A i \in 1..(wrote + 1) : whole[i] = IF i <= wrote THEN text[i] ELSE <<LineEnd>>[i - wrote]
    BY <1>2, <1>3, <2>1, ConcatProperties
  <2>3. \A i \in 1..wrote : whole[i] = script[i]
    BY <1>1, <1>2, <2>2
  <2>4. whole[wrote + 1] = LineEnd
    <3>1. wrote + 1 \in 1..(wrote + 1) /\ ~(wrote + 1 <= wrote) /\ (wrote + 1) - wrote = 1
      BY <1>1
    <3> QED BY <1>3, <2>2, <3>1
  <2> QED BY <2>2, <2>3, <2>4
<1> HIDE DEF whole, n
<1>5. ASSUME NEW i \in 1..(wrote + 1), whole[i] = Half, i <= wrote
      PROVE  i + 1 \in 1..(wrote + 1) /\ whole[i + 1] \in {Rest, LineEnd}
  <2>1. i \in 1..wrote /\ i + 1 \in 1..(wrote + 1) /\ i \in 1..n /\ script[i] = Half
    BY <1>1, <1>4, <1>5
  <2>2. CASE i = wrote
    BY <1>4, <2>1, <2>2
  <2>3. CASE i # wrote
    <3>1. i + 1 \in 1..wrote /\ i + 1 \in 1..n
      BY <1>1, <2>1, <2>3
    <3>2. script[i + 1] \notin {Esc, EscEnd}
      BY <3>1 DEF TheChildFits, n
    <3>3. T!IsNext(script, i, i + 1)
      BY <2>1, <3>2 DEF T!IsNext, T!IsDressing
    <3>4. script[i + 1] = Rest
      BY <1>1, <2>1, <3>1, <3>3, ScriptsAssumption DEF n
    <3> QED BY <1>4, <2>1, <3>1, <3>4
  <2> QED BY <2>2, <2>3
<1>6. \A i \in 1..Len(whole) : whole[i] = Half => i <= wrote
  <2>1. \A i \in 1..(wrote + 1) : i <= wrote \/ i = wrote + 1
    BY <1>1
  <2> QED BY <1>4, <2>1, MarksAssumption
<1>7. \A i \in 1..Len(whole) : whole[i] = Half => i + 1 \in 1..Len(whole) /\ whole[i + 1] \in {Rest, LineEnd}
  BY <1>4, <1>5, <1>6
<1> QED BY <1>4, <1>7 DEF whole, HalvesAreFollowed

LEMMA ItIsDrawn ==
  ASSUME TInv, T!Empties \/ T!Fills \/ T!WritingFails \/ T!SaysTheEnd
  PROVE  TInv'
<1> USE DEF T!Empties, T!Fills, T!WritingFails, T!SaysTheEnd, T!console, T!mint
<1>1. TheChildFits /\ TheHearingFits /\ TheMintFits
  BY DEF TInv
<1>2. UNCHANGED <<terminal, script, wrote, child, seen, between, told, utterance, loop, because, taken, result>>
  OBVIOUS
<1>3. TheChildFits'
  <2>1. CASE screen' = T!Picture /\ terminal = "console"
    <3>1. T!Picture \in Seq(Marks) /\ HalvesAreFollowed(T!Picture)
      BY <1>1, <2>1, ThePictureFits
    <3> QED BY <1>1, <1>2, <2>1, <3>1 DEF TheChildFits, HalvesAreFollowed
  <2>2. CASE screen' = <<>>
    BY <1>1, <1>2, <2>2 DEF TheChildFits, HalvesAreFollowed
  <2>3. CASE screen' = screen
    BY <1>1, <1>2, <2>3 DEF TheChildFits, HalvesAreFollowed
  <2> QED BY <1>1, <2>1, <2>2, <2>3 DEF TheChildFits
<1>4. TheHearingFits'
  BY <1>1, <1>2 DEF TheHearingFits, HalfIn, HalvesAreFollowed
<1>5. TheMintFits'
  BY <1>1, <1>2, ItStaysTaken DEF TheMintFits, HalfIn
<1> QED BY <1>3, <1>4, <1>5 DEF TInv

LEMMA TheScreenIsLookedAt ==
  ASSUME TInv, T!LooksAtTheScreen
  PROVE  TInv'
<1> USE DEF T!LooksAtTheScreen, T!mint
<1>1. TheChildFits /\ TheHearingFits /\ TheMintFits
  BY DEF TInv
<1>2. /\ UNCHANGED <<terminal, script, wrote, child, driver, screen, told, loop, because, taken, result>>
      /\ terminal = "console" /\ ~told /\ between'
  OBVIOUS
<1>6. IsTaken' = IsTaken
  BY <1>2, ItStaysTaken
<1>3. TheChildFits'
  BY <1>1, <1>2 DEF TheChildFits, HalvesAreFollowed
<1>4. CASE screen \in {None, seen}
  <2>1. UNCHANGED <<utterance, seen>>
    BY <1>4
  <2>2. TheHearingFits'
    BY <1>1, <1>2, <2>1 DEF TheHearingFits, HalfIn, HalvesAreFollowed
  <2>3. TheMintFits'
    BY <1>1, <1>2, <1>6, <2>1 DEF TheMintFits, HalfIn
  <2> QED BY <1>3, <2>2, <2>3 DEF TInv
<1>5. CASE screen \notin {None, seen}
  <2> DEFINE text == T!WhatIsNew(seen, screen)
  <2>1. utterance' = utterance \o text /\ seen' = screen
    BY <1>5 DEF T!Hears
  <2>2. utterance \in Seq(Marks) /\ seen \in Seq(Marks) /\ screen \in Seq(Marks)
    BY <1>1, <1>5 DEF TheHearingFits, TheChildFits
  <2>3. /\ text \in Seq(Marks) /\ (HalfIn(screen) => HalfIn(seen) \/ HalfIn(text))
        /\ HalvesAreFollowed(text)
    BY <1>1, <1>5, <2>2, NothingOnTheScreenIsMissed DEF TheChildFits
  <2> HIDE DEF text
  <2>4. /\ utterance' \in Seq(Marks)
        /\ HalfIn(utterance) \/ HalfIn(text) => HalfIn(utterance)'
        /\ HalvesAreFollowed(utterance')
    BY <1>1, <1>2, <2>1, <2>2, <2>3, MoreIsHeard DEF TheHearingFits
  <2>5. HalfIn(seen)' => HalfIn(utterance)'
    <3>1. HalfIn(seen)' => HalfIn(screen)
      BY <2>1 DEF HalfIn
    <3> QED BY <1>1, <2>3, <2>4, <3>1 DEF TheHearingFits
  <2>6. TheHearingFits'
    BY <1>2, <2>1, <2>2, <2>4, <2>5 DEF TheHearingFits, HalvesAreFollowed
  <2>7. TheMintFits'
    BY <1>1, <1>2, <1>6, <2>4 DEF TheMintFits
  <2> QED BY <1>3, <2>6, <2>7 DEF TInv
<1> QED BY <1>4, <1>5

-----------------------------------------------------------------------------
\* The mint.

\* A token taken from a text that may go on is a half with something after it.
LEMMA ItIsTaken ==
  ASSUME TInv, T!TokenIn(utterance, FALSE) # 0, T!Takes(FALSE), UNCHANGED <<terminal, script>>
  PROVE  IsTaken'
<1> DEFINE i == T!TokenIn(utterance, FALSE)
<1>1. utterance \in Seq(Marks)
  BY DEF TInv, TheHearingFits
<1>2. i \in 1..Len(utterance) /\ utterance[i] = Half /\ T!IsFollowed(utterance, i, FALSE)
  BY <1>1, TheTokenFound
<1>3. taken' = [at |-> i, of |-> utterance]
  BY DEF T!Takes
<1> HIDE DEF i
<1>4. taken'.at = i /\ taken'.of = utterance
  BY <1>3
<1>5. T!IsFollowed(taken'.of, taken'.at, FALSE)
  BY <1>2, <1>4
<1>6. terminal = "expect" => /\ Len(utterance) <= Len(script)
                             /\ \A k \in 1..Len(utterance) : utterance[k] = script[k]
  <2>1. Len(utterance) \in Nat /\ wrote \in Nat /\ wrote <= Len(script) /\ Len(script) \in Nat
    BY <1>1 DEF TInv, TheChildFits
  <2> QED BY <2>1 DEF TInv, TheHearingFits
<1>7. terminal = "console" => HalvesAreFollowed(taken'.of)
  BY <1>4 DEF TInv, TheHearingFits
<1> QED BY <1>1, <1>2, <1>4, <1>5, <1>6, <1>7 DEF IsTaken, T!IsFollowed, T!IsNext, T!IsDressing, HalvesAreFollowed

\* What the mint does touches nothing that is heard, but for a child that it kills.
LEMMA OnlyTheMintMoves ==
  ASSUME TInv,
         UNCHANGED <<terminal, script, wrote, driver, screen, seen, utterance, between, told>>,
         child' = child \/ T!Stops
  PROVE  /\ TheChildFits' /\ TheHearingFits' /\ (HalfIn(utterance)' <=> HalfIn(utterance))
         /\ child # "running" => child' = child
         /\ T!Stops => child' # "running"
<1>1. /\ TheChildFits /\ TheHearingFits
      /\ child' \in {"running", "exited", "killed"} /\ (child # "running" => child' = child)
      /\ T!Stops => child' # "running"
  BY DEF TInv, TheChildFits, T!Stops
<1>2. TheChildFits'
  BY <1>1 DEF TheChildFits, HalvesAreFollowed
<1>3. TheHearingFits'
  BY <1>1 DEF TheHearingFits, HalfIn, HalvesAreFollowed
<1> QED BY <1>1, <1>2, <1>3 DEF HalfIn

LEMMA TheMintGoesOn ==
  ASSUME TInv, \/ T!Looks \/ T!Linked \/ T!LinkThrows \/ T!Grace \/ T!Ceiling \/ T!Settled
               \/ T!RunIsOver \/ T!LinksLate \/ T!LateLinkThrows \/ T!ReadsOnceMore
  PROVE  TInv'
<1> USE DEF T!console
<1>1. TheMintFits
  BY DEF TInv
<1>2. /\ UNCHANGED <<terminal, script, wrote, driver, screen, seen, utterance, between, told>>
      /\ child' = child \/ T!Stops
  BY DEF T!Looks, T!Linked, T!LinkThrows, T!Grace, T!Ceiling, T!Settled, T!RunIsOver,
         T!LinksLate, T!LateLinkThrows, T!ReadsOnceMore
<1>3. /\ TheChildFits' /\ TheHearingFits' /\ (HalfIn(utterance)' <=> HalfIn(utterance))
      /\ child # "running" => child' = child
      /\ T!Stops => child' # "running"
  BY <1>2, OnlyTheMintMoves
<1>4. IsTaken /\ UNCHANGED taken => IsTaken'
  BY <1>2, ItStaysTaken
<1>5. T!TokenIn(utterance, FALSE) # 0 /\ T!Takes(FALSE) => IsTaken'
  BY <1>2, ItIsTaken
<1>6. CASE T!Looks
  BY <1>1, <1>2, <1>3, <1>4, <1>5, <1>6 DEF T!Looks, TheMintFits, TInv
<1>7. CASE T!Linked
  BY <1>1, <1>2, <1>3, <1>4, <1>5, <1>7 DEF T!Linked, TheMintFits, TInv
<1>8. CASE T!LinkThrows
  BY <1>1, <1>2, <1>3, <1>4, <1>8 DEF T!LinkThrows, TheMintFits, TInv
<1>9. CASE T!Grace
  BY <1>1, <1>2, <1>3, <1>4, <1>9 DEF T!Grace, TheMintFits, TInv
<1>10. CASE T!Ceiling
  BY <1>1, <1>2, <1>3, <1>4, <1>10 DEF T!Ceiling, TheMintFits, TInv
<1>11. CASE T!Settled
  BY <1>1, <1>2, <1>3, <1>4, <1>11 DEF T!Settled, TheMintFits, TInv
<1>12. CASE T!RunIsOver
  <2>1. told /\ child # "running"
    BY <1>12 DEF T!RunIsOver, TInv, TheHearingFits
  <2> QED BY <1>1, <1>2, <1>3, <1>4, <1>12, <2>1 DEF T!RunIsOver, TheMintFits, TInv
<1>13. CASE T!ReadsOnceMore
  <2>1. T!TokenIn(utterance, TRUE) = 0 => ~HalfIn(utterance)
    BY TheTokenFound DEF TInv, TheHearingFits
  <2>2. /\ because' = because /\ because \in {"nothing", "ceiling"} /\ loop' = "over"
        /\ child' = child /\ child # "running" /\ told' = told /\ (because = "nothing" => told)
    BY <1>1, <1>2, <1>13 DEF T!ReadsOnceMore, TheMintFits
  <2>3. result' = "nothing" => ~HalfIn(utterance)'
    BY <1>3, <1>13, <2>1 DEF T!ReadsOnceMore
  <2> QED BY <1>3, <2>2, <2>3 DEF TheMintFits, TInv
<1>14. CASE T!LinksLate \/ T!LateLinkThrows
  <2>1. UNCHANGED taken /\ UNCHANGED child
    BY <1>14 DEF T!LinksLate, T!LateLinkThrows, T!mint
  <2> QED BY <1>1, <1>2, <1>3, <1>4, <1>14, <2>1 DEF T!LinksLate, T!LateLinkThrows, TheMintFits, TInv
<1> QED BY <1>6, <1>7, <1>8, <1>9, <1>10, <1>11, <1>12, <1>13, <1>14

LEMMA AStepOfTheMint ==
  ASSUME TInv, T!Next \/ UNCHANGED minting
  PROVE  TInv'
<1>1. CASE UNCHANGED minting
  <2>1. TheChildFits'
    BY <1>1 DEF minting, TInv, TheChildFits, HalvesAreFollowed
  <2>2. TheHearingFits'
    BY <1>1 DEF minting, TInv, TheHearingFits, HalfIn, HalvesAreFollowed
  <2>3. TheMintFits'
    BY <1>1, ItStaysTaken DEF minting, TInv, TheMintFits, HalfIn
  <2> QED BY <2>1, <2>2, <2>3 DEF TInv
<1> QED BY <1>1, TheChildGoesOn, ItArrives, TheEndIsTold, ItIsDrawn, TheScreenIsLookedAt, TheMintGoesOn
        DEF T!Next

LEMMA AMintBegins == Init => TInv
<1> SUFFICES ASSUME T!Init PROVE TInv
  BY DEF Init
<1> USE DEF T!Init
<1>1. script \in Seq(Marks)
  <2> DEFINE its == {script[i] : i \in DOMAIN script}
  <2>1. script \in Seq(its) /\ its \subseteq Marks
    BY ScriptsAssumption DEF Marks
  <2> HIDE DEF its
  <2>2. \A i \in 1..Len(script) : script[i] \in Marks
    BY <2>1
  <2>3. Len(script) \in Nat /\ DOMAIN script = 1..Len(script)
        /\ script = [i \in 1..Len(script) |-> script[i]]
    BY <2>1
  <2> QED BY <2>2, <2>3, SeqDef
<1>2. TheChildFits
  BY <1>1 DEF TheChildFits, T!Contains
<1>3. TheHearingFits
  BY DEF TheHearingFits, HalfIn, HalvesAreFollowed
<1>4. TheMintFits
  BY DEF TheMintFits
<1> QED BY <1>2, <1>3, <1>4 DEF TInv

\* What is heard of a script and looks like no rest of a token is none, unless it is the
\* beginning of an escape that was cut.
LEMMA OnlyAnEscapeIsCut ==
  ASSUME NEW whole \in Scripts, NEW heard \in Seq(Marks), Len(heard) <= Len(whole), Len(whole) \in Nat,
         \A i \in 1..Len(heard) : heard[i] = whole[i],
         NEW k \in 1..Len(heard), heard[k] = Half, NEW j \in 1..Len(heard), T!IsNext(heard, k, j),
         heard[j] # Rest
  PROVE  j = Len(heard) /\ heard[j] = Esc
<1> DEFINE n == Len(heard)
           m == Len(whole)
<1>1. n \in Nat /\ m \in Nat /\ n <= m /\ k \in 1..n /\ j \in 1..n /\ k \in 1..m /\ j \in 1..m
  OBVIOUS
<1>2. k < j /\ ~T!IsDressing(heard, j) /\ \A i \in (k + 1)..(j - 1) : T!IsDressing(heard, i)
  BY DEF T!IsNext
<1>3. ASSUME NEW i \in (k + 1)..(j - 1) PROVE T!IsDressing(whole, i)
  <2>1. i \in 1..n /\ i + 1 \in 1..n /\ i - 1 \in 1..n /\ i < m /\ i > 1
    BY <1>1
  <2>2. heard[i] = whole[i] /\ heard[i + 1] = whole[i + 1] /\ heard[i - 1] = whole[i - 1]
    BY <2>1
  <2> QED BY <1>2, <2>1, <2>2 DEF T!IsDressing
<1>4. T!IsNext(whole, k, j) => whole[j] = Rest
  BY <1>1, ScriptsAssumption
<1>5. T!IsDressing(whole, j)
  <2>1. heard[j] = whole[j]
    OBVIOUS
  <2> QED BY <1>2, <1>3, <1>4, <2>1 DEF T!IsNext
<1>6. j - 1 \in 1..n /\ heard[j - 1] = whole[j - 1] /\ heard[j] = whole[j] /\ j > 1
  <2>1. j - 1 \in 1..n /\ j > 1
    BY <1>1, <1>2
  <2> QED BY <2>1
<1>7. heard[j] = Esc /\ j < m /\ whole[j + 1] = EscEnd
  BY <1>2, <1>5, <1>6 DEF T!IsDressing
<1>8. ~(j < n)
  <2> SUFFICES ASSUME j < n PROVE FALSE
    OBVIOUS
  <2>1. j + 1 \in 1..n
    BY <1>1
  <2> QED BY <1>2, <1>7, <2>1 DEF T!IsDressing
<1> QED BY <1>1, <1>7, <1>8

\* mint.ts, watch.ts: whatever a child has to say, escapes in its tokens included, wherever
\* what it says is cut and whenever it ends, what is returned is half a token only where the
\* child ended, or was ended at the ceiling, half way through saying it; where it was read
\* from a console between its halves; or where what had been heard stopped inside an escape
\* that stands in the token.
THEOREM NoCutMakesAStub == Spec => []OnlyThreeCutsLeaveAStub
<1>1. TInv /\ [Next]_vars => TInv'
  BY AStepOfTheMint, Apart
<1>2. ASSUME TInv PROVE OnlyThreeCutsLeaveAStub
  <2>1. SUFFICES ASSUME T!IsAStub, because = "token" PROVE T!WasReadHalfDrawn \/ T!WasCutInAnEscape
    BY <1>2 DEF TInv, TheMintFits, OnlyThreeCutsLeaveAStub, T!OnlyThreeCutsLeaveAStub, T!IsAStub
  <2> DEFINE heard == taken.of
             k == taken.at
  <2>2. /\ heard \in Seq(Marks) /\ k \in 1..Len(heard) /\ heard[k] = Half /\ T!IsFollowed(heard, k, FALSE)
        /\ terminal = "expect" => /\ Len(heard) <= Len(script)
                                  /\ \A i \in 1..Len(heard) : heard[i] = script[i]
        /\ terminal = "console" => HalvesAreFollowed(heard)
    BY <1>2, <2>1 DEF TInv, TheMintFits, IsTaken
  <2>3. \A j \in 1..Len(heard) : T!IsNext(heard, k, j) => heard[j] # Rest
    BY <2>1 DEF T!IsAStub, T!Behind
  <2>4. CASE terminal = "expect"
    <3>1. script \in Scripts /\ Len(script) \in Nat
      BY <1>2 DEF TInv, TheChildFits
    <3>2. PICK j \in 1..Len(heard) : T!IsNext(heard, k, j)
      BY <2>2 DEF T!IsFollowed
    <3>3. j = Len(heard) /\ heard[j] = Esc
      <4> HIDE DEF heard, k
      <4> QED BY <2>2, <2>3, <2>4, <3>1, <3>2, OnlyAnEscapeIsCut
    <3>4. heard # <<>>
      BY <2>2
    <3> QED BY <2>4, <3>2, <3>3, <3>4 DEF T!WasCutInAnEscape, T!Last
  <2>5. CASE terminal = "console"
    <3>1. k + 1 \in 1..Len(heard) /\ heard[k + 1] \in {Rest, LineEnd}
      BY <2>2, <2>5 DEF HalvesAreFollowed
    <3>2. T!IsNext(heard, k, k + 1)
      <4>1. heard[k + 1] \notin {Esc, EscEnd}
        BY <3>1, MarksAssumption
      <4> HIDE DEF heard, k
      <4> QED BY <2>2, <3>1, <4>1 DEF T!IsNext, T!IsDressing
    <3>3. heard[k + 1] = LineEnd
      BY <2>3, <3>1, <3>2
    <3> QED BY <2>5, <3>1, <3>2, <3>3 DEF T!WasReadHalfDrawn, T!Behind
  <2> QED BY <1>2, <2>4, <2>5 DEF TInv, TheChildFits
<1> QED BY <1>1, <1>2, AMintBegins, PTL DEF Spec

\* mint.ts, windows-terminal.ts: a child that said a token and ended by itself is answered
\* with it, however it was heard, unless the last screen was not written, or was written
\* behind a look's back.
THEOREM NoTokenIsMissed == Spec => []OnlyTheLastScreenLosesAToken
<1>1. TInv /\ [Next]_vars => TInv'
  BY AStepOfTheMint, Apart
<1>2. ASSUME TInv PROVE OnlyTheLastScreenLosesAToken
  <2>1. SUFFICES ASSUME result = "nothing", because = "nothing", child = "exited",
                        wrote = Len(script), HalfIn(script)
                 PROVE  terminal = "console" /\ (screen # T!Picture \/ seen # screen)
    BY DEF OnlyTheLastScreenLosesAToken, T!OnlyTheLastScreenLosesAToken, T!Contains, HalfIn
  <2>2. told /\ ~HalfIn(utterance) /\ ~HalfIn(seen)
    BY <1>2, <2>1 DEF TInv, TheMintFits, TheHearingFits
  <2>3. PICK i \in 1..Len(script) : script[i] = Half
    BY <2>1 DEF HalfIn
  <2>4. terminal # "expect"
    <3> SUFFICES ASSUME terminal = "expect" PROVE FALSE
      OBVIOUS
    <3>1. Len(utterance) = Len(script) /\ \A j \in 1..Len(utterance) : utterance[j] = script[j]
      BY <1>2, <2>1, <2>2 DEF TInv, TheHearingFits
    <3> QED BY <2>2, <2>3, <3>1 DEF HalfIn
  <2>5. T!Picture = SubSeq(script, 1, Len(script)) \o <<LineEnd>> /\ script \in Seq(Marks)
    BY <1>2, <2>1 DEF TInv, TheChildFits, T!Picture
  <2>6. SubSeq(script, 1, Len(script)) = script
    BY <2>5
  <2>7. HalfIn(T!Picture)
    <3> DEFINE whole == T!Picture
    <3>1. <<LineEnd>> \in Seq(Marks) /\ Len(<<LineEnd>>) = 1
      BY DEF Marks
    <3>2. whole = script \o <<LineEnd>>
      BY <2>5, <2>6
    <3> HIDE DEF whole
    <3>3. /\ Len(whole) = Len(script) + 1
          /\ \A j \in 1..(Len(script) + 1) : j <= Len(script) => whole[j] = script[j]
      BY <2>5, <3>1, <3>2, ConcatProperties
    <3>4. i \in 1..(Len(script) + 1) /\ i <= Len(script)
      BY <2>3, <2>5
    <3>5. HalfIn(whole)
      BY <2>3, <3>3, <3>4 DEF HalfIn
    <3> QED BY <3>5 DEF whole
  <2>8. screen # T!Picture \/ seen # screen
    BY <2>2, <2>7
  <2> QED BY <1>2, <2>4, <2>8 DEF TInv, TheChildFits
<1> QED BY <1>1, <1>2, AMintBegins, PTL DEF Spec

-----------------------------------------------------------------------------
(* The counting of a reply's tokens as it passes.                           *)

\* The window reaches as far back as it may, and what was counted is a count of what passed;
\* where no object is longer than the window, there is no larger one.
CInv == /\ reply \in Seq(Int) /\ passed \in 0..Len(reply)
        /\ carry \in Nat \ {0} /\ (carry = 1 \/ carry <= passed - CarryBytes + 1)
        /\ most \in Int /\ most >= -1
        /\ most # -1 => most \in C!CountsIn(1, passed)
        /\ (\A n \in C!Spans(passed) : n <= CarryBytes) => \A k \in C!CountsIn(1, passed) : k <= most

\* Of finitely many numbers, one is the greatest: the one with the most not above it.
LEMMA TheGreatestOfSome ==
  ASSUME NEW some \in SUBSET Int, IsFiniteSet(some), some # {}
  PROVE  \E i \in some : \A j \in some : j <= i
<1> DEFINE UpTo(i) == {j \in some : j <= i}
           ranks == {Cardinality(UpTo(i)) : i \in some}
           n == Cardinality(some)
<1>1. n \in Nat
  BY FS_CardinalityType
<1>2. ASSUME NEW i \in some
      PROVE  IsFiniteSet(UpTo(i)) /\ Cardinality(UpTo(i)) \in 1..n
  <2>1. UpTo(i) \in SUBSET some /\ i \in UpTo(i)
    OBVIOUS
  <2>2. IsFiniteSet(UpTo(i)) /\ Cardinality(UpTo(i)) <= n
    BY <2>1, FS_Subset
  <2>3. Cardinality(UpTo(i)) \in Nat /\ Cardinality(UpTo(i)) # 0
    BY <2>1, <2>2, FS_CardinalityType, FS_EmptySet
  <2> HIDE DEF UpTo, n
  <2> QED BY <1>1, <2>2, <2>3
<1>3. PICK r \in ranks : \A q \in ranks : q <= r
  <2>1. ranks \in SUBSET (1..n) /\ ranks # {}
    BY <1>2
  <2> QED BY <1>1, <2>1, TheLastOfSome
<1>4. PICK i \in some : r = Cardinality(UpTo(i))
  BY <1>3
<1>5. ASSUME NEW j \in some, ~(j <= i) PROVE FALSE
  <2>1. UpTo(i) \in SUBSET UpTo(j) /\ j \in UpTo(j) /\ j \notin UpTo(i)
    <3>1. i \in Int /\ j \in Int /\ some \subseteq Int
      BY <1>4, <1>5
    <3>2. ASSUME NEW k \in UpTo(i) PROVE k \in UpTo(j)
      <4>1. k \in Int /\ k \in some /\ k <= i
        BY <3>1, <3>2
      <4>2. k <= j
        BY <1>5, <3>1, <4>1
      <4> QED BY <4>1, <4>2
    <3>3. j \in UpTo(j) /\ j \notin UpTo(i)
      BY <1>5, <3>1
    <3> HIDE DEF UpTo
    <3> QED BY <3>2, <3>3
  <2>2. IsFiniteSet(UpTo(j)) /\ Cardinality(UpTo(i)) \in Int /\ Cardinality(UpTo(j)) \in Int
    BY <1>2, <1>4, <1>5
  <2>3. Cardinality(UpTo(j)) <= Cardinality(UpTo(i))
    BY <1>3, <1>4, <1>5
  <2> HIDE DEF UpTo
  <2>4. Cardinality(UpTo(i)) <= Cardinality(UpTo(j))
    BY <2>1, <2>2, FS_Subset
  <2>5. Cardinality(UpTo(i)) = Cardinality(UpTo(j))
    BY <2>2, <2>3, <2>4
  <2> QED BY <2>1, <2>2, <2>5, FS_Subset
<1> QED BY <1>4, <1>5

\* A count that is found is one of the reply's.
LEMMA TheCountsAreFew ==
  ASSUME reply \in Seq(Int), NEW from \in Nat \ {0}, NEW to \in 0..Len(reply)
  PROVE  /\ C!CountsIn(from, to) \in SUBSET Int /\ IsFiniteSet(C!CountsIn(from, to))
         /\ \A k \in C!CountsIn(from, to) : k >= 0
<1> DEFINE every == {reply[i] : i \in 1..Len(reply)}
<1>1. IsFiniteSet(every) /\ every \in SUBSET Int
  <2>1. reply \in Surjection(1..Len(reply), every)
    BY DEF Surjection
  <2>2. IsFiniteSet(1..Len(reply))
    BY FS_Interval
  <2> QED BY <2>1, <2>2, FS_Surjection
<1>2. ASSUME NEW k \in C!CountsIn(from, to) PROVE k \in every /\ k >= 0
  <2>1. PICK a \in from..to : \E o \in C!Opens(a + 2, to) : \E c \in C!Closes(o, to) : k \in C!CountIn(o, c)
    BY DEF C!CountsIn
  <2>5. PICK o \in C!Opens(a + 2, to) : \E c \in C!Closes(o, to) : k \in C!CountIn(o, c)
    BY <2>1
  <2>6. PICK c \in C!Closes(o, to) : k \in C!CountIn(o, c)
    BY <2>5
  <2>2. PICK i \in o..c : k = reply[i] /\ C!IsCount(reply[i])
    BY <2>6 DEF C!CountIn
  <2>3. o \in (a + 2)..to /\ c \in o..to
    BY <2>5, <2>6 DEF C!Opens, C!Closes
  <2>4. i \in 1..Len(reply)
    BY <2>1, <2>2, <2>3
  <2> QED BY <2>2, <2>4 DEF C!IsCount
<1> HIDE DEF every
<1>3. C!CountsIn(from, to) \in SUBSET every
  BY <1>2
<1> QED BY <1>1, <1>2, <1>3, FS_Subset

\* The largest of some counts and one more is one of them, and no other is larger.
LEMMA TheLargestOf ==
  ASSUME NEW counts \in SUBSET Int, IsFiniteSet(counts), NEW least \in Int
  PROVE  /\ C!Largest(counts, least) \in counts \union {least}
         /\ \A k \in counts \union {least} : k <= C!Largest(counts, least)
<1> DEFINE some == counts \union {least}
<1>1. IsFiniteSet(some) /\ some \in SUBSET Int /\ some # {}
  BY FS_AddElement
<1>2. \E i \in some : \A j \in some : j <= i
  BY <1>1, TheGreatestOfSome
<1> QED BY <1>2 DEF C!Largest

\* What a window holds of a text is in the whole of it, and in all that comes after it.
LEMMA MoreHasMore ==
  ASSUME NEW from \in Nat \ {0}, NEW to \in Nat, NEW further \in Nat, to <= further
  PROVE  /\ C!CountsIn(from, to) \subseteq C!CountsIn(1, further)
         /\ C!Spans(to) \subseteq C!Spans(further)
<1>1. ASSUME NEW a \in 1..to, C!IsMarker(a, from, to) \/ C!IsMarker(a, 1, to)
      PROVE  a \in 1..further /\ C!IsMarker(a, 1, further)
  BY <1>1 DEF C!IsMarker
<1>2. ASSUME NEW i \in Int
      PROVE  C!Opens(i, to) \subseteq C!Opens(i, further) /\ C!Closes(i, to) \subseteq C!Closes(i, further)
  BY DEF C!Opens, C!Closes
<1>3. ASSUME NEW k \in C!CountsIn(from, to) PROVE k \in C!CountsIn(1, further)
  <2>1. PICK a \in from..to : /\ C!IsMarker(a, from, to)
                              /\ \E o \in C!Opens(a + 2, to) : \E c \in C!Closes(o, to) : k \in C!CountIn(o, c)
    BY DEF C!CountsIn
  <2>2. PICK o \in C!Opens(a + 2, to) : \E c \in C!Closes(o, to) : k \in C!CountIn(o, c)
    BY <2>1
  <2>3. PICK c \in C!Closes(o, to) : k \in C!CountIn(o, c)
    BY <2>2
  <2>4. a \in 1..further /\ C!IsMarker(a, 1, further)
    BY <1>1, <2>1
  <2>5. o \in Int
    BY <2>2 DEF C!Opens
  <2>6. o \in C!Opens(a + 2, further) /\ c \in C!Closes(o, further)
    BY <1>2, <2>2, <2>3, <2>4, <2>5
  <2> QED BY <2>3, <2>4, <2>6 DEF C!CountsIn
<1>4. ASSUME NEW n \in C!Spans(to) PROVE n \in C!Spans(further)
  <2>1. PICK a \in 1..to : /\ C!IsMarker(a, 1, to)
                           /\ \E o \in C!Opens(a + 2, to) : \E c \in C!Closes(o, to) : n = c - a
    BY DEF C!Spans
  <2>2. PICK o \in C!Opens(a + 2, to) : \E c \in C!Closes(o, to) : n = c - a
    BY <2>1
  <2>3. PICK c \in C!Closes(o, to) : n = c - a
    BY <2>2
  <2>4. a \in 1..further /\ C!IsMarker(a, 1, further)
    BY <1>1, <2>1
  <2>5. o \in Int
    BY <2>2 DEF C!Opens
  <2>6. o \in C!Opens(a + 2, further) /\ c \in C!Closes(o, further)
    BY <1>2, <2>2, <2>3, <2>4, <2>5
  <2> QED BY <2>3, <2>4, <2>6 DEF C!Spans
<1> QED BY <1>3, <1>4

\* A count the window does not hold had passed before, where no object is longer than the
\* window.
LEMMA NoneIsBetween ==
  ASSUME CInv, CarryBytes \in Nat, NEW to \in Nat, passed <= to,
         \A n \in C!Spans(to) : n <= CarryBytes,
         NEW k \in C!CountsIn(1, to)
  PROVE  k \in C!CountsIn(1, passed) \/ k \in C!CountsIn(carry, to)
<1>1. PICK a \in 1..to : /\ C!IsMarker(a, 1, to)
                         /\ \E o \in C!Opens(a + 2, to) : \E c \in C!Closes(o, to) : k \in C!CountIn(o, c)
  BY DEF C!CountsIn
<1>2. PICK o \in C!Opens(a + 2, to) : \E c \in C!Closes(o, to) : k \in C!CountIn(o, c)
  BY <1>1
<1>3. PICK c \in C!Closes(o, to) : k \in C!CountIn(o, c)
  BY <1>2
<1>4. o \in (a + 2)..to /\ c \in o..to
  BY <1>2, <1>3 DEF C!Opens, C!Closes
<1>5. CASE c <= passed
  <2>1. passed \in Nat
    BY DEF CInv
  <2>2. a \in 1..passed /\ C!IsMarker(a, 1, passed)
    BY <1>1, <1>4, <1>5, <2>1 DEF C!IsMarker
  <2>3. o \in C!Opens(a + 2, passed)
    BY <1>2, <1>4, <1>5, <2>1 DEF C!Opens
  <2>4. c \in C!Closes(o, passed)
    BY <1>3, <1>4, <1>5, <2>1 DEF C!Closes
  <2> QED BY <1>3, <2>2, <2>3, <2>4 DEF C!CountsIn
<1>6. CASE ~(c <= passed)
  <2>1. c - a <= CarryBytes
    <3>1. c - a \in C!Spans(to)
      BY <1>1, <1>2, <1>3 DEF C!Spans
    <3> QED BY <3>1
  <2>2. carry \in Nat \ {0} /\ (carry = 1 \/ carry <= passed - CarryBytes + 1) /\ passed \in Nat
    BY DEF CInv
  <2>3. carry <= a
    BY <1>4, <1>6, <2>1, <2>2
  <2>4. a \in carry..to /\ C!IsMarker(a, carry, to)
    BY <1>1, <2>2, <2>3 DEF C!IsMarker
  <2> QED BY <1>2, <1>3, <2>4 DEF C!CountsIn
<1> QED BY <1>5, <1>6

LEMMA APieceIsTaken ==
  ASSUME CInv, NEW to \in 1..Len(reply), C!Takes(to)
  PROVE  CInv'
<1>1. /\ passed < to /\ to \in Nat /\ to <= Len(reply) /\ passed \in Nat /\ carry \in Nat \ {0}
      /\ reply \in Seq(Int) /\ most \in Int /\ most >= -1
      /\ reply' = reply /\ passed' = to /\ carry' = C!CarryAfter(to)
      /\ most' = C!Largest(C!CountsIn(carry, to), most)
  BY DEF CInv, C!Takes
<1>2. CarryBytes \in Nat
  BY CarryAssumption
<1> DEFINE new == C!CountsIn(carry, to)
<1>3. new \in SUBSET Int /\ IsFiniteSet(new)
  BY <1>1, TheCountsAreFew
<1>4. most' \in new \union {most} /\ \A k \in new \union {most} : k <= most'
  BY <1>1, <1>3, TheLargestOf
<1>5. /\ C!CountsIn(1, passed) \subseteq C!CountsIn(1, to) /\ C!Spans(passed) \subseteq C!Spans(to)
      /\ new \subseteq C!CountsIn(1, to)
  BY <1>1, MoreHasMore
<1>6. most' \in Int /\ most' >= -1
  <2>1. most \in Int /\ most >= -1
    BY <1>1
  <2>2. most' \in Int /\ most <= most'
    BY <1>3, <1>4, <2>1
  <2> HIDE DEF new
  <2> QED BY ONLY <2>1, <2>2
<1>7. most' # -1 => most' \in C!CountsIn(1, to)
  <2>1. CASE most' \in new
    BY <1>5, <2>1
  <2>2. CASE most' = most
    BY <1>5, <2>2 DEF CInv
  <2> QED BY <1>4, <2>1, <2>2
<1>8. ASSUME \A n \in C!Spans(to) : n <= CarryBytes, NEW k \in C!CountsIn(1, to)
      PROVE  k <= most'
  <2>1. CASE k \in new
    BY <1>4, <2>1
  <2>2. CASE k \in C!CountsIn(1, passed)
    <3>1. k <= most
      BY <1>5, <1>8, <2>2 DEF CInv
    <3>2. most <= most'
      BY <1>4
    <3>3. k \in Int
      BY <1>1, <2>2, TheCountsAreFew
    <3> QED BY <1>1, <1>6, <3>1, <3>2, <3>3
  <2> QED BY <1>1, <1>2, <1>8, <2>1, <2>2, NoneIsBetween
<1>9. carry' \in Nat \ {0} /\ (carry' = 1 \/ carry' <= to - CarryBytes + 1)
  <2>1. carry = 1 \/ carry <= passed - CarryBytes + 1
    BY DEF CInv
  <2>2. carry' = IF to - carry + 1 <= CarryBytes THEN carry ELSE to - CarryBytes + 1
    BY <1>1 DEF C!CarryAfter
  <2> QED BY <1>1, <1>2, <2>1, <2>2
<1>10. /\ C!CountsIn(1, passed)' = C!CountsIn(1, to) /\ C!Spans(passed)' = C!Spans(to)
  BY <1>1 DEF C!CountsIn, C!Spans, C!IsMarker, C!Opens, C!Closes, C!CountIn, C!Depth, C!IsCount
<1> HIDE DEF new
<1> QED BY <1>1, <1>6, <1>7, <1>8, <1>9, <1>10 DEF CInv

LEMMA AStepOfTheScan ==
  ASSUME CInv, C!Next \/ UNCHANGED scan
  PROVE  CInv'
<1>1. ASSUME UNCHANGED <<reply, passed, carry, most>> PROVE CInv'
  <2>1. /\ C!CountsIn(1, passed)' = C!CountsIn(1, passed) /\ C!Spans(passed)' = C!Spans(passed)
    BY <1>1 DEF C!CountsIn, C!Spans, C!IsMarker, C!Opens, C!Closes, C!CountIn, C!Depth, C!IsCount
  <2> QED BY <1>1, <2>1 DEF CInv
<1>2. CASE C!Ends
  BY <1>1, <1>2 DEF C!Ends
<1>3. CASE UNCHANGED scan
  BY <1>1, <1>3 DEF scan
<1>4. ASSUME NEW to \in 1..Len(reply), C!Takes(to) PROVE CInv'
  BY <1>4, APieceIsTaken
<1> QED BY <1>2, <1>3, <1>4 DEF C!Next

\* scan.ts: for replies of any length, cut anywhere, and a window of any length, what is
\* counted is a count of what passed, and the largest where no object with its marker is
\* longer than the window.
THEOREM NoCutLosesACount == Spec => []ACutLosesNoCount
<1>1. Init => CInv
  <2> SUFFICES ASSUME C!Init PROVE CInv
    BY DEF Init
  <2>1. reply \in Seq(Int) /\ passed = 0 /\ carry = 1 /\ most = -1
    BY CarryAssumption DEF C!Init
  <2>2. C!CountsIn(1, 0) = {}
    BY DEF C!CountsIn
  <2> QED BY <2>1, <2>2 DEF CInv
<1>2. CInv /\ [Next]_vars => CInv'
  BY AStepOfTheScan, Apart
<1>3. ASSUME CInv PROVE ACutLosesNoCount
  <2> DEFINE whole == C!CountsIn(1, passed)
  <2>1. /\ most \in Int /\ most >= -1 /\ (most # -1 => most \in whole)
        /\ (\A n \in C!Spans(passed) : n <= CarryBytes) => \A k \in whole : k <= most
        /\ whole \in SUBSET Int
    BY <1>3, TheCountsAreFew DEF CInv
  <2> HIDE DEF whole
  <2>2. ASSUME \A k \in whole : k <= most PROVE most = C!Largest(whole, -1)
    <3>1. most \in whole \union {-1} /\ \A k \in whole \union {-1} : k <= most
      BY <2>1, <2>2
    <3>2. ASSUME NEW n \in whole \union {-1}, \A k \in whole \union {-1} : k <= n
          PROVE  n = most
      BY <2>1, <3>1, <3>2
    <3> QED BY <3>1, <3>2 DEF C!Largest
  <2> QED BY <2>1, <2>2 DEF ACutLosesNoCount, C!ACutLosesNoCount, whole
<1> QED BY <1>1, <1>2, <1>3, PTL DEF Spec
=============================================================================
