----------------------- MODULE ConnectionFactoryProofs -----------------------
(***************************************************************************)
(* Shared connections for every set of requests, endpoints and connectors, *)
(* however they overlap: at most one usable connection to a connector, one *)
(* attempt at a time, no waiter that is forgotten, and nothing left when   *)
(* waitUntilFinished() returns.                                            *)
(*                                                                         *)
(* A request that establishes a connection has reserved its connectors:    *)
(* no other request tries them, and none of them has a usable connection.  *)
(***************************************************************************)
EXTENDS ConnectionFactory, FiniteSetTheorems, SequenceTheorems, WellFoundedInduction, TLAPS

RequestRec ==
    [pc : {"none", "resolve", "get", "next", "starting", "waiting", "respond", "fail", "answered", "done"},
     endpoints : Seq(Endpoint), connectors : Seq(Info), iter : Nat, answers : 0 .. 1]
LinkRec ==
    [state : {"none", "starting", "holding", "active", "closed"}, info : Info \cup {NoInfo}, listed : BOOLEAN]
FactoryRec ==
    [destroyed : BOOLEAN, finished : BOOLEAN, count : Int, owners : SUBSET Connector,
     pending : [Connector -> SUBSET Request]]

Est(c) == c.pc \in {"next", "starting"}
Cs(c) == ConnectorsOf(c.connectors)

(* Where a request c is tells what it has. *)
Steps(c) ==
    /\ c.answers = IF c.pc \in {"answered", "done"} THEN 1 ELSE 0
    /\ c.pc \in {"none", "resolve"} => c.endpoints # <<>>
    /\ c.pc \in {"get", "waiting"} => c.iter = 1 /\ c.connectors # <<>>
    /\ Est(c) => c.iter \in 1 .. Len(c.connectors)

(* and which connection l. *)
Linked(c, l, F) ==
    /\ l.state \in {"starting", "holding"} => c.pc = "starting"
    /\ l.state = "active" => c.pc \in {"respond", "answered", "done"}
    /\ l.state \in {"starting", "holding", "active"} => l.listed /\ ~F.destroyed
    /\ c.pc = "starting" => l.info \in Info /\ l.info.connector \in Cs(c)
    /\ F.finished => F.destroyed /\ c.pc \in {"none", "done"} /\ ~l.listed

Busy(Q) == {r \in Request : Q[r].pc \notin {"none", "done"}}

(* The connectors that are pending have one request each that tries them. *)
Attempts(F, Q) ==
    /\ \A c \in Connector : c \in F.owners <=> \E r \in Request : Est(Q[r]) /\ c \in Cs(Q[r])
    /\ \A r, q \in Request : r # q /\ Est(Q[r]) /\ Est(Q[q]) => Cs(Q[r]) \cap Cs(Q[q]) = {}

(* A request waits for attempts to its own connectors. *)
Waits(F, Q) ==
    /\ \A r \in Request, c \in Connector :
         r \in F.pending[c] => Q[r].pc = "waiting" /\ c \in F.owners /\ c \in Cs(Q[r])
    /\ \A r \in Request : Q[r].pc = "waiting" => \E d \in Cs(Q[r]) : r \in F.pending[d]

(* What is tried has no connection that could be used. *)
Reserved(Q, L) ==
    \A r, k \in Request : r # k /\ Est(Q[r]) /\ ActiveOrHolding(L[k]) => L[k].info.connector \notin Cs(Q[r])

Usable(L) ==
    \A r, q \in Request :
      r # q /\ ActiveOrHolding(L[r]) /\ ActiveOrHolding(L[q]) => L[r].info.connector # L[q].info.connector

Types(F, Q, L) == F \in FactoryRec /\ Q \in [Request -> RequestRec] /\ L \in [Request -> LinkRec]
Locals(F, Q, L) == \A r \in Request : Steps(Q[r]) /\ Linked(Q[r], L[r], F)

Whole(F, Q, L) ==
    /\ Types(F, Q, L) /\ Locals(F, Q, L) /\ F.count = Cardinality(Busy(Q))
    /\ Attempts(F, Q) /\ Waits(F, Q) /\ Reserved(Q, L) /\ Usable(L)

Inv == Whole(factory, request, link)

-----------------------------------------------------------------------------
LEMMA Constants ==
    /\ IsFiniteSet(Request) /\ Endpoints \in [Request -> Seq(Endpoint)] /\ Connectors \in [Endpoint -> Seq(Connector)]
    /\ \A r \in Request : Endpoints[r] # <<>>
    /\ \A e \in Endpoint : Connectors[e] # <<>>
BY FactoryConstants DEF FactoryAssumption

LEMMA Least ==
    ASSUME NEW X \in SUBSET Nat, X # {}
    PROVE  \E i \in X : \A j \in X : i <= j
<1> DEFINE R == OpToRel(<, Nat)
<1>1. IsWellFoundedOn(R, Nat)
  BY NatLessThanWellFounded
<1>2. \A x, y \in Nat : x < y => <<x, y>> \in R
  BY DEF OpToRel
<1> HIDE DEF R
<1>3. PICK i \in X : \A j \in X : ~(<<j, i>> \in R)
  BY <1>1, WFMin
<1>4. ASSUME NEW j \in X PROVE i <= j
  <2>1. i \in Nat /\ j \in Nat /\ ~(j < i)
    BY <1>2, <1>3
  <2> QED
    BY <2>1
<1> QED
  BY <1>4

LEMMA Greatest ==
    ASSUME NEW N \in Nat, NEW S \in SUBSET (1 .. N), S # {}
    PROVE  \E m \in S : \A j \in S : j <= m
<1> DEFINE X == {k \in Nat : \A i \in S : i <= k}
<1>1. N \in X
  OBVIOUS
<1>2. PICK m \in X : \A j \in X : m <= j
  BY <1>1, Least
<1>3. m \in Nat /\ \A i \in S : i <= m
  BY <1>2
<1>4. SUFFICES ASSUME m \notin S PROVE FALSE
  BY <1>3
<1>5. PICK i \in S : TRUE
  OBVIOUS
<1>6. i \in 1 .. N /\ i <= m
  BY <1>3
<1>7. m - 1 \in Nat
  BY <1>3, <1>6
<1>8. \A j \in S : j <= m - 1
  <2> TAKE j \in S
  <2>1. j \in 1 .. N /\ j <= m /\ j # m
    BY <1>3, <1>4
  <2> QED
    BY <1>3, <2>1
<1>9. m <= m - 1
  BY <1>2, <1>7, <1>8
<1> QED
  BY <1>3, <1>9

(* A set of places can be listed in order. *)
Lists(f, S) == f \in [1 .. Cardinality(S) -> S] /\ \A i, j \in DOMAIN f : i < j => f[i] < f[j]

LEMMA Enumerated ==
    ASSUME NEW N \in Nat, NEW S \in SUBSET (1 .. N)
    PROVE  \E f : Lists(f, S)
<1> DEFINE Bad == {n \in Nat : \E T \in SUBSET (1 .. N) : Cardinality(T) = n /\ ~\E f : Lists(f, T)}
<1>1. \A T \in SUBSET (1 .. N) : IsFiniteSet(T) /\ Cardinality(T) \in Nat
  <2>1. IsFiniteSet(1 .. N)
    BY FS_Interval
  <2> QED
    BY <2>1, FS_Subset, FS_CardinalityType
<1>2. SUFFICES ASSUME Bad # {} PROVE FALSE
  BY <1>1, <1>2
<1>3. PICK n \in Bad : \A j \in Bad : n <= j
  BY <1>2, Least
<1>4. PICK T \in SUBSET (1 .. N) : Cardinality(T) = n /\ ~\E f : Lists(f, T)
  BY <1>3
<1>5. n \in Nat
  BY <1>3
<1>6. T # {}
  <2> SUFFICES ASSUME T = {} PROVE FALSE
    OBVIOUS
  <2>1. Cardinality(T) = 0
    BY FS_EmptySet
  <2> DEFINE f == [i \in 1 .. 0 |-> i]
  <2>2. f \in [1 .. 0 -> T] /\ \A i, j \in DOMAIN f : i < j => f[i] < f[j]
    OBVIOUS
  <2> HIDE DEF f
  <2>3. Lists(f, T)
    BY <2>1, <2>2 DEF Lists
  <2> QED
    BY <1>4, <2>3
<1>7. PICK m \in T : \A j \in T : j <= m
  BY <1>6, Greatest
<1> DEFINE U == T \ {m}
<1>8. U \in SUBSET (1 .. N) /\ IsFiniteSet(T) /\ Cardinality(U) = n - 1 /\ n - 1 \in Nat
  <2>1. IsFiniteSet(T) /\ U \in SUBSET (1 .. N)
    BY <1>1
  <2>2. Cardinality(U) = Cardinality(T) - 1
    BY <1>7, <2>1, FS_RemoveElement
  <2>3. Cardinality(U) \in Nat
    BY <1>1, <2>1
  <2> QED
    BY <1>4, <2>1, <2>2, <2>3
<1>9. PICK g : Lists(g, U)
  <2>1. n - 1 \notin Bad
    BY <1>3, <1>5
  <2> QED
    BY <1>8, <2>1
<1> DEFINE f == [i \in 1 .. n |-> IF i = n THEN m ELSE g[i]]
<1>10. g \in [1 .. (n - 1) -> U] /\ \A i, j \in 1 .. (n - 1) : i < j => g[i] < g[j]
  BY <1>8, <1>9 DEF Lists
<1>11. \A i \in 1 .. n : i # n => i \in 1 .. (n - 1)
  BY <1>5
<1>12. f \in [1 .. n -> T]
  BY <1>7, <1>10, <1>11
<1>13. ASSUME NEW i \in 1 .. n, NEW j \in 1 .. n, i < j PROVE f[i] < f[j]
  <2>1. i # n /\ i \in 1 .. (n - 1)
    BY <1>5, <1>13
  <2>2. CASE j = n
    <3>1. f[j] = m /\ f[i] = g[i] /\ g[i] \in U
      BY <1>10, <2>1, <2>2
    <3>2. g[i] <= m /\ g[i] # m /\ g[i] \in 1 .. N /\ m \in 1 .. N
      BY <1>7, <3>1
    <3> QED
      BY <3>1, <3>2
  <2>3. CASE j # n
    BY <1>10, <1>11, <1>13, <2>1, <2>3
  <2> QED
    BY <2>2, <2>3
<1> HIDE DEF f
<1>14. Lists(f, T)
  BY <1>4, <1>12, <1>13 DEF Lists
<1> QED
  BY <1>4, <1>14

(* removeConnectors() leaves a list, and an empty one only of connectors   *)
(* that are all removed.                                                   *)
LEMMA RemoveFacts ==
    ASSUME NEW infos \in Seq(Info), NEW cs
    PROVE  /\ RemoveConnectors(infos, cs) \in Seq(Info)
           /\ RemoveConnectors(infos, cs) = <<>> => ConnectorsOf(infos) \subseteq cs
<1> DEFINE keep == {i \in DOMAIN infos : infos[i].connector \notin cs}
           n == Cardinality(keep)
           order == CHOOSE f \in [1 .. n -> keep] : \A i, j \in DOMAIN f : i < j => f[i] < f[j]
           R == [i \in 1 .. n |-> infos[order[i]]]
<1>1. Len(infos) \in Nat /\ DOMAIN infos = 1 .. Len(infos) /\ \A i \in DOMAIN infos : infos[i] \in Info
  BY LenProperties, ElementOfSeq
<1>2. keep \in SUBSET (1 .. Len(infos))
  BY <1>1
<1>3. IsFiniteSet(keep) /\ n \in Nat
  <2>1. IsFiniteSet(1 .. Len(infos))
    BY <1>1, FS_Interval
  <2>2. IsFiniteSet(keep)
    BY <1>2, <2>1, FS_Subset
  <2> QED
    BY <2>2, FS_CardinalityType
<1>4. RemoveConnectors(infos, cs) = R
  BY DEF RemoveConnectors
<1> HIDE DEF keep
<1>5. \E f \in [1 .. n -> keep] : \A i, j \in DOMAIN f : i < j => f[i] < f[j]
  BY <1>1, <1>2, Enumerated DEF Lists
<1>6. order \in [1 .. n -> keep]
  BY <1>5
<1> HIDE DEF order, n
<1>7. \A i \in 1 .. n : infos[order[i]] \in Info
  BY <1>1, <1>2, <1>6
<1>8. R \in Seq(Info) /\ Len(R) = n
  BY <1>3, <1>7
<1>9. ASSUME R = <<>> PROVE ConnectorsOf(infos) \subseteq cs
  <2>1. n = 0
    BY <1>8, <1>9
  <2>2. keep = {}
    BY <1>3, <2>1, FS_EmptySet DEF n
  <2> QED
    BY <2>2 DEF keep, ConnectorsOf
<1> QED
  BY <1>4, <1>8, <1>9

-----------------------------------------------------------------------------
(* What a change of the factory, the requests and the connections from     *)
(* F, Q, L to F2, Q2, L2 keeps: nothing is reserved and no connection can  *)
(* be used that was not before.                                            *)
NoneNew(Q, L, Q2, L2) ==
    /\ \A k \in Request : ActiveOrHolding(L2[k]) => ActiveOrHolding(L[k]) /\ L2[k].info = L[k].info
    /\ \A x \in Request : Est(Q2[x]) => Est(Q[x]) /\ Cs(Q2[x]) = Cs(Q[x])

LEMMA Kept ==
    ASSUME NEW F, NEW Q, NEW L, NEW F2, NEW Q2, NEW L2, Whole(F, Q, L), NoneNew(Q, L, Q2, L2),
           Types(F2, Q2, L2), Locals(F2, Q2, L2), F2.count = Cardinality(Busy(Q2)), Attempts(F2, Q2), Waits(F2, Q2)
    PROVE  Whole(F2, Q2, L2)
<1>1. Reserved(Q2, L2)
  <2>1. Reserved(Q, L)
    BY DEF Whole
  <2> QED
    BY <2>1, Zenon DEF Reserved, NoneNew
<1>2. Usable(L2)
  <2>1. Usable(L)
    BY DEF Whole
  <2> QED
    BY <2>1, Zenon DEF Usable, NoneNew
<1> QED
  BY <1>1, <1>2 DEF Whole

(* Factories that differ at most in their count. *)
SameLists(F, F2) ==
    F2.owners = F.owners /\ F2.pending = F.pending /\ F2.destroyed = F.destroyed /\ F2.finished = F.finished

(* The request r becomes me, and neither takes part in an attempt that it  *)
(* did not, nor waits; its connection may become unusable.                 *)
Moves(F, Q, L, F2, L2, r, me) ==
    /\ F2 \in FactoryRec /\ SameLists(F, F2)
    /\ me \in RequestRec /\ Steps(me) /\ Linked(me, L2[r], F)
    /\ me.pc # "waiting" /\ Q[r].pc # "waiting" /\ (Est(me) <=> Est(Q[r])) /\ (Est(me) => Cs(me) = Cs(Q[r]))
    /\ L2 \in [Request -> LinkRec] /\ (\A k \in Request : k # r => L2[k] = L[k])
    /\ ActiveOrHolding(L2[r]) => ActiveOrHolding(L[r]) /\ L2[r].info = L[r].info

LEMMA Moved ==
    ASSUME NEW F, NEW Q, NEW L, NEW F2, NEW L2, NEW r \in Request, NEW me, Whole(F, Q, L),
           Moves(F, Q, L, F2, L2, r, me), F2.count = Cardinality(Busy([Q EXCEPT ![r] = me]))
    PROVE  Whole(F2, [Q EXCEPT ![r] = me], L2)
<1> DEFINE Q2 == [Q EXCEPT ![r] = me]
<1>1. Q \in [Request -> RequestRec] /\ L \in [Request -> LinkRec] /\ Locals(F, Q, L) /\ Attempts(F, Q) /\ Waits(F, Q)
  BY DEF Whole, Types
<1>2. Q2 \in [Request -> RequestRec] /\ Q2[r] = me /\ \A x \in Request : x # r => Q2[x] = Q[x]
  BY <1>1 DEF Moves
<1>3. F2.count = Cardinality(Busy(Q2))
  OBVIOUS
<1> HIDE DEF Q2
<1>4. Types(F2, Q2, L2)
  BY <1>2 DEF Types, Moves
<1>5. Locals(F2, Q2, L2)
  <2> SUFFICES ASSUME NEW x \in Request PROVE Steps(Q2[x]) /\ Linked(Q2[x], L2[x], F2)
    BY DEF Locals
  <2>1. \A c, l : Linked(c, l, F) => Linked(c, l, F2)
    BY Zenon DEF Linked, Moves, SameLists
  <2>2. Steps(Q[x]) /\ Linked(Q[x], L[x], F)
    BY <1>1 DEF Locals
  <2> QED
    BY <1>2, <2>1, <2>2, Zenon DEF Moves
<1>6. \A x \in Request : (Est(Q2[x]) <=> Est(Q[x])) /\ (Est(Q2[x]) => Cs(Q2[x]) = Cs(Q[x]))
  BY <1>2, Zenon DEF Moves
<1>7. Attempts(F2, Q2)
  <2>1. F2.owners = F.owners
    BY DEF Moves, SameLists
  <2> QED
    BY <1>1, <1>6, <2>1, Zenon DEF Attempts
<1>8. Waits(F2, Q2)
  <2>1. F2.owners = F.owners /\ F2.pending = F.pending
    BY DEF Moves, SameLists
  <2>2. \A x \in Request : Q2[x].pc = "waiting" \/ Q[x].pc = "waiting" => Q2[x] = Q[x]
    BY <1>2, Zenon DEF Moves
  <2> QED
    BY <1>1, <2>1, <2>2, Zenon DEF Waits
<1>9. NoneNew(Q, L, Q2, L2)
  BY <1>6, Zenon DEF NoneNew, Moves
<1>10. Whole(F2, Q2, L2)
  BY <1>3, <1>4, <1>5, <1>7, <1>8, <1>9, Kept
<1> QED
  BY <1>10 DEF Q2

-----------------------------------------------------------------------------
(* The number of requests that are being served. *)
LEMMA BusyFinite ==
    ASSUME NEW Q
    PROVE  IsFiniteSet(Busy(Q)) /\ Cardinality(Busy(Q)) \in Nat /\ Cardinality(Busy(Q)) <= Cardinality(Request)
           /\ Cardinality(Request) \in Nat
<1>1. Busy(Q) \subseteq Request /\ IsFiniteSet(Request)
  BY Constants DEF Busy
<1> QED
  BY <1>1, FS_Subset, FS_CardinalityType

LEMMA BusySame ==
    ASSUME NEW Q \in [Request -> RequestRec], NEW r \in Request, NEW me,
           me.pc \in {"none", "done"} <=> Q[r].pc \in {"none", "done"}
    PROVE  Busy([Q EXCEPT ![r] = me]) = Busy(Q)
BY DEF Busy

LEMMA BusyMore ==
    ASSUME NEW Q \in [Request -> RequestRec], NEW r \in Request, NEW me,
           me.pc \notin {"none", "done"}, Q[r].pc \in {"none", "done"}
    PROVE  Cardinality(Busy([Q EXCEPT ![r] = me])) = Cardinality(Busy(Q)) + 1
<1>1. Busy([Q EXCEPT ![r] = me]) = Busy(Q) \cup {r} /\ r \notin Busy(Q)
  BY DEF Busy
<1> QED
  BY <1>1, BusyFinite, FS_AddElement

Idle(c) == c.pc \in {"none", "done"}
OneLess(Q, Q2) == Cardinality(Busy(Q2)) = Cardinality(Busy(Q)) - 1

LEMMA BusyLess ==
    ASSUME NEW Q \in [Request -> RequestRec], NEW r \in Request, NEW me,
           Idle(me), ~Idle(Q[r])
    PROVE  OneLess(Q, [Q EXCEPT ![r] = me])
<1>1. Busy([Q EXCEPT ![r] = me]) = Busy(Q) \ {r} /\ r \in Busy(Q)
  BY DEF Busy, Idle
<1> QED
  BY <1>1, BusyFinite, FS_RemoveElement DEF OneLess

(* A move that leaves the factory alone. *)
LEMMA MovedWithin ==
    ASSUME NEW F, NEW Q, NEW L, NEW L2, NEW r \in Request, NEW me, Whole(F, Q, L), Moves(F, Q, L, F, L2, r, me),
           me.pc \in {"none", "done"} <=> Q[r].pc \in {"none", "done"}
    PROVE  Whole(F, [Q EXCEPT ![r] = me], L2)
<1>1. Q \in [Request -> RequestRec] /\ F.count = Cardinality(Busy(Q))
  BY DEF Whole, Types
<1>2. F.count = Cardinality(Busy([Q EXCEPT ![r] = me]))
  BY <1>1, BusySame
<1> QED
  BY <1>2, Moved

-----------------------------------------------------------------------------
(* The parts of the invariant. *)
LEMMA Parts ==
    ASSUME Inv
    PROVE  /\ factory \in FactoryRec /\ request \in [Request -> RequestRec] /\ link \in [Request -> LinkRec]
           /\ \A r \in Request : Steps(request[r]) /\ Linked(request[r], link[r], factory)
           /\ factory.count = Cardinality(Busy(request)) /\ Attempts(factory, request) /\ Waits(factory, request)
           /\ Reserved(request, link) /\ Usable(link)
BY Zenon DEF Inv, Whole, Types, Locals

(* The request r is at c, and then at me. *)
LEMMA StepsAndLinks ==
    ASSUME Inv, NEW r \in Request, NEW me \in RequestRec, Steps(me),
           request[r].pc \notin {"starting", "waiting", "none", "done"}, Est(me) <=> Est(request[r]),
           Est(me) => Cs(me) = Cs(request[r]), me.pc \notin {"starting", "waiting", "none", "done"},
           request[r].pc \in {"respond", "answered"} => me.pc \in {"respond", "answered"}
    PROVE  Whole(factory, [request EXCEPT ![r] = me], link)
<1>1. Steps(request[r]) /\ Linked(request[r], link[r], factory) /\ factory \in FactoryRec /\ link \in [Request -> LinkRec]
  BY Parts
<1>2. link[r].state \notin {"starting", "holding"} /\ ~factory.finished
  BY <1>1, Zenon DEF Linked
<1>3. Linked(me, link[r], factory)
  BY <1>1, <1>2, Zenon DEF Linked
<1>4. Moves(factory, request, link, factory, link, r, me)
  BY <1>1, <1>3, Zenon DEF Moves, SameLists
<1> QED
  BY <1>4, MovedWithin DEF Inv

LEMMA CreateKeeps ==
    ASSUME Inv, NEW r \in Request, CreateAsync(r)
    PROVE  Inv'
<1> DEFINE c == request[r]
<1>1. c \in RequestRec /\ Steps(c) /\ Linked(c, link[r], factory) /\ c.pc = "none" /\ factory \in FactoryRec
      /\ link \in [Request -> LinkRec] /\ request \in [Request -> RequestRec]
  BY Parts DEF CreateAsync
<1>2. c.answers = 0 /\ c.endpoints # <<>>
  BY <1>1 DEF Steps
<1>3. CASE factory.destroyed \/ FindByEndpoint(r)
  <2> DEFINE n == c.answers + 1
             me == [c EXCEPT !.pc = "done", !.answers = n]
  <2>0. n = 1 /\ n \in 0 .. 1
    BY <1>2
  <2>1. factory' = factory /\ link' = link /\ request' = [request EXCEPT ![r] = me]
    BY <1>1, <1>3 DEF CreateAsync
  <2> HIDE DEF n
  <2>2. me \in RequestRec /\ me.pc = "done" /\ me.answers = 1
    BY <1>1, <2>0 DEF RequestRec
  <2> HIDE DEF me
  <2>3. Steps(me) /\ Linked(me, link[r], factory)
    BY <1>1, <2>2 DEF Steps, Linked, Est
  <2>4. Moves(factory, request, link, factory, link, r, me)
    BY <1>1, <2>2, <2>3 DEF Moves, SameLists, Est
  <2>5. Whole(factory, [request EXCEPT ![r] = me], link)
    BY <1>1, <2>2, <2>4, MovedWithin DEF Inv
  <2> QED
    BY <2>1, <2>5 DEF Inv
<1>4. CASE ~(factory.destroyed \/ FindByEndpoint(r))
  <2> DEFINE me == [c EXCEPT !.pc = "resolve"]
             F2 == [factory EXCEPT !.count = @ + 1]
  <2>1. factory' = F2 /\ link' = link /\ request' = [request EXCEPT ![r] = me]
    BY <1>1, <1>2, <1>4 DEF CreateAsync, Set
  <2>2. me \in RequestRec /\ me.pc = "resolve" /\ me.answers = 0 /\ me.endpoints # <<>>
    BY <1>1, <1>2 DEF RequestRec
  <2>3. F2 \in FactoryRec /\ SameLists(factory, F2) /\ F2.count = factory.count + 1
    BY <1>1 DEF FactoryRec, SameLists
  <2> HIDE DEF me, F2
  <2>4. Steps(me) /\ Linked(me, link[r], factory)
    BY <1>1, <1>4, <2>2 DEF Steps, Linked, Est
  <2>5. Moves(factory, request, link, F2, link, r, me)
    BY <1>1, <2>2, <2>3, <2>4 DEF Moves, Est
  <2>6. F2.count = Cardinality(Busy([request EXCEPT ![r] = me]))
    BY <1>1, <2>2, <2>3, Parts, BusyMore
  <2>7. Whole(F2, [request EXCEPT ![r] = me], link)
    BY <2>5, <2>6, Moved DEF Inv
  <2> QED
    BY <2>1, <2>7 DEF Inv
<1> QED
  BY <1>3, <1>4

LEMMA DecKeeps ==
    ASSUME Inv, NEW r \in Request, DecPendingConnectCount(r)
    PROVE  Inv'
<1> DEFINE c == request[r]
           me == [c EXCEPT !.pc = "done"]
           F2 == [factory EXCEPT !.count = @ - 1]
<1>1. c \in RequestRec /\ Steps(c) /\ Linked(c, link[r], factory) /\ c.pc = "answered" /\ factory \in FactoryRec
      /\ link \in [Request -> LinkRec] /\ request \in [Request -> RequestRec]
  BY Parts DEF DecPendingConnectCount
<1>2. factory' = F2 /\ link' = link /\ request' = [request EXCEPT ![r] = me]
  BY <1>1 DEF DecPendingConnectCount, Set
<1>3. me \in RequestRec /\ me.pc = "done" /\ me.answers = c.answers
  BY <1>1 DEF RequestRec
<1>4. F2 \in FactoryRec /\ SameLists(factory, F2) /\ F2.count = factory.count - 1
  BY <1>1 DEF FactoryRec, SameLists
<1> HIDE DEF me, F2
<1>5. Steps(me) /\ Linked(me, link[r], factory)
  BY <1>1, <1>3 DEF Steps, Linked, Est
<1>6. Moves(factory, request, link, F2, link, r, me)
  BY <1>1, <1>3, <1>4, <1>5 DEF Moves, Est
<1>7. F2.count = Cardinality(Busy([request EXCEPT ![r] = me]))
  <2>1. factory.count = Cardinality(Busy(request))
    BY Parts
  <2>2. OneLess(request, [request EXCEPT ![r] = me])
    <3>1. Idle(me) /\ ~Idle(request[r]) /\ request \in [Request -> RequestRec]
      BY <1>1, <1>3 DEF Idle
    <3> QED
      BY <3>1, BusyLess
  <2> QED
    BY <1>4, <2>1, <2>2 DEF OneLess
<1>8. Whole(F2, [request EXCEPT ![r] = me], link)
  BY <1>6, <1>7, Moved DEF Inv
<1> QED
  BY <1>2, <1>8 DEF Inv

LEMMA AnswerKeeps ==
    ASSUME Inv, NEW r \in Request, Answer(r)
    PROVE  Inv'
<1> DEFINE c == request[r]
           n == c.answers + 1
           me == [c EXCEPT !.pc = "answered", !.answers = n]
<1>1. c \in RequestRec /\ Steps(c) /\ c.pc \in {"respond", "fail"} /\ request \in [Request -> RequestRec]
      /\ Linked(c, link[r], factory)
  BY Parts DEF Answer
<1>2. n = 1 /\ n \in 0 .. 1
  BY <1>1 DEF Steps
<1>3. factory' = factory /\ link' = link /\ request' = [request EXCEPT ![r] = me]
  BY <1>1 DEF Answer
<1> HIDE DEF n
<1>4. me \in RequestRec /\ me.pc = "answered" /\ me.answers = 1
  BY <1>1, <1>2 DEF RequestRec
<1> HIDE DEF me
<1>5. Steps(me) /\ ~Est(me) /\ ~Est(c)
  BY <1>1, <1>4 DEF Steps, Est
<1>6. Whole(factory, [request EXCEPT ![r] = me], link)
  BY <1>1, <1>4, <1>5, StepsAndLinks
<1> QED
  BY <1>3, <1>6 DEF Inv

(* What Resolve(r) finds, and the request after it. *)
Found(e) == [i \in DOMAIN Connectors[e] |-> [connector |-> Connectors[e][i], endpoint |-> e]]

LEMMA FoundInfos ==
    ASSUME NEW e \in Endpoint
    PROVE  Found(e) \in Seq(Info)
<1>1. Connectors[e] \in Seq(Connector)
  BY Constants
<1>2. Len(Connectors[e]) \in Nat /\ DOMAIN Connectors[e] = 1 .. Len(Connectors[e])
      /\ \A i \in DOMAIN Connectors[e] : Connectors[e][i] \in Connector
  BY <1>1, LenProperties, ElementOfSeq
<1>3. \A i \in 1 .. Len(Connectors[e]) : [connector |-> Connectors[e][i], endpoint |-> e] \in Info
  BY <1>2 DEF Info
<1> QED
  BY <1>2, <1>3 DEF Found

LEMMA ResolveKeeps ==
    ASSUME Inv, NEW r \in Request, Resolve(r)
    PROVE  Inv'
<1> DEFINE c == request[r]
           e == Head(c.endpoints)
<1>1. c \in RequestRec /\ Steps(c) /\ Linked(c, link[r], factory) /\ c.pc = "resolve"
      /\ request \in [Request -> RequestRec]
  BY Parts DEF Resolve
<1>2. c.endpoints \in Seq(Endpoint) /\ c.endpoints # <<>> /\ c.connectors \in Seq(Info) /\ c.answers = 0
  BY <1>1 DEF Steps, RequestRec
<1>3. e \in Endpoint /\ Tail(c.endpoints) \in Seq(Endpoint)
      /\ (Len(c.endpoints) > 1 => Tail(c.endpoints) # <<>>)
  <2>1. e \in Endpoint /\ Tail(c.endpoints) \in Seq(Endpoint)
    BY <1>2, HeadTailProperties
  <2>2. Len(Tail(c.endpoints)) = Len(c.endpoints) - 1 /\ Len(c.endpoints) \in Nat
    BY <1>2, HeadTailProperties, LenProperties
  <2> DEFINE t == Tail(c.endpoints)
             n == Len(c.endpoints)
  <2>3. Len(t) = n - 1 /\ n \in Nat
    BY <2>2
  <2> HIDE DEF t, n
  <2>4. n > 1 => t # <<>>
    BY <2>3
  <2> QED
    BY <2>1, <2>4 DEF t, n
<1>4. PICK more \in {Found(e), <<>>} :
        request' = [request EXCEPT ![r] = [c EXCEPT
           !.endpoints = Tail(@), !.connectors = @ \o more, !.iter = 1,
           !.pc = IF Len(c.endpoints) > 1 THEN "resolve"
                  ELSE IF c.connectors \o more = <<>> THEN "fail" ELSE "get"]]
  BY Zenon DEF Resolve, Found
<1>5. factory' = factory /\ link' = link
  BY DEF Resolve
<1> DEFINE rest == Tail(c.endpoints)
           all == c.connectors \o more
           to == IF Len(c.endpoints) > 1 THEN "resolve" ELSE IF all = <<>> THEN "fail" ELSE "get"
           one == 1
           me == [c EXCEPT !.endpoints = rest, !.connectors = all, !.iter = one, !.pc = to]
<1>6. request' = [request EXCEPT ![r] = me]
  BY <1>1, <1>4
<1>7. more \in Seq(Info)
  <2>1. Found(e) \in Seq(Info)
    BY <1>3, FoundInfos
  <2>2. <<>> \in Seq(Info)
    OBVIOUS
  <2> QED
    BY <2>1, <2>2
<1>8. all \in Seq(Info)
  BY <1>2, <1>7
<1>9. /\ to \in {"resolve", "fail", "get"}
      /\ to = "resolve" => rest # <<>>
      /\ to = "get" => all # <<>>
  BY <1>3
<1>10. rest \in Seq(Endpoint) /\ one = 1 /\ one \in Nat
  BY <1>3
<1> HIDE DEF rest, all, to, one
<1>11. me.endpoints = rest /\ me.connectors = all /\ me.iter = one /\ me.pc = to /\ me.answers = c.answers
  BY <1>1 DEF RequestRec
<1>12. me \in RequestRec
  BY <1>1, <1>8, <1>9, <1>10 DEF RequestRec
<1> HIDE DEF me
<1>13. Steps(me) /\ ~Est(me) /\ ~Est(c)
  BY <1>1, <1>2, <1>9, <1>10, <1>11 DEF Steps, Est
<1>14. Whole(factory, [request EXCEPT ![r] = me], link)
  BY <1>1, <1>9, <1>11, <1>12, <1>13, StepsAndLinks
<1> QED
  BY <1>5, <1>6, <1>14 DEF Inv

-----------------------------------------------------------------------------
LocalChange(F, Q, L, Q2, L2) ==
    \A x \in Request : (Q2[x] = Q[x] /\ L2[x] = L[x]) \/ (Steps(Q2[x]) /\ Linked(Q2[x], L2[x], F))

LEMMA LocalsKept ==
    ASSUME NEW F, NEW Q, NEW L, NEW F2, NEW Q2, NEW L2, Locals(F, Q, L),
           F2.destroyed = F.destroyed, F2.finished = F.finished,
           LocalChange(F, Q, L, Q2, L2)
    PROVE  Locals(F2, Q2, L2)
<1>1. \A c, l : Linked(c, l, F) => Linked(c, l, F2)
  BY Zenon DEF Linked
<1> QED
  BY <1>1, Zenon DEF Locals, LocalChange

LEMMA OwnConnectors ==
    ASSUME NEW c \in RequestRec
    PROVE  Cs(c) \subseteq Connector
<1>1. c.connectors \in Seq(Info)
  BY DEF RequestRec
<1>2. \A i \in DOMAIN c.connectors : c.connectors[i] \in Info
  BY <1>1, LenProperties, ElementOfSeq
<1> QED
  BY <1>2 DEF Cs, ConnectorsOf, Info

LEMMA GetKeeps ==
    ASSUME Inv, NEW r \in Request, GetConnection(r)
    PROVE  Inv'
<1> DEFINE c == request[r]
           mine == Cs(c)
           O == factory.owners
           P == factory.pending
<1>1. c \in RequestRec /\ Steps(c) /\ Linked(c, link[r], factory) /\ c.pc = "get" /\ link' = link
  BY Parts DEF GetConnection
<1>2. factory \in FactoryRec /\ link \in [Request -> LinkRec] /\ request \in [Request -> RequestRec]
      /\ Locals(factory, request, link)
  BY Parts DEF Locals
<1>3. c.answers = 0 /\ c.iter = 1 /\ c.connectors # <<>>
  BY <1>1 DEF Steps
<1>4. link[r].state \notin {"starting", "holding", "active"} /\ ~factory.finished
  BY <1>1, Zenon DEF Linked
<1>5. ASSUME NEW pc \in {"fail", "respond"}, request' = [request EXCEPT ![r].pc = pc], factory' = factory PROVE Inv'
  <2> DEFINE me == [c EXCEPT !.pc = pc]
  <2>1. request' = [request EXCEPT ![r] = me]
    BY <1>5
  <2>2. me \in RequestRec /\ me.pc = pc /\ me.answers = c.answers
    BY <1>1, <1>5 DEF RequestRec
  <2> HIDE DEF me
  <2>3. Steps(me) /\ ~Est(me) /\ ~Est(c)
    BY <1>1, <1>3, <1>5, <2>2 DEF Steps, Est
  <2>4. Whole(factory, [request EXCEPT ![r] = me], link)
    BY <1>1, <1>5, <2>2, <2>3, StepsAndLinks
  <2> QED
    BY <1>1, <1>5, <2>1, <2>4 DEF Inv
<1>6. ASSUME mine \cap O # {},
             factory' = [factory EXCEPT !.pending = [d \in Connector |-> IF d \in mine \cap O THEN P[d] \cup {r} ELSE P[d]]],
             request' = [request EXCEPT ![r].pc = "waiting"]
      PROVE  Inv'
  <2> DEFINE me == [c EXCEPT !.pc = "waiting"]
             P2 == [d \in Connector |-> IF d \in mine \cap O THEN P[d] \cup {r} ELSE P[d]]
             F2 == [factory EXCEPT !.pending = P2]
             Q2 == [request EXCEPT ![r] = me]
  <2>1. factory' = F2 /\ request' = Q2
    BY <1>6
  <2>2. me \in RequestRec /\ me.pc = "waiting" /\ me.answers = c.answers /\ me.iter = c.iter /\ me.connectors = c.connectors
    BY <1>1 DEF RequestRec
  <2>3. P \in [Connector -> SUBSET Request] /\ O \in SUBSET Connector
    BY <1>2 DEF FactoryRec
  <2>4. P2 \in [Connector -> SUBSET Request] /\ \A d \in Connector : P2[d] = IF d \in mine \cap O THEN P[d] \cup {r} ELSE P[d]
    BY <2>3
  <2> HIDE DEF P2
  <2>5. F2 \in FactoryRec /\ F2.owners = O /\ F2.pending = P2 /\ F2.count = factory.count
        /\ F2.destroyed = factory.destroyed /\ F2.finished = factory.finished
    BY <1>2, <2>4 DEF FactoryRec
  <2>6. Q2 \in [Request -> RequestRec] /\ Q2[r] = me /\ \A x \in Request : x # r => Q2[x] = request[x]
    BY <1>2, <2>2
  <2>7. Busy(Q2) = Busy(request)
    BY <1>1, <1>2, <2>2, BusySame
  <2> HIDE DEF me, F2, Q2
  <2>8. Steps(me) /\ ~Est(me) /\ ~Est(c) /\ Cs(me) = mine
    BY <1>1, <1>3, <2>2 DEF Steps, Est, Cs
  <2>9. Linked(me, link[r], factory)
    BY <1>4, <2>2, Zenon DEF Linked
  <2>10. Types(F2, Q2, link)
    BY <1>2, <2>5, <2>6 DEF Types
  <2>11. Locals(F2, Q2, link)
    <3>1. LocalChange(factory, request, link, Q2, link)
      BY <2>6, <2>8, <2>9, Zenon DEF LocalChange
    <3> QED
      BY <1>2, <2>5, <3>1, LocalsKept, Zenon
  <2>12. Attempts(F2, Q2)
    <3>1. Attempts(factory, request)
      BY Parts
    <3>2. \A x \in Request : (Est(Q2[x]) <=> Est(request[x])) /\ (Est(Q2[x]) => Cs(Q2[x]) = Cs(request[x]))
      BY <2>6, <2>8
    <3> QED
      BY <2>5, <3>1, <3>2, Zenon DEF Attempts
  <2>13. Waits(F2, Q2)
    <3>1. Waits(factory, request)
      BY Parts
    <3>2. ASSUME NEW x \in Request, NEW d \in Connector, x \in P2[d]
          PROVE  Q2[x].pc = "waiting" /\ d \in O /\ d \in Cs(Q2[x])
      <4>1. CASE x = r
        <5>1. x \notin P[d]
          BY <1>1, <3>1, <4>1 DEF Waits
        <5>2. d \in mine \cap O
          BY <2>4, <3>2, <5>1
        <5> QED
          BY <2>2, <2>6, <2>8, <4>1, <5>2
      <4>2. CASE x # r
        <5>1. x \in P[d]
          BY <2>4, <3>2, <4>2
        <5> QED
          BY <2>6, <3>1, <4>2, <5>1 DEF Waits
      <4> QED
        BY <4>1, <4>2
    <3>3. ASSUME NEW x \in Request, Q2[x].pc = "waiting" PROVE \E d \in Cs(Q2[x]) : x \in P2[d]
      <4>1. CASE x = r
        <5>1. PICK d \in mine : d \in O
          BY <1>6
        <5>2. r \in P2[d]
          BY <2>3, <2>4, <5>1
        <5> QED
          BY <2>6, <2>8, <4>1, <5>2
      <4>2. CASE x # r
        <5>1. PICK d \in Cs(request[x]) : x \in P[d]
          BY <2>6, <3>1, <3>3, <4>2 DEF Waits
        <5>2. d \in Connector
          BY <1>2, OwnConnectors
        <5>3. x \in P2[d]
          BY <2>4, <5>1, <5>2
        <5> QED
          BY <2>6, <4>2, <5>3
      <4> QED
        BY <4>1, <4>2
    <3> QED
      BY <2>5, <3>2, <3>3 DEF Waits
  <2>14. NoneNew(request, link, Q2, link)
    BY <2>6, <2>8 DEF NoneNew
  <2>15. F2.count = Cardinality(Busy(Q2))
    BY <2>5, <2>7, Parts
  <2>16. Whole(F2, Q2, link)
    BY <2>10, <2>11, <2>12, <2>13, <2>14, <2>15, Kept DEF Inv
  <2> QED
    BY <1>1, <2>1, <2>16 DEF Inv
<1>7. ASSUME ~factory.destroyed, ~FindByConnector(c.connectors), mine \cap O = {},
             factory' = [factory EXCEPT !.owners = O \cup mine], request' = [request EXCEPT ![r].pc = "next"]
      PROVE  Inv'
  <2> DEFINE me == [c EXCEPT !.pc = "next"]
             O2 == O \cup mine
             F2 == [factory EXCEPT !.owners = O2]
             Q2 == [request EXCEPT ![r] = me]
  <2>1. factory' = F2 /\ request' = Q2
    BY <1>7
  <2>2. me \in RequestRec /\ me.pc = "next" /\ me.answers = c.answers /\ me.iter = c.iter /\ me.connectors = c.connectors
    BY <1>1 DEF RequestRec
  <2>3. mine \subseteq Connector
    BY <1>1, OwnConnectors
  <2>4. O2 \in SUBSET Connector
    BY <1>2, <2>3 DEF FactoryRec
  <2> HIDE DEF O2
  <2>5. F2 \in FactoryRec /\ F2.owners = O2 /\ F2.pending = P /\ F2.count = factory.count
        /\ F2.destroyed = factory.destroyed /\ F2.finished = factory.finished
    BY <1>2, <2>4 DEF FactoryRec
  <2>6. Q2 \in [Request -> RequestRec] /\ Q2[r] = me /\ \A x \in Request : x # r => Q2[x] = request[x]
    BY <1>2, <2>2
  <2>7. Busy(Q2) = Busy(request)
    BY <1>1, <1>2, <2>2, BusySame
  <2> HIDE DEF me, F2, Q2
  <2>8. Est(me) /\ ~Est(c) /\ Cs(me) = mine
    BY <1>1, <2>2 DEF Est, Cs
  <2>9. Steps(me)
    <3>1. Len(c.connectors) \in Nat /\ Len(c.connectors) # 0
      BY <1>1, <1>3, LenProperties, EmptySeq DEF RequestRec
    <3> QED
      BY <1>1, <1>3, <2>2, <3>1 DEF Steps, Est
  <2>10. Linked(me, link[r], factory)
    BY <1>4, <2>2, Zenon DEF Linked
  <2>11. Types(F2, Q2, link) /\ F2.count = Cardinality(Busy(Q2))
    BY <1>2, <2>5, <2>6, <2>7, Parts DEF Types
  <2>12. Locals(F2, Q2, link)
    <3>1. LocalChange(factory, request, link, Q2, link)
      BY <2>6, <2>9, <2>10, Zenon DEF LocalChange
    <3> QED
      BY <1>2, <2>5, <3>1, LocalsKept, Zenon
  <2>13. Attempts(factory, request) /\ Waits(factory, request)
    BY Parts
  <2>14. Attempts(F2, Q2)
    <3>1. ASSUME NEW d \in Connector PROVE d \in O2 <=> \E x \in Request : Est(Q2[x]) /\ d \in Cs(Q2[x])
      <4>1. d \in O <=> \E x \in Request : Est(request[x]) /\ d \in Cs(request[x])
        BY <2>13 DEF Attempts
      <4> QED
        BY <2>6, <2>8, <4>1 DEF O2
    <3>2. \A x \in Request : Est(request[x]) => Cs(request[x]) \subseteq O
      BY <1>2, <2>13, OwnConnectors DEF Attempts
    <3>3. \A x, y \in Request : x # y /\ Est(Q2[x]) /\ Est(Q2[y]) => Cs(Q2[x]) \cap Cs(Q2[y]) = {}
      BY <1>7, <2>6, <2>8, <2>13, <3>2 DEF Attempts
    <3> QED
      BY <2>5, <3>1, <3>3 DEF Attempts
  <2>15. Waits(F2, Q2)
    <3>1. \A x \in Request : Q2[x].pc = "waiting" \/ request[x].pc = "waiting" => Q2[x] = request[x]
      BY <1>1, <2>2, <2>6
    <3> QED
      BY <2>5, <2>13, <3>1 DEF Waits, O2
  <2>16. Reserved(Q2, link)
    <3>1. ASSUME NEW k \in Request, k # r, ActiveOrHolding(link[k]) PROVE link[k].info.connector \notin mine
      <4>1. link[k].listed
        BY <1>2, <3>1 DEF Locals, Linked, ActiveOrHolding
      <4>2. link[k].info.connector \notin mine \ O
        BY <1>7, <3>1, <4>1, Zenon DEF FindByConnector, Cs
      <4> QED
        BY <1>7, <4>2
    <3>2. Reserved(request, link)
      BY Parts
    <3> QED
      BY <2>6, <2>8, <3>1, <3>2, Zenon DEF Reserved
  <2>17. Whole(F2, Q2, link)
    BY <2>11, <2>12, <2>14, <2>15, <2>16, Parts DEF Whole
  <2> QED
    BY <1>1, <2>1, <2>17 DEF Inv
<1> QED
  BY <1>2, <1>5, <1>6, <1>7 DEF GetConnection, Set, Cs

-----------------------------------------------------------------------------
(* The end of the attempt of r: its connectors are free, those that wait   *)
(* for them do so no more, and nobody else is concerned.                   *)
WaitingFor(F, Q, r) == {x \in Request : \E d \in Cs(Q[r]) : x \in F.pending[d]}

Ends(F, Q, L, F2, Q2, L2, r) ==
    /\ F2 \in FactoryRec /\ F2.destroyed = F.destroyed /\ F2.finished = F.finished /\ F2.count = F.count
    /\ F2.owners = F.owners \ Cs(Q[r])
    /\ \A d \in Connector : F2.pending[d] = IF d \in Cs(Q[r]) THEN {} ELSE F.pending[d] \ WaitingFor(F, Q, r)
    /\ Q2 \in [Request -> RequestRec]
    /\ \A x \in Request : x \notin WaitingFor(F, Q, r) /\ x # r => Q2[x] = Q[x]
    /\ \A x \in Request : x \in WaitingFor(F, Q, r) \/ x = r => Q2[x].pc \in {"respond", "get", "fail"}
    /\ L2 \in [Request -> LinkRec] /\ LocalChange(F, Q, L, Q2, L2)
    /\ \A k \in Request : ActiveOrHolding(L2[k]) => ActiveOrHolding(L[k]) /\ L2[k].info = L[k].info

LEMMA WaitersWait ==
    ASSUME Inv, NEW r \in Request, NEW x \in WaitingFor(factory, request, r)
    PROVE  x \in Request /\ request[x].pc = "waiting"
<1>1. PICK d \in Cs(request[r]) : x \in factory.pending[d]
  BY DEF WaitingFor
<1>2. d \in Connector /\ x \in Request
  BY OwnConnectors, Parts DEF WaitingFor
<1> QED
  BY <1>1, <1>2, Parts DEF Waits

LEMMA Ended ==
    ASSUME Inv, NEW r \in Request, Est(request[r]), NEW F2, NEW Q2, NEW L2, Ends(factory, request, link, F2, Q2, L2, r)
    PROVE  Whole(F2, Q2, L2)
<1> DEFINE W == WaitingFor(factory, request, r)
           mine == Cs(request[r])
<1>1. request \in [Request -> RequestRec] /\ Attempts(factory, request) /\ Waits(factory, request)
      /\ factory.count = Cardinality(Busy(request)) /\ Locals(factory, request, link)
  BY Parts DEF Locals
<1>2. \A x \in W : x \in Request /\ request[x].pc = "waiting"
  BY WaitersWait
<1>3. \A x \in Request : x \notin W /\ x # r => Q2[x] = request[x]
  BY DEF Ends
<1>4. \A x \in Request : x \in W \/ x = r => Q2[x].pc \in {"respond", "get", "fail"}
  BY DEF Ends
<1>5. mine \subseteq Connector
  BY <1>1, OwnConnectors
<1>6. \A x \in Request : Est(Q2[x]) <=> Est(request[x]) /\ x # r
  BY <1>2, <1>3, <1>4 DEF Est
<1>7. \A x \in Request : Est(Q2[x]) => Q2[x] = request[x]
  BY <1>2, <1>3, <1>4 DEF Est
<1>8. F2.owners = factory.owners \ mine
  BY DEF Ends
<1>9. \A d \in Connector : F2.pending[d] = IF d \in mine THEN {} ELSE factory.pending[d] \ W
  BY DEF Ends
<1>10. r \notin W
  BY <1>2 DEF Est
<1>11. \A x \in W, d \in Connector : d \notin mine => x \notin F2.pending[d]
  BY <1>9
<1>12. \A x \in Request, d \in mine : x \in factory.pending[d] => x \in W
  BY DEF WaitingFor
<1> HIDE DEF W, mine
<1>13. Attempts(F2, Q2)
  <2>1. ASSUME NEW d \in Connector PROVE d \in F2.owners <=> \E x \in Request : Est(Q2[x]) /\ d \in Cs(Q2[x])
    <3>1. ASSUME d \in F2.owners PROVE \E x \in Request : Est(Q2[x]) /\ d \in Cs(Q2[x])
      <4>1. PICK x \in Request : Est(request[x]) /\ d \in Cs(request[x])
        BY <1>1, <1>8, <3>1 DEF Attempts
      <4>2. x # r
        BY <1>8, <3>1, <4>1 DEF mine
      <4> QED
        BY <1>6, <1>7, <4>1, <4>2
    <3>2. ASSUME NEW x \in Request, Est(Q2[x]), d \in Cs(Q2[x]) PROVE d \in F2.owners
      <4>1. Est(request[x]) /\ x # r /\ d \in Cs(request[x])
        BY <1>6, <1>7, <3>2
      <4>2. d \in factory.owners
        BY <1>1, <4>1 DEF Attempts
      <4>3. Cs(request[x]) \cap Cs(request[r]) = {}
        BY <1>1, <4>1 DEF Attempts
      <4> QED
        BY <1>8, <4>1, <4>2, <4>3 DEF mine
    <3> QED
      BY <3>1, <3>2
  <2>2. \A x, y \in Request : x # y /\ Est(Q2[x]) /\ Est(Q2[y]) => Cs(Q2[x]) \cap Cs(Q2[y]) = {}
    BY <1>1, <1>6, <1>7, Zenon DEF Attempts
  <2> QED
    BY <2>1, <2>2, Zenon DEF Attempts
<1>14. Waits(F2, Q2)
  <2>1. ASSUME NEW x \in Request, NEW d \in Connector, x \in F2.pending[d]
        PROVE  Q2[x].pc = "waiting" /\ d \in F2.owners /\ d \in Cs(Q2[x])
    <3>1. d \notin mine /\ x \in factory.pending[d] /\ x \notin W
      BY <1>9, <2>1
    <3>2. request[x].pc = "waiting" /\ d \in factory.owners /\ d \in Cs(request[x])
      BY <1>1, <3>1 DEF Waits
    <3>3. x # r
      BY <3>2 DEF Est
    <3>4. Q2[x] = request[x]
      BY <1>3, <3>1, <3>3
    <3> QED
      BY <1>8, <3>1, <3>2, <3>4
  <2>2. ASSUME NEW x \in Request, Q2[x].pc = "waiting" PROVE \E d \in Cs(Q2[x]) : x \in F2.pending[d]
    <3>1. x \notin W /\ x # r
      BY <1>4, <2>2
    <3>2. Q2[x] = request[x]
      BY <1>3, <3>1
    <3>3. PICK d \in Cs(request[x]) : x \in factory.pending[d]
      BY <1>1, <2>2, <3>2 DEF Waits
    <3>4. d \in Connector
      BY <1>1, OwnConnectors
    <3>5. d \notin mine
      BY <1>12, <3>1, <3>3
    <3>6. x \in F2.pending[d]
      BY <1>9, <3>1, <3>3, <3>4, <3>5
    <3> QED
      BY <3>2, <3>6
  <2> QED
    BY <2>1, <2>2, Zenon DEF Waits
<1>15. F2.count = Cardinality(Busy(Q2))
  <2>1. Busy(Q2) = Busy(request)
    <3>1. \A x \in Request : Q2[x].pc \in {"none", "done"} <=> request[x].pc \in {"none", "done"}
      BY <1>2, <1>3, <1>4 DEF Est
    <3> QED
      BY <3>1 DEF Busy
  <2> QED
    BY <1>1, <2>1 DEF Ends
<1>16. Locals(F2, Q2, L2)
  BY <1>1, LocalsKept, Zenon DEF Ends
<1>17. NoneNew(request, link, Q2, L2)
  BY <1>6, <1>7, Zenon DEF NoneNew, Ends
<1>18. Types(F2, Q2, L2)
  BY DEF Types, Ends
<1> QED
  BY <1>13, <1>14, <1>15, <1>16, <1>17, <1>18, Kept DEF Inv

-----------------------------------------------------------------------------
(* What finishGetConnection() erases: the lists of its connectors, and     *)
(* from the others those that waited.                                      *)
LEMMA Erased ==
    ASSUME Inv, NEW r \in Request, NEW rs \in SUBSET Request,
           \A x \in rs : x \in WaitingFor(factory, request, r) \/ x = r,
           \A x \in WaitingFor(factory, request, r) : x \in rs \/ Cs(request[x]) \subseteq Cs(request[r]),
           Est(request[r]), factory' = Erase(Cs(request[r]), rs)
    PROVE  /\ factory' \in FactoryRec /\ factory'.destroyed = factory.destroyed /\ factory'.finished = factory.finished
           /\ factory'.count = factory.count /\ factory'.owners = factory.owners \ Cs(request[r])
           /\ \A d \in Connector : factory'.pending[d] =
                IF d \in Cs(request[r]) THEN {} ELSE factory.pending[d] \ WaitingFor(factory, request, r)
<1> DEFINE mine == Cs(request[r])
           O2 == factory.owners \ mine
           P2 == [d \in Connector |-> IF d \in mine THEN {} ELSE factory.pending[d] \ rs]
<1>1. factory \in FactoryRec /\ Waits(factory, request) /\ request \in [Request -> RequestRec]
  BY Parts
<1>2. factory' = [factory EXCEPT !.owners = O2, !.pending = P2]
  BY DEF Erase
<1>3. O2 \in SUBSET Connector /\ P2 \in [Connector -> SUBSET Request]
  BY <1>1 DEF FactoryRec
<1>4. ASSUME NEW d \in Connector
      PROVE  P2[d] = IF d \in mine THEN {} ELSE factory.pending[d] \ WaitingFor(factory, request, r)
  <2>1. ASSUME NEW x \in factory.pending[d], d \notin mine PROVE x \in rs <=> x \in WaitingFor(factory, request, r)
    <3>1. x \in Request
      BY <1>1 DEF FactoryRec
    <3>2. request[x].pc = "waiting" /\ d \in Cs(request[x])
      BY <1>1, <3>1 DEF Waits
    <3>3. x # r
      BY <3>2 DEF Est
    <3> QED
      BY <2>1, <3>1, <3>2, <3>3
  <2> QED
    BY <2>1
<1> HIDE DEF O2, P2
<1>5. /\ factory' \in FactoryRec /\ factory'.destroyed = factory.destroyed /\ factory'.finished = factory.finished
      /\ factory'.count = factory.count /\ factory'.owners = O2 /\ factory'.pending = P2
  BY <1>1, <1>2, <1>3 DEF FactoryRec
<1> QED
  BY <1>4, <1>5 DEF O2

LEMMA WaitersAre ==
    ASSUME Inv, NEW r \in Request
    PROVE  Waiters(ConnectorsOf(request[r].connectors)) = WaitingFor(factory, request, r)
<1>1. factory.pending \in [Connector -> SUBSET Request] /\ Cs(request[r]) \subseteq Connector
  BY Parts, OwnConnectors DEF FactoryRec
<1> QED
  BY <1>1 DEF Waiters, WaitingFor, Cs

(* A request that waits has no connection of its own yet. *)
LEMMA WaiterLocal ==
    ASSUME Inv, NEW r \in Request, NEW w \in WaitingFor(factory, request, r), NEW me \in RequestRec,
           me.pc \in {"respond", "get", "fail"}, me.answers = request[w].answers, me.iter = request[w].iter,
           me.pc = "get" => me.connectors # <<>>
    PROVE  Steps(me) /\ Linked(me, link[w], factory)
<1>1. w \in Request /\ request[w].pc = "waiting"
  BY WaitersWait
<1>2. Steps(request[w]) /\ Linked(request[w], link[w], factory)
  BY <1>1, Parts
<1>3. link[w].state \notin {"starting", "holding", "active"} /\ ~factory.finished
  BY <1>1, <1>2, Zenon DEF Linked
<1>4. Linked(me, link[w], factory)
  BY <1>3, Zenon DEF Linked
<1>5. Steps(me)
  BY <1>1, <1>2 DEF Steps, Est
<1> QED
  BY <1>4, <1>5

LEMMA ConnectionEnds ==
    ASSUME Inv, NEW r \in Request, request[r].pc = "starting", FinishWithConnection(r), link' \in [Request -> LinkRec],
           \A k \in Request : k # r => link'[k] = link[k], link'[r].state \in {"active", "closed"},
           link'[r].state = "active" => link[r].state = "holding" /\ link'[r].info = link[r].info /\ link'[r].listed = link[r].listed
    PROVE  Inv'
<1> DEFINE W == WaitingFor(factory, request, r)
           served == {r} \cup {w \in W : link[r].info.connector \in ConnectorsOf(request[w].connectors)}
<1>1. request \in [Request -> RequestRec] /\ Est(request[r]) /\ Steps(request[r]) /\ Linked(request[r], link[r], factory)
  BY Parts DEF Est
<1>2. Waiters(ConnectorsOf(request[r].connectors)) = W
  BY WaitersAre
<1>3. factory' = Erase(Cs(request[r]), served \cup W)
      /\ request' = [w \in Request |->
         IF w \in served THEN [request[w] EXCEPT !.pc = "respond"]
         ELSE IF w \in W THEN [request[w] EXCEPT !.pc = "get"] ELSE request[w]]
  BY <1>2, Zenon DEF FinishWithConnection, Cs
<1>4. W \subseteq Request /\ r \notin W
  <2>1. \A x \in W : x \in Request /\ request[x].pc = "waiting"
    BY WaitersWait
  <2> QED
    BY <2>1
<1>5. \A x \in served \cup W : x \in W \/ x = r
  OBVIOUS
<1>6. /\ factory' \in FactoryRec /\ factory'.destroyed = factory.destroyed /\ factory'.finished = factory.finished
      /\ factory'.count = factory.count /\ factory'.owners = factory.owners \ Cs(request[r])
      /\ \A d \in Connector : factory'.pending[d] =
           IF d \in Cs(request[r]) THEN {} ELSE factory.pending[d] \ W
  <2> DEFINE rs == served \cup W
  <2>1. rs \in SUBSET Request /\ (\A x \in rs : x \in W \/ x = r) /\ \A x \in W : x \in rs
    BY <1>4, <1>5
  <2>2. factory' = Erase(Cs(request[r]), rs)
    BY <1>3
  <2> HIDE DEF rs, served
  <2> QED
    BY <1>1, <2>1, <2>2, Erased, Zenon
<1>7. ASSUME NEW x \in Request, x \in W \/ x = r
      PROVE  /\ request'[x] \in RequestRec /\ request'[x].pc \in {"respond", "get"}
             /\ request'[x].answers = request[x].answers /\ request'[x].iter = request[x].iter
             /\ request'[x].connectors = request[x].connectors /\ (x = r => request'[x].pc = "respond")
  <2>1. PICK pc \in {"respond", "get"} : request'[x] = [request[x] EXCEPT !.pc = pc] /\ (x = r => pc = "respond")
    BY <1>3, <1>7
  <2>2. request[x] \in RequestRec
    BY <1>1
  <2>3. pc \in {"none", "resolve", "get", "next", "starting", "waiting", "respond", "fail", "answered", "done"}
    BY <2>1
  <2> QED
    BY <2>1, <2>2, <2>3 DEF RequestRec
<1>8. \A x \in Request : x \notin W /\ x # r => request'[x] = request[x]
  BY <1>3
<1>9. request' \in [Request -> RequestRec]
  <2>1. \A x \in Request : request'[x] \in RequestRec
    BY <1>1, <1>7, <1>8
  <2>2. request' = [x \in Request |-> request'[x]]
    BY <1>3
  <2> QED
    BY <2>1, <2>2
<1> HIDE DEF served
<1>10. LocalChange(factory, request, link, request', link')
  <2> SUFFICES ASSUME NEW x \in Request, x \in W \/ x = r PROVE Steps(request'[x]) /\ Linked(request'[x], link'[x], factory)
    BY <1>4, <1>8 DEF LocalChange
  <2>1. CASE x = r
    <3>1. ~factory.finished /\ (link[r].state = "holding" => link[r].listed /\ ~factory.destroyed)
      BY <1>1, Zenon DEF Linked
    <3>2. Linked(request'[r], link'[r], factory)
      BY <1>7, <2>1, <3>1 DEF Linked
    <3>3. Steps(request'[r])
      BY <1>1, <1>7, <2>1 DEF Steps, Est
    <3> QED
      BY <2>1, <3>2, <3>3
  <2>2. CASE x \in W
    <3>1. request[x].connectors # <<>> /\ link'[x] = link[x]
      <4>1. request[x].pc = "waiting" /\ x # r
        BY <1>4, <2>2, WaitersWait
      <4> QED
        BY <4>1, Parts DEF Steps
    <3>2. request'[x] \in RequestRec /\ request'[x].pc \in {"respond", "get", "fail"}
          /\ request'[x].answers = request[x].answers /\ request'[x].iter = request[x].iter
          /\ (request'[x].pc = "get" => request'[x].connectors # <<>>)
      BY <1>7, <2>2, <3>1
    <3>3. Steps(request'[x]) /\ Linked(request'[x], link[x], factory)
      BY <2>2, <3>2, WaiterLocal, Zenon
    <3> QED
      BY <3>1, <3>3
  <2> QED
    BY <2>1, <2>2
<1>11. \A k \in Request : ActiveOrHolding(link'[k]) => ActiveOrHolding(link[k]) /\ link'[k].info = link[k].info
  BY DEF ActiveOrHolding
<1>12. \A x \in Request : x \in W \/ x = r => request'[x].pc \in {"respond", "get", "fail"}
  BY <1>7
<1>13. Ends(factory, request, link, factory', request', link', r)
  BY <1>6, <1>8, <1>9, <1>10, <1>11, <1>12, Zenon DEF Ends
<1>14. Whole(factory', request', link')
  BY <1>1, <1>13, Ended
<1> QED
  BY <1>14 DEF Inv

LEMMA ExceptionEnds ==
    ASSUME Inv, NEW r \in Request, Est(request[r]), FinishWithException(r), link' \in [Request -> LinkRec],
           \A k \in Request : k # r => link'[k] = link[k], link'[r].state \notin {"starting", "holding", "active"}
    PROVE  Inv'
<1> DEFINE W == WaitingFor(factory, request, r)
           mine == Cs(request[r])
           left(w) == RemoveConnectors(request[w].connectors, mine)
           failed == {w \in W : left(w) = <<>>}
           rs == W \ failed
           none == <<>>
<1>1. request \in [Request -> RequestRec] /\ Steps(request[r]) /\ Linked(request[r], link[r], factory)
  BY Parts
<1>2. Waiters(ConnectorsOf(request[r].connectors)) = W
  BY WaitersAre
<1>3. factory' = Erase(mine, rs)
      /\ request' = [w \in Request |->
           IF w = r THEN [request[w] EXCEPT !.pc = "fail"]
           ELSE IF w \in failed THEN [request[w] EXCEPT !.pc = "fail", !.connectors = none]
           ELSE IF w \in W THEN [request[w] EXCEPT !.pc = "get", !.connectors = left(w)]
           ELSE request[w]]
  BY <1>2, Zenon DEF FinishWithException, Cs
<1>4. \A x \in W : x \in Request /\ x # r /\ request[x].pc = "waiting"
  BY WaitersWait DEF Est
<1>5. \A x \in W : left(x) \in Seq(Info) /\ (left(x) = <<>> => Cs(request[x]) \subseteq mine)
  <2> TAKE x \in W
  <2>1. request[x].connectors \in Seq(Info)
    BY <1>1, <1>4 DEF RequestRec
  <2> QED
    BY <2>1, RemoveFacts DEF Cs
<1>6. none \in Seq(Info) /\ \A x \in W : x \in failed <=> left(x) = none
  OBVIOUS
<1> HIDE DEF left, none
<1>7. /\ factory' \in FactoryRec /\ factory'.destroyed = factory.destroyed /\ factory'.finished = factory.finished
      /\ factory'.count = factory.count /\ factory'.owners = factory.owners \ mine
      /\ \A d \in Connector : factory'.pending[d] = IF d \in mine THEN {} ELSE factory.pending[d] \ W
  <2>1. rs \in SUBSET Request /\ (\A x \in rs : x \in W \/ x = r) /\ \A x \in W : x \in rs \/ Cs(request[x]) \subseteq mine
    BY <1>4, <1>5
  <2> HIDE DEF rs, failed
  <2> QED
    BY <1>3, <2>1, Erased, Zenon
<1>8. ASSUME NEW x \in W
      PROVE  /\ request'[x] \in RequestRec /\ request'[x].pc \in {"get", "fail"}
             /\ request'[x].answers = request[x].answers /\ request'[x].iter = request[x].iter
             /\ (request'[x].pc = "get" => request'[x].connectors # <<>>)
  <2>1. request[x] \in RequestRec /\ x \in Request /\ x # r
    BY <1>1, <1>4
  <2>2. CASE x \in failed
    <3>1. request'[x] = [request[x] EXCEPT !.pc = "fail", !.connectors = none]
      BY <1>3, <2>1, <2>2
    <3> QED
      BY <1>6, <2>1, <3>1 DEF RequestRec
  <2>3. CASE x \notin failed
    <3> DEFINE l == left(x)
    <3>1. request'[x] = [request[x] EXCEPT !.pc = "get", !.connectors = l]
      BY <1>3, <2>1, <2>3
    <3>2. l \in Seq(Info) /\ l # <<>>
      BY <1>5, <2>3
    <3> HIDE DEF l
    <3> QED
      BY <2>1, <3>1, <3>2 DEF RequestRec
  <2> QED
    BY <2>2, <2>3
<1>9. request'[r] \in RequestRec /\ request'[r].pc = "fail" /\ request'[r].answers = request[r].answers
  <2> DEFINE me == [request[r] EXCEPT !.pc = "fail"]
  <2>1. request'[r] = me
    BY <1>3
  <2>2. request[r] \in RequestRec
    BY <1>1
  <2>3. me \in RequestRec /\ me.pc = "fail" /\ me.answers = request[r].answers
    BY <2>2 DEF RequestRec
  <2> HIDE DEF me
  <2> QED
    BY <2>1, <2>3
<1>10. \A x \in Request : x \notin W /\ x # r => request'[x] = request[x]
  BY <1>3
<1>11. request' \in [Request -> RequestRec]
  <2>1. \A x \in Request : request'[x] \in RequestRec
    BY <1>1, <1>8, <1>9, <1>10
  <2>2. request' = [x \in Request |-> request'[x]]
    BY <1>3
  <2> QED
    BY <2>1, <2>2
<1> HIDE DEF failed, rs
<1>12. LocalChange(factory, request, link, request', link')
  <2> SUFFICES ASSUME NEW x \in Request, x \in W \/ x = r PROVE Steps(request'[x]) /\ Linked(request'[x], link'[x], factory)
    BY <1>10 DEF LocalChange
  <2>1. CASE x = r
    <3>1. ~factory.finished
      BY <1>1, Zenon DEF Linked, Est
    <3>2. Linked(request'[r], link'[r], factory)
      BY <1>9, <3>1 DEF Linked
    <3>3. Steps(request'[r])
      BY <1>1, <1>9 DEF Steps, Est
    <3> QED
      BY <2>1, <3>2, <3>3
  <2>2. CASE x \in W
    <3>1. link'[x] = link[x]
      BY <1>4, <2>2
    <3>2. request'[x].pc \in {"respond", "get", "fail"}
      BY <1>8, <2>2
    <3>3. Steps(request'[x]) /\ Linked(request'[x], link[x], factory)
      BY <1>8, <2>2, <3>2, WaiterLocal, Zenon
    <3> QED
      BY <3>1, <3>3
  <2> QED
    BY <2>1, <2>2
<1>13. \A k \in Request : ActiveOrHolding(link'[k]) => ActiveOrHolding(link[k]) /\ link'[k].info = link[k].info
  BY DEF ActiveOrHolding
<1>14. \A x \in Request : x \in W \/ x = r => request'[x].pc \in {"respond", "get", "fail"}
  BY <1>8, <1>9
<1>15. Ends(factory, request, link, factory', request', link', r)
  BY <1>7, <1>10, <1>11, <1>12, <1>13, <1>14, Zenon DEF Ends
<1>16. Whole(factory', request', link')
  BY <1>15, Ended
<1> QED
  BY <1>16 DEF Inv

(* connectionStartFailedImpl(): the next connector of r is tried, or its   *)
(* attempt ends.                                                           *)
LEMMA StartFailedKeeps ==
    ASSUME Inv, NEW r \in Request, Est(request[r]), NEW ex, StartFailedImpl(r, ex), link' \in [Request -> LinkRec],
           \A k \in Request : k # r => link'[k] = link[k], link'[r].state \notin {"starting", "holding", "active"}
    PROVE  Inv'
<1> DEFINE c == request[r]
           i == c.iter + 1
           me == [c EXCEPT !.iter = i, !.pc = "next"]
<1>1. c \in RequestRec /\ Steps(c) /\ Linked(c, link[r], factory) /\ request \in [Request -> RequestRec]
      /\ factory \in FactoryRec
  BY Parts
<1>2. CASE FinishWithException(r)
  BY <1>2, ExceptionEnds
<1>3. CASE c.iter < Len(c.connectors) /\ factory' = factory
           /\ request' = [request EXCEPT ![r] = [c EXCEPT !.iter = @ + 1, !.pc = "next"]]
  <2>1. request' = [request EXCEPT ![r] = me]
    BY <1>1, <1>3
  <2>2. i \in Nat /\ i \in 1 .. Len(c.connectors)
    <3>1. c.iter \in Nat /\ Len(c.connectors) \in Nat
      BY <1>1, LenProperties DEF RequestRec
    <3> QED
      BY <1>3, <3>1
  <2> HIDE DEF i
  <2>3. me \in RequestRec /\ me.pc = "next" /\ me.iter = i /\ me.connectors = c.connectors /\ me.answers = c.answers
    BY <1>1, <2>2 DEF RequestRec
  <2> HIDE DEF me
  <2>4. Est(me) /\ Cs(me) = Cs(c) /\ c.pc \notin {"none", "done", "waiting"}
    BY <2>3 DEF Est, Cs
  <2>5. Steps(me)
    BY <1>1, <2>2, <2>3 DEF Steps, Est
  <2>6. ~factory.finished
    BY <1>1, <2>4, Zenon DEF Linked
  <2>7. Linked(me, link'[r], factory)
    BY <2>3, <2>6 DEF Linked
  <2>8. Moves(factory, request, link, factory, link', r, me)
    BY <1>1, <2>3, <2>4, <2>5, <2>7 DEF Moves, SameLists, ActiveOrHolding
  <2>9. Whole(factory, [request EXCEPT ![r] = me], link')
    <3>1. me.pc \in {"none", "done"} <=> request[r].pc \in {"none", "done"}
      BY <2>3, <2>4
    <3> QED
      BY <2>8, <3>1, MovedWithin DEF Inv
  <2> QED
    BY <1>3, <2>1, <2>9 DEF Inv
<1> QED
  BY <1>2, <1>3 DEF StartFailedImpl

-----------------------------------------------------------------------------
LEMMA NextKeeps ==
    ASSUME Inv, NEW r \in Request, NextConnector(r)
    PROVE  Inv'
<1> DEFINE c == request[r]
           info == c.connectors[c.iter]
<1>1. c \in RequestRec /\ Steps(c) /\ Linked(c, link[r], factory) /\ request \in [Request -> RequestRec]
      /\ factory \in FactoryRec /\ link \in [Request -> LinkRec] /\ c.pc = "next" /\ Est(c)
  BY Parts DEF NextConnector, Est
<1>2. link[r].state \notin {"starting", "holding", "active"} /\ ~factory.finished
  BY <1>1, Zenon DEF Linked
<1>3. ASSUME NEW ex, StartFailedImpl(r, ex), link' = link PROVE Inv'
  BY <1>1, <1>2, <1>3, StartFailedKeeps
<1>4. CASE /\ ~factory.destroyed /\ factory' = factory /\ Set(r, "starting")
           /\ link' = [link EXCEPT ![r] = [state |-> "starting", info |-> info, listed |-> TRUE]]
  <2> DEFINE me == [c EXCEPT !.pc = "starting"]
             l == [state |-> "starting", info |-> info, listed |-> TRUE]
  <2>1. info \in Info /\ info.connector \in Cs(c)
    <3>1. c.connectors \in Seq(Info) /\ c.iter \in 1 .. Len(c.connectors)
      BY <1>1 DEF RequestRec, Steps
    <3>2. c.iter \in DOMAIN c.connectors /\ info \in Info
      BY <3>1, LenProperties, ElementOfSeq
    <3> QED
      BY <3>2 DEF Cs, ConnectorsOf
  <2> HIDE DEF info
  <2>2. l \in LinkRec /\ l.state = "starting" /\ l.info = info /\ l.listed
    BY <2>1 DEF LinkRec
  <2>3. me \in RequestRec /\ me.pc = "starting" /\ me.answers = c.answers /\ me.iter = c.iter /\ me.connectors = c.connectors
    BY <1>1 DEF RequestRec
  <2>4. request' = [request EXCEPT ![r] = me] /\ link' = [link EXCEPT ![r] = l]
    BY <1>4 DEF Set
  <2> HIDE DEF me, l
  <2>5. link' \in [Request -> LinkRec] /\ link'[r] = l /\ \A k \in Request : k # r => link'[k] = link[k]
    BY <1>1, <2>2, <2>4
  <2>6. Est(me) /\ Cs(me) = Cs(c)
    BY <2>3 DEF Est, Cs
  <2>7. Steps(me)
    BY <1>1, <2>3 DEF Steps, Est
  <2>8. Linked(me, l, factory)
    BY <1>2, <1>4, <2>1, <2>2, <2>3, <2>6, Zenon DEF Linked
  <2>9. Moves(factory, request, link, factory, link', r, me)
    BY <1>1, <2>2, <2>3, <2>5, <2>6, <2>7, <2>8 DEF Moves, SameLists, ActiveOrHolding
  <2>10. Whole(factory, [request EXCEPT ![r] = me], link')
    <3>1. me.pc \in {"none", "done"} <=> request[r].pc \in {"none", "done"}
      BY <1>1, <2>3
    <3> QED
      BY <2>9, <3>1, MovedWithin DEF Inv
  <2> QED
    BY <1>4, <2>4, <2>10 DEF Inv
<1> QED
  BY <1>3, <1>4 DEF NextConnector

(* The connection of r takes the state s. *)
LEMMA NewState ==
    ASSUME NEW r \in Request, link \in [Request -> LinkRec], NEW s \in {"none", "starting", "holding", "active", "closed"},
           link' = [link EXCEPT ![r].state = s]
    PROVE  /\ link' \in [Request -> LinkRec] /\ link'[r].state = s /\ link'[r].info = link[r].info
           /\ link'[r].listed = link[r].listed /\ \A k \in Request : k # r => link'[k] = link[k]
<1> DEFINE l == [link[r] EXCEPT !.state = s]
<1>1. l \in LinkRec /\ l.state = s /\ l.info = link[r].info /\ l.listed = link[r].listed
  BY DEF LinkRec
<1>2. link' = [link EXCEPT ![r] = l]
  OBVIOUS
<1> HIDE DEF l
<1> QED
  BY <1>1, <1>2

LEMMA CompletedKeeps ==
    ASSUME Inv, NEW r \in Request, ConnectionStartCompleted(r) \/ ConnectionStartCompletedClosed(r)
    PROVE  Inv'
<1>1. link \in [Request -> LinkRec]
  BY Parts
<1>2. CASE ConnectionStartCompleted(r)
  <2>1. request[r].pc = "starting" /\ link[r].state = "holding" /\ link' = [link EXCEPT ![r].state = "active"]
        /\ FinishWithConnection(r)
    BY <1>2 DEF ConnectionStartCompleted
  <2>2. /\ link' \in [Request -> LinkRec] /\ link'[r].state = "active" /\ link'[r].info = link[r].info
        /\ link'[r].listed = link[r].listed /\ \A k \in Request : k # r => link'[k] = link[k]
    BY <1>1, <2>1, NewState
  <2> QED
    BY <2>1, <2>2, ConnectionEnds
<1>3. CASE ConnectionStartCompletedClosed(r)
  <2>1. request[r].pc = "starting" /\ link[r].state = "closed" /\ link' = link /\ FinishWithConnection(r)
    BY <1>3 DEF ConnectionStartCompletedClosed
  <2> QED
    BY <1>1, <2>1, ConnectionEnds
<1> QED
  BY <1>2, <1>3

LEMMA FailedKeeps ==
    ASSUME Inv, NEW r \in Request, ConnectionStartFailed(r)
    PROVE  Inv'
<1>1. link \in [Request -> LinkRec] /\ Est(request[r])
  BY Parts DEF ConnectionStartFailed, Est
<1>2. ASSUME NEW ex, StartFailedImpl(r, ex), link' = [link EXCEPT ![r].state = "closed"] PROVE Inv'
  <2>1. /\ link' \in [Request -> LinkRec] /\ link'[r].state = "closed"
        /\ \A k \in Request : k # r => link'[k] = link[k]
    BY <1>1, <1>2, NewState
  <2> QED
    BY <1>1, <1>2, <2>1, StartFailedKeeps
<1>3. ASSUME NEW ex, StartFailedImpl(r, ex), link[r].state = "closed", link' = link PROVE Inv'
  BY <1>1, <1>3, StartFailedKeeps
<1> QED
  BY <1>2, <1>3 DEF ConnectionStartFailed

LEMMA ValidateKeeps ==
    ASSUME Inv, NEW r \in Request, Validate(r)
    PROVE  Inv'
<1>1. Steps(request[r]) /\ Linked(request[r], link[r], factory) /\ request \in [Request -> RequestRec]
      /\ factory \in FactoryRec /\ link \in [Request -> LinkRec] /\ Locals(factory, request, link)
  BY Parts DEF Locals
<1>2. request[r].pc = "starting" /\ link[r].state = "starting" /\ Est(request[r])
      /\ link' = [link EXCEPT ![r].state = "holding"] /\ factory' = factory /\ request' = request
  BY DEF Validate, Est
<1>3. /\ link' \in [Request -> LinkRec] /\ link'[r].state = "holding" /\ link'[r].info = link[r].info
      /\ link'[r].listed = link[r].listed /\ \A k \in Request : k # r => link'[k] = link[k]
  BY <1>1, <1>2, NewState
<1>4. link[r].info.connector \in Cs(request[r])
  BY <1>1, <1>2 DEF Linked
<1>5. Locals(factory, request, link')
  <2>1. Linked(request[r], link'[r], factory)
    BY <1>1, <1>2, <1>3 DEF Linked
  <2>2. LocalChange(factory, request, link, request, link')
    BY <1>1, <1>3, <2>1, Zenon DEF LocalChange
  <2> QED
    BY <1>1, <2>2, LocalsKept
<1>6. Reserved(request, link) /\ Attempts(factory, request) /\ Usable(link)
  BY Parts
<1>7. Reserved(request, link')
  <2> SUFFICES ASSUME NEW x \in Request, NEW k \in Request, x # k, Est(request[x]), ActiveOrHolding(link'[k])
               PROVE  link'[k].info.connector \notin Cs(request[x])
    BY DEF Reserved
  <2>1. CASE k = r
    <3>1. Cs(request[x]) \cap Cs(request[r]) = {}
      BY <1>2, <1>6, <2>1 DEF Attempts
    <3> QED
      BY <1>3, <1>4, <2>1, <3>1
  <2>2. CASE k # r
    BY <1>3, <1>6, <2>2 DEF Reserved
  <2> QED
    BY <2>1, <2>2
<1>8. Usable(link')
  <2>1. ASSUME NEW k \in Request, k # r, ActiveOrHolding(link'[k]) PROVE link'[k].info.connector # link'[r].info.connector
    <3>1. link[k].info.connector \notin Cs(request[r])
      BY <1>2, <1>3, <1>6, <2>1 DEF Reserved
    <3> QED
      BY <1>3, <1>4, <2>1, <3>1
  <2>2. \A x, k \in Request : x # r /\ k # r /\ x # k /\ ActiveOrHolding(link'[x]) /\ ActiveOrHolding(link'[k])
          => link'[x].info.connector # link'[k].info.connector
    BY <1>3, <1>6, Zenon DEF Usable
  <2> QED
    BY <2>1, <2>2, Zenon DEF Usable
<1>9. Whole(factory, request, link')
  BY <1>1, <1>3, <1>5, <1>6, <1>7, <1>8, Parts DEF Whole, Types
<1> QED
  BY <1>2, <1>9 DEF Inv

-----------------------------------------------------------------------------
(* Steps that leave the requests and the lists alone. *)
LEMMA LinksKeep ==
    ASSUME Inv, NEW F2 \in FactoryRec, NEW L2 \in [Request -> LinkRec],
           F2.owners = factory.owners, F2.pending = factory.pending, F2.count = factory.count,
           \A k \in Request : Linked(request[k], L2[k], F2),
           \A k \in Request : ActiveOrHolding(L2[k]) => ActiveOrHolding(link[k]) /\ L2[k].info = link[k].info
    PROVE  Whole(F2, request, L2)
<1>1. request \in [Request -> RequestRec] /\ Attempts(factory, request) /\ Waits(factory, request)
      /\ factory.count = Cardinality(Busy(request)) /\ \A k \in Request : Steps(request[k])
  BY Parts
<1>2. Attempts(F2, request) /\ Waits(F2, request)
  BY <1>1, Zenon DEF Attempts, Waits
<1>3. Types(F2, request, L2) /\ Locals(F2, request, L2)
  BY <1>1, Zenon DEF Types, Locals
<1>4. NoneNew(request, link, request, L2)
  BY Zenon DEF NoneNew
<1>5. F2.count = Cardinality(Busy(request))
  BY <1>1
<1> QED
  BY <1>2, <1>3, <1>4, <1>5, Kept DEF Inv

LEMMA CloseKeeps ==
    ASSUME Inv, NEW r \in Request, Close(r)
    PROVE  Inv'
<1>1. factory \in FactoryRec /\ link \in [Request -> LinkRec] /\ \A k \in Request : Linked(request[k], link[k], factory)
  BY Parts
<1>2. link[r].state = "active" /\ link' = [link EXCEPT ![r].state = "closed"] /\ factory' = factory /\ request' = request
  BY DEF Close
<1>3. /\ link' \in [Request -> LinkRec] /\ link'[r].state = "closed" /\ link'[r].info = link[r].info
      /\ link'[r].listed = link[r].listed /\ \A k \in Request : k # r => link'[k] = link[k]
  BY <1>1, <1>2, NewState
<1>4. Linked(request[r], link'[r], factory)
  BY <1>1, <1>2, <1>3 DEF Linked
<1>5. \A k \in Request : Linked(request[k], link'[k], factory)
  BY <1>1, <1>3, <1>4, Zenon
<1>6. \A k \in Request : ActiveOrHolding(link'[k]) => ActiveOrHolding(link[k]) /\ link'[k].info = link[k].info
  BY <1>3 DEF ActiveOrHolding
<1>7. Whole(factory, request, link')
  BY <1>1, <1>3, <1>5, <1>6, LinksKeep
<1> QED
  BY <1>2, <1>7 DEF Inv

LEMMA RemoveKeeps ==
    ASSUME Inv, NEW r \in Request, RemoveConnection(r)
    PROVE  Inv'
<1> DEFINE l == [link[r] EXCEPT !.listed = FALSE]
<1>1. factory \in FactoryRec /\ link \in [Request -> LinkRec] /\ \A k \in Request : Linked(request[k], link[k], factory)
  BY Parts
<1>2. link[r].state = "closed" /\ ~factory.destroyed /\ link' = [link EXCEPT ![r] = l] /\ factory' = factory /\ request' = request
  BY DEF RemoveConnection
<1>3. l \in LinkRec /\ l.state = link[r].state /\ l.info = link[r].info /\ l.listed = FALSE
  BY <1>1 DEF LinkRec
<1> HIDE DEF l
<1>4. link' \in [Request -> LinkRec] /\ link'[r] = l /\ \A k \in Request : k # r => link'[k] = link[k]
  BY <1>1, <1>2, <1>3
<1>5. Linked(request[r], l, factory)
  BY <1>1, <1>2, <1>3 DEF Linked
<1>6. \A k \in Request : Linked(request[k], link'[k], factory)
  BY <1>1, <1>4, <1>5, Zenon
<1>7. \A k \in Request : ActiveOrHolding(link'[k]) => ActiveOrHolding(link[k]) /\ link'[k].info = link[k].info
  BY <1>3, <1>4 DEF ActiveOrHolding
<1>8. Whole(factory, request, link')
  BY <1>1, <1>4, <1>6, <1>7, LinksKeep
<1> QED
  BY <1>2, <1>8 DEF Inv

LEMMA DestroyKeeps ==
    ASSUME Inv, Destroy
    PROVE  Inv'
<1>1. factory \in FactoryRec /\ link \in [Request -> LinkRec] /\ \A k \in Request : Linked(request[k], link[k], factory)
  BY Parts
<1>2. factory' = [factory EXCEPT !.destroyed = TRUE] /\ request' = request
      /\ link' = [k \in Request |-> IF link[k].state = "none" THEN link[k] ELSE [link[k] EXCEPT !.state = "closed"]]
  BY DEF Destroy
<1>3. factory' \in FactoryRec /\ factory'.owners = factory.owners /\ factory'.pending = factory.pending
      /\ factory'.count = factory.count /\ factory'.destroyed /\ factory'.finished = factory.finished
  BY <1>1, <1>2 DEF FactoryRec
<1>4. ASSUME NEW k \in Request
      PROVE  /\ link'[k] \in LinkRec /\ link'[k].state \in {"none", "closed"}
             /\ link'[k].info = link[k].info /\ link'[k].listed = link[k].listed
  <2>1. CASE link[k].state = "none"
    BY <1>1, <1>2, <2>1
  <2>2. CASE link[k].state # "none"
    <3> DEFINE l == [link[k] EXCEPT !.state = "closed"]
    <3>1. link'[k] = l
      BY <1>2, <2>2
    <3>2. link[k] \in LinkRec
      BY <1>1
    <3>3. l \in LinkRec /\ l.state = "closed" /\ l.info = link[k].info /\ l.listed = link[k].listed
      BY <3>2 DEF LinkRec
    <3> HIDE DEF l
    <3> QED
      BY <3>1, <3>3
  <2> QED
    BY <2>1, <2>2
<1>5. link' \in [Request -> LinkRec]
  <2>1. link' = [k \in Request |-> link'[k]]
    BY <1>2
  <2> QED
    BY <1>4, <2>1
<1>6. ASSUME NEW k \in Request PROVE Linked(request[k], link'[k], factory')
  <2>1. Linked(request[k], link[k], factory)
    BY <1>1
  <2>2. link'[k].state \notin {"starting", "holding", "active"} /\ link'[k].info = link[k].info
        /\ link'[k].listed = link[k].listed
    BY <1>4
  <2> QED
    BY <1>3, <2>1, <2>2, Zenon DEF Linked
<1>7. \A k \in Request : ActiveOrHolding(link'[k]) => ActiveOrHolding(link[k]) /\ link'[k].info = link[k].info
  BY <1>4 DEF ActiveOrHolding
<1>8. Whole(factory', request, link')
  BY <1>3, <1>5, <1>6, <1>7, LinksKeep
<1> QED
  BY <1>2, <1>8 DEF Inv

LEMMA FinishKeeps ==
    ASSUME Inv, WaitUntilFinished
    PROVE  Inv'
<1>1. factory \in FactoryRec /\ link \in [Request -> LinkRec] /\ \A k \in Request : Linked(request[k], link[k], factory)
  BY Parts
<1>2. factory' = [factory EXCEPT !.finished = TRUE] /\ request' = request /\ factory.destroyed
      /\ link' = [k \in Request |-> [link[k] EXCEPT !.listed = FALSE]]
      /\ \A k \in Request : link[k].state \in {"none", "closed"}
  BY DEF WaitUntilFinished
<1>3. factory' \in FactoryRec /\ factory'.owners = factory.owners /\ factory'.pending = factory.pending
      /\ factory'.count = factory.count /\ factory'.destroyed /\ factory'.finished
  BY <1>1, <1>2 DEF FactoryRec
<1>4. \A k \in Request : request[k].pc \in {"none", "done"}
  <2>1. Cardinality(Busy(request)) = 0
    BY Parts DEF WaitUntilFinished
  <2>2. Busy(request) = {}
    BY <2>1, BusyFinite, FS_EmptySet
  <2> QED
    BY <2>2 DEF Busy
<1>5. ASSUME NEW k \in Request
      PROVE  link'[k] \in LinkRec /\ link'[k].state = link[k].state /\ link'[k].info = link[k].info /\ link'[k].listed = FALSE
  <2> DEFINE l == [link[k] EXCEPT !.listed = FALSE]
  <2>1. link'[k] = l
    BY <1>2
  <2>2. link[k] \in LinkRec
    BY <1>1
  <2>3. l \in LinkRec /\ l.state = link[k].state /\ l.info = link[k].info /\ l.listed = FALSE
    BY <2>2 DEF LinkRec
  <2> HIDE DEF l
  <2> QED
    BY <2>1, <2>3
<1>6. link' \in [Request -> LinkRec]
  <2>1. link' = [k \in Request |-> link'[k]]
    BY <1>2
  <2> QED
    BY <1>5, <2>1
<1>7. ASSUME NEW k \in Request PROVE Linked(request[k], link'[k], factory')
  <2>1. link'[k].state \notin {"starting", "holding", "active"} /\ request[k].pc \in {"none", "done"}
        /\ request[k].pc # "starting" /\ ~link'[k].listed
    BY <1>2, <1>4, <1>5
  <2> QED
    BY <1>3, <2>1, Zenon DEF Linked
<1>8. \A k \in Request : ActiveOrHolding(link'[k]) => ActiveOrHolding(link[k]) /\ link'[k].info = link[k].info
  BY <1>5 DEF ActiveOrHolding
<1>9. Whole(factory', request, link')
  BY <1>3, <1>6, <1>7, <1>8, LinksKeep
<1> QED
  BY <1>2, <1>9 DEF Inv

-----------------------------------------------------------------------------
LEMMA Initially ==
    ASSUME Init
    PROVE  Inv
<1> DEFINE zero == 0
           none == <<>>
<1>1. /\ factory = [destroyed |-> FALSE, finished |-> FALSE, count |-> zero, owners |-> {},
                    pending |-> [c \in Connector |-> {}]]
      /\ request = [r \in Request |-> [pc |-> "none", endpoints |-> Endpoints[r], connectors |-> none,
                                       iter |-> zero, answers |-> zero]]
      /\ link = [r \in Request |-> [state |-> "none", info |-> NoInfo, listed |-> FALSE]]
  BY DEF Init
<1>2. zero = 0 /\ zero \in Int /\ zero \in Nat /\ zero \in 0 .. 1 /\ none \in Seq(Info)
  OBVIOUS
<1> HIDE DEF zero, none
<1>3. factory \in FactoryRec /\ factory.owners = {} /\ (\A c \in Connector : factory.pending[c] = {})
      /\ factory.count = 0 /\ factory.finished = FALSE
  BY <1>1, <1>2 DEF FactoryRec
<1>4. ASSUME NEW r \in Request
      PROVE  /\ request[r] \in RequestRec /\ request[r].pc = "none" /\ request[r].answers = 0 /\ request[r].endpoints # <<>>
             /\ link[r] \in LinkRec /\ link[r].state = "none"
  <2>1. request[r] = [pc |-> "none", endpoints |-> Endpoints[r], connectors |-> none, iter |-> zero, answers |-> zero]
        /\ link[r] = [state |-> "none", info |-> NoInfo, listed |-> FALSE]
    BY <1>1
  <2>2. Endpoints[r] \in Seq(Endpoint) /\ Endpoints[r] # <<>>
    BY Constants
  <2> QED
    BY <1>2, <2>1, <2>2 DEF RequestRec, LinkRec
<1>5. Types(factory, request, link)
  <2>1. request = [r \in Request |-> request[r]] /\ link = [r \in Request |-> link[r]]
    BY <1>1
  <2> QED
    BY <1>3, <1>4, <2>1 DEF Types
<1>6. Locals(factory, request, link)
  BY <1>3, <1>4 DEF Locals, Steps, Linked, Est
<1>7. factory.count = Cardinality(Busy(request))
  <2>1. Busy(request) = {}
    BY <1>4 DEF Busy
  <2> QED
    BY <1>3, <2>1, FS_EmptySet
<1>8. Attempts(factory, request) /\ Waits(factory, request) /\ Reserved(request, link) /\ Usable(link)
  BY <1>3, <1>4 DEF Attempts, Waits, Reserved, Usable, Est, ActiveOrHolding
<1> QED
  BY <1>5, <1>6, <1>7, <1>8 DEF Inv, Whole

LEMMA StepKeeps ==
    ASSUME Inv, [Next]_vars
    PROVE  Inv'
<1>1. CASE UNCHANGED vars
  BY <1>1 DEF vars, Inv, Whole, Types, Locals, Attempts, Waits, Reserved, Usable, Busy
<1>2. ASSUME NEW r \in Request, CreateAsync(r) \/ Progress(r) \/ Close(r) \/ RemoveConnection(r) PROVE Inv'
  BY <1>2, CreateKeeps, ResolveKeeps, GetKeeps, NextKeeps, ValidateKeeps, CompletedKeeps, FailedKeeps, AnswerKeeps,
     DecKeeps, CloseKeeps, RemoveKeeps, Zenon DEF Progress
<1>3. CASE Destroy
  BY <1>3, DestroyKeeps
<1>4. CASE WaitUntilFinished
  BY <1>4, FinishKeeps
<1> QED
  BY <1>1, <1>2, <1>3, <1>4 DEF Next

(* What the invariant says of the connections that are shared. *)
LEMMA Shared ==
    ASSUME Inv
    PROVE  OneConnection
<1>1. factory \in FactoryRec /\ request \in [Request -> RequestRec] /\ link \in [Request -> LinkRec]
      /\ factory.count = Cardinality(Busy(request)) /\ Attempts(factory, request) /\ Waits(factory, request) /\ Usable(link)
  BY Parts
<1>2. TypeOK
  <2>1. factory.count \in 0 .. Cardinality(Request)
    BY <1>1, BusyFinite
  <2> QED
    BY <1>1, <2>1 DEF TypeOK, FactoryRec, RequestRec, LinkRec
<1>3. OneUsable
  BY <1>1 DEF Usable, OneUsable
<1>4. OneAttempt
  <2>1. \A r \in Request : Cs(request[r]) \subseteq Connector
    BY <1>1, OwnConnectors
  <2>2. factory.owners \subseteq Connector
    BY <1>1 DEF FactoryRec
  <2>3. factory.owners = UNION {Cs(request[r]) : r \in {q \in Request : Est(request[q])}}
    BY <1>1, <2>1, <2>2 DEF Attempts
  <2>4. \A r, q \in Request : r # q /\ Est(request[r]) /\ Est(request[q]) => Cs(request[r]) \cap Cs(request[q]) = {}
    BY <1>1 DEF Attempts
  <2> QED
    BY <2>3, <2>4, Zenon DEF OneAttempt, Establishing, Est, Cs
<1>5. WaitersKnown
  BY <1>1, Zenon DEF WaitersKnown, Waits, Cs
<1> QED
  BY <1>2, <1>3, <1>4, <1>5 DEF OneConnection

LEMMA Quiet ==
    ASSUME Inv
    PROVE  FinishedQuiet
<1> SUFFICES ASSUME factory.finished PROVE FinishedQuiet
  BY DEF FinishedQuiet
<1>1. \A r \in Request : Steps(request[r]) /\ request[r].pc \in {"none", "done"} /\ ~link[r].listed
  BY Parts DEF Linked
<1>2. factory.count = 0
  <2>1. Busy(request) = {}
    BY <1>1 DEF Busy
  <2> QED
    BY <2>1, Parts, FS_EmptySet
<1>3. factory.owners = {}
  <2>1. \A r \in Request : ~Est(request[r])
    BY <1>1 DEF Est
  <2>2. factory.owners \subseteq Connector /\ Attempts(factory, request)
    BY Parts DEF FactoryRec
  <2> QED
    BY <2>1, <2>2 DEF Attempts
<1>4. \A r \in Request : request[r].pc = "done" => request[r].answers = 1
  BY <1>1 DEF Steps
<1> QED
  BY <1>1, <1>2, <1>3, <1>4 DEF FinishedQuiet

LEMMA Invariant == Spec => []Inv
<1>1. Init => Inv
  BY Initially
<1>2. Inv /\ [Next]_vars => Inv'
  BY StepKeeps
<1> QED
  BY <1>1, <1>2, PTL DEF Spec

(* createAsync() and the callbacks of the attempts never make two          *)
(* connections that can be used to a connector, whatever the requests have *)
(* in common: each connector is tried by one request at a time, and every  *)
(* request that waits is in the list of an attempt that will answer it.    *)
THEOREM ConnectionsShared == Spec => []OneConnection
<1>1. Inv => OneConnection
  BY Shared
<1> QED
  BY <1>1, Invariant, PTL

(* When waitUntilFinished() returns, every request that was accepted has   *)
(* been answered once, no attempt is left and no connection is kept.       *)
THEOREM FinishedAlwaysQuiet == Spec => []FinishedQuiet
<1>1. Inv => FinishedQuiet
  BY Quiet
<1> QED
  BY <1>1, Invariant, PTL
=============================================================================
