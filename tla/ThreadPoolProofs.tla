-------------------------- MODULE ThreadPoolProofs --------------------------
(***************************************************************************)
(* The leader/follower pool for every size, every number of threads and of *)
(* handlers: leadership is neither lost nor duplicated, the counters are   *)
(* exact, no two threads read from one handler, and the list of ready      *)
(* handlers has none that was released.                                    *)
(*                                                                         *)
(* A thread that holds the mutex passes states in which it is neither a    *)
(* follower nor at work.  The invariant is therefore stated for a set U of *)
(* threads: all of them between two actions, all but the one that has the  *)
(* mutex within run().                                                     *)
(***************************************************************************)
EXTENDS ThreadPool, FiniteSetTheorems, SequenceTheorems, WellFoundedInduction, TLAPS

Fin(h) == [kind |-> "finished", handler |-> h]

(* One leader, or a follower will become it. *)
Leadership(T, P) ==
    /\ \A u, v \in Thread : T[u].leader /\ T[v].leader => u = v
    /\ P.promote <=> \A u \in Thread : ~T[u].leader

(* Where a thread u is in run() tells what it is. *)
Local(u, r, P) ==
    /\ r.leader => r.pc \in {"select", "selected", "message", "io"} \/ (r.pc = "turn" /\ ~r.ioCompleted)
    /\ r.pc \in {"select", "selected"} => r.leader /\ P.inUseIO = 0 /\ P.handlers = <<>>
    /\ r.pc \in {"message", "io"} => ~r.ioCompleted
    /\ r.pc = "user" => r.ioCompleted
    /\ r.pc \notin {"none", "leaving", "gone"} => u \in P.threads
    /\ r.pc \in {"message", "io", "user", "turn"} => r.handler \in EventHandler
    /\ r.pc \notin {"io", "user"} => r.item = NoItem
    /\ r.pc = "io" /\ r.item # NoItem => r.handler = WorkQueue

Locals(U, T, P) == \A u \in U : Local(u, T[u], P)

Counts(U, T, P) ==
    /\ P.inUseIO = Cardinality({u \in U : Performing(T[u])})
    /\ P.inUse = Cardinality({u \in U : Dispatching(T[u])})
    /\ Cardinality(P.threads) <= SizeMax

(* No handler has two readers: those in the list have none, and are listed *)
(* once.                                                                   *)
Readers(U, T, P) ==
    /\ IsInjective(P.handlers)
    /\ \A u \in U : Performing(T[u]) => T[u].handler \notin Range(P.handlers)
    /\ \A u, v \in U : u # v /\ Performing(T[u]) /\ Performing(T[v]) => T[u].handler # T[v].handler

(* With Serialize a handler is disabled while a thread dispatches for it.  *)
Serial(U, T, S, N) ==
    Serialize =>
      /\ \A u \in U : Dispatching(T[u]) /\ T[u].handler \in Handler =>
           T[u].handler \in S.disabled \/ N.life[T[u].handler] # "open"
      /\ \A u, v \in U : u # v /\ T[u].handler = T[v].handler /\ T[u].handler \in Handler =>
           ~(Dispatching(T[u]) /\ (Performing(T[v]) \/ Dispatching(T[v])))

(* A handler that is closed is not registered, nor is one released that    *)
(* select() or the list still has: the item that releases it is not the    *)
(* next one of a work queue whose turn comes before the handler's.         *)
Alive(U, T, P, S, N) ==
    /\ P.destroyed => \A h \in Handler : N.life[h] # "open"
    /\ \A h \in Handler : N.life[h] # "open" => h \notin S.registered
    /\ \A h \in Handler : h \in S.events \cup Range(P.handlers) => N.life[h] # "finished"
    /\ S.events # {} => \E u \in U : T[u].pc = "selected"
    /\ \A h \in Handler : Fin(h) \in Range(P.workItems) => N.life[h] # "open"
    /\ \A u \in U : \A h \in Handler : T[u].pc = "io" /\ T[u].item = Fin(h) =>
         N.life[h] # "open" /\ h \notin Range(P.handlers)
    /\ \A h \in Handler : P.workItems # <<>> /\ Head(P.workItems) = Fin(h) =>
         /\ (\E u \in U : T[u].pc = "message" /\ T[u].handler = WorkQueue) => h \notin Range(P.handlers)
         /\ \A i, j \in DOMAIN P.handlers : i < j /\ P.handlers[i] = WorkQueue => P.handlers[j] # h

(* The work queue is ready while it has items, and whoever reads it finds  *)
(* one.                                                                    *)
Work(U, T, P, S) ==
    /\ WorkQueue \in S.ready <=> P.workItems # <<>> \/ P.destroyed
    /\ WorkQueue \in Range(P.handlers) \/ (\E u \in U : T[u].pc = "message" /\ T[u].handler = WorkQueue) =>
         P.workItems # <<>> \/ P.destroyed

Data(N) == \A h \in Handler : N.data[h] + N.buffer[h] <= N.arrived[h]

Types(T, P, S, N) == T \in [Thread -> ThreadRec] /\ P \in PoolRec /\ S \in SelectorRec /\ N \in NetRec

Body(U, T, P, S, N) ==
    /\ Types(T, P, S, N) /\ Data(N)
    /\ Locals(U, T, P) /\ Counts(U, T, P) /\ Readers(U, T, P)
    /\ Serial(U, T, S, N) /\ Alive(U, T, P, S, N) /\ Work(U, T, P, S)

Whole(T, P, S, N) == Body(Thread, T, P, S, N) /\ Leadership(T, P)
Inv == Whole(thread, pool, sel, net)

-----------------------------------------------------------------------------
LEMMA Constants ==
    /\ IsFiniteSet(Thread) /\ IsFiniteSet(Handler)
    /\ Size \in Nat /\ SizeMax \in Nat /\ SizeIO \in Nat /\ 1 <= Size /\ Size <= SizeMax /\ 1 <= SizeIO /\ SizeIO <= SizeMax
    /\ Serialize \in BOOLEAN /\ Arrivals \in Nat /\ Executes \in Nat
    /\ WorkQueue \notin Handler /\ NoHandler \notin Handler
<1>1. Cardinality(Thread) \in Nat
  BY PoolAssumption, FS_CardinalityType DEF ThreadPoolAssumption
<1> QED
  BY <1>1, PoolAssumption DEF ThreadPoolAssumption, WorkQueue, NoHandler

(* The end of a list, from some place on. *)
Suffix(q, p) ==
    \E k \in 0 .. Len(p) : Len(q) = Len(p) - k /\ \A i \in 1 .. Len(q) : q[i] = p[i + k]

LEMMA SuffixFacts ==
    ASSUME NEW E, NEW p \in Seq(E), NEW q \in Seq(E), Suffix(q, p)
    PROVE  /\ Range(q) \subseteq Range(p)
           /\ IsInjective(p) => IsInjective(q)
           /\ p = <<>> => q = <<>>
           /\ \A a, b : (\A i, j \in DOMAIN p : i < j /\ p[i] = a => p[j] # b)
                          => (\A i, j \in DOMAIN q : i < j /\ q[i] = a => q[j] # b)
<1>1. PICK k \in 0 .. Len(p) : Len(q) = Len(p) - k /\ \A i \in 1 .. Len(q) : q[i] = p[i + k]
  BY DEF Suffix
<1>2. DOMAIN p = 1 .. Len(p) /\ DOMAIN q = 1 .. Len(q) /\ Len(p) \in Nat /\ Len(q) \in Nat
  BY LenProperties
<1>3. \A i \in DOMAIN q : i + k \in DOMAIN p /\ q[i] = p[i + k] /\ i \in Nat
  BY <1>1, <1>2
<1>4. Range(q) \subseteq Range(p)
  BY <1>3 DEF Range
<1>5. IsInjective(p) => IsInjective(q)
  <2> SUFFICES ASSUME IsInjective(p), NEW a \in DOMAIN q, NEW b \in DOMAIN q, q[a] = q[b] PROVE a = b
    BY DEF IsInjective
  <2>1. a + k = b + k
    BY <1>3 DEF IsInjective
  <2> QED
    BY <1>2, <2>1
<1>6. p = <<>> => q = <<>>
  BY <1>1, <1>2, EmptySeq
<1>7. ASSUME NEW a, NEW b, \A i, j \in DOMAIN p : i < j /\ p[i] = a => p[j] # b
      PROVE  \A i, j \in DOMAIN q : i < j /\ q[i] = a => q[j] # b
  <2> SUFFICES ASSUME NEW i \in DOMAIN q, NEW j \in DOMAIN q, i < j, q[i] = a PROVE q[j] # b
    BY SMTT(30)
  <2>1. i + k < j + k
    BY <1>1, <1>2, SMTT(30)
  <2> QED
    BY <1>3, <1>7, <2>1, SMTT(30)
<1> QED
  BY <1>4, <1>5, <1>6, <1>7

LEMMA SuffixSelf ==
    ASSUME NEW E, NEW p \in Seq(E)
    PROVE  Suffix(p, p)
<1>1. Len(p) \in Nat
  BY LenProperties
<1>2. 0 \in 0 .. Len(p) /\ Len(p) = Len(p) - 0 /\ \A i \in 1 .. Len(p) : i + 0 = i
  BY <1>1
<1> QED
  BY <1>2 DEF Suffix

(* A nonempty set of numbers has a least one. *)
LEMMA Least ==
    ASSUME NEW X \in SUBSET Nat, X # {}
    PROVE  \E i \in X : \A j \in X : i <= j
<1> DEFINE R == OpToRel(<, Nat)
<1>1. IsWellFoundedOn(R, Nat)
  BY NatLessThanWellFounded
<1>2. \A x, y \in Nat : x < y => <<x, y>> \in R
  BY DEF OpToRel
<1> HIDE DEF R
<1>3. PICK i \in X : \A j \in X : ~(<<j, i>> \in R)
  BY <1>1, WFMin
<1>4. ASSUME NEW j \in X PROVE i <= j
  <2>1. i \in Nat /\ j \in Nat /\ ~(j < i)
    BY <1>2, <1>3
  <2> QED
    BY <2>1
<1> QED
  BY <1>4

(* The list that is left begins with a handler that can be used. *)
LEMMA NextFacts ==
    ASSUME NEW P \in PoolRec, NEW S \in SelectorRec
    PROVE  LET next == NextHandlers(P, S) IN
           /\ next \in Seq(EventHandler) /\ Suffix(next, P.handlers)
           /\ next # <<>> => Head(next) \in S.registered \ S.disabled
<1> DEFINE p == P.handlers
           usable == {i \in DOMAIN p : p[i] \in S.registered \ S.disabled}
           first == CHOOSE i \in usable : \A j \in usable : i <= j
           next == NextHandlers(P, S)
<1>1. p \in Seq(EventHandler) /\ Len(p) \in Nat /\ DOMAIN p = 1 .. Len(p)
  BY LenProperties DEF PoolRec
<1>2. next = IF usable = {} THEN <<>> ELSE SubSeq(p, first, Len(p))
  BY DEF NextHandlers
<1>3. CASE usable = {}
  <2>1. next = <<>>
    BY <1>2, <1>3
  <2>2. Suffix(<<>>, p)
    BY <1>1 DEF Suffix
  <2> QED
    BY <2>1, <2>2
<1>4. CASE usable # {}
  <2>1. usable \subseteq Nat /\ usable \subseteq 1 .. Len(p)
    BY <1>1
  <2>2. first \in usable
    BY <1>4, <2>1, Least
  <2>3. first \in 1 .. Len(p) /\ p[first] \in S.registered \ S.disabled
    BY <2>1, <2>2
  <2> HIDE DEF first, usable
  <2>4. next = SubSeq(p, first, Len(p))
    BY <1>2, <1>4
  <2> HIDE DEF p, next
  <2>5. next \in Seq(EventHandler) /\ Len(next) = Len(p) - first + 1
        /\ \A i \in 1 .. Len(next) : next[i] = p[first + i - 1]
    BY <1>1, <2>3, <2>4, SubSeqProperties
  <2>6. Suffix(next, p)
    <3>1. first - 1 \in 0 .. Len(p) /\ Len(next) = Len(p) - (first - 1)
      BY <1>1, <2>3, <2>5
    <3>2. \A i \in 1 .. Len(next) : next[i] = p[i + (first - 1)]
      <4> TAKE i \in 1 .. Len(next)
      <4>1. first + i - 1 = i + (first - 1)
        BY <1>1, <2>3, <2>5
      <4> QED
        BY <2>5, <4>1
    <3> QED
      BY <3>1, <3>2 DEF Suffix
  <2>7. Head(next) = p[first]
    <3>1. Len(p) \in first .. Len(p)
      BY <1>1, <2>3
    <3> QED
      BY <1>1, <2>3, <2>4, <3>1, HeadTailOfSubSeq
  <2> QED
    BY <2>3, <2>5, <2>6, <2>7 DEF p, next
<1> QED
  BY <1>3, <1>4

-----------------------------------------------------------------------------
(* The operations of the selector: what each changes, besides _interrupted. *)
SameSelector(r, s) ==
    /\ r \in SelectorRec
    /\ r.selecting = s.selecting /\ r.selectNow = s.selectNow /\ r.events = s.events

LEMMA CheckReadyFacts ==
    ASSUME NEW s \in SelectorRec, NEW h
    PROVE  LET r == CheckReady(s, h) IN
           SameSelector(r, s) /\ r.registered = s.registered /\ r.ready = s.ready /\ r.disabled = s.disabled
BY DEF CheckReady, Wakeup, SelectorRec, SameSelector

LEMMA UpdateFacts ==
    ASSUME NEW s \in SelectorRec, NEW h \in EventHandler, NEW add \in BOOLEAN
    PROVE  LET r == SelectorUpdate(s, h, add) IN
           /\ SameSelector(r, s) /\ r.ready = s.ready /\ r.disabled = s.disabled
           /\ r.registered = IF add THEN s.registered \cup {h} ELSE s.registered \ {h}
<1> DEFINE x == IF add THEN s.registered \cup {h} ELSE s.registered \ {h}
           k == [s EXCEPT !.registered = x]
<1>1. CASE (h \in s.registered) = add
  <2>1. x = s.registered
    BY <1>1 DEF SelectorRec
  <2> QED
    BY <1>1, <2>1 DEF SelectorUpdate, SameSelector, SelectorRec
<1>2. CASE (h \in s.registered) # add
  <2>1. x \in SUBSET EventHandler
    BY DEF SelectorRec
  <2>2. SelectorUpdate(s, h, add) = CheckReady(k, h)
    BY <1>2 DEF SelectorUpdate
  <2> HIDE DEF x
  <2>3. k \in SelectorRec /\ SameSelector(k, s) /\ k.registered = x /\ k.ready = s.ready /\ k.disabled = s.disabled
    BY <2>1 DEF SelectorRec, SameSelector
  <2> HIDE DEF k
  <2> QED
    BY <2>2, <2>3, CheckReadyFacts DEF SameSelector, x
<1> QED
  BY <1>1, <1>2

LEMMA ReadyFacts ==
    ASSUME NEW s \in SelectorRec, NEW h \in EventHandler, NEW value \in BOOLEAN
    PROVE  LET r == SelectorReady(s, h, value) IN
           /\ SameSelector(r, s) /\ r.registered = s.registered /\ r.disabled = s.disabled
           /\ r.ready = IF value THEN s.ready \cup {h} ELSE s.ready \ {h}
<1> DEFINE x == IF value THEN s.ready \cup {h} ELSE s.ready \ {h}
           k == [s EXCEPT !.ready = x]
<1>1. CASE (h \in s.ready) = value
  <2>1. x = s.ready
    BY <1>1 DEF SelectorRec
  <2> QED
    BY <1>1, <2>1 DEF SelectorReady, SameSelector, SelectorRec
<1>2. CASE (h \in s.ready) # value
  <2>1. x \in SUBSET EventHandler
    BY DEF SelectorRec
  <2>2. SelectorReady(s, h, value) = CheckReady(k, h)
    BY <1>2 DEF SelectorReady
  <2> HIDE DEF x
  <2>3. k \in SelectorRec /\ SameSelector(k, s) /\ k.registered = s.registered /\ k.ready = x /\ k.disabled = s.disabled
    BY <2>1 DEF SelectorRec, SameSelector
  <2> HIDE DEF k
  <2> QED
    BY <2>2, <2>3, CheckReadyFacts DEF SameSelector, x
<1> QED
  BY <1>1, <1>2

LEMMA EnableFacts ==
    ASSUME NEW s \in SelectorRec, NEW h \in Handler
    PROVE  /\ LET r == Enable(s, h) IN
              /\ SameSelector(r, s) /\ r.registered = s.registered /\ r.ready = s.ready
              /\ r.disabled = s.disabled \ {h}
           /\ LET r == Disable(s, h) IN
              /\ SameSelector(r, s) /\ r.registered = s.registered /\ r.ready = s.ready
              /\ r.disabled = s.disabled \cup {h}
<1> DEFINE i == [s EXCEPT !.disabled = s.disabled \ {h}]
           k == [s EXCEPT !.disabled = s.disabled \cup {h}]
<1>1. i \in SelectorRec /\ SameSelector(i, s) /\ i.registered = s.registered /\ i.ready = s.ready
      /\ i.disabled = s.disabled \ {h}
  BY DEF SelectorRec, SameSelector
<1>2. k \in SelectorRec /\ SameSelector(k, s) /\ k.registered = s.registered /\ k.ready = s.ready
      /\ k.disabled = s.disabled \cup {h}
  BY DEF SelectorRec, SameSelector
<1>3. Enable(s, h) = IF h \in s.disabled THEN CheckReady(i, h) ELSE s
  BY DEF Enable
<1>4. Disable(s, h) = IF h \in s.disabled THEN s ELSE CheckReady(k, h)
  BY DEF Disable
<1>5. SameSelector(s, s)
  BY DEF SameSelector
<1> HIDE DEF i, k
<1>6. CASE h \in s.disabled
  BY <1>1, <1>3, <1>4, <1>5, <1>6, CheckReadyFacts DEF SameSelector
<1>7. CASE h \notin s.disabled
  BY <1>2, <1>3, <1>4, <1>5, <1>7, CheckReadyFacts DEF SameSelector
<1> QED
  BY <1>6, <1>7

-----------------------------------------------------------------------------
(* What a state Q, R must share with P, S for the threads of U to be as    *)
(* they were.                                                              *)
SameLists(Q, R, P, S) ==
    /\ Q.threads = P.threads /\ Q.destroyed = P.destroyed /\ Q.workItems = P.workItems
    /\ Suffix(Q.handlers, P.handlers)
    /\ R.registered = S.registered /\ R.ready = S.ready /\ R.events = S.events

(* A thread me may join the others. *)
Fits(me, U, T, Q, R, N) ==
    /\ Performing(me) =>
         /\ \A u \in U : T[u].pc \notin {"select", "selected"}
         /\ me.handler \notin Range(Q.handlers)
         /\ \A u \in U : Performing(T[u]) => T[u].handler # me.handler
    /\ Serialize /\ me.handler \in Handler =>
         /\ Dispatching(me) => me.handler \in R.disabled \/ N.life[me.handler] # "open"
         /\ \A u \in U : T[u].handler = me.handler =>
              /\ Performing(me) \/ Dispatching(me) => ~Dispatching(T[u])
              /\ Dispatching(me) => ~Performing(T[u])
    /\ me.pc = "message" /\ me.handler = WorkQueue =>
         /\ Q.workItems # <<>> \/ Q.destroyed
         /\ \A h \in Handler : Q.workItems # <<>> /\ Head(Q.workItems) = Fin(h) => h \notin Range(Q.handlers)
    /\ me.pc # "io"

(* The threads of a set, and one more. *)
LEMMA CountOneMore ==
    ASSUME NEW th \in Thread, NEW A \in SUBSET (Thread \ {th}), NEW b \in BOOLEAN
    PROVE  /\ IsFiniteSet(A) /\ Cardinality(A) \in Nat
           /\ Cardinality(IF b THEN A \cup {th} ELSE A) = Cardinality(A) + (IF b THEN 1 ELSE 0)
<1>1. IsFiniteSet(A)
  BY Constants, FS_Subset
<1>2. Cardinality(A) \in Nat
  BY <1>1, FS_CardinalityType
<1>3. Cardinality(A \cup {th}) = Cardinality(A) + 1
  BY <1>1, FS_AddElement
<1> QED
  BY <1>1, <1>2, <1>3

LEMMA PutThread ==
    ASSUME NEW th \in Thread, NEW T, NEW P, NEW S, NEW N, NEW Q \in PoolRec, NEW R \in SelectorRec, NEW me \in ThreadRec,
           Body(Thread \ {th}, T, P, S, N), SameLists(Q, R, P, S), S.disabled \subseteq R.disabled,
           Local(th, me, Q), Fits(me, Thread \ {th}, T, Q, R, N),
           Q.inUseIO = P.inUseIO + (IF Performing(me) THEN 1 ELSE 0),
           Q.inUse = P.inUse + (IF Dispatching(me) THEN 1 ELSE 0)
    PROVE  Body(Thread, [T EXCEPT ![th] = me], Q, R, N)
<1> DEFINE U == Thread \ {th}
           V == [T EXCEPT ![th] = me]
<1>1. T \in [Thread -> ThreadRec] /\ P \in PoolRec /\ N \in NetRec /\ Types(V, Q, R, N) /\ Data(N)
  BY DEF Body, Types
<1>2. V[th] = me /\ \A u \in U : V[u] = T[u]
  BY <1>1
<1>3. Thread = U \cup {th} /\ th \notin U
  OBVIOUS
<1>4. /\ Range(Q.handlers) \subseteq Range(P.handlers)
      /\ IsInjective(P.handlers) => IsInjective(Q.handlers)
      /\ P.handlers = <<>> => Q.handlers = <<>>
      /\ \A a, b : (\A i, j \in DOMAIN P.handlers : i < j /\ P.handlers[i] = a => P.handlers[j] # b)
                     => (\A i, j \in DOMAIN Q.handlers : i < j /\ Q.handlers[i] = a => Q.handlers[j] # b)
  <2>1. P.handlers \in Seq(EventHandler) /\ Q.handlers \in Seq(EventHandler)
    BY <1>1 DEF PoolRec
  <2> QED
    BY <2>1, SuffixFacts, ZenonT(60) DEF SameLists
<1> HIDE DEF V, U
<1>5. Locals(Thread, V, Q)
  <2>1. ASSUME NEW u \in U PROVE Local(u, T[u], Q)
    <3>1. Local(u, T[u], P) /\ u \in Thread
      BY <1>3 DEF Body, Locals, U
    <3>2. Q.threads = P.threads
      BY DEF SameLists
    <3>3. CASE T[u].pc \in {"select", "selected"}
      <4>1. ~Performing(me) /\ P.inUseIO = 0 /\ P.handlers = <<>>
        BY <3>1, <3>3 DEF Fits, Local, U
      <4>2. Q.inUseIO = 0 /\ Q.handlers = <<>>
        BY <1>4, <4>1
      <4> QED
        BY <3>1, <3>2, <4>2 DEF Local
    <3>4. CASE T[u].pc \notin {"select", "selected"}
      BY <3>1, <3>2, <3>4 DEF Local
    <3> QED
      BY <3>3, <3>4
  <2> QED
    BY <1>2, <1>3, <2>1 DEF Locals
<1>6. Counts(Thread, V, Q)
  <2> DEFINE A == {u \in U : Performing(T[u])}
             B == {u \in U : Dispatching(T[u])}
  <2>1. {u \in Thread : Performing(V[u])} = IF Performing(me) THEN A \cup {th} ELSE A
    BY <1>2, <1>3
  <2>2. {u \in Thread : Dispatching(V[u])} = IF Dispatching(me) THEN B \cup {th} ELSE B
    BY <1>2, <1>3
  <2>3. P.inUseIO = Cardinality(A) /\ P.inUse = Cardinality(B) /\ Cardinality(P.threads) <= SizeMax
    BY DEF Body, Counts, U
  <2>4. A \in SUBSET (Thread \ {th}) /\ B \in SUBSET (Thread \ {th})
    BY DEF U
  <2>5. Performing(me) \in BOOLEAN /\ Dispatching(me) \in BOOLEAN
    BY DEF Performing, Dispatching
  <2> HIDE DEF A, B
  <2>6. Cardinality(IF Performing(me) THEN A \cup {th} ELSE A) = Q.inUseIO
    BY <2>3, <2>4, <2>5, CountOneMore, ZenonT(60)
  <2>7. Cardinality(IF Dispatching(me) THEN B \cup {th} ELSE B) = Q.inUse
    BY <2>3, <2>4, <2>5, CountOneMore, ZenonT(60)
  <2> QED
    BY <2>1, <2>2, <2>3, <2>6, <2>7 DEF Counts, SameLists
<1>7. Readers(Thread, V, Q)
  <2>1. /\ IsInjective(P.handlers)
        /\ \A u \in U : Performing(T[u]) => T[u].handler \notin Range(P.handlers)
        /\ \A u, v \in U : u # v /\ Performing(T[u]) /\ Performing(T[v]) => T[u].handler # T[v].handler
    BY DEF Body, Readers, U
  <2>2. Performing(me) => /\ me.handler \notin Range(Q.handlers)
                          /\ \A u \in U : Performing(T[u]) => T[u].handler # me.handler
    BY DEF Fits, U
  <2>3. ASSUME NEW u \in Thread, Performing(V[u]) PROVE V[u].handler \notin Range(Q.handlers)
    BY <1>2, <1>3, <1>4, <2>1, <2>2, <2>3
  <2>4. ASSUME NEW u \in Thread, NEW v \in Thread, u # v, Performing(V[u]), Performing(V[v])
        PROVE  V[u].handler # V[v].handler
    BY <1>2, <1>3, <2>1, <2>2, <2>4
  <2> QED
    BY <1>4, <2>1, <2>3, <2>4 DEF Readers
<1>8. Serial(Thread, V, R, N)
  <2> SUFFICES ASSUME Serialize
               PROVE  /\ \A u \in Thread : Dispatching(V[u]) /\ V[u].handler \in Handler =>
                           V[u].handler \in R.disabled \/ N.life[V[u].handler] # "open"
                      /\ \A u, v \in Thread : u # v /\ V[u].handler = V[v].handler /\ V[u].handler \in Handler =>
                           ~(Dispatching(V[u]) /\ (Performing(V[v]) \/ Dispatching(V[v])))
    BY DEF Serial
  <2>1. /\ \A u \in U : Dispatching(T[u]) /\ T[u].handler \in Handler =>
             T[u].handler \in R.disabled \/ N.life[T[u].handler] # "open"
        /\ \A u, v \in U : u # v /\ T[u].handler = T[v].handler /\ T[u].handler \in Handler =>
             ~(Dispatching(T[u]) /\ (Performing(T[v]) \/ Dispatching(T[v])))
    BY DEF Body, Serial, U
  <2>2. me.handler \in Handler =>
          /\ Dispatching(me) => me.handler \in R.disabled \/ N.life[me.handler] # "open"
          /\ \A u \in U : T[u].handler = me.handler =>
               /\ Performing(me) \/ Dispatching(me) => ~Dispatching(T[u])
               /\ Dispatching(me) => ~Performing(T[u])
    BY DEF Fits, U
  <2>3. ASSUME NEW u \in Thread, Dispatching(V[u]), V[u].handler \in Handler
        PROVE  V[u].handler \in R.disabled \/ N.life[V[u].handler] # "open"
    BY <1>2, <1>3, <2>1, <2>2, <2>3
  <2>4. ASSUME NEW u \in Thread, NEW v \in Thread, u # v, V[u].handler = V[v].handler, V[u].handler \in Handler
        PROVE  ~(Dispatching(V[u]) /\ (Performing(V[v]) \/ Dispatching(V[v])))
    BY <1>2, <1>3, <2>1, <2>2, <2>4
  <2> QED
    BY <2>3, <2>4
<1>9. Alive(Thread, V, Q, R, N)
  <2>1. Alive(U, T, P, S, N)
    BY DEF Body, U
  <2>2. Q.workItems = P.workItems /\ R.registered = S.registered /\ R.events = S.events
    BY DEF SameLists
  <2>3. /\ \A h \in Handler : N.life[h] # "open" => h \notin R.registered
        /\ Q.destroyed => \A h \in Handler : N.life[h] # "open"
    BY <2>1, <2>2 DEF Alive, SameLists
  <2>4. \A h \in Handler : h \in R.events \cup Range(Q.handlers) => N.life[h] # "finished"
    BY <1>4, <2>1, <2>2 DEF Alive
  <2>5. R.events # {} => \E u \in Thread : V[u].pc = "selected"
    BY <1>2, <1>3, <2>1, <2>2 DEF Alive
  <2>6. \A h \in Handler : Fin(h) \in Range(Q.workItems) => N.life[h] # "open"
    BY <2>1, <2>2 DEF Alive
  <2>7. ASSUME NEW u \in Thread, NEW h \in Handler, V[u].pc = "io", V[u].item = Fin(h)
        PROVE  N.life[h] # "open" /\ h \notin Range(Q.handlers)
    <3>1. u \in U /\ V[u] = T[u]
      BY <1>2, <1>3, <2>7 DEF Fits
    <3> QED
      BY <1>4, <2>1, <2>7, <3>1 DEF Alive
  <2>8. ASSUME NEW h \in Handler, Q.workItems # <<>>, Head(Q.workItems) = Fin(h)
        PROVE  /\ (\E u \in Thread : V[u].pc = "message" /\ V[u].handler = WorkQueue) => h \notin Range(Q.handlers)
               /\ \A i, j \in DOMAIN Q.handlers : i < j /\ Q.handlers[i] = WorkQueue => Q.handlers[j] # h
    <3>1. /\ (\E u \in U : T[u].pc = "message" /\ T[u].handler = WorkQueue) => h \notin Range(P.handlers)
          /\ \A i, j \in DOMAIN P.handlers : i < j /\ P.handlers[i] = WorkQueue => P.handlers[j] # h
      BY <2>1, <2>2, <2>8 DEF Alive
    <3>2. \A i, j \in DOMAIN Q.handlers : i < j /\ Q.handlers[i] = WorkQueue => Q.handlers[j] # h
      BY <1>4, <3>1
    <3>3. ASSUME NEW u \in Thread, V[u].pc = "message", V[u].handler = WorkQueue
          PROVE  h \notin Range(Q.handlers)
      <4>1. CASE u = th
        BY <1>2, <2>8, <3>3, <4>1 DEF Fits
      <4>2. CASE u # th
        BY <1>2, <1>3, <1>4, <3>1, <3>3, <4>2
      <4> QED
        BY <4>1, <4>2
    <3> QED
      BY <3>2, <3>3
  <2> QED
    BY <2>3, <2>4, <2>5, <2>6, <2>7, <2>8 DEF Alive
<1>10. Work(Thread, V, Q, R)
  <2>1. Work(U, T, P, S)
    BY DEF Body, U
  <2>2. Q.workItems = P.workItems /\ R.ready = S.ready /\ Q.destroyed = P.destroyed
    BY DEF SameLists
  <2>3. ASSUME NEW u \in Thread, V[u].pc = "message", V[u].handler = WorkQueue
        PROVE  Q.workItems # <<>> \/ Q.destroyed
    BY <1>2, <1>3, <2>1, <2>2, <2>3 DEF Fits, Work
  <2> QED
    BY <1>4, <2>1, <2>2, <2>3 DEF Work
<1> QED
  BY <1>1, <1>5, <1>6, <1>7, <1>8, <1>9, <1>10 DEF Body, V

(* A thread takes the mutex, and what it did before is settled. *)
LEMMA TakeThread ==
    ASSUME NEW th \in Thread, NEW T, NEW P, NEW S, NEW N, NEW Q \in PoolRec, NEW R \in SelectorRec,
           Body(Thread, T, P, S, N), T[th].pc # "selected",
           Q.threads = P.threads, Q.destroyed = P.destroyed, Q.workItems = P.workItems, Q.handlers = P.handlers,
           R.registered = S.registered, R.ready = S.ready, R.events = S.events,
           \/ R.disabled = S.disabled
           \/ Dispatching(T[th]) /\ T[th].handler \in Handler /\ R.disabled = S.disabled \ {T[th].handler},
           Q.inUseIO = P.inUseIO - (IF Performing(T[th]) THEN 1 ELSE 0),
           Q.inUse = P.inUse - (IF Dispatching(T[th]) THEN 1 ELSE 0)
    PROVE  Body(Thread \ {th}, T, Q, R, N)
<1> DEFINE U == Thread \ {th}
<1>1. T \in [Thread -> ThreadRec] /\ P \in PoolRec /\ Types(T, Q, R, N) /\ Data(N)
  BY DEF Body, Types
<1>2. Thread = U \cup {th} /\ th \notin U /\ U \subseteq Thread
  OBVIOUS
<1> HIDE DEF U
<1>3. Locals(U, T, Q)
  <2> SUFFICES ASSUME NEW u \in U PROVE Local(u, T[u], Q)
    BY DEF Locals
  <2>1. Local(u, T[u], P)
    BY <1>2 DEF Body, Locals
  <2>2. P.inUseIO = 0 => Q.inUseIO = 0
    <3>1. Q.inUseIO >= 0 /\ Q.inUseIO \in Int /\ P.inUseIO \in Int
      BY <1>1, Constants DEF PoolRec
    <3>2. CASE Performing(T[th])
      <4>1. Q.inUseIO = P.inUseIO - 1
        BY <3>2
      <4> QED
        BY <3>1, <4>1
    <3>3. CASE ~Performing(T[th])
      <4>1. Q.inUseIO = P.inUseIO
        BY <3>1, <3>3
      <4> QED
        BY <4>1
    <3> QED
      BY <3>2, <3>3
  <2> QED
    BY <2>1, <2>2 DEF Local
<1>4. Counts(U, T, Q)
  <2> DEFINE A == {u \in U : Performing(T[u])}
             B == {u \in U : Dispatching(T[u])}
  <2>1. {u \in Thread : Performing(T[u])} = IF Performing(T[th]) THEN A \cup {th} ELSE A
    BY <1>2
  <2>2. {u \in Thread : Dispatching(T[u])} = IF Dispatching(T[th]) THEN B \cup {th} ELSE B
    BY <1>2
  <2>3. /\ P.inUseIO = Cardinality({u \in Thread : Performing(T[u])})
        /\ P.inUse = Cardinality({u \in Thread : Dispatching(T[u])})
        /\ Cardinality(P.threads) <= SizeMax
    BY DEF Body, Counts
  <2>4. A \in SUBSET (Thread \ {th}) /\ B \in SUBSET (Thread \ {th})
    BY DEF U
  <2>5. Performing(T[th]) \in BOOLEAN /\ Dispatching(T[th]) \in BOOLEAN
    BY DEF Performing, Dispatching
  <2> HIDE DEF A, B
  <2>6. P.inUseIO = Cardinality(A) + (IF Performing(T[th]) THEN 1 ELSE 0) /\ Cardinality(A) \in Nat
    BY <2>1, <2>3, <2>4, <2>5, CountOneMore
  <2>7. P.inUse = Cardinality(B) + (IF Dispatching(T[th]) THEN 1 ELSE 0) /\ Cardinality(B) \in Nat
    BY <2>2, <2>3, <2>4, <2>5, CountOneMore
  <2>8. Q.inUseIO = Cardinality(A) /\ Q.inUse = Cardinality(B)
    BY <2>6, <2>7
  <2> QED
    BY <2>3, <2>8 DEF Counts, A, B
<1>5. Readers(U, T, Q)
  <2>1. Readers(Thread, T, P)
    BY DEF Body
  <2> QED
    BY <1>2, <2>1 DEF Readers
<1>6. Serial(U, T, R, N)
  <2>1. Serial(Thread, T, S, N)
    BY DEF Body
  <2>2. ASSUME Serialize, NEW u \in U, Dispatching(T[u]), T[u].handler \in Handler
        PROVE  T[u].handler \in R.disabled \/ N.life[T[u].handler] # "open"
    <3>1. T[u].handler \in S.disabled \/ N.life[T[u].handler] # "open"
      BY <1>2, <2>1, <2>2 DEF Serial
    <3>2. CASE R.disabled = S.disabled
      BY <3>1, <3>2
    <3>3. CASE Dispatching(T[th]) /\ T[th].handler \in Handler /\ R.disabled = S.disabled \ {T[th].handler}
      <4>1. T[u].handler # T[th].handler
        BY <1>2, <2>1, <2>2, <3>3 DEF Serial
      <4> QED
        BY <3>1, <3>3, <4>1
    <3> QED
      BY <3>2, <3>3
  <2>3. Serialize => \A u, v \in U : u # v /\ T[u].handler = T[v].handler /\ T[u].handler \in Handler =>
                       ~(Dispatching(T[u]) /\ (Performing(T[v]) \/ Dispatching(T[v])))
    BY <1>2, <2>1 DEF Serial
  <2> QED
    BY <2>2, <2>3 DEF Serial
<1>7. Alive(U, T, Q, R, N)
  <2>1. Alive(Thread, T, P, S, N)
    BY DEF Body
  <2>2. R.events # {} => \E u \in U : T[u].pc = "selected"
    BY <1>2, <2>1 DEF Alive
  <2>3. \A u \in U : u \in Thread
    BY <1>2
  <2> QED
    BY <2>1, <2>2, <2>3 DEF Alive
<1>8. Work(U, T, Q, R)
  <2>1. Work(Thread, T, P, S)
    BY DEF Body
  <2> QED
    BY <1>2, <2>1 DEF Work
<1> QED
  BY <1>1, <1>3, <1>4, <1>5, <1>6, <1>7, <1>8 DEF Body, U

(* A thread goes on in run() without changing what it is to the others. *)
LEMMA RoleKept ==
    ASSUME NEW th \in Thread, NEW T, NEW P, NEW S, NEW N, NEW me \in ThreadRec, Whole(T, P, S, N),
           me.leader = T[th].leader, Local(th, me, P),
           Performing(me) <=> Performing(T[th]), Dispatching(me) <=> Dispatching(T[th]),
           Performing(me) \/ Dispatching(me) => me.handler = T[th].handler,
           me.pc # "message", T[th].pc # "selected",
           \A h \in Handler : me.pc = "io" /\ me.item = Fin(h) => N.life[h] # "open" /\ h \notin Range(P.handlers)
    PROVE  Whole([T EXCEPT ![th] = me], P, S, N)
<1> DEFINE V == [T EXCEPT ![th] = me]
<1>1. T \in [Thread -> ThreadRec] /\ Types(V, P, S, N) /\ Data(N)
  BY DEF Whole, Body, Types
<1>2. V[th] = me /\ \A u \in Thread : u # th => V[u] = T[u]
  BY <1>1
<1> HIDE DEF V
<1>3. Locals(Thread, V, P)
  BY <1>2 DEF Whole, Body, Locals
<1>4. \A u \in Thread : /\ Performing(V[u]) <=> Performing(T[u])
                        /\ Dispatching(V[u]) <=> Dispatching(T[u])
                        /\ V[u].leader = T[u].leader
                        /\ Performing(V[u]) \/ Dispatching(V[u]) => V[u].handler = T[u].handler
  BY <1>2
<1>5. Counts(Thread, V, P)
  <2>1. {u \in Thread : Performing(V[u])} = {u \in Thread : Performing(T[u])}
    BY <1>4
  <2>2. {u \in Thread : Dispatching(V[u])} = {u \in Thread : Dispatching(T[u])}
    BY <1>4
  <2> QED
    BY <2>1, <2>2 DEF Whole, Body, Counts
<1>6. Readers(Thread, V, P)
  <2>1. Readers(Thread, T, P)
    BY DEF Whole, Body
  <2> QED
    BY <1>4, <2>1 DEF Readers
<1>7. Serial(Thread, V, S, N)
  <2>1. Serial(Thread, T, S, N)
    BY DEF Whole, Body
  <2>2. ASSUME Serialize, NEW u \in Thread, NEW v \in Thread, u # v, V[u].handler = V[v].handler, V[u].handler \in Handler,
               Dispatching(V[u]), Performing(V[v]) \/ Dispatching(V[v])
        PROVE  FALSE
    <3>1. T[u].handler = V[u].handler /\ T[v].handler = V[v].handler
      BY <1>4, <2>2
    <3> QED
      BY <1>4, <2>1, <2>2, <3>1 DEF Serial
  <2> QED
    BY <1>4, <2>1, <2>2 DEF Serial
<1>8. \A u \in Thread : V[u].pc = "message" => T[u] = V[u]
  BY <1>2
<1>9. Alive(Thread, V, P, S, N)
  <2>1. Alive(Thread, T, P, S, N)
    BY DEF Whole, Body
  <2>2. S.events # {} => \E u \in Thread : V[u].pc = "selected"
    BY <1>2, <2>1 DEF Alive
  <2>3. ASSUME NEW u \in Thread, NEW h \in Handler, V[u].pc = "io", V[u].item = Fin(h)
        PROVE  N.life[h] # "open" /\ h \notin Range(P.handlers)
    BY <1>2, <2>1, <2>3 DEF Alive
  <2>4. ASSUME NEW h \in Handler, P.workItems # <<>>, Head(P.workItems) = Fin(h),
               NEW u \in Thread, V[u].pc = "message", V[u].handler = WorkQueue
        PROVE  h \notin Range(P.handlers)
    BY <1>8, <2>1, <2>4 DEF Alive
  <2> QED
    BY <2>1, <2>2, <2>3, <2>4 DEF Alive
<1>10. Work(Thread, V, P, S)
  <2>1. Work(Thread, T, P, S)
    BY DEF Whole, Body
  <2>2. ASSUME NEW u \in Thread, V[u].pc = "message", V[u].handler = WorkQueue
        PROVE  P.workItems # <<>> \/ P.destroyed
    BY <1>8, <2>1, <2>2 DEF Work
  <2> QED
    BY <2>1, <2>2 DEF Work
<1>11. Leadership(V, P)
  <2>1. Leadership(T, P)
    BY DEF Whole
  <2> QED
    BY <1>4, <2>1 DEF Leadership
<1> QED
  BY <1>1, <1>3, <1>5, <1>6, <1>7, <1>9, <1>10, <1>11 DEF Whole, Body, V

(* notify_one() *)
LEMMA NotifyWhole ==
    ASSUME NEW T, NEW P, NEW S, NEW N, Whole(T, P, S, N), NEW b, NEW V \in NotifyOne(T, b)
    PROVE  Whole(V, P, S, N)
<1>1. CASE V = T
  BY <1>1
<1>2. CASE \E w \in Thread : T[w].pc = "wait" /\ V = [T EXCEPT ![w].pc = "woken"]
  <2>1. PICK w \in Thread : T[w].pc = "wait" /\ V = [T EXCEPT ![w].pc = "woken"]
    BY <1>2
  <2> DEFINE me == [T[w] EXCEPT !.pc = "woken"]
  <2>2. T \in [Thread -> ThreadRec] /\ T[w] \in ThreadRec /\ Local(w, T[w], P)
    BY DEF Whole, Body, Types, Locals
  <2>3. V = [T EXCEPT ![w] = me]
    BY <2>1, <2>2
  <2>4. me \in ThreadRec /\ me.pc = "woken" /\ me.leader = T[w].leader /\ me.item = T[w].item
    BY <2>2 DEF ThreadRec
  <2> HIDE DEF me
  <2>5. ~Performing(me) /\ ~Performing(T[w]) /\ ~Dispatching(me) /\ ~Dispatching(T[w])
    BY <2>1, <2>4 DEF Performing, Dispatching
  <2>6. Local(w, me, P)
    BY <2>1, <2>2, <2>4 DEF Local
  <2>7. T[w].pc # "selected" /\ me.pc # "message" /\ me.pc # "io"
    BY <2>1, <2>4
  <2>8. Whole([T EXCEPT ![w] = me], P, S, N)
    BY <2>4, <2>5, <2>6, <2>7, RoleKept
  <2> QED
    BY <2>3, <2>8
<1> QED
  BY <1>1, <1>2 DEF NotifyOne

-----------------------------------------------------------------------------
(* The four ends of run(): leadership is given up, select(), a handler is  *)
(* taken with or without it.                                               *)
LeadEnds(k, p, s, m) ==
    LET next == NextHandlers(p, s) IN
    \/ /\ next = <<>> /\ p.inUseIO > 0 /\ k.sel = s
       /\ k.pool = [p EXCEPT !.handlers = <<>>, !.promote = TRUE]
       /\ k.me = [m EXCEPT !.pc = "follower", !.handler = NoHandler, !.leader = FALSE]
    \/ /\ next = <<>> /\ ~(p.inUseIO > 0) /\ k.sel = StartSelect(s)
       /\ k.pool = [p EXCEPT !.handlers = <<>>]
       /\ k.me = [m EXCEPT !.pc = "select", !.handler = NoHandler]
    \/ /\ next # <<>> /\ k.sel = s
       /\ k.pool = [p EXCEPT !.handlers = Tail(next), !.inUseIO = p.inUseIO + 1, !.promote = TRUE]
       /\ k.me = [m EXCEPT !.pc = "message", !.handler = Head(next), !.ioCompleted = FALSE, !.leader = FALSE]
    \/ /\ next # <<>> /\ k.sel = s
       /\ k.pool = [p EXCEPT !.handlers = Tail(next), !.inUseIO = p.inUseIO + 1]
       /\ k.me = [m EXCEPT !.pc = "message", !.handler = Head(next), !.ioCompleted = FALSE]

LEMMA LeadFacts ==
    ASSUME NEW p \in PoolRec, NEW s \in SelectorRec, NEW m \in ThreadRec, NEW b, SizeMax > 1
    PROVE  LeadEnds(Lead(Locked(p, s, m, b)), p, s, m)
<1> DEFINE l == Locked(p, s, m, b)
           next == NextHandlers(l.pool, l.sel)
           rest == [l EXCEPT !.pool.handlers = next]
           taken == [l EXCEPT !.pool.handlers = Tail(next), !.me.pc = "message",
                              !.me.handler = Head(next), !.me.ioCompleted = FALSE]
           reading == [taken EXCEPT !.pool.inUseIO = @ + 1]
           waits == [rest EXCEPT !.me.pc = "follower", !.me.handler = NoHandler]
<1>1. SizeMax # 1
  BY Constants
<1> HIDE DEF l
<1>2. Lead(l) = IF next = <<>>
                THEN IF l.pool.inUseIO > 0 THEN PromoteFollower(waits)
                     ELSE [rest EXCEPT !.sel = StartSelect(l.sel), !.me.pc = "select", !.me.handler = NoHandler]
                ELSE IF Tail(next) # <<>> /\ reading.pool.inUseIO < SizeIO THEN PromoteFollower(reading) ELSE reading
  BY <1>1 DEF Lead
<1>0. l.pool = p /\ l.sel = s /\ l.me = m /\ l = [pool |-> p, sel |-> s, me |-> m, notify |-> b]
  BY DEF Locked, l
<1>n. next = NextHandlers(p, s)
  BY <1>0
<1> HIDE DEF next
<1>3. CASE next = <<>> /\ p.inUseIO > 0
  <2>1. Lead(l) = PromoteFollower(waits)
    BY <1>0, <1>2, <1>3
  <2>2. /\ Lead(l).pool = [p EXCEPT !.handlers = <<>>, !.promote = TRUE] /\ Lead(l).sel = s
        /\ Lead(l).me = [m EXCEPT !.pc = "follower", !.handler = NoHandler, !.leader = FALSE]
    BY <1>0, <1>3, <2>1 DEF PromoteFollower
  <2> QED
    BY <1>3, <1>n, <2>2 DEF l, LeadEnds
<1>4. CASE next = <<>> /\ ~(p.inUseIO > 0)
  <2>1. Lead(l) = [rest EXCEPT !.sel = StartSelect(s), !.me.pc = "select", !.me.handler = NoHandler]
    BY <1>0, <1>2, <1>4
  <2>2. /\ Lead(l).pool = [p EXCEPT !.handlers = <<>>] /\ Lead(l).sel = StartSelect(s)
        /\ Lead(l).me = [m EXCEPT !.pc = "select", !.handler = NoHandler]
    BY <1>0, <1>4, <2>1
  <2> QED
    BY <1>4, <1>n, <2>2 DEF l, LeadEnds
<1>5. CASE next # <<>> /\ Lead(l) = PromoteFollower(reading)
  <2>1. /\ Lead(l).pool = [p EXCEPT !.handlers = Tail(next), !.inUseIO = p.inUseIO + 1, !.promote = TRUE]
        /\ Lead(l).sel = s
        /\ Lead(l).me = [m EXCEPT !.pc = "message", !.handler = Head(next), !.ioCompleted = FALSE, !.leader = FALSE]
    BY <1>0, <1>5, ZenonT(60) DEF PromoteFollower, PoolRec
  <2> QED
    BY <1>5, <1>n, <2>1 DEF l, LeadEnds
<1>6. CASE next # <<>> /\ Lead(l) = reading
  <2>1. /\ Lead(l).pool = [p EXCEPT !.handlers = Tail(next), !.inUseIO = p.inUseIO + 1]
        /\ Lead(l).sel = s
        /\ Lead(l).me = [m EXCEPT !.pc = "message", !.handler = Head(next), !.ioCompleted = FALSE]
    BY <1>0, <1>6 DEF PoolRec
  <2> QED
    BY <1>6, <1>n, <2>1 DEF l, LeadEnds
<1> QED
  BY <1>0, <1>2, <1>3, <1>4, <1>5, <1>6

LEMMA NewLeader ==
    ASSUME NEW th \in Thread, NEW T \in [Thread -> ThreadRec], NEW me, NEW Q,
           \A u \in Thread \ {th} : ~T[u].leader, Q.promote \in BOOLEAN, me.leader \in BOOLEAN, me.leader <=> ~Q.promote
    PROVE  Leadership([T EXCEPT ![th] = me], Q)
<1> DEFINE V == [T EXCEPT ![th] = me]
<1>1. V[th] = me /\ \A u \in Thread \ {th} : V[u] = T[u]
  OBVIOUS
<1> HIDE DEF V
<1>2. \A u \in Thread : V[u].leader => u = th /\ me.leader
  BY <1>1
<1> QED
  BY <1>1, <1>2 DEF Leadership, V

LEMMA StartSelectFacts ==
    ASSUME NEW s \in SelectorRec
    PROVE  LET r == StartSelect(s) IN
           /\ r \in SelectorRec /\ r.registered = s.registered /\ r.ready = s.ready
           /\ r.disabled = s.disabled /\ r.events = s.events
BY DEF StartSelect, SelectorRec

(* A handler of the list that can be used is read by nobody else. *)
LEMMA HeadFits ==
    ASSUME NEW th \in Thread, NEW T, NEW N, NEW p \in PoolRec, NEW s \in SelectorRec, NEW Q, NEW me,
           Body(Thread \ {th}, T, p, s, N), \A u \in Thread \ {th} : ~T[u].leader,
           NextHandlers(p, s) # <<>>, Q.handlers = Tail(NextHandlers(p, s)),
           Q.workItems = p.workItems, Q.destroyed = p.destroyed,
           me.pc = "message", me.handler = Head(NextHandlers(p, s))
    PROVE  /\ Fits(me, Thread \ {th}, T, Q, s, N) /\ Suffix(Q.handlers, p.handlers)
           /\ me.handler \in EventHandler /\ Q.handlers \in Seq(EventHandler)
<1> DEFINE U == Thread \ {th}
           next == NextHandlers(p, s)
           h == Head(next)
<1>1. /\ next \in Seq(EventHandler) /\ Suffix(next, p.handlers) /\ next # <<>>
      /\ h \in s.registered /\ h \notin s.disabled /\ p.handlers \in Seq(EventHandler)
  BY NextFacts DEF PoolRec
<1> HIDE DEF next
<1>2. /\ Range(next) \subseteq Range(p.handlers) /\ IsInjective(next)
      /\ \A x \in Handler : p.workItems # <<>> /\ Head(p.workItems) = Fin(x) =>
           \A i, j \in DOMAIN next : i < j /\ next[i] = WorkQueue => next[j] # x
  <2>1. /\ IsInjective(p.handlers)
        /\ \A x \in Handler : p.workItems # <<>> /\ Head(p.workItems) = Fin(x) =>
             \A i, j \in DOMAIN p.handlers : i < j /\ p.handlers[i] = WorkQueue => p.handlers[j] # x
    BY DEF Body, Readers, Alive
  <2>2. /\ Range(next) \subseteq Range(p.handlers) /\ (IsInjective(p.handlers) => IsInjective(next))
        /\ \A a, b : (\A i, j \in DOMAIN p.handlers : i < j /\ p.handlers[i] = a => p.handlers[j] # b)
                       => (\A i, j \in DOMAIN next : i < j /\ next[i] = a => next[j] # b)
    BY <1>1, SuffixFacts
  <2> QED
    BY <2>1, <2>2
<1>3. /\ Len(next) \in Nat /\ Len(next) >= 1 /\ DOMAIN next = 1 .. Len(next)
      /\ h = next[1] /\ h \in EventHandler /\ Tail(next) \in Seq(EventHandler)
      /\ Len(Tail(next)) = Len(next) - 1 /\ \A i \in 1 .. Len(Tail(next)) : Tail(next)[i] = next[i + 1]
  <2>1. Len(next) \in Nat /\ DOMAIN next = 1 .. Len(next) /\ Len(next) # 0
    BY <1>1, LenProperties, EmptySeq
  <2>2. h = next[1] /\ h \in EventHandler /\ Tail(next) \in Seq(EventHandler)
        /\ Len(Tail(next)) = Len(next) - 1 /\ \A i \in 1 .. Len(Tail(next)) : Tail(next)[i] = next[i + 1]
    BY <1>1, HeadTailProperties
  <2> QED
    BY <2>1, <2>2
<1> DEFINE t == Tail(next)
<1> HIDE DEF t, h
<1>4. t \in Seq(EventHandler) /\ Len(t) = Len(next) - 1 /\ DOMAIN t = 1 .. Len(t)
      /\ \A i \in DOMAIN t : t[i] = next[i + 1] /\ i + 1 \in DOMAIN next /\ 1 < i + 1 /\ 1 \in DOMAIN next
  <2>1. t \in Seq(EventHandler) /\ Len(t) = Len(next) - 1 /\ \A i \in 1 .. Len(t) : t[i] = next[i + 1]
    BY <1>3 DEF t
  <2>2. DOMAIN t = 1 .. Len(t)
    BY <2>1, LenProperties
  <2> QED
    BY <1>3, <2>1, <2>2
<1>5. h \notin Range(t) /\ h \in Range(next) /\ Range(t) \subseteq Range(next)
  <2>1. h \notin Range(t)
    BY <1>2, <1>3, <1>4 DEF Range, IsInjective
  <2>2. h \in Range(next)
    BY <1>3 DEF Range
  <2>3. Range(t) \subseteq Range(next)
    BY <1>4 DEF Range
  <2> QED
    BY <2>1, <2>2, <2>3
<1>6. Suffix(t, p.handlers)
  <2>1. PICK k \in 0 .. Len(p.handlers) : Len(next) = Len(p.handlers) - k /\ \A i \in 1 .. Len(next) : next[i] = p.handlers[i + k]
    BY <1>1 DEF Suffix
  <2>2. Len(p.handlers) \in Nat
    BY <1>1, LenProperties
  <2>3. k + 1 \in 0 .. Len(p.handlers) /\ Len(t) = Len(p.handlers) - (k + 1)
    BY <1>3, <1>4, <2>1, <2>2
  <2>4. ASSUME NEW i \in 1 .. Len(t) PROVE t[i] = p.handlers[i + (k + 1)]
    <3>1. i + 1 \in 1 .. Len(next) /\ t[i] = next[i + 1]
      BY <1>3, <1>4
    <3>2. (i + 1) + k = i + (k + 1)
      BY <1>3, <1>4, <2>2
    <3> QED
      BY <2>1, <3>1, <3>2
  <2> QED
    BY <2>3, <2>4 DEF Suffix
<1>7. me.handler = h /\ Q.handlers = t
  BY DEF h, t, next
<1>8. \A u \in U : Performing(T[u]) => T[u].handler \notin Range(p.handlers)
  BY DEF Body, Readers
<1>9. \A u \in U : T[u].pc \notin {"select", "selected"}
  BY DEF Body, Locals, Local
<1>10. ASSUME Serialize, h \in Handler, NEW u \in U, T[u].handler = h PROVE ~Dispatching(T[u])
  BY <1>1, <1>10 DEF Body, Serial, Alive
<1>11. ASSUME h = WorkQueue PROVE Q.workItems # <<>> \/ Q.destroyed
  BY <1>2, <1>5, <1>11 DEF Body, Work
<1>12. ASSUME h = WorkQueue, NEW x \in Handler, Q.workItems # <<>>, Head(Q.workItems) = Fin(x) PROVE x \notin Range(t)
  <2>1. \A i, j \in DOMAIN next : i < j /\ next[i] = WorkQueue => next[j] # x
    BY <1>2, <1>12
  <2>2. \A i \in DOMAIN t : t[i] # x
    BY <1>3, <1>4, <1>12, <2>1
  <2> QED
    BY <2>2 DEF Range
<1>13. Performing(me) /\ ~Dispatching(me)
  BY DEF Performing, Dispatching
<1>14. Fits(me, U, T, Q, s, N)
  BY <1>2, <1>5, <1>7, <1>8, <1>9, <1>10, <1>11, <1>12, <1>13 DEF Fits
<1> QED
  BY <1>3, <1>4, <1>6, <1>7, <1>14

(* The leader at the end of run(). *)
LEMMA LeadWhole ==
    ASSUME NEW th \in Thread, NEW T, NEW N, NEW p \in PoolRec, NEW s \in SelectorRec, NEW m \in ThreadRec, NEW b,
           SizeMax > 1, Body(Thread \ {th}, T, p, s, N), \A u \in Thread \ {th} : ~T[u].leader,
           m.leader, ~p.promote, th \in p.threads, m.item = NoItem, p.inUseIO < SizeIO
    PROVE  LET k == Lead(Locked(p, s, m, b)) IN
           Whole([T EXCEPT ![th] = k.me], k.pool, k.sel, N)
<1> DEFINE U == Thread \ {th}
           k == Lead(Locked(p, s, m, b))
           next == NextHandlers(p, s)
           Q == k.pool
           R == k.sel
           me == k.me
<1>1. T \in [Thread -> ThreadRec] /\ p.inUseIO \in Nat /\ p.inUse \in Int /\ SizeIO \in Nat /\ p.promote \in BOOLEAN
  BY Constants DEF Body, Types, PoolRec
<1>E. LeadEnds(k, p, s, m)
  BY LeadFacts, Zenon
<1>2. \/ /\ next = <<>> /\ p.inUseIO > 0 /\ R = s
         /\ Q = [p EXCEPT !.handlers = <<>>, !.promote = TRUE]
         /\ me = [m EXCEPT !.pc = "follower", !.handler = NoHandler, !.leader = FALSE]
      \/ /\ next = <<>> /\ ~(p.inUseIO > 0) /\ R = StartSelect(s)
         /\ Q = [p EXCEPT !.handlers = <<>>]
         /\ me = [m EXCEPT !.pc = "select", !.handler = NoHandler]
      \/ /\ next # <<>> /\ R = s
         /\ Q = [p EXCEPT !.handlers = Tail(next), !.inUseIO = p.inUseIO + 1, !.promote = TRUE]
         /\ me = [m EXCEPT !.pc = "message", !.handler = Head(next), !.ioCompleted = FALSE, !.leader = FALSE]
      \/ /\ next # <<>> /\ R = s
         /\ Q = [p EXCEPT !.handlers = Tail(next), !.inUseIO = p.inUseIO + 1]
         /\ me = [m EXCEPT !.pc = "message", !.handler = Head(next), !.ioCompleted = FALSE]
  BY <1>E, Zenon DEF LeadEnds
<1>3. next \in Seq(EventHandler) /\ Suffix(next, p.handlers)
  BY NextFacts
<1> HIDE DEF next, Q, R, me, k
<1>4. ASSUME Q \in PoolRec, R \in SelectorRec, me \in ThreadRec, SameLists(Q, R, p, s), R.disabled = s.disabled,
             Local(th, me, Q), Fits(me, U, T, Q, R, N), ~Dispatching(me), Q.inUse = p.inUse,
             Q.inUseIO = p.inUseIO + (IF Performing(me) THEN 1 ELSE 0), me.leader <=> ~Q.promote
      PROVE  Whole([T EXCEPT ![th] = me], Q, R, N)
  <2>1. Q.inUse = p.inUse + (IF Dispatching(me) THEN 1 ELSE 0)
    BY <1>1, <1>4
  <2>2. Body(Thread, [T EXCEPT ![th] = me], Q, R, N)
    BY <1>4, <2>1, PutThread
  <2>3. Q.promote \in BOOLEAN /\ me.leader \in BOOLEAN
    BY <1>4 DEF PoolRec, ThreadRec
  <2>4. Leadership([T EXCEPT ![th] = me], Q)
    BY <1>1, <1>4, <2>3, NewLeader
  <2> QED
    BY <2>2, <2>4 DEF Whole
<1>5. CASE next = <<>> /\ p.inUseIO > 0 /\ R = s
           /\ Q = [p EXCEPT !.handlers = <<>>, !.promote = TRUE]
           /\ me = [m EXCEPT !.pc = "follower", !.handler = NoHandler, !.leader = FALSE]
  <2>1. /\ Q \in PoolRec /\ Q.handlers = <<>> /\ Q.promote = TRUE /\ Q.threads = p.threads /\ Q.destroyed = p.destroyed
        /\ Q.workItems = p.workItems /\ Q.inUse = p.inUse /\ Q.inUseIO = p.inUseIO
    BY <1>3, <1>5 DEF PoolRec
  <2>2. me \in ThreadRec /\ me.pc = "follower" /\ me.leader = FALSE /\ me.item = NoItem
    BY <1>5 DEF ThreadRec
  <2>3. ~Performing(me) /\ ~Dispatching(me)
    BY <2>2 DEF Performing, Dispatching
  <2>4. SameLists(Q, R, p, s)
    BY <1>3, <1>5, <2>1 DEF SameLists
  <2>5. Local(th, me, Q)
    BY <2>1, <2>2 DEF Local
  <2>6. Fits(me, U, T, Q, R, N)
    BY <2>2, <2>3 DEF Fits
  <2>7. Q.inUseIO = p.inUseIO + (IF Performing(me) THEN 1 ELSE 0)
    BY <1>1, <2>1, <2>3
  <2> QED
    BY <1>4, <1>5, <2>1, <2>2, <2>3, <2>4, <2>5, <2>6, <2>7 DEF Q, R, me, k
<1>6. CASE next = <<>> /\ ~(p.inUseIO > 0) /\ R = StartSelect(s)
           /\ Q = [p EXCEPT !.handlers = <<>>]
           /\ me = [m EXCEPT !.pc = "select", !.handler = NoHandler]
  <2>1. /\ Q \in PoolRec /\ Q.handlers = <<>> /\ Q.promote = p.promote /\ Q.threads = p.threads /\ Q.destroyed = p.destroyed
        /\ Q.workItems = p.workItems /\ Q.inUse = p.inUse /\ Q.inUseIO = p.inUseIO
    BY <1>3, <1>6 DEF PoolRec
  <2>2. me \in ThreadRec /\ me.pc = "select" /\ me.leader = m.leader /\ me.item = NoItem
    BY <1>6 DEF ThreadRec
  <2>3. ~Performing(me) /\ ~Dispatching(me) /\ p.inUseIO = 0
    BY <1>1, <1>6, <2>2 DEF Performing, Dispatching
  <2>4. SameLists(Q, R, p, s) /\ R \in SelectorRec /\ R.disabled = s.disabled
    BY <1>3, <1>6, <2>1, StartSelectFacts DEF SameLists
  <2>5. Local(th, me, Q)
    BY <2>1, <2>2, <2>3 DEF Local
  <2>6. Fits(me, U, T, Q, R, N)
    BY <2>2, <2>3 DEF Fits
  <2>7. Q.inUseIO = p.inUseIO + (IF Performing(me) THEN 1 ELSE 0)
    BY <1>1, <2>1, <2>3
  <2> QED
    BY <1>4, <2>1, <2>2, <2>3, <2>4, <2>5, <2>6, <2>7 DEF Q, R, me, k
<1>7. CASE /\ next # <<>> /\ R = s
           /\ \/ /\ Q = [p EXCEPT !.handlers = Tail(next), !.inUseIO = p.inUseIO + 1, !.promote = TRUE]
                 /\ me = [m EXCEPT !.pc = "message", !.handler = Head(next), !.ioCompleted = FALSE, !.leader = FALSE]
              \/ /\ Q = [p EXCEPT !.handlers = Tail(next), !.inUseIO = p.inUseIO + 1]
                 /\ me = [m EXCEPT !.pc = "message", !.handler = Head(next), !.ioCompleted = FALSE]
  <2>1. /\ Q.handlers = Tail(next) /\ Q.threads = p.threads /\ Q.destroyed = p.destroyed
        /\ Q.workItems = p.workItems /\ Q.inUse = p.inUse /\ Q.inUseIO = p.inUseIO + 1 /\ Q.promote \in BOOLEAN
    BY <1>1, <1>7 DEF PoolRec
  <2>2. me.pc = "message" /\ me.ioCompleted = FALSE /\ me.handler = Head(next) /\ me.item = NoItem
        /\ me.leader \in BOOLEAN /\ (me.leader <=> ~Q.promote)
    BY <1>7 DEF ThreadRec, PoolRec
  <2>3. /\ Fits(me, U, T, Q, s, N) /\ Suffix(Q.handlers, p.handlers)
        /\ me.handler \in EventHandler /\ Q.handlers \in Seq(EventHandler)
    <3>1. /\ NextHandlers(p, s) # <<>> /\ Q.handlers = Tail(NextHandlers(p, s))
          /\ me.handler = Head(NextHandlers(p, s))
      BY <1>7, <2>1, <2>2 DEF next
    <3>2. Q.workItems = p.workItems /\ Q.destroyed = p.destroyed /\ me.pc = "message"
      BY <2>1, <2>2
    <3>3. Body(Thread \ {th}, T, p, s, N) /\ \A u \in Thread \ {th} : ~T[u].leader
      OBVIOUS
    <3>4. Fits(me, Thread \ {th}, T, Q, s, N)
      BY <3>1, <3>2, <3>3, HeadFits
    <3> QED
      BY <3>1, <3>2, <3>3, HeadFits
  <2>4. me \in ThreadRec
    <3>1. Head(next) \in EventHandler
      BY <2>2, <2>3
    <3>2. CASE me = [m EXCEPT !.pc = "message", !.handler = Head(next), !.ioCompleted = FALSE, !.leader = FALSE]
      BY <3>1, <3>2 DEF ThreadRec
    <3>3. CASE me = [m EXCEPT !.pc = "message", !.handler = Head(next), !.ioCompleted = FALSE]
      BY <3>1, <3>3 DEF ThreadRec
    <3> QED
      BY <1>7, <3>2, <3>3
  <2>5. p.inUseIO + 1 \in 0 .. SizeIO
    BY <1>1
  <2>6. Q \in PoolRec
    BY <1>7, <2>1, <2>3, <2>5 DEF PoolRec
  <2>7. SameLists(Q, R, p, s)
    BY <1>7, <2>1, <2>3 DEF SameLists
  <2>8. Local(th, me, Q)
    BY <2>1, <2>2, <2>3 DEF Local
  <2>9. Performing(me) /\ ~Dispatching(me)
    BY <2>2 DEF Performing, Dispatching
  <2> QED
    BY <1>4, <1>7, <2>1, <2>2, <2>3, <2>4, <2>6, <2>7, <2>8, <2>9 DEF Q, R, me, k
<1> QED
  BY <1>2, <1>5, <1>6, <1>7

(* The threads do not look at _promote outside followerWait(). *)
LEMMA PromoteFree ==
    ASSUME NEW U, NEW T, NEW p \in PoolRec, NEW s, NEW N, Body(U, T, p, s, N), NEW b \in BOOLEAN
    PROVE  LET q == [p EXCEPT !.promote = b] IN q \in PoolRec /\ Body(U, T, q, s, N)
<1> DEFINE q == [p EXCEPT !.promote = b]
<1>1. /\ q \in PoolRec /\ q.threads = p.threads /\ q.destroyed = p.destroyed /\ q.workItems = p.workItems
      /\ q.handlers = p.handlers /\ q.inUse = p.inUse /\ q.inUseIO = p.inUseIO
  BY DEF PoolRec
<1> HIDE DEF q
<1>2. Types(T, q, s, N) /\ Data(N)
  BY <1>1 DEF Body, Types
<1>3. Locals(U, T, q)
  BY <1>1 DEF Body, Locals, Local
<1>4. Counts(U, T, q) /\ Readers(U, T, q) /\ Serial(U, T, s, N)
  BY <1>1 DEF Body, Counts, Readers
<1>5. Alive(U, T, q, s, N)
  BY <1>1 DEF Body, Alive
<1>6. Work(U, T, q, s)
  BY <1>1 DEF Body, Work
<1> QED
  BY <1>1, <1>2, <1>3, <1>4, <1>5, <1>6 DEF Body, q

(* What is under the mutex. *)
LockedRec == [pool : PoolRec, sel : SelectorRec, me : ThreadRec, notify : BOOLEAN]

LEMMA LockedFields ==
    ASSUME NEW l \in LockedRec
    PROVE  l = Locked(l.pool, l.sel, l.me, l.notify)
BY DEF LockedRec, Locked

(* followerWait() *)
LEMMA FollowerWaitWhole ==
    ASSUME NEW th \in Thread, NEW T, NEW N, NEW p \in PoolRec, NEW s \in SelectorRec, NEW m \in ThreadRec, NEW b \in BOOLEAN,
           SizeMax > 1, Body(Thread \ {th}, T, p, s, N), ~m.leader, th \in p.threads, m.item = NoItem,
           \A u, v \in Thread \ {th} : T[u].leader /\ T[v].leader => u = v,
           p.promote <=> \A u \in Thread \ {th} : ~T[u].leader
    PROVE  LET k == FollowerWait(Locked(p, s, m, b)) IN
           Whole([T EXCEPT ![th] = k.me], k.pool, k.sel, N)
<1> DEFINE l == Locked(p, s, m, b)
           k == FollowerWait(l)
<1>1. T \in [Thread -> ThreadRec] /\ p.inUseIO \in 0 .. SizeIO /\ p.inUse \in Int /\ SizeIO \in Nat /\ p.promote \in BOOLEAN
  BY Constants DEF Body, Types, PoolRec
<1>2. l.pool = p
  BY DEF Locked
<1>3. CASE MustWait(p)
  <2> DEFINE me == [m EXCEPT !.pc = "wait", !.handler = NoHandler]
             V == [T EXCEPT ![th] = me]
  <2>1. k = [l EXCEPT !.me.pc = "wait", !.me.handler = NoHandler]
    BY <1>2, <1>3 DEF FollowerWait
  <2>2. k.pool = p /\ k.sel = s /\ k.me = me
    BY <2>1 DEF Locked
  <2>3. me \in ThreadRec /\ me.pc = "wait" /\ me.leader = m.leader /\ me.item = NoItem
    BY DEF ThreadRec
  <2> HIDE DEF me, k, l
  <2>4. ~Performing(me) /\ ~Dispatching(me)
    BY <2>3 DEF Performing, Dispatching
  <2>5. SameLists(p, s, p, s)
    <3>1. p.handlers \in Seq(EventHandler)
      BY DEF PoolRec
    <3> QED
      BY <3>1, SuffixSelf DEF SameLists
  <2>6. Local(th, me, p)
    BY <2>3 DEF Local
  <2>7. Fits(me, Thread \ {th}, T, p, s, N)
    BY <2>3, <2>4 DEF Fits
  <2>8. p.inUseIO = p.inUseIO + (IF Performing(me) THEN 1 ELSE 0) /\ p.inUse = p.inUse + (IF Dispatching(me) THEN 1 ELSE 0)
    BY <1>1, <2>4
  <2>9. Body(Thread, V, p, s, N)
    BY <2>3, <2>5, <2>6, <2>7, <2>8, PutThread
  <2>10. V[th] = me /\ \A u \in Thread \ {th} : V[u] = T[u]
    BY <1>1
  <2> HIDE DEF V
  <2>11. Leadership(V, p)
    BY <2>3, <2>10 DEF Leadership
  <2> QED
    BY <2>2, <2>9, <2>11 DEF Whole, V, k, l
<1>4. CASE ~MustWait(p)
  <2> DEFINE q == [p EXCEPT !.promote = FALSE]
             m1 == [m EXCEPT !.leader = TRUE, !.handler = NoHandler]
             x == [l EXCEPT !.pool.promote = FALSE, !.me.leader = TRUE, !.me.handler = NoHandler]
  <2>1. k = Lead(x)
    BY <1>2, <1>4 DEF FollowerWait
  <2>3. m1 \in ThreadRec /\ m1.leader /\ m1.item = NoItem
    BY DEF ThreadRec
  <2>4. q.promote = FALSE /\ q.threads = p.threads /\ q.inUseIO = p.inUseIO
    BY DEF PoolRec
  <2>5. q \in PoolRec /\ Body(Thread \ {th}, T, q, s, N)
    BY PromoteFree
  <2>2. x = Locked(q, s, m1, b)
    <3>1. x.pool = q /\ x.sel = s /\ x.me = m1 /\ x.notify = b
      BY DEF Locked
    <3>2. x \in LockedRec
      <4> HIDE DEF q, m1
      <4>1. l \in LockedRec
        BY DEF LockedRec, Locked
      <4> QED
        BY <2>3, <2>5, <3>1, <4>1 DEF LockedRec
    <3> HIDE DEF x
    <3> QED
      BY <3>1, <3>2, LockedFields
  <2>6. p.promote /\ p.inUseIO # SizeIO
    BY <1>4 DEF MustWait
  <2>7. p.inUseIO < SizeIO
    BY <1>1, <2>6
  <2> HIDE DEF q, m1, k, l
  <2>8. /\ \A u \in Thread \ {th} : ~T[u].leader
        /\ ~q.promote /\ th \in q.threads /\ q.inUseIO < SizeIO
    BY <2>4, <2>6, <2>7
  <2>9. LET y == Lead(Locked(q, s, m1, b)) IN Whole([T EXCEPT ![th] = y.me], y.pool, y.sel, N)
    BY <2>3, <2>5, <2>8, LeadWhole
  <2>10. k = Lead(Locked(q, s, m1, b))
    BY <2>1, <2>2
  <2> QED
    BY <2>9, <2>10 DEF k, l
<1> QED
  BY <1>3, <1>4

-----------------------------------------------------------------------------
(* The actions of the threads that end in run(). *)
LEMMA UnlockInv ==
    ASSUME NEW th \in Thread, NEW k, Unlock(th, k), UNCHANGED net,
           Whole([thread EXCEPT ![th] = k.me], k.pool, k.sel, net)
    PROVE  Inv'
<1>1. thread' \in NotifyOne([thread EXCEPT ![th] = k.me], k.notify) /\ pool' = k.pool /\ sel' = k.sel
  BY DEF Unlock
<1>2. Whole(thread', k.pool, k.sel, net)
  BY <1>1, NotifyWhole
<1> QED
  BY <1>1, <1>2 DEF Inv

LEMMA InvTypes ==
    ASSUME Inv
    PROVE  /\ thread \in [Thread -> ThreadRec] /\ pool \in PoolRec /\ sel \in SelectorRec /\ net \in NetRec
           /\ Body(Thread, thread, pool, sel, net)
           /\ \A th \in Thread : thread[th] \in ThreadRec /\ Local(th, thread[th], pool)
           /\ pool.inUse \in Int /\ pool.inUseIO \in Nat
BY Constants DEF Inv, Whole, Body, Types, Locals, PoolRec

(* A follower leaves the leadership to the others. *)
LEMMA OthersLead ==
    ASSUME Inv, NEW th \in Thread
    PROVE  /\ \A u, v \in Thread \ {th} : thread[u].leader /\ thread[v].leader => u = v
           /\ ~thread[th].leader => (pool.promote <=> \A u \in Thread \ {th} : ~thread[u].leader)
           /\ thread[th].leader => ~pool.promote /\ \A u \in Thread \ {th} : ~thread[u].leader
BY DEF Inv, Whole, Leadership

(* Followers: no work is settled when they take the mutex. *)
LEMMA FollowerInv ==
    ASSUME SizeMax > 1, Inv, NEW th \in Thread, thread[th].pc \in {"follower", "woken", "wait"},
           Unlock(th, FollowerWait(Here(th))), UNCHANGED net
    PROVE  Inv'
<1> DEFINE m == thread[th]
<1>1. /\ thread \in [Thread -> ThreadRec] /\ pool \in PoolRec /\ sel \in SelectorRec /\ m \in ThreadRec
      /\ Body(Thread, thread, pool, sel, net) /\ Local(th, m, pool) /\ pool.inUse \in Int /\ pool.inUseIO \in Nat
  BY InvTypes
<1>2. ~Performing(m) /\ ~Dispatching(m) /\ m.pc # "selected"
  BY DEF Performing, Dispatching
<1>3. ~m.leader /\ th \in pool.threads /\ m.item = NoItem
  BY <1>1 DEF Local
<1>4. pool.inUseIO = pool.inUseIO - (IF Performing(m) THEN 1 ELSE 0) /\ pool.inUse = pool.inUse - (IF Dispatching(m) THEN 1 ELSE 0)
  BY <1>1, <1>2
<1>5. Body(Thread \ {th}, thread, pool, sel, net)
  BY <1>1, <1>2, <1>4, TakeThread
<1>6. /\ \A u, v \in Thread \ {th} : thread[u].leader /\ thread[v].leader => u = v
      /\ pool.promote <=> \A u \in Thread \ {th} : ~thread[u].leader
  BY <1>3, OthersLead
<1> DEFINE k == FollowerWait(Locked(pool, sel, m, FALSE))
<1> HIDE DEF m
<1>7. Whole([thread EXCEPT ![th] = k.me], k.pool, k.sel, net)
  BY <1>1, <1>3, <1>5, <1>6, FollowerWaitWhole
<1> QED
  BY <1>7, UnlockInv DEF Here, m

(* A thread that reads or dispatches is counted. *)
LEMMA CountedOnce ==
    ASSUME Inv, NEW th \in Thread
    PROVE  /\ Performing(thread[th]) => pool.inUseIO >= 1
           /\ Dispatching(thread[th]) => pool.inUse >= 1
<1>1. ASSUME NEW A \in SUBSET Thread, th \in A PROVE Cardinality(A) >= 1
  <2>1. IsFiniteSet(A)
    BY Constants, FS_Subset
  <2>2. Cardinality(A) \in Nat /\ (Cardinality(A) = 0 <=> A = {})
    BY <2>1, FS_CardinalityType, FS_EmptySet
  <2> QED
    BY <1>1, <2>2
<1>2. /\ pool.inUseIO = Cardinality({u \in Thread : Performing(thread[u])})
      /\ pool.inUse = Cardinality({u \in Thread : Dispatching(thread[u])})
  BY DEF Inv, Whole, Body, Counts
<1> QED
  BY <1>1, <1>2

(* message() has returned: the counter or the handler is given back. *)
LEMMA TurnInv ==
    ASSUME SizeMax > 1, Inv, NEW th \in Thread, Turn(th)
    PROVE  Inv'
<1> DEFINE m == thread[th]
           l == Here(th)
           done == IF ~l.me.ioCompleted THEN [l EXCEPT !.pool.inUseIO = @ - 1]
                   ELSE [l EXCEPT !.pool.inUse = @ - 1,
                                  !.sel = IF Serialize /\ l.me.handler # WorkQueue
                                          THEN Enable(@, l.me.handler) ELSE @]
<1>1. /\ thread \in [Thread -> ThreadRec] /\ pool \in PoolRec /\ sel \in SelectorRec /\ m \in ThreadRec
      /\ Body(Thread, thread, pool, sel, net) /\ Local(th, m, pool) /\ pool.inUse \in Int /\ pool.inUseIO \in Nat
  BY InvTypes
<1>2. /\ m.pc = "turn" /\ UNCHANGED net
      /\ Unlock(th, IF done.me.leader THEN Lead(done) ELSE FollowerWait(done))
  <2>1. SizeMax # 1
    BY Constants
  <2> QED
    BY <2>1, Zenon DEF Turn
<1>3. l = Locked(pool, sel, m, FALSE) /\ l.pool = pool /\ l.sel = sel /\ l.me = m /\ l.notify = FALSE
  BY DEF Here, Locked
<1>4. l \in LockedRec
  BY <1>1 DEF LockedRec, Here, Locked
<1>5. th \in pool.threads /\ m.item = NoItem /\ m.handler \in EventHandler
  BY <1>1, <1>2 DEF Local
<1>6. /\ \A u, v \in Thread \ {th} : thread[u].leader /\ thread[v].leader => u = v
      /\ ~m.leader => (pool.promote <=> \A u \in Thread \ {th} : ~thread[u].leader)
      /\ m.leader => ~pool.promote /\ \A u \in Thread \ {th} : ~thread[u].leader
  BY OthersLead
<1>7. CASE ~m.ioCompleted
  <2> DEFINE q == [pool EXCEPT !.inUseIO = pool.inUseIO - 1]
  <2>1. Performing(m) /\ ~Dispatching(m) /\ m.pc # "selected"
    BY <1>2, <1>7 DEF Performing, Dispatching
  <2>2. pool.inUseIO - 1 \in 0 .. SizeIO /\ pool.inUseIO - 1 < SizeIO
    <3>1. pool.inUseIO >= 1
      BY <2>1, CountedOnce
    <3>2. pool.inUseIO \in 0 .. SizeIO /\ SizeIO \in Nat
      BY <1>1, Constants DEF PoolRec
    <3> QED
      BY <3>1, <3>2
  <2>3. /\ q \in PoolRec /\ q.threads = pool.threads /\ q.destroyed = pool.destroyed /\ q.workItems = pool.workItems
        /\ q.handlers = pool.handlers /\ q.inUse = pool.inUse /\ q.inUseIO = pool.inUseIO - 1 /\ q.promote = pool.promote
    BY <1>1, <2>2 DEF PoolRec
  <2>4. done = Locked(q, sel, m, FALSE)
    <3>1. done = [l EXCEPT !.pool.inUseIO = l.pool.inUseIO - 1]
      BY <1>3, <1>7
    <3>2. done.pool = q /\ done.sel = sel /\ done.me = m /\ done.notify = FALSE
      BY <1>3, <3>1 DEF Here, Locked
    <3>3. done \in LockedRec
      <4> HIDE DEF q, l
      <4> QED
        BY <1>4, <2>3, <3>1, <3>2 DEF LockedRec
    <3> HIDE DEF done
    <3> QED
      BY <3>2, <3>3, LockedFields
  <2>5. q.inUseIO = pool.inUseIO - (IF Performing(m) THEN 1 ELSE 0) /\ q.inUse = pool.inUse - (IF Dispatching(m) THEN 1 ELSE 0)
    BY <1>1, <2>1, <2>3
  <2> HIDE DEF q, done, l
  <2>6. Body(Thread \ {th}, thread, q, sel, net)
    BY <1>1, <2>1, <2>3, <2>5, TakeThread
  <2>7. done.me = m
    BY <2>4 DEF Locked
  <2> HIDE DEF m
  <2>8. CASE m.leader
    <3>1. ~q.promote /\ th \in q.threads /\ q.inUseIO < SizeIO
      BY <1>5, <1>6, <2>2, <2>3, <2>8
    <3>2. LET y == Lead(Locked(q, sel, m, FALSE)) IN Whole([thread EXCEPT ![th] = y.me], y.pool, y.sel, net)
      BY <1>1, <1>5, <1>6, <2>3, <2>6, <2>8, <3>1, LeadWhole
    <3>3. Unlock(th, Lead(Locked(q, sel, m, FALSE)))
      BY <1>2, <2>4, <2>7, <2>8
    <3> QED
      BY <1>2, <3>2, <3>3, UnlockInv
  <2>9. CASE ~m.leader
    <3>1. th \in q.threads /\ (q.promote <=> \A u \in Thread \ {th} : ~thread[u].leader)
      BY <1>5, <1>6, <2>3, <2>9
    <3>2. LET y == FollowerWait(Locked(q, sel, m, FALSE)) IN Whole([thread EXCEPT ![th] = y.me], y.pool, y.sel, net)
      BY <1>1, <1>5, <1>6, <2>3, <2>6, <2>9, <3>1, FollowerWaitWhole
    <3>3. Unlock(th, FollowerWait(Locked(q, sel, m, FALSE)))
      BY <1>2, <2>4, <2>7, <2>9
    <3> QED
      BY <1>2, <3>2, <3>3, UnlockInv
  <2> QED
    BY <2>8, <2>9
<1>8. CASE m.ioCompleted
  <2> DEFINE q == [pool EXCEPT !.inUse = pool.inUse - 1]
             r == IF Serialize /\ m.handler # WorkQueue THEN Enable(sel, m.handler) ELSE sel
  <2>1. ~Performing(m) /\ Dispatching(m) /\ m.pc # "selected" /\ ~m.leader
    BY <1>1, <1>2, <1>8 DEF Performing, Dispatching, Local
  <2>2. pool.inUse - 1 \in -1 .. SizeMax
    <3>1. pool.inUse \in -1 .. SizeMax /\ SizeMax \in Nat /\ pool.inUse >= 1
      BY <1>1, <2>1, Constants, CountedOnce DEF PoolRec
    <3> QED
      BY <3>1
  <2>3. /\ q \in PoolRec /\ q.threads = pool.threads /\ q.destroyed = pool.destroyed /\ q.workItems = pool.workItems
        /\ q.handlers = pool.handlers /\ q.inUse = pool.inUse - 1 /\ q.inUseIO = pool.inUseIO /\ q.promote = pool.promote
    BY <1>1, <2>2 DEF PoolRec
  <2>4. /\ r \in SelectorRec /\ r.registered = sel.registered /\ r.ready = sel.ready /\ r.events = sel.events
        /\ \/ r.disabled = sel.disabled
           \/ Dispatching(m) /\ m.handler \in Handler /\ r.disabled = sel.disabled \ {m.handler}
    <3>1. CASE Serialize /\ m.handler # WorkQueue
      <4>1. m.handler \in Handler /\ r = Enable(sel, m.handler)
        BY <1>5, <3>1 DEF EventHandler
      <4> HIDE DEF r
      <4> QED
        BY <1>1, <2>1, <4>1, EnableFacts DEF SameSelector
    <3>2. CASE ~(Serialize /\ m.handler # WorkQueue)
      BY <1>1, <3>2
    <3> QED
      BY <3>1, <3>2
  <2>5. done = Locked(q, r, m, FALSE)
    <3>1. done = [l EXCEPT !.pool.inUse = l.pool.inUse - 1, !.sel = r]
      BY <1>3, <1>8
    <3> HIDE DEF r
    <3>2. done.pool = q /\ done.sel = r /\ done.me = m /\ done.notify = FALSE
      BY <1>3, <3>1 DEF Here, Locked
    <3>3. done \in LockedRec
      <4> HIDE DEF q, l
      <4> QED
        BY <1>4, <2>3, <2>4, <3>1, <3>2 DEF LockedRec
    <3> HIDE DEF done
    <3> QED
      BY <3>2, <3>3, LockedFields
  <2>6. q.inUseIO = pool.inUseIO - (IF Performing(m) THEN 1 ELSE 0) /\ q.inUse = pool.inUse - (IF Dispatching(m) THEN 1 ELSE 0)
    BY <1>1, <2>1, <2>3
  <2> HIDE DEF q, r, done, l
  <2>7. Body(Thread \ {th}, thread, q, r, net)
    BY <1>1, <2>1, <2>3, <2>4, <2>6, TakeThread
  <2>8. done.me = m
    BY <2>5 DEF Locked
  <2> HIDE DEF m
  <2>9. th \in q.threads /\ (q.promote <=> \A u \in Thread \ {th} : ~thread[u].leader)
    BY <1>5, <1>6, <2>1, <2>3
  <2>10. LET y == FollowerWait(Locked(q, r, m, FALSE)) IN Whole([thread EXCEPT ![th] = y.me], y.pool, y.sel, net)
    BY <1>1, <1>5, <1>6, <2>1, <2>3, <2>4, <2>7, <2>9, FollowerWaitWhole
  <2>11. Unlock(th, FollowerWait(Locked(q, r, m, FALSE)))
    BY <1>2, <2>1, <2>5, <2>8
  <2> QED
    BY <1>2, <2>10, <2>11, UnlockInv
<1> QED
  BY <1>7, <1>8

(* A record whose pool may be changed. *)
HasPool(k) ==
    \A n : LET j == [k EXCEPT !.pool.inUse = n] IN
          j.me = k.me /\ j.sel = k.sel /\ j.pool = [k.pool EXCEPT !.inUse = n]

(* What ioCompleted() leaves. *)
IoEnds(k, p, s, m, pc) ==
    /\ HasPool(k)
    /\ k.sel = (IF Serialize /\ m.handler # WorkQueue /\ ~p.destroyed THEN Disable(s, m.handler) ELSE s)
    /\ \/ /\ m.leader
          /\ k.me = [m EXCEPT !.ioCompleted = TRUE, !.pc = pc, !.leader = FALSE]
          /\ k.pool = [p EXCEPT !.inUseIO = p.inUseIO - 1, !.promote = TRUE, !.inUse = p.inUse + 1]
       \/ /\ ~m.leader
          /\ k.me = [m EXCEPT !.ioCompleted = TRUE, !.pc = pc]
          /\ k.pool = [p EXCEPT !.inUseIO = p.inUseIO - 1, !.inUse = p.inUse + 1]

LEMMA IoFacts ==
    ASSUME NEW p \in PoolRec, NEW s \in SelectorRec, NEW m \in ThreadRec, NEW b, NEW pc, SizeMax > 1
    PROVE  IoEnds(IoCompleted(Locked(p, s, m, b), pc), p, s, m, pc)
<1> DEFINE l == Locked(p, s, m, b)
           me == [l.me EXCEPT !.ioCompleted = TRUE, !.pc = pc]
           x == IF Serialize /\ me.handler # WorkQueue /\ ~l.pool.destroyed THEN Disable(l.sel, me.handler) ELSE l.sel
           counted == [l EXCEPT !.me = me, !.pool.inUseIO = l.pool.inUseIO - 1, !.sel = x]
           noted == [counted EXCEPT !.notify = counted.notify
                       \/ /\ counted.pool.promote
                          /\ counted.pool.handlers # <<>> \/ counted.pool.inUseIO = 0]
           promoted == IF me.leader THEN PromoteFollower(counted) ELSE noted
           k == IoCompleted(l, pc)
<1>1. SizeMax # 1
  BY Constants
<1> HIDE DEF l
<1>2. k = [promoted EXCEPT !.pool.inUse = promoted.pool.inUse + 1]
  BY <1>1 DEF IoCompleted
<1>3. l = [pool |-> p, sel |-> s, me |-> m, notify |-> b] /\ l.pool = p /\ l.sel = s /\ l.me = m
  BY DEF Locked, l
<1>4. me = [m EXCEPT !.ioCompleted = TRUE, !.pc = pc] /\ me.leader = m.leader /\ me.handler = m.handler
  BY <1>3 DEF ThreadRec
<1>5. x = IF Serialize /\ m.handler # WorkQueue /\ ~p.destroyed THEN Disable(s, m.handler) ELSE s
  BY <1>3, <1>4
<1> HIDE DEF me, x
<1>6. CASE m.leader
  <2>1. k = [PromoteFollower(counted) EXCEPT !.pool.inUse = PromoteFollower(counted).pool.inUse + 1]
    BY <1>2, <1>4, <1>6
  <2> HIDE DEF k
  <2>0. HasPool(k)
    BY <1>3, <2>1 DEF PromoteFollower, HasPool
  <2>2. k.sel = x
    BY <1>3, <2>1 DEF PromoteFollower
  <2>3. k.me = [me EXCEPT !.leader = FALSE]
    BY <1>3, <2>1 DEF PromoteFollower
  <2>4. k.pool = [p EXCEPT !.inUseIO = p.inUseIO - 1, !.promote = TRUE, !.inUse = p.inUse + 1]
    BY <1>3, <2>1 DEF PromoteFollower, PoolRec
  <2>5. k.me = [m EXCEPT !.ioCompleted = TRUE, !.pc = pc, !.leader = FALSE]
    BY <1>4, <2>3
  <2> QED
    BY <1>5, <1>6, <2>0, <2>2, <2>4, <2>5 DEF IoEnds, k, l
<1>7. CASE ~m.leader
  <2>1. k = [noted EXCEPT !.pool.inUse = noted.pool.inUse + 1]
    BY <1>2, <1>4, <1>7
  <2> HIDE DEF k
  <2>0. HasPool(k)
    BY <1>3, <2>1 DEF HasPool
  <2>2. k.sel = x
    BY <1>3, <2>1
  <2>3. k.me = me
    BY <1>3, <2>1
  <2>4. k.pool = [p EXCEPT !.inUseIO = p.inUseIO - 1, !.inUse = p.inUse + 1]
    BY <1>3, <2>1 DEF PoolRec
  <2> QED
    BY <1>4, <1>5, <1>7, <2>0, <2>2, <2>3, <2>4 DEF IoEnds, k, l
<1> QED
  BY <1>6, <1>7

(* The threads that dispatch and one that reads belong to the pool. *)
LEMMA RoomToDispatch ==
    ASSUME Inv, NEW th \in Thread, Performing(thread[th])
    PROVE  pool.inUse + 1 <= Cardinality(pool.threads) /\ Cardinality(pool.threads) <= SizeMax
<1> DEFINE B == {u \in Thread : Dispatching(thread[u])}
<1>1. pool.inUse = Cardinality(B) /\ Cardinality(pool.threads) <= SizeMax
  BY DEF Inv, Whole, Body, Counts
<1>2. th \notin B /\ B \cup {th} \subseteq pool.threads /\ pool.threads \subseteq Thread
  <2>1. \A u \in Thread : Dispatching(thread[u]) \/ Performing(thread[u]) => thread[u].pc \notin {"none", "leaving", "gone"}
    BY DEF Dispatching, Performing
  <2>2. \A u \in Thread : thread[u].pc \notin {"none", "leaving", "gone"} => u \in pool.threads
    BY InvTypes DEF Local
  <2>3. ~Dispatching(thread[th])
    BY DEF Dispatching, Performing
  <2>4. pool.threads \subseteq Thread
    BY InvTypes DEF PoolRec
  <2> QED
    BY <2>1, <2>2, <2>3, <2>4
<1>3. IsFiniteSet(B) /\ IsFiniteSet(pool.threads)
  BY <1>2, Constants, FS_Subset
<1> HIDE DEF B
<1>4. Cardinality(B \cup {th}) = Cardinality(B) + 1
  BY <1>2, <1>3, FS_AddElement
<1>5. Cardinality(B \cup {th}) <= Cardinality(pool.threads)
  BY <1>2, <1>3, FS_Subset
<1> QED
  BY <1>1, <1>4, <1>5

(* ioCompleted(): a thread that read goes on, as one that dispatches or as *)
(* one that ends.                                                          *)
LEMMA IoTaken ==
    ASSUME SizeMax > 1, Inv, NEW th \in Thread, thread[th].pc = "io", NEW pc \in {"user", "leaving"}
    PROVE  LET m == thread[th]
               k == IoCompleted(Here(th), pc)
           IN
           /\ HasPool(k) /\ k.me \in ThreadRec /\ k.me.pc = pc /\ k.me.ioCompleted /\ ~k.me.leader
           /\ k.me.handler = m.handler /\ k.me.item = m.item
           /\ k.pool \in PoolRec /\ k.pool.threads = pool.threads /\ k.pool.destroyed = pool.destroyed
           /\ k.pool.workItems = pool.workItems /\ k.pool.handlers = pool.handlers
           /\ k.pool.inUse = pool.inUse + 1 /\ k.pool.inUseIO = pool.inUseIO - 1
           /\ k.pool.promote <=> \A u \in Thread \ {th} : ~thread[u].leader
           /\ k.sel \in SelectorRec /\ k.sel.registered = sel.registered /\ k.sel.ready = sel.ready
           /\ k.sel.events = sel.events /\ sel.disabled \subseteq k.sel.disabled
           /\ m.handler = WorkQueue => k.sel = sel
           /\ Serialize /\ m.handler \in Handler =>
                m.handler \in k.sel.disabled \/ net.life[m.handler] # "open"
<1> DEFINE m == thread[th]
           k == IoCompleted(Here(th), pc)
<1>1. /\ pool \in PoolRec /\ sel \in SelectorRec /\ m \in ThreadRec /\ Local(th, m, pool)
      /\ pool.inUse \in Int /\ pool.inUseIO \in Nat
  BY InvTypes
<1>2. m.handler \in EventHandler /\ Performing(m)
  BY <1>1 DEF Local, Performing
<1>3. IoEnds(k, pool, sel, m, pc)
  BY <1>1, IoFacts DEF Here
<1>4. pool.inUseIO - 1 \in 0 .. SizeIO
  <2>1. pool.inUseIO \in 0 .. SizeIO /\ SizeIO \in Nat /\ pool.inUseIO >= 1
    BY <1>1, <1>2, CountedOnce, Constants DEF PoolRec
  <2> QED
    BY <2>1
<1>5. pool.inUse + 1 \in -1 .. SizeMax
  <2>1. pool.inUse \in -1 .. SizeMax /\ SizeMax \in Nat
    BY <1>1, Constants DEF PoolRec
  <2>2. Cardinality(pool.threads) \in Nat
    <3>1. IsFiniteSet(pool.threads)
      BY <1>1, Constants, FS_Subset DEF PoolRec
    <3> QED
      BY <3>1, FS_CardinalityType
  <2> QED
    BY <1>2, <2>1, <2>2, RoomToDispatch
<1>6. /\ thread[th].leader => ~pool.promote /\ \A u \in Thread \ {th} : ~thread[u].leader
      /\ ~thread[th].leader => (pool.promote <=> \A u \in Thread \ {th} : ~thread[u].leader)
  BY OthersLead
<1> HIDE DEF k, m
<1>D. \/ /\ m.leader
         /\ k.me = [m EXCEPT !.ioCompleted = TRUE, !.pc = pc, !.leader = FALSE]
         /\ k.pool = [pool EXCEPT !.inUseIO = pool.inUseIO - 1, !.promote = TRUE, !.inUse = pool.inUse + 1]
      \/ /\ ~m.leader
         /\ k.me = [m EXCEPT !.ioCompleted = TRUE, !.pc = pc]
         /\ k.pool = [pool EXCEPT !.inUseIO = pool.inUseIO - 1, !.inUse = pool.inUse + 1]
  BY <1>3 DEF IoEnds
<1>P. HasPool(k)
  BY <1>3 DEF IoEnds
<1>7. k.me \in ThreadRec /\ k.me.pc = pc /\ k.me.ioCompleted /\ ~k.me.leader /\ k.me.handler = m.handler /\ k.me.item = m.item
  BY <1>1, <1>D DEF ThreadRec
<1>8. /\ k.pool \in PoolRec /\ k.pool.threads = pool.threads /\ k.pool.destroyed = pool.destroyed
      /\ k.pool.workItems = pool.workItems /\ k.pool.handlers = pool.handlers
      /\ k.pool.inUse = pool.inUse + 1 /\ k.pool.inUseIO = pool.inUseIO - 1
      /\ IF m.leader THEN k.pool.promote = TRUE ELSE k.pool.promote = pool.promote
  BY <1>1, <1>4, <1>5, <1>D, ZenonT(60) DEF PoolRec
<1>9. k.pool.promote <=> \A u \in Thread \ {th} : ~thread[u].leader
  BY <1>6, <1>8 DEF m
<1>10. k.sel = (IF Serialize /\ m.handler # WorkQueue /\ ~pool.destroyed THEN Disable(sel, m.handler) ELSE sel)
  BY <1>3 DEF IoEnds
<1>11. CASE Serialize /\ m.handler # WorkQueue /\ ~pool.destroyed
  <2>1. m.handler \in Handler /\ k.sel = Disable(sel, m.handler)
    BY <1>2, <1>10, <1>11 DEF EventHandler
  <2>2. /\ k.sel \in SelectorRec /\ k.sel.registered = sel.registered /\ k.sel.ready = sel.ready
        /\ k.sel.events = sel.events /\ k.sel.disabled = sel.disabled \cup {m.handler}
    BY <1>1, <2>1, EnableFacts DEF SameSelector
  <2> QED
    BY <1>7, <1>8, <1>9, <1>11, <1>P, <2>2 DEF k, m
<1>12. CASE ~(Serialize /\ m.handler # WorkQueue /\ ~pool.destroyed)
  <2>1. k.sel = sel
    BY <1>10, <1>12
  <2>2. Serialize /\ m.handler \in Handler => net.life[m.handler] # "open"
    <3>1. pool.destroyed => \A h \in Handler : net.life[h] # "open"
      BY DEF Inv, Whole, Body, Alive
    <3> QED
      BY <1>12, <3>1, Constants
  <2> QED
    BY <1>1, <1>7, <1>8, <1>9, <1>P, <2>1, <2>2 DEF k, m
<1> QED
  BY <1>11, <1>12

LEMMA NewFollower ==
    ASSUME NEW th \in Thread, NEW T \in [Thread -> ThreadRec], NEW me, NEW Q, ~me.leader,
           \A u, v \in Thread \ {th} : T[u].leader /\ T[v].leader => u = v,
           Q.promote <=> \A u \in Thread \ {th} : ~T[u].leader
    PROVE  Leadership([T EXCEPT ![th] = me], Q)
<1> DEFINE V == [T EXCEPT ![th] = me]
<1>1. V[th] = me /\ \A u \in Thread \ {th} : V[u] = T[u]
  OBVIOUS
<1> HIDE DEF V
<1> QED
  BY <1>1 DEF Leadership, V

(* What a thread that read is to the others once ioCompleted() returns. *)
LEMMA IoWhole ==
    ASSUME Inv, NEW th \in Thread, thread[th].pc = "io",
           NEW me \in ThreadRec, NEW Q \in PoolRec, NEW R \in SelectorRec,
           \/ me.pc = "user" /\ Q.inUse = pool.inUse + 1
           \/ me.pc = "leaving" /\ me.item = NoItem /\ Q.inUse = pool.inUse,
           me.ioCompleted, ~me.leader, me.handler = thread[th].handler,
           Q.threads = pool.threads, Q.destroyed = pool.destroyed,
           Q.workItems = pool.workItems, Q.handlers = pool.handlers, Q.inUseIO = pool.inUseIO - 1,
           Q.promote <=> \A u \in Thread \ {th} : ~thread[u].leader,
           R.registered = sel.registered, R.ready = sel.ready, R.events = sel.events, sel.disabled \subseteq R.disabled,
           Serialize /\ me.handler \in Handler => me.handler \in R.disabled \/ net.life[me.handler] # "open"
    PROVE  Whole([thread EXCEPT ![th] = me], Q, R, net)
<1> DEFINE m == thread[th]
           U == Thread \ {th}
           q == [pool EXCEPT !.inUseIO = pool.inUseIO - 1]
<1>1. /\ thread \in [Thread -> ThreadRec] /\ pool \in PoolRec /\ sel \in SelectorRec /\ m \in ThreadRec
      /\ Body(Thread, thread, pool, sel, net) /\ Local(th, m, pool) /\ pool.inUse \in Int /\ pool.inUseIO \in Nat
  BY InvTypes
<1>2. m.handler \in EventHandler /\ Performing(m) /\ ~Dispatching(m) /\ th \in pool.threads
  BY <1>1 DEF Local, Performing, Dispatching
<1>3. pool.inUseIO - 1 \in 0 .. SizeIO
  BY DEF PoolRec
<1>4. /\ q \in PoolRec /\ q.threads = pool.threads /\ q.destroyed = pool.destroyed /\ q.workItems = pool.workItems
      /\ q.handlers = pool.handlers /\ q.inUse = pool.inUse /\ q.inUseIO = pool.inUseIO - 1
  BY <1>1, <1>3 DEF PoolRec
<1>5. q.inUseIO = pool.inUseIO - (IF Performing(m) THEN 1 ELSE 0) /\ q.inUse = pool.inUse - (IF Dispatching(m) THEN 1 ELSE 0)
  BY <1>1, <1>2, <1>4
<1> HIDE DEF q
<1>6. Body(Thread \ {th}, thread, q, sel, net)
  BY <1>1, <1>2, <1>4, <1>5, TakeThread
<1>7. ~Performing(me) /\ (Dispatching(me) <=> me.pc = "user")
  BY DEF Performing, Dispatching
<1>8. SameLists(Q, R, q, sel)
  <2>1. pool.handlers \in Seq(EventHandler)
    BY <1>1 DEF PoolRec
  <2>2. Suffix(pool.handlers, pool.handlers)
    BY <2>1, SuffixSelf
  <2> QED
    BY <1>4, <2>2 DEF SameLists
<1>9. Local(th, me, Q)
  BY <1>2 DEF Local
<1>10. ASSUME NEW u \in U, thread[u].handler = me.handler, Serialize, me.handler \in Handler
       PROVE  ~Dispatching(thread[u]) /\ ~Performing(thread[u])
  <2>1. ~Performing(thread[u])
    BY <1>1, <1>2, <1>10 DEF Body, Readers
  <2>2. ~Dispatching(thread[u])
    BY <1>1, <1>2, <1>10 DEF Body, Serial
  <2> QED
    BY <2>1, <2>2
<1>11. Fits(me, Thread \ {th}, thread, Q, R, net)
  BY <1>7, <1>10 DEF Fits
<1>12. Q.inUseIO = q.inUseIO + (IF Performing(me) THEN 1 ELSE 0) /\ Q.inUse = q.inUse + (IF Dispatching(me) THEN 1 ELSE 0)
  BY <1>1, <1>4, <1>7
<1>13. Body(Thread, [thread EXCEPT ![th] = me], Q, R, net)
  BY <1>6, <1>8, <1>9, <1>11, <1>12, PutThread
<1>14. Leadership([thread EXCEPT ![th] = me], Q)
  BY <1>1, OthersLead, NewFollower
<1> QED
  BY <1>13, <1>14 DEF Whole

(* A thread is started. *)
LEMMA GrowWhole ==
    ASSUME NEW T, NEW P \in PoolRec, NEW S, NEW N, Whole(T, P, S, N), NEW new \in Thread,
           T[new].pc \in {"none", "gone"}, Cardinality(P.threads) < SizeMax
    PROVE  Whole([T EXCEPT ![new] = NewThread("follower")], [P EXCEPT !.threads = P.threads \cup {new}], S, N)
<1> DEFINE V == [T EXCEPT ![new] = NewThread("follower")]
           Q == [P EXCEPT !.threads = P.threads \cup {new}]
<1>1. NewThread("follower") \in ThreadRec /\ ~Performing(NewThread("follower")) /\ ~Dispatching(NewThread("follower"))
      /\ ~NewThread("follower").leader /\ NewThread("follower").pc = "follower" /\ NewThread("follower").item = NoItem
  BY DEF NewThread, ThreadRec, Performing, Dispatching
<1>2. T \in [Thread -> ThreadRec] /\ V \in [Thread -> ThreadRec] /\ Data(N) /\ S \in SelectorRec /\ N \in NetRec
  BY <1>1 DEF Whole, Body, Types
<1>3. V[new] = NewThread("follower") /\ \A u \in Thread : u # new => V[u] = T[u]
  BY <1>2
<1>4. /\ Q \in PoolRec /\ Q.destroyed = P.destroyed /\ Q.workItems = P.workItems /\ Q.handlers = P.handlers
      /\ Q.inUse = P.inUse /\ Q.inUseIO = P.inUseIO /\ Q.promote = P.promote /\ Q.threads = P.threads \cup {new}
  BY DEF PoolRec
<1> HIDE DEF V, Q
<1>5. ~Performing(T[new]) /\ ~Dispatching(T[new]) /\ ~T[new].leader
  BY DEF Performing, Dispatching, Whole, Body, Locals, Local
<1>6. \A u \in Thread : /\ Performing(V[u]) <=> Performing(T[u])
                        /\ Dispatching(V[u]) <=> Dispatching(T[u])
                        /\ V[u].leader = T[u].leader
                        /\ Performing(V[u]) \/ Dispatching(V[u]) => V[u].handler = T[u].handler
                        /\ V[u].pc \in {"message", "io", "selected"} \/ T[u].pc \in {"message", "io", "selected"} => V[u] = T[u]
  <2>1. T[new].leader = FALSE /\ NewThread("follower").leader = FALSE
    BY <1>2, <1>5 DEF ThreadRec, NewThread
  <2> QED
    BY <1>1, <1>3, <1>5, <2>1
<1>7. Locals(Thread, V, Q)
  <2> SUFFICES ASSUME NEW u \in Thread PROVE Local(u, V[u], Q)
    BY DEF Locals
  <2>1. Local(u, T[u], P)
    BY DEF Whole, Body, Locals
  <2>2. CASE u = new
    BY <1>1, <1>3, <1>4, <2>2 DEF Local
  <2>3. CASE u # new
    BY <1>3, <1>4, <2>1, <2>3 DEF Local
  <2> QED
    BY <2>2, <2>3
<1>8. Counts(Thread, V, Q)
  <2>1. {u \in Thread : Performing(V[u])} = {u \in Thread : Performing(T[u])}
    BY <1>6
  <2>2. {u \in Thread : Dispatching(V[u])} = {u \in Thread : Dispatching(T[u])}
    BY <1>6
  <2>3. IsFiniteSet(P.threads)
    BY Constants, FS_Subset DEF PoolRec
  <2>4. Cardinality(P.threads) \in Nat
        /\ Cardinality(P.threads \cup {new}) = IF new \in P.threads THEN Cardinality(P.threads) ELSE Cardinality(P.threads) + 1
    BY <2>3, FS_CardinalityType, FS_AddElement
  <2>5. Cardinality(P.threads \cup {new}) <= SizeMax
    <3>1. Cardinality(P.threads \cup {new}) \in Nat
      BY <2>3, FS_AddElement, FS_CardinalityType
    <3> QED
      BY <2>4, <3>1, Constants
  <2> QED
    BY <1>4, <2>1, <2>2, <2>5 DEF Whole, Body, Counts
<1>9. Readers(Thread, V, Q)
  <2>1. Readers(Thread, T, P)
    BY DEF Whole, Body
  <2> QED
    BY <1>4, <1>6, <2>1 DEF Readers
<1>10. Serial(Thread, V, S, N)
  <2>1. Serial(Thread, T, S, N)
    BY DEF Whole, Body
  <2>2. ASSUME Serialize, NEW u \in Thread, NEW v \in Thread, u # v, V[u].handler = V[v].handler, V[u].handler \in Handler,
               Dispatching(V[u]), Performing(V[v]) \/ Dispatching(V[v])
        PROVE  FALSE
    <3>1. T[u].handler = V[u].handler /\ T[v].handler = V[v].handler
      BY <1>6, <2>2
    <3> QED
      BY <1>6, <2>1, <2>2, <3>1 DEF Serial
  <2> QED
    BY <1>6, <2>1, <2>2 DEF Serial
<1>11. Alive(Thread, V, Q, S, N)
  <2>1. Alive(Thread, T, P, S, N)
    BY DEF Whole, Body
  <2> QED
    BY <1>4, <1>6, <2>1 DEF Alive
<1>12. Work(Thread, V, Q, S)
  <2>1. Work(Thread, T, P, S)
    BY DEF Whole, Body
  <2> QED
    BY <1>4, <1>6, <2>1 DEF Work
<1>13. Leadership(V, Q)
  <2>1. Leadership(T, P)
    BY DEF Whole
  <2> QED
    BY <1>4, <1>6, <2>1 DEF Leadership
<1> QED
  BY <1>2, <1>4, <1>7, <1>8, <1>9, <1>10, <1>11, <1>12, <1>13 DEF Whole, Body, Types, V, Q

(* A message or a call is dispatched. *)
LEMMA IoCompletedInv ==
    ASSUME SizeMax > 1, Inv, NEW th \in Thread, thread[th].pc = "io",
           IoCompletedUnlock(th, IoCompleted(Here(th), "user")), UNCHANGED net
    PROVE  Inv'
<1> DEFINE k == IoCompleted(Here(th), "user")
           T == [thread EXCEPT ![th] = k.me]
<1>1. /\ k.me \in ThreadRec /\ k.me.pc = "user" /\ k.me.ioCompleted /\ ~k.me.leader
      /\ k.me.handler = thread[th].handler
      /\ k.pool \in PoolRec /\ k.pool.threads = pool.threads /\ k.pool.destroyed = pool.destroyed
      /\ k.pool.workItems = pool.workItems /\ k.pool.handlers = pool.handlers
      /\ k.pool.inUse = pool.inUse + 1 /\ k.pool.inUseIO = pool.inUseIO - 1
      /\ k.pool.promote <=> \A u \in Thread \ {th} : ~thread[u].leader
      /\ k.sel \in SelectorRec /\ k.sel.registered = sel.registered /\ k.sel.ready = sel.ready
      /\ k.sel.events = sel.events /\ sel.disabled \subseteq k.sel.disabled
      /\ Serialize /\ thread[th].handler \in Handler =>
           thread[th].handler \in k.sel.disabled \/ net.life[thread[th].handler] # "open"
  BY IoTaken
<1>2. thread \in [Thread -> ThreadRec]
  BY InvTypes
<1>3. /\ sel' = k.sel
      /\ IF SizeMax > 1 /\ Grows(k)
         THEN \E new \in {t \in Thread : thread[t].pc \in {"none", "gone"}} :
                /\ pool' = [k.pool EXCEPT !.threads = k.pool.threads \cup {new}]
                /\ thread' \in NotifyOne([thread EXCEPT ![th] = k.me, ![new] = NewThread("follower")], k.notify)
         ELSE /\ pool' = k.pool
              /\ thread' \in NotifyOne([thread EXCEPT ![th] = k.me], k.notify)
  BY DEF IoCompletedUnlock
<1> HIDE DEF k
<1>4. Whole(T, k.pool, k.sel, net)
  BY <1>1, IoWhole
<1>5. CASE ~Grows(k)
  <2>1. pool' = k.pool /\ thread' \in NotifyOne(T, k.notify)
    BY <1>3, <1>5
  <2>2. Whole(thread', k.pool, k.sel, net)
    BY <1>4, <2>1, NotifyWhole
  <2> QED
    BY <1>3, <2>1, <2>2 DEF Inv
<1>6. CASE Grows(k)
  <2>1. PICK new \in Thread : /\ thread[new].pc \in {"none", "gone"}
                              /\ pool' = [k.pool EXCEPT !.threads = k.pool.threads \cup {new}]
                              /\ thread' \in NotifyOne([thread EXCEPT ![th] = k.me, ![new] = NewThread("follower")], k.notify)
    BY <1>3, <1>6
  <2>2. new # th /\ T[new] = thread[new]
    BY <1>2, <2>1
  <2>3. Cardinality(k.pool.threads) < SizeMax
    BY <1>6 DEF Grows
  <2> DEFINE V == [T EXCEPT ![new] = NewThread("follower")]
             Q == [k.pool EXCEPT !.threads = k.pool.threads \cup {new}]
  <2>4. Whole(V, Q, k.sel, net)
    BY <1>1, <1>4, <2>1, <2>2, <2>3, GrowWhole
  <2>5. Whole(thread', Q, k.sel, net)
    BY <2>1, <2>4, NotifyWhole
  <2> QED
    BY <1>3, <2>1, <2>5 DEF Inv
<1> QED
  BY <1>5, <1>6

(* The pool is destroyed: a thread ends. *)
LEMMA RunDestroyedInv ==
    ASSUME SizeMax > 1, Inv, NEW th \in Thread, RunDestroyed(th)
    PROVE  Inv'
<1> DEFINE l == IoCompleted(Here(th), "leaving")
           k == [l EXCEPT !.pool.inUse = l.pool.inUse - 1]
<1>1. thread[th].pc = "io" /\ thread[th].handler = WorkQueue /\ thread[th].item = NoItem /\ Unlock(th, k) /\ UNCHANGED net
  BY DEF RunDestroyed
<1>2. /\ HasPool(l) /\ l.me \in ThreadRec /\ l.me.pc = "leaving" /\ l.me.ioCompleted /\ ~l.me.leader
      /\ l.me.handler = thread[th].handler /\ l.me.item = thread[th].item
      /\ l.pool \in PoolRec /\ l.pool.threads = pool.threads /\ l.pool.destroyed = pool.destroyed
      /\ l.pool.workItems = pool.workItems /\ l.pool.handlers = pool.handlers
      /\ l.pool.inUse = pool.inUse + 1 /\ l.pool.inUseIO = pool.inUseIO - 1
      /\ l.pool.promote <=> \A u \in Thread \ {th} : ~thread[u].leader
      /\ thread[th].handler = WorkQueue => l.sel = sel
  BY <1>1, IoTaken
<1>3. pool \in PoolRec /\ sel \in SelectorRec /\ pool.inUse \in Int
  BY InvTypes
<1>4. k.me = l.me /\ k.sel = sel /\ k.pool = [l.pool EXCEPT !.inUse = l.pool.inUse - 1]
  <2> HIDE DEF l
  <2> QED
    BY <1>1, <1>2 DEF HasPool
<1> HIDE DEF l, k
<1> DEFINE Q == [l.pool EXCEPT !.inUse = l.pool.inUse - 1]
<1>5. l.pool.inUse - 1 = pool.inUse /\ pool.inUse \in -1 .. SizeMax
  BY <1>2, <1>3 DEF PoolRec
<1>6. /\ Q \in PoolRec /\ Q.threads = pool.threads /\ Q.destroyed = pool.destroyed
      /\ Q.workItems = pool.workItems /\ Q.handlers = pool.handlers
      /\ Q.inUse = pool.inUse /\ Q.inUseIO = pool.inUseIO - 1 /\ Q.promote = l.pool.promote
  BY <1>2, <1>5 DEF PoolRec
<1> HIDE DEF Q
<1>7. l.me.handler \notin Handler
  BY <1>1, <1>2, Constants
<1>8. Q.promote <=> \A u \in Thread \ {th} : ~thread[u].leader
  BY <1>2, <1>6
<1>9. Whole([thread EXCEPT ![th] = l.me], Q, sel, net)
  BY <1>1, <1>2, <1>3, <1>6, <1>7, <1>8, IoWhole
<1> QED
  BY <1>1, <1>4, <1>9, UnlockInv DEF Q

-----------------------------------------------------------------------------
(* select() has returned: first what epoll has, then what is ready. *)
LEMMA FinishFacts ==
    ASSUME NEW s \in SelectorRec, NEW order \in FinishSelect(s)
    PROVE  /\ order \in Seq(EventHandler) /\ IsInjective(order)
           /\ Range(order) \subseteq s.events \cup ReadyHandlers(s)
           /\ \A i, j \in DOMAIN order : i < j /\ order[i] \in ReadyHandlers(s) => order[j] \in ReadyHandlers(s)
<1> DEFINE B == ReadyHandlers(s)
           A == s.events \ B
           orders(S) == {q \in [1 .. Cardinality(S) -> S] : IsInjective(q)}
<1>1. A \subseteq EventHandler /\ B \subseteq EventHandler /\ A \cap B = {}
  BY DEF SelectorRec, ReadyHandlers, EventHandler
<1>2. Cardinality(A) \in Nat /\ Cardinality(B) \in Nat
  <2>1. IsFiniteSet(EventHandler)
    BY Constants, FS_AddElement DEF EventHandler
  <2>2. IsFiniteSet(A) /\ IsFiniteSet(B)
    BY <1>1, <2>1, FS_Subset
  <2> QED
    BY <2>2, FS_CardinalityType
<1>3. PICK q \in orders(A), r \in orders(B) : order = q \o r
  <2>1. order \in {c[1] \o c[2] : c \in orders(A) \X orders(B)}
    BY DEF FinishSelect
  <2>2. PICK c \in orders(A) \X orders(B) : order = c[1] \o c[2]
    BY <2>1
  <2>3. c[1] \in orders(A) /\ c[2] \in orders(B)
    BY <2>2
  <2> QED
    BY <2>2, <2>3
<1> HIDE DEF A, B
<1> DEFINE n == Cardinality(A)
           m == Cardinality(B)
<1>4. /\ q \in [1 .. n -> A] /\ IsInjective(q) /\ r \in [1 .. m -> B] /\ IsInjective(r)
      /\ n \in Nat /\ m \in Nat
  BY <1>2, <1>3
<1> HIDE DEF n, m
<1>5. q \in Seq(EventHandler) /\ Len(q) = n /\ r \in Seq(EventHandler) /\ Len(r) = m
  <2>1. q \in [1 .. n -> EventHandler] /\ r \in [1 .. m -> EventHandler]
    BY <1>1, <1>4
  <2>2. q \in Seq(EventHandler) /\ r \in Seq(EventHandler)
    BY <1>4, <2>1, SeqDef
  <2>3. DOMAIN q = 1 .. Len(q) /\ DOMAIN r = 1 .. Len(r) /\ Len(q) \in Nat /\ Len(r) \in Nat
    BY <2>2, LenProperties
  <2> QED
    BY <1>4, <2>2, <2>3
<1>6. /\ order \in Seq(EventHandler) /\ Len(order) = n + m
      /\ \A i \in 1 .. n + m : order[i] = IF i <= n THEN q[i] ELSE r[i - n]
  <2>1. /\ q \o r \in Seq(EventHandler) /\ Len(q \o r) = Len(q) + Len(r)
        /\ \A i \in 1 .. Len(q) + Len(r) : (q \o r)[i] = IF i <= Len(q) THEN q[i] ELSE r[i - Len(q)]
    BY <1>5, ConcatProperties
  <2> QED
    BY <1>3, <1>5, <2>1, Zenon
<1>7. DOMAIN order = 1 .. n + m
  BY <1>6, LenProperties
<1>8. ASSUME NEW i \in DOMAIN order
      PROVE  /\ i \in Nat
             /\ i <= n => i \in 1 .. n /\ order[i] = q[i] /\ order[i] \in A
             /\ ~(i <= n) => i - n \in 1 .. m /\ order[i] = r[i - n] /\ order[i] \in B
  <2>1. i \in Nat /\ i >= 1 /\ i <= n + m
    BY <1>4, <1>7
  <2>2. CASE i <= n
    <3>1. i \in 1 .. n
      BY <1>4, <2>1, <2>2
    <3> QED
      BY <1>4, <1>6, <1>7, <2>1, <2>2, <3>1
  <2>3. CASE ~(i <= n)
    <3>1. i - n \in 1 .. m
      BY <1>4, <2>1, <2>3
    <3> QED
      BY <1>4, <1>6, <1>7, <2>1, <2>3, <3>1
  <2> QED
    BY <2>2, <2>3
<1>9. IsInjective(order)
  <2> SUFFICES ASSUME NEW i \in DOMAIN order, NEW j \in DOMAIN order, order[i] = order[j] PROVE i = j
    BY DEF IsInjective
  <2>1. CASE i <= n /\ j <= n
    <3>1. q[i] = q[j] /\ i \in DOMAIN q /\ j \in DOMAIN q
      BY <1>4, <1>8, <2>1
    <3> QED
      BY <1>4, <3>1 DEF IsInjective
  <2>2. CASE ~(i <= n) /\ ~(j <= n)
    <3>1. r[i - n] = r[j - n] /\ i - n \in DOMAIN r /\ j - n \in DOMAIN r
      BY <1>4, <1>8, <2>2
    <3>2. i - n = j - n
      BY <1>4, <3>1 DEF IsInjective
    <3> QED
      BY <1>4, <1>8, <3>2
  <2>3. CASE (i <= n /\ ~(j <= n)) \/ (~(i <= n) /\ j <= n)
    BY <1>1, <1>8, <2>3
  <2> QED
    BY <2>1, <2>2, <2>3
<1>10. Range(order) \subseteq s.events \cup B
  <2>1. \A i \in DOMAIN order : order[i] \in A \/ order[i] \in B
    BY <1>8
  <2> QED
    BY <2>1 DEF Range, A
<1>11. ASSUME NEW i \in DOMAIN order, NEW j \in DOMAIN order, i < j, order[i] \in B PROVE order[j] \in B
  <2>1. ~(i <= n)
    BY <1>1, <1>8, <1>11
  <2>2. ~(j <= n)
    BY <1>4, <1>8, <1>11, <2>1
  <2> QED
    BY <1>8, <2>2
<1> QED
  BY <1>6, <1>9, <1>10, <1>11 DEF B

LEMMA SelectedInv ==
    ASSUME SizeMax > 1, Inv, NEW th \in Thread, Selected(th)
    PROVE  Inv'
<1> DEFINE m == thread[th]
           U == Thread \ {th}
           l == Here(th)
<1>1. PICK order \in FinishSelect(sel) :
        Unlock(th, Lead([l EXCEPT !.pool.handlers = order, !.sel.selecting = FALSE, !.sel.events = {}]))
  BY DEF Selected
<1>2. m.pc = "selected" /\ UNCHANGED net
  BY DEF Selected
<1> DEFINE p == [pool EXCEPT !.handlers = order]
           s == [sel EXCEPT !.selecting = FALSE, !.events = {}]
           x == [l EXCEPT !.pool.handlers = order, !.sel.selecting = FALSE, !.sel.events = {}]
<1>3. /\ thread \in [Thread -> ThreadRec] /\ pool \in PoolRec /\ sel \in SelectorRec /\ m \in ThreadRec
      /\ Body(Thread, thread, pool, sel, net) /\ Local(th, m, pool) /\ pool.inUse \in Int /\ pool.inUseIO \in Nat
  BY InvTypes
<1>4. /\ order \in Seq(EventHandler) /\ IsInjective(order)
      /\ Range(order) \subseteq sel.events \cup ReadyHandlers(sel)
      /\ \A i, j \in DOMAIN order : i < j /\ order[i] \in ReadyHandlers(sel) => order[j] \in ReadyHandlers(sel)
  BY <1>3, FinishFacts
<1>5. m.leader /\ pool.inUseIO = 0 /\ th \in pool.threads /\ m.item = NoItem /\ ~Performing(m) /\ ~Dispatching(m)
  BY <1>2, <1>3 DEF Local, Performing, Dispatching
<1>6. ~pool.promote /\ \A u \in U : ~thread[u].leader
  BY <1>5, OthersLead
<1>7. /\ p \in PoolRec /\ p.threads = pool.threads /\ p.destroyed = pool.destroyed /\ p.workItems = pool.workItems
      /\ p.inUse = pool.inUse /\ p.inUseIO = pool.inUseIO /\ p.promote = pool.promote /\ p.handlers = order
  BY <1>3, <1>4 DEF PoolRec
<1>8. /\ s \in SelectorRec /\ s.registered = sel.registered /\ s.ready = sel.ready /\ s.disabled = sel.disabled
      /\ s.events = {}
  BY <1>3 DEF SelectorRec
<1>9. x = Locked(p, s, m, FALSE)
  <2>1. x.pool = p /\ x.sel = s /\ x.me = m /\ x.notify = FALSE
    BY DEF Here, Locked
  <2>2. l \in LockedRec
    BY <1>3 DEF LockedRec, Here, Locked
  <2>3. x \in LockedRec
    <3> HIDE DEF p, s, l
    <3> QED
      BY <1>7, <1>8, <2>1, <2>2 DEF LockedRec
  <2> HIDE DEF x
  <2> QED
    BY <2>1, <2>3, LockedFields
<1> HIDE DEF p, s, x, l
<1>10. \A u \in Thread : ~Performing(thread[u])
  <2> DEFINE A == {u \in Thread : Performing(thread[u])}
  <2>1. Cardinality(A) = 0
    BY <1>3, <1>5 DEF Body, Counts
  <2>2. IsFiniteSet(A)
    BY Constants, FS_Subset
  <2> HIDE DEF A
  <2>3. A = {}
    BY <2>1, <2>2, FS_EmptySet
  <2> QED
    BY <2>3 DEF A
<1>11. \A u \in Thread : thread[u].pc # "message" /\ thread[u].pc # "io"
  BY <1>10 DEF Performing
<1>12. Types(thread, p, s, net) /\ Data(net)
  BY <1>3, <1>7, <1>8 DEF Body, Types
<1>13. Locals(U, thread, p)
  <2> SUFFICES ASSUME NEW u \in U PROVE Local(u, thread[u], p)
    BY DEF Locals
  <2>1. Local(u, thread[u], pool) /\ ~thread[u].leader
    BY <1>6, InvTypes
  <2> QED
    BY <1>7, <2>1 DEF Local
<1>14. Counts(U, thread, p)
  <2>1. {u \in U : Performing(thread[u])} = {u \in Thread : Performing(thread[u])}
    BY <1>5
  <2>2. {u \in U : Dispatching(thread[u])} = {u \in Thread : Dispatching(thread[u])}
    BY <1>5
  <2> QED
    BY <1>3, <1>7, <2>1, <2>2 DEF Body, Counts
<1>15. Readers(U, thread, p)
  BY <1>4, <1>7, <1>10 DEF Readers
<1>16. Serial(U, thread, s, net)
  BY <1>3, <1>8 DEF Body, Serial
<1>17. Alive(U, thread, p, s, net)
  <2>1. Alive(Thread, thread, pool, sel, net)
    BY <1>3 DEF Body
  <2>2. \A h \in Handler : net.life[h] # "open" => h \notin sel.registered
    BY <2>1 DEF Alive
  <2>3. ASSUME NEW h \in Handler, h \in Range(order) PROVE net.life[h] # "finished"
    <3>1. CASE h \in sel.events
      BY <2>1, <3>1 DEF Alive
    <3>2. CASE h \in ReadyHandlers(sel)
      BY <2>2, <3>2 DEF ReadyHandlers
    <3> QED
      BY <1>4, <2>3, <3>1, <3>2
  <2>4. ASSUME NEW h \in Handler, pool.workItems # <<>>, Head(pool.workItems) = Fin(h),
               NEW i \in DOMAIN order, NEW j \in DOMAIN order, i < j, order[i] = WorkQueue
        PROVE  order[j] # h
    <3>1. Fin(h) \in Range(pool.workItems)
      <4>1. pool.workItems \in Seq(Item)
        BY <1>3 DEF PoolRec
      <4>2. Len(pool.workItems) \in Nat \ {0} /\ DOMAIN pool.workItems = 1 .. Len(pool.workItems)
        BY <2>4, <4>1, EmptySeq, LenProperties
      <4>3. Head(pool.workItems) = pool.workItems[1] /\ 1 \in DOMAIN pool.workItems
        BY <4>1, <4>2
      <4> QED
        BY <2>4, <4>3 DEF Range
    <3>2. h \notin sel.registered
      BY <2>1, <2>2, <3>1 DEF Alive
    <3>3. WorkQueue \in ReadyHandlers(sel)
      <4>1. order[i] \in Range(order)
        BY DEF Range
      <4>2. WorkQueue \notin sel.events
        BY <1>3, Constants DEF SelectorRec
      <4> QED
        BY <1>4, <2>4, <4>1, <4>2
    <3>4. order[j] \in ReadyHandlers(sel)
      BY <1>4, <2>4, <3>3
    <3> QED
      BY <3>2, <3>4 DEF ReadyHandlers
  <2>5. \A h \in Handler : h \in s.events \cup Range(p.handlers) => net.life[h] # "finished"
    BY <1>7, <1>8, <2>3
  <2>6. \A h \in Handler : Fin(h) \in Range(p.workItems) => net.life[h] # "open"
    BY <1>7, <2>1 DEF Alive
  <2>7. p.destroyed => \A h \in Handler : net.life[h] # "open"
    BY <1>7, <2>1 DEF Alive
  <2> QED
    BY <1>7, <1>8, <1>11, <2>2, <2>4, <2>5, <2>6, <2>7 DEF Alive
<1>18. Work(U, thread, p, s)
  <2>1. Work(Thread, thread, pool, sel)
    BY <1>3 DEF Body
  <2>2. WorkQueue \in Range(order) => WorkQueue \in sel.ready
    <3>1. WorkQueue \notin sel.events
      BY <1>3, Constants DEF SelectorRec
    <3> QED
      BY <1>4, <3>1 DEF ReadyHandlers
  <2> QED
    BY <1>7, <1>8, <1>11, <2>1, <2>2 DEF Work
<1>19. Body(Thread \ {th}, thread, p, s, net)
  BY <1>12, <1>13, <1>14, <1>15, <1>16, <1>17, <1>18 DEF Body
<1>20. p.inUseIO < SizeIO
  BY <1>5, <1>7, Constants
<1>21. ~p.promote /\ th \in p.threads
  BY <1>5, <1>6, <1>7
<1> HIDE DEF m
<1>22. LET y == Lead(Locked(p, s, m, FALSE)) IN Whole([thread EXCEPT ![th] = y.me], y.pool, y.sel, net)
  BY <1>3, <1>5, <1>6, <1>7, <1>8, <1>19, <1>20, <1>21, LeadWhole
<1>23. Unlock(th, Lead(Locked(p, s, m, FALSE)))
  BY <1>1, <1>9 DEF x
<1> QED
  BY <1>2, <1>22, <1>23, UnlockInv

-----------------------------------------------------------------------------
(* The other threads and the clients change what the pool has to do, not   *)
(* what its threads are.                                                   *)
LEMMA EnvWhole ==
    ASSUME NEW T, NEW P, NEW S, NEW N, Whole(T, P, S, N),
           NEW Q \in PoolRec, NEW R \in SelectorRec, NEW M \in NetRec,
           Q.threads \subseteq P.threads, \A u \in P.threads \ Q.threads : T[u].pc = "leaving",
           Q.handlers = P.handlers, Q.inUse = P.inUse, Q.inUseIO = P.inUseIO, Q.promote = P.promote,
           R.disabled = S.disabled, \A h \in Handler : N.life[h] # "open" => M.life[h] # "open",
           Data(M), Alive(Thread, T, Q, R, M), Work(Thread, T, Q, R)
    PROVE  Whole(T, Q, R, M)
<1>1. T \in [Thread -> ThreadRec] /\ P \in PoolRec
  BY DEF Whole, Body, Types
<1>2. Locals(Thread, T, Q)
  <2> SUFFICES ASSUME NEW u \in Thread PROVE Local(u, T[u], Q)
    BY DEF Locals
  <2>1. Local(u, T[u], P)
    BY DEF Whole, Body, Locals
  <2>2. T[u].pc \notin {"none", "leaving", "gone"} => u \in Q.threads
    BY <2>1 DEF Local
  <2> QED
    BY <2>1, <2>2 DEF Local
<1>3. Counts(Thread, T, Q)
  <2>1. IsFiniteSet(P.threads)
    BY <1>1, Constants, FS_Subset DEF PoolRec
  <2>2. Cardinality(Q.threads) <= Cardinality(P.threads) /\ IsFiniteSet(Q.threads)
    BY <2>1, FS_Subset
  <2>3. Cardinality(Q.threads) \in Nat /\ Cardinality(P.threads) \in Nat
    BY <2>1, <2>2, FS_CardinalityType
  <2>4. Cardinality(P.threads) <= SizeMax
    BY DEF Whole, Body, Counts
  <2>5. Cardinality(Q.threads) <= SizeMax
    BY <2>2, <2>3, <2>4, Constants
  <2> QED
    BY <2>5 DEF Whole, Body, Counts
<1>4. Readers(Thread, T, Q)
  BY DEF Whole, Body, Readers
<1>5. Serial(Thread, T, R, M)
  BY <1>1 DEF Whole, Body, Serial
<1>6. Leadership(T, Q)
  BY DEF Whole, Leadership
<1> QED
  BY <1>1, <1>2, <1>3, <1>4, <1>5, <1>6 DEF Whole, Body, Types

LEMMA HeadInRange ==
    ASSUME NEW E, NEW q \in Seq(E), q # <<>>
    PROVE  Head(q) \in Range(q)
<1>1. Len(q) \in Nat \ {0} /\ DOMAIN q = 1 .. Len(q)
  BY EmptySeq, LenProperties
<1>2. Head(q) = q[1] /\ 1 \in DOMAIN q
  BY <1>1
<1> QED
  BY <1>2 DEF Range

LEMMA AppendRange ==
    ASSUME NEW E, NEW q \in Seq(E), NEW e \in E
    PROVE  /\ Append(q, e) \in Seq(E) /\ Append(q, e) # <<>>
           /\ Range(Append(q, e)) \subseteq Range(q) \cup {e}
           /\ Head(Append(q, e)) = IF q = <<>> THEN e ELSE Head(q)
<1> DEFINE a == Append(q, e)
<1>1. /\ a \in Seq(E) /\ a # <<>> /\ Len(a) = Len(q) + 1
      /\ \A i \in 1 .. Len(q) : a[i] = q[i]
      /\ a[Len(q) + 1] = e
  BY AppendProperties
<1>2. Head(a) = IF q = <<>> THEN e ELSE Head(q)
  BY HeadTailAppend
<1> HIDE DEF a
<1>3. Len(q) \in Nat /\ DOMAIN q = 1 .. Len(q) /\ DOMAIN a = 1 .. Len(a)
  BY <1>1, LenProperties
<1>4. ASSUME NEW i \in DOMAIN a PROVE a[i] \in Range(q) \cup {e}
  <2>1. CASE i = Len(q) + 1
    BY <1>1, <2>1
  <2>2. CASE i # Len(q) + 1
    <3>1. i \in DOMAIN q
      BY <1>1, <1>3, <2>2
    <3> QED
      BY <1>1, <1>3, <3>1 DEF Range
  <2> QED
    BY <2>1, <2>2
<1>5. Range(a) \subseteq Range(q) \cup {e}
  BY <1>4 DEF Range
<1> QED
  BY <1>1, <1>2, <1>5 DEF a

(* An item is queued. *)
LEMMA QueueWhole ==
    ASSUME NEW T, NEW P \in PoolRec, NEW S \in SelectorRec, NEW N, Whole(T, P, S, N), ~P.destroyed,
           NEW item \in Item, \A h \in Handler : item = Fin(h) => N.life[h] # "open",
           NEW Q \in PoolRec, Q.workItems = Append(P.workItems, item), Q.destroyed = P.destroyed,
           Q.threads \subseteq P.threads, \A u \in P.threads \ Q.threads : T[u].pc = "leaving",
           Q.handlers = P.handlers, Q.inUse = P.inUse, Q.inUseIO = P.inUseIO, Q.promote = P.promote
    PROVE  Whole(T, Q, Queue(S, P.workItems), N)
<1> DEFINE R == Queue(S, P.workItems)
<1>1. /\ P.workItems \in Seq(Item) /\ Q.workItems # <<>> /\ Range(Q.workItems) \subseteq Range(P.workItems) \cup {item}
      /\ Head(Q.workItems) = IF P.workItems = <<>> THEN item ELSE Head(P.workItems)
  <2>1. P.workItems \in Seq(Item)
    BY DEF PoolRec
  <2> QED
    BY <2>1, AppendRange
<1>2. Work(Thread, T, P, S) /\ Alive(Thread, T, P, S, N) /\ Data(N) /\ N \in NetRec
  BY DEF Whole, Body, Types
<1>3. /\ R \in SelectorRec /\ R.registered = S.registered /\ R.disabled = S.disabled /\ R.events = S.events
      /\ WorkQueue \in R.ready
  <2>1. CASE P.workItems = <<>>
    <3>1. R = SelectorReady(S, WorkQueue, TRUE) /\ WorkQueue \in EventHandler
      BY <2>1 DEF Queue, EventHandler
    <3>2. TRUE \in BOOLEAN
      OBVIOUS
    <3> HIDE DEF R
    <3>3. /\ SameSelector(R, S) /\ R.registered = S.registered /\ R.disabled = S.disabled
          /\ R.ready = IF TRUE THEN S.ready \cup {WorkQueue} ELSE S.ready \ {WorkQueue}
      BY <3>1, <3>2, ReadyFacts
    <3> QED
      BY <3>3 DEF SameSelector
  <2>2. CASE P.workItems # <<>>
    <3>1. R = S
      BY <2>2 DEF Queue
    <3> QED
      BY <1>2, <2>2, <3>1 DEF Work
  <2> QED
    BY <2>1, <2>2
<1> HIDE DEF R
<1>4. Work(Thread, T, Q, R)
  BY <1>1, <1>3 DEF Work
<1>5. Alive(Thread, T, Q, R, N)
  <2>1. \A h \in Handler : Fin(h) \in Range(Q.workItems) => N.life[h] # "open"
    BY <1>1, <1>2 DEF Alive
  <2>2. ASSUME NEW h \in Handler, Head(Q.workItems) = Fin(h)
        PROVE  /\ (\E u \in Thread : T[u].pc = "message" /\ T[u].handler = WorkQueue) => h \notin Range(Q.handlers)
               /\ \A i, j \in DOMAIN Q.handlers : i < j /\ Q.handlers[i] = WorkQueue => Q.handlers[j] # h
    <3>1. CASE P.workItems = <<>>
      <4>1. ~(\E u \in Thread : T[u].pc = "message" /\ T[u].handler = WorkQueue) /\ WorkQueue \notin Range(P.handlers)
        BY <1>2, <3>1 DEF Work
      <4>2. \A i \in DOMAIN Q.handlers : Q.handlers[i] # WorkQueue
        BY <4>1 DEF Range
      <4> QED
        BY <4>1, <4>2
    <3>2. CASE P.workItems # <<>>
      BY <1>1, <1>2, <2>2, <3>2 DEF Alive
    <3> QED
      BY <3>1, <3>2
  <2> QED
    BY <1>2, <1>3, <2>1, <2>2 DEF Alive
<1>6. \A h \in Handler : N.life[h] # "open" => N.life[h] # "open"
  OBVIOUS
<1> QED
  BY <1>2, <1>3, <1>4, <1>5, <1>6, EnvWhole DEF R

-----------------------------------------------------------------------------
(* The clients. *)
LEMMA InvFacts ==
    ASSUME Inv
    PROVE  Whole(thread, pool, sel, net) /\ Alive(Thread, thread, pool, sel, net) /\ Work(Thread, thread, pool, sel) /\ Data(net)
BY DEF Inv, Whole, Body

LEMMA UpdateInv ==
    ASSUME Inv, NEW h \in Handler, Update(h)
    PROVE  Inv'
<1> DEFINE add == h \notin sel.registered
           R == SelectorUpdate(sel, h, add)
<1>1. net.life[h] = "open" /\ sel' = R /\ UNCHANGED <<thread, pool, net>> /\ h \in EventHandler /\ add \in BOOLEAN
  BY DEF Update, EventHandler
<1>2. pool \in PoolRec /\ sel \in SelectorRec /\ net \in NetRec
  BY InvTypes
<1> HIDE DEF add, R
<1>3. /\ SameSelector(R, sel) /\ R.ready = sel.ready /\ R.disabled = sel.disabled
      /\ R.registered \subseteq sel.registered \cup {h}
  BY <1>1, <1>2, UpdateFacts, ZenonT(60) DEF R
<1>4. R \in SelectorRec /\ R.events = sel.events
  BY <1>3 DEF SameSelector
<1>5. Alive(Thread, thread, pool, R, net)
  <2>1. Alive(Thread, thread, pool, sel, net)
    BY InvFacts
  <2> QED
    BY <1>1, <1>3, <1>4, <2>1 DEF Alive
<1>6. Work(Thread, thread, pool, R)
  BY <1>3, InvFacts DEF Work
<1>7. Whole(thread, pool, R, net)
  BY <1>2, <1>3, <1>4, <1>5, <1>6, InvFacts, EnvWhole
<1> QED
  BY <1>1, <1>7 DEF Inv

LEMMA DestroyInv ==
    ASSUME Inv, Destroy
    PROVE  Inv'
<1> DEFINE Q == [pool EXCEPT !.destroyed = TRUE]
           R == SelectorReady(sel, WorkQueue, TRUE)
<1>1. /\ \A h \in Handler : net.life[h] = "finished"
      /\ pool' = Q /\ sel' = R /\ UNCHANGED <<thread, net>> /\ WorkQueue \in EventHandler /\ TRUE \in BOOLEAN
  BY DEF Destroy, EventHandler
<1>2. pool \in PoolRec /\ sel \in SelectorRec /\ net \in NetRec
  BY InvTypes
<1>3. /\ Q \in PoolRec /\ Q.threads = pool.threads /\ Q.destroyed /\ Q.workItems = pool.workItems
      /\ Q.inUse = pool.inUse /\ Q.inUseIO = pool.inUseIO /\ Q.promote = pool.promote /\ Q.handlers = pool.handlers
  BY <1>2 DEF PoolRec
<1> HIDE DEF Q, R
<1>4. /\ SameSelector(R, sel) /\ R.registered = sel.registered /\ R.disabled = sel.disabled
      /\ R.ready = IF TRUE THEN sel.ready \cup {WorkQueue} ELSE sel.ready \ {WorkQueue}
  BY <1>1, <1>2, ReadyFacts DEF R
<1>5. R \in SelectorRec /\ R.events = sel.events /\ WorkQueue \in R.ready
  BY <1>4 DEF SameSelector
<1>6. Alive(Thread, thread, Q, R, net)
  <2>1. Alive(Thread, thread, pool, sel, net)
    BY InvFacts
  <2> QED
    BY <1>1, <1>3, <1>4, <1>5, <2>1 DEF Alive
<1>7. Work(Thread, thread, Q, R)
  BY <1>3, <1>5 DEF Work
<1>8. Whole(thread, Q, R, net)
  BY <1>2, <1>3, <1>4, <1>5, <1>6, <1>7, InvFacts, EnvWhole
<1> QED
  BY <1>1, <1>8 DEF Inv

LEMMA ArriveInv ==
    ASSUME Inv, NEW h \in Handler, Arrive(h)
    PROVE  Inv'
<1> DEFINE M == [net EXCEPT !.arrived[h] = net.arrived[h] + 1, !.data[h] = net.data[h] + 1]
<1>1. net.arrived[h] < Arrivals /\ net' = M /\ UNCHANGED <<thread, pool, sel>>
  BY DEF Arrive
<1>2. pool \in PoolRec /\ sel \in SelectorRec /\ net \in NetRec
  BY InvTypes
<1>3. /\ net.data \in [Handler -> 0 .. Arrivals] /\ net.arrived \in [Handler -> 0 .. Arrivals]
      /\ net.buffer \in [Handler -> 0 .. 1] /\ Arrivals \in Nat
  BY <1>2, Constants DEF NetRec
<1>4. net.data[h] + 1 \in 0 .. Arrivals /\ net.arrived[h] + 1 \in 0 .. Arrivals
  <2>1. net.data[h] + net.buffer[h] <= net.arrived[h]
    BY InvFacts DEF Data
  <2>2. net.data[h] \in 0 .. Arrivals /\ net.buffer[h] \in 0 .. 1 /\ net.arrived[h] \in 0 .. Arrivals
    BY <1>3
  <2> QED
    BY <1>1, <1>3, <2>1, <2>2
<1>5. /\ M \in NetRec /\ M.life = net.life /\ M.buffer = net.buffer
      /\ M.arrived = [net.arrived EXCEPT ![h] = net.arrived[h] + 1] /\ M.data = [net.data EXCEPT ![h] = net.data[h] + 1]
  BY <1>2, <1>3, <1>4 DEF NetRec
<1> HIDE DEF M
<1>6. Data(M)
  <2> SUFFICES ASSUME NEW g \in Handler PROVE M.data[g] + M.buffer[g] <= M.arrived[g]
    BY DEF Data
  <2>1. net.data[g] + net.buffer[g] <= net.arrived[g]
    BY InvFacts DEF Data
  <2>2. net.data[g] \in 0 .. Arrivals /\ net.buffer[g] \in 0 .. 1 /\ net.arrived[g] \in 0 .. Arrivals
    BY <1>3
  <2>3. CASE g = h
    <3>1. M.data[g] = net.data[g] + 1 /\ M.arrived[g] = net.arrived[g] + 1 /\ M.buffer[g] = net.buffer[g]
      BY <1>3, <1>5, <2>3
    <3> QED
      BY <1>3, <2>1, <2>2, <3>1
  <2>4. CASE g # h
    BY <1>3, <1>5, <2>1, <2>4
  <2> QED
    BY <2>3, <2>4
<1>7. Alive(Thread, thread, pool, sel, M)
  <2>1. Alive(Thread, thread, pool, sel, net)
    BY InvFacts
  <2> QED
    BY <1>5, <2>1 DEF Alive
<1>8. Whole(thread, pool, sel, M)
  BY <1>2, <1>5, <1>6, <1>7, InvFacts, EnvWhole
<1> QED
  BY <1>1, <1>8 DEF Inv

(* One more call is made. *)
LEMMA CallWhole ==
    ASSUME Inv, net.executed < Executes
    PROVE  LET M == [net EXCEPT !.executed = net.executed + 1] IN M \in NetRec /\ M.life = net.life /\ Whole(thread, pool, sel, M)
<1> DEFINE M == [net EXCEPT !.executed = net.executed + 1]
<1>1. pool \in PoolRec /\ sel \in SelectorRec /\ net \in NetRec
  BY InvTypes
<1>2. net.executed + 1 \in 0 .. Executes
  BY <1>1, Constants DEF NetRec
<1>3. M \in NetRec /\ M.life = net.life /\ M.data = net.data /\ M.buffer = net.buffer /\ M.arrived = net.arrived
  BY <1>1, <1>2 DEF NetRec
<1> HIDE DEF M
<1>4. Data(M)
  BY <1>3, InvFacts DEF Data
<1>5. Alive(Thread, thread, pool, sel, M)
  <2>1. Alive(Thread, thread, pool, sel, net)
    BY InvFacts
  <2> QED
    BY <1>3, <2>1 DEF Alive
<1>6. Whole(thread, pool, sel, M)
  BY <1>1, <1>3, <1>4, <1>5, InvFacts, EnvWhole
<1> QED
  BY <1>3, <1>6 DEF M

Appended(P, X, item) == [P EXCEPT !.threads = X, !.workItems = Append(P.workItems, item)]

LEMMA AppendPool ==
    ASSUME NEW P \in PoolRec, NEW item \in Item, NEW X \in SUBSET Thread
    PROVE  LET Q == Appended(P, X, item) IN
           /\ Q \in PoolRec /\ Q.threads = X /\ Q.workItems = Append(P.workItems, item) /\ Q.destroyed = P.destroyed
           /\ Q.handlers = P.handlers /\ Q.inUse = P.inUse /\ Q.inUseIO = P.inUseIO /\ Q.promote = P.promote
<1>1. P.workItems \in Seq(Item)
  BY DEF PoolRec
<1>2. Append(P.workItems, item) \in Seq(Item)
  BY <1>1, AppendProperties
<1> QED
  BY <1>2 DEF PoolRec, Appended

LEMMA Items ==
    /\ [kind |-> "execute"] \in Item /\ [kind |-> "shutdown"] \in Item
    /\ \A h \in Handler : Fin(h) \in Item
    /\ \A t \in Thread : [kind |-> "join", thread |-> t] \in Item
    /\ \A h : /\ [kind |-> "execute"] # Fin(h) /\ [kind |-> "shutdown"] # Fin(h) /\ NoItem # Fin(h)
              /\ \A t : [kind |-> "join", thread |-> t] # Fin(h)
    /\ \A h, g : Fin(h) = Fin(g) => h = g
    /\ NoItem \notin Item
<1>1. \A h : Fin(h).kind = "finished" /\ Fin(h).handler = h
  BY DEF Fin
<1>2. /\ [kind |-> "execute"] \in Item /\ [kind |-> "shutdown"] \in Item
      /\ \A h \in Handler : Fin(h) \in Item
      /\ \A t \in Thread : [kind |-> "join", thread |-> t] \in Item
  BY DEF Item, Fin
<1>3. \A h : NoItem # Fin(h) /\ [kind |-> "execute"] # Fin(h) /\ [kind |-> "shutdown"] # Fin(h)
  BY <1>1 DEF NoItem
<1>4. \A h, t : [kind |-> "join", thread |-> t] # Fin(h)
  BY <1>1
<1>5. NoItem \notin Item
  BY DEF NoItem, Item
<1> QED
  BY <1>1, <1>2, <1>3, <1>4, <1>5

(* A call that is queued, by execute() or by the server idle time. *)
LEMMA QueuedCallInv ==
    ASSUME Inv, ~pool.destroyed, net.executed < Executes, NEW item \in Item, \A h \in Handler : item # Fin(h),
           net' = [net EXCEPT !.executed = net.executed + 1],
           pool' = [pool EXCEPT !.workItems = Append(pool.workItems, item)],
           sel' = Queue(sel, pool.workItems), thread' = thread
    PROVE  Inv'
<1> DEFINE M == [net EXCEPT !.executed = net.executed + 1]
           Q == Appended(pool, pool.threads, item)
<1>1. pool \in PoolRec /\ sel \in SelectorRec
  BY InvTypes
<1>2. M \in NetRec /\ M.life = net.life /\ Whole(thread, pool, sel, M)
  BY CallWhole
<1>3. pool.threads \in SUBSET Thread
  BY <1>1 DEF PoolRec
<1>4. /\ Q \in PoolRec /\ Q.threads = pool.threads /\ Q.workItems = Append(pool.workItems, item) /\ Q.destroyed = pool.destroyed
      /\ Q.handlers = pool.handlers /\ Q.inUse = pool.inUse /\ Q.inUseIO = pool.inUseIO /\ Q.promote = pool.promote
  BY <1>1, <1>3, AppendPool
<1>5. pool' = Q
  BY <1>1 DEF PoolRec, Appended
<1> HIDE DEF Q, M
<1>6. Whole(thread, Q, Queue(sel, pool.workItems), M)
  BY <1>1, <1>2, <1>4, QueueWhole
<1> QED
  BY <1>5, <1>6 DEF Inv, M

LEMMA ExecuteInv ==
    ASSUME Inv, Execute
    PROVE  Inv'
BY Items, QueuedCallInv DEF Execute

LEMMA ServerTimeoutInv ==
    ASSUME Inv, NEW th \in Thread, ServerTimeout(th)
    PROVE  Inv'
BY Items, QueuedCallInv DEF ServerTimeout

LEMMA FinishInv ==
    ASSUME Inv, NEW h \in Handler, Finish(h)
    PROVE  Inv'
<1> DEFINE S == SelectorUpdate(sel, h, FALSE)
           M == [net EXCEPT !.life[h] = "closing"]
           Q == Appended(pool, pool.threads, Fin(h))
<1>1. /\ ~pool.destroyed /\ net.life[h] = "open" /\ thread' = thread /\ net' = M
      /\ sel' = Queue(S, pool.workItems) /\ pool' = [pool EXCEPT !.workItems = Append(pool.workItems, Fin(h))]
  BY DEF Finish, Fin
<1>2. pool \in PoolRec /\ sel \in SelectorRec /\ net \in NetRec /\ h \in EventHandler /\ FALSE \in BOOLEAN
  BY InvTypes DEF EventHandler
<1>3. pool.threads \in SUBSET Thread /\ Fin(h) \in Item
  BY <1>2, Items DEF PoolRec
<1>4. /\ Q \in PoolRec /\ Q.threads = pool.threads /\ Q.workItems = Append(pool.workItems, Fin(h)) /\ Q.destroyed = pool.destroyed
      /\ Q.handlers = pool.handlers /\ Q.inUse = pool.inUse /\ Q.inUseIO = pool.inUseIO /\ Q.promote = pool.promote
  BY <1>2, <1>3, AppendPool
<1>5. pool' = Q
  BY <1>1, <1>2 DEF PoolRec, Appended
<1>6. /\ net.life \in [Handler -> {"open", "closing", "finished"}]
      /\ M \in NetRec /\ M.data = net.data /\ M.buffer = net.buffer /\ M.arrived = net.arrived
      /\ M.life = [net.life EXCEPT ![h] = "closing"]
  BY <1>2 DEF NetRec
<1> HIDE DEF Q, M, S
<1>7. M.life[h] = "closing" /\ \A g \in Handler : g # h => M.life[g] = net.life[g]
  BY <1>6
<1>8. /\ SameSelector(S, sel) /\ S.ready = sel.ready /\ S.disabled = sel.disabled
      /\ S.registered = IF FALSE THEN sel.registered \cup {h} ELSE sel.registered \ {h}
  BY <1>2, UpdateFacts DEF S
<1>9. S \in SelectorRec /\ S.events = sel.events /\ S.registered = sel.registered \ {h}
  BY <1>8 DEF SameSelector
<1>10. Data(M)
  BY <1>6, InvFacts DEF Data
<1>11. Alive(Thread, thread, pool, S, M)
  <2>1. Alive(Thread, thread, pool, sel, net)
    BY InvFacts
  <2>2. \A g \in Handler : /\ net.life[g] # "open" => M.life[g] # "open"
                           /\ net.life[g] # "finished" => M.life[g] # "finished"
    BY <1>1, <1>7
  <2>3. \A g \in Handler : M.life[g] # "open" => g \notin S.registered
    BY <1>7, <1>9, <2>1 DEF Alive
  <2> QED
    BY <1>9, <2>1, <2>2, <2>3 DEF Alive
<1>12. Work(Thread, thread, pool, S)
  BY <1>8, InvFacts DEF Work
<1>13. \A g \in Handler : net.life[g] # "open" => M.life[g] # "open"
  BY <1>7
<1>14. Whole(thread, pool, S, M)
  BY <1>2, <1>6, <1>8, <1>9, <1>10, <1>11, <1>12, <1>13, InvFacts, EnvWhole
<1>15. \A g \in Handler : Fin(h) = Fin(g) => M.life[g] # "open"
  BY <1>7, Items
<1>16. Whole(thread, Q, Queue(S, pool.workItems), M)
  BY <1>1, <1>2, <1>3, <1>4, <1>9, <1>14, <1>15, QueueWhole
<1> QED
  BY <1>1, <1>5, <1>16 DEF Inv

-----------------------------------------------------------------------------
(* What a thread does outside the mutex. *)
LEMMA FollowerTimeoutInv ==
    ASSUME SizeMax > 1, Inv, NEW th \in Thread, FollowerTimeout(th)
    PROVE  Inv'
<1> DEFINE m == thread[th]
           join == [kind |-> "join", thread |-> th]
           me == [m EXCEPT !.pc = "leaving"]
           V == [thread EXCEPT ![th] = me]
           Q == Appended(pool, pool.threads \ {th}, join)
<1>1. m.pc = "wait" /\ UNCHANGED net
  BY DEF FollowerTimeout
<1>2. CASE ~MustWait(pool)
  <2>1. Unlock(th, FollowerWait(Here(th)))
    BY <1>2 DEF FollowerTimeout
  <2> QED
    BY <1>1, <2>1, FollowerInv
<1>3. CASE MustWait(pool)
  <2>1. ~pool.destroyed /\ pool' = Q /\ sel' = Queue(sel, pool.workItems) /\ thread' = [thread EXCEPT ![th].pc = "leaving"]
    BY <1>3 DEF FollowerTimeout, Appended
  <2>2. /\ thread \in [Thread -> ThreadRec] /\ pool \in PoolRec /\ sel \in SelectorRec /\ m \in ThreadRec /\ Local(th, m, pool)
    BY InvTypes
  <2>3. thread' = V
    BY <2>1, <2>2
  <2>4. me \in ThreadRec /\ me.pc = "leaving" /\ me.leader = m.leader /\ me.item = m.item
    BY <2>2 DEF ThreadRec
  <2> HIDE DEF me, m
  <2>5. ~Performing(m) /\ ~Dispatching(m) /\ ~Performing(me) /\ ~Dispatching(me)
    BY <1>1, <2>4 DEF Performing, Dispatching
  <2>6. Local(th, me, pool)
    BY <1>1, <2>2, <2>4 DEF Local
  <2>7. me.pc # "message" /\ m.pc # "selected" /\ me.pc # "io"
    BY <1>1, <2>4
  <2>8. Whole(V, pool, sel, net)
    BY <2>4, <2>5, <2>6, <2>7, InvFacts, RoleKept DEF m
  <2>9. pool.threads \ {th} \in SUBSET Thread /\ join \in Item /\ \A h \in Handler : join # Fin(h)
    BY <2>2, Items DEF PoolRec
  <2>10. V[th] = me
    BY <2>2
  <2> HIDE DEF V, join
  <2>11. /\ Q \in PoolRec /\ Q.threads = pool.threads \ {th} /\ Q.workItems = Append(pool.workItems, join)
         /\ Q.destroyed = pool.destroyed /\ Q.handlers = pool.handlers
         /\ Q.inUse = pool.inUse /\ Q.inUseIO = pool.inUseIO /\ Q.promote = pool.promote
    <3> DEFINE X == pool.threads \ {th}
    <3>1. X \in SUBSET Thread /\ join \in Item /\ pool \in PoolRec
      BY <2>2, <2>9
    <3>2. Q = Appended(pool, X, join)
      OBVIOUS
    <3> HIDE DEF X, Q
    <3>3. /\ Q \in PoolRec /\ Q.threads = X /\ Q.workItems = Append(pool.workItems, join) /\ Q.destroyed = pool.destroyed
          /\ Q.handlers = pool.handlers /\ Q.inUse = pool.inUse /\ Q.inUseIO = pool.inUseIO /\ Q.promote = pool.promote
      BY <3>1, <3>2, AppendPool
    <3> QED
      BY <3>3 DEF X
  <2> HIDE DEF Q
  <2>12. Q.threads \subseteq pool.threads /\ \A u \in pool.threads \ Q.threads : V[u].pc = "leaving"
    BY <2>4, <2>10, <2>11
  <2>13. Whole(V, Q, Queue(sel, pool.workItems), net)
    BY <2>1, <2>2, <2>8, <2>9, <2>11, <2>12, QueueWhole
  <2> QED
    BY <1>1, <2>1, <2>3, <2>13 DEF Inv
<1> QED
  BY <1>2, <1>3

(* A thread that leaves the pool, its dispatch or its item as it was. *)
LEMMA QuietInv ==
    ASSUME Inv, NEW th \in Thread, Return(th) \/ RunJoin(th) \/ Leave(th)
    PROVE  Inv'
<1> DEFINE m == thread[th]
           turn == [m EXCEPT !.pc = "turn", !.item = NoItem]
<1>1. /\ thread \in [Thread -> ThreadRec] /\ m \in ThreadRec /\ Local(th, m, pool)
  BY InvTypes
<1>2. turn \in ThreadRec /\ turn.pc = "turn" /\ turn.item = NoItem /\ turn.leader = m.leader
      /\ turn.handler = m.handler /\ turn.ioCompleted = m.ioCompleted
  BY <1>1 DEF ThreadRec
<1>3. [thread EXCEPT ![th].pc = "turn", ![th].item = NoItem] = [thread EXCEPT ![th] = turn]
  BY <1>1
<1>4. CASE Return(th) \/ RunJoin(th)
  <2>1. thread' = [thread EXCEPT ![th] = turn] /\ UNCHANGED <<pool, sel, net>> /\ m.pc \in {"user", "io"}
    BY <1>3, <1>4 DEF Return, RunJoin
  <2> HIDE DEF m, turn
  <2>2. (Performing(turn) <=> Performing(m)) /\ (Dispatching(turn) <=> Dispatching(m))
    <3>1. (m.pc = "io" => ~m.ioCompleted) /\ (m.pc = "user" => m.ioCompleted)
      BY <1>1 DEF Local
    <3>2. CASE m.pc = "io"
      BY <1>2, <3>1, <3>2 DEF Performing, Dispatching
    <3>3. CASE m.pc = "user"
      BY <1>2, <3>1, <3>3 DEF Performing, Dispatching
    <3> QED
      BY <2>1, <3>2, <3>3
  <2>3. Local(th, turn, pool)
    BY <1>1, <1>2, <2>1 DEF Local
  <2>4. turn.pc # "message" /\ m.pc # "selected" /\ turn.pc # "io"
    BY <1>2, <2>1
  <2>5. Whole([thread EXCEPT ![th] = turn], pool, sel, net)
    BY <1>2, <2>2, <2>3, <2>4, InvFacts, RoleKept DEF m
  <2> QED
    BY <2>1, <2>5 DEF Inv
<1>5. CASE Leave(th)
  <2> DEFINE gone == NewThread("gone")
  <2>1. thread' = [thread EXCEPT ![th] = gone] /\ UNCHANGED <<pool, sel, net>> /\ m.pc = "leaving"
    BY <1>5 DEF Leave
  <2>2. gone \in ThreadRec /\ gone.pc = "gone" /\ gone.leader = FALSE /\ gone.item = NoItem
    BY DEF NewThread, ThreadRec
  <2> HIDE DEF m, gone
  <2>3. ~Performing(gone) /\ ~Performing(m) /\ ~Dispatching(gone) /\ ~Dispatching(m)
    BY <2>1, <2>2 DEF Performing, Dispatching
  <2>4. m.leader = FALSE
    BY <1>1, <2>1 DEF Local, ThreadRec
  <2>5. Local(th, gone, pool)
    BY <2>2 DEF Local
  <2>6. gone.pc # "message" /\ m.pc # "selected" /\ gone.pc # "io"
    BY <2>1, <2>2
  <2>7. Whole([thread EXCEPT ![th] = gone], pool, sel, net)
    BY <2>2, <2>3, <2>4, <2>5, <2>6, InvFacts, RoleKept DEF m
  <2> QED
    BY <2>1, <2>7 DEF Inv
<1> QED
  BY <1>4, <1>5

(* select() returns. *)
LEMMA SelectInv ==
    ASSUME Inv, NEW th \in Thread, Select(th)
    PROVE  Inv'
<1> DEFINE m == thread[th]
           me == [m EXCEPT !.pc = "selected"]
           R == [sel EXCEPT !.events = Epoll]
           V == [thread EXCEPT ![th] = me]
<1>1. m.pc = "select" /\ sel' = R /\ thread' = [thread EXCEPT ![th].pc = "selected"] /\ UNCHANGED <<pool, net>>
  BY DEF Select
<1>2. /\ thread \in [Thread -> ThreadRec] /\ m \in ThreadRec /\ Local(th, m, pool)
      /\ pool \in PoolRec /\ sel \in SelectorRec /\ net \in NetRec
  BY InvTypes
<1>3. thread' = V
  BY <1>1, <1>2
<1>4. Epoll \subseteq Handler /\ Epoll \subseteq sel.registered
  BY DEF Epoll
<1>5. /\ R \in SelectorRec /\ R.events = Epoll /\ R.registered = sel.registered /\ R.ready = sel.ready
      /\ R.disabled = sel.disabled
  BY <1>2, <1>4 DEF SelectorRec
<1>6. me \in ThreadRec /\ me.pc = "selected" /\ me.leader = m.leader /\ me.item = m.item
  BY <1>2 DEF ThreadRec
<1> HIDE DEF m, me, R
<1>7. ~Performing(me) /\ ~Performing(m) /\ ~Dispatching(me) /\ ~Dispatching(m)
  BY <1>1, <1>6 DEF Performing, Dispatching
<1>8. Local(th, me, pool)
  BY <1>1, <1>2, <1>6 DEF Local
<1>9. me.pc # "message" /\ m.pc # "selected" /\ me.pc # "io"
  BY <1>1, <1>6
<1>10. Whole(V, pool, sel, net)
  BY <1>6, <1>7, <1>8, <1>9, InvFacts, RoleKept DEF m
<1>11. V[th] = me
  BY <1>2
<1> HIDE DEF V
<1>12. Alive(Thread, V, pool, R, net)
  <2>1. Alive(Thread, V, pool, sel, net)
    BY <1>10 DEF Whole, Body
  <2>2. \A h \in Handler : h \in R.events => net.life[h] # "finished"
    BY <1>4, <1>5, <2>1 DEF Alive
  <2> QED
    BY <1>5, <1>6, <1>11, <2>1, <2>2 DEF Alive
<1>13. Work(Thread, V, pool, R)
  BY <1>5, <1>10 DEF Whole, Body, Work
<1>14. Whole(V, pool, R, net)
  BY <1>2, <1>5, <1>10, <1>12, <1>13, InvFacts, EnvWhole
<1> QED
  BY <1>1, <1>3, <1>14 DEF Inv

(* A connection reads. *)
LEMMA MessageInv ==
    ASSUME Inv, NEW th \in Thread, Message(th)
    PROVE  Inv'
<1> DEFINE m == thread[th]
           h == m.handler
           n == net.data[h] + net.buffer[h]
           me(x) == [m EXCEPT !.pc = x]
           V(x) == [thread EXCEPT ![th] = me(x)]
<1>1. m.pc = "message" /\ h \in Handler /\ pool' = pool
  BY DEF Message
<1>2. /\ thread \in [Thread -> ThreadRec] /\ m \in ThreadRec /\ Local(th, m, pool)
      /\ pool \in PoolRec /\ sel \in SelectorRec /\ net \in NetRec
  BY InvTypes
<1>3. ASSUME NEW x \in {"turn", "io"} PROVE Whole(V(x), pool, sel, net) /\ V(x) = [thread EXCEPT ![th].pc = x]
  <2> DEFINE me1 == me(x)
  <2>1. me1 \in ThreadRec /\ me1.pc = x /\ me1.leader = m.leader /\ me1.item = m.item
        /\ me1.handler = m.handler /\ me1.ioCompleted = m.ioCompleted
    BY <1>2 DEF ThreadRec
  <2>2. ~m.ioCompleted /\ m.item = NoItem
    BY <1>1, <1>2 DEF Local
  <2>3. V(x) = [thread EXCEPT ![th].pc = x]
    BY <1>2
  <2> HIDE DEF me, m
  <2> HIDE DEF me1
  <2>4. Performing(me1) /\ Performing(m) /\ ~Dispatching(me1) /\ ~Dispatching(m)
    BY <1>1, <2>1, <2>2 DEF Performing, Dispatching
  <2>5. Local(th, me1, pool)
    BY <1>1, <1>2, <2>1, <2>2 DEF Local
  <2>6. me1.pc # "message" /\ m.pc # "selected" /\ \A g \in Handler : me1.item # Fin(g)
    BY <1>1, <2>1, <2>2, Items
  <2>7. Whole([thread EXCEPT ![th] = me1], pool, sel, net)
    BY <2>1, <2>4, <2>5, <2>6, InvFacts, RoleKept DEF m
  <2> QED
    BY <2>3, <2>7 DEF me1
<1>4. CASE thread' = [thread EXCEPT ![th].pc = "turn"] /\ UNCHANGED <<sel, net>>
  BY <1>1, <1>3, <1>4 DEF Inv
<1>5. ASSUME NEW buffered \in 0 .. 1, NEW x \in {"turn", "io"}, buffered < n,
             net' = [net EXCEPT !.buffer[h] = buffered, !.data[h] = n - 1 - buffered],
             sel' = SelectorReady(sel, h, buffered = 1), thread' = [thread EXCEPT ![th].pc = x]
      PROVE  Inv'
  <2> DEFINE M == [net EXCEPT !.buffer[h] = buffered, !.data[h] = n - 1 - buffered]
             value == buffered = 1
             R == SelectorReady(sel, h, value)
             W == V(x)
  <2>1. /\ net.data \in [Handler -> 0 .. Arrivals] /\ net.arrived \in [Handler -> 0 .. Arrivals]
        /\ net.buffer \in [Handler -> 0 .. 1] /\ Arrivals \in Nat
    BY <1>2, Constants DEF NetRec
  <2>2. net.data[h] \in 0 .. Arrivals /\ net.buffer[h] \in 0 .. 1 /\ net.arrived[h] \in 0 .. Arrivals /\ n <= net.arrived[h]
    BY <1>1, <2>1, InvFacts DEF Data
  <2>3. W = thread' /\ Whole(W, pool, sel, net)
    BY <1>3, <1>5
  <2> HIDE DEF W, V, me
  <2>4. n \in Nat /\ n - 1 - buffered \in 0 .. Arrivals /\ (n - 1 - buffered) + buffered <= net.arrived[h]
    BY <1>5, <2>1, <2>2
  <2> HIDE DEF n, h
  <2>5. /\ M \in NetRec /\ M.life = net.life /\ M.arrived = net.arrived
        /\ M.buffer = [net.buffer EXCEPT ![h] = buffered] /\ M.data = [net.data EXCEPT ![h] = n - 1 - buffered]
    BY <1>2, <2>1, <2>4 DEF NetRec
  <2> HIDE DEF M
  <2>6. Data(M)
    <3> SUFFICES ASSUME NEW g \in Handler PROVE M.data[g] + M.buffer[g] <= M.arrived[g]
      BY DEF Data
    <3>1. net.data[g] + net.buffer[g] <= net.arrived[g]
      BY InvFacts DEF Data
    <3>2. CASE g = h
      <4>1. M.data[g] = n - 1 - buffered /\ M.buffer[g] = buffered /\ M.arrived[g] = net.arrived[h]
        BY <2>1, <2>5, <3>2
      <4> QED
        BY <2>4, <4>1
    <3>3. CASE g # h
      BY <2>1, <2>5, <3>1, <3>3
    <3> QED
      BY <3>2, <3>3
  <2>7. h \in EventHandler /\ value \in BOOLEAN /\ h # WorkQueue
    BY <1>1, Constants DEF EventHandler
  <2> HIDE DEF R, value
  <2>8. /\ SameSelector(R, sel) /\ R.registered = sel.registered /\ R.disabled = sel.disabled
        /\ R.ready = IF value THEN sel.ready \cup {h} ELSE sel.ready \ {h}
    <3>1. CASE value = TRUE
      <4>1. R = SelectorReady(sel, h, TRUE)
        BY <3>1 DEF R
      <4>2. TRUE \in BOOLEAN
        OBVIOUS
      <4>3. /\ SameSelector(R, sel) /\ R.registered = sel.registered /\ R.disabled = sel.disabled
            /\ R.ready = IF TRUE THEN sel.ready \cup {h} ELSE sel.ready \ {h}
        BY <1>2, <2>7, <4>1, <4>2, ReadyFacts
      <4> QED
        BY <3>1, <4>3
    <3>2. CASE value = FALSE
      <4>1. R = SelectorReady(sel, h, FALSE)
        BY <3>2 DEF R
      <4>2. FALSE \in BOOLEAN
        OBVIOUS
      <4>3. /\ SameSelector(R, sel) /\ R.registered = sel.registered /\ R.disabled = sel.disabled
            /\ R.ready = IF FALSE THEN sel.ready \cup {h} ELSE sel.ready \ {h}
        BY <1>2, <2>7, <4>1, <4>2, ReadyFacts
      <4> QED
        BY <3>2, <4>3
    <3> QED
      BY <2>7, <3>1, <3>2
  <2>9. R \in SelectorRec /\ R.events = sel.events /\ (WorkQueue \in R.ready <=> WorkQueue \in sel.ready)
    BY <2>7, <2>8 DEF SameSelector
  <2>10. Alive(Thread, W, pool, R, M)
    <3>1. Alive(Thread, W, pool, sel, net)
      BY <2>3 DEF Whole, Body
    <3> QED
      BY <2>5, <2>8, <2>9, <3>1 DEF Alive
  <2>11. Work(Thread, W, pool, R)
    <3>1. Work(Thread, W, pool, sel)
      BY <2>3 DEF Whole, Body
    <3> QED
      BY <2>9, <3>1 DEF Work
  <2>12. Whole(W, pool, R, M)
    BY <1>2, <2>3, <2>5, <2>6, <2>8, <2>9, <2>10, <2>11, EnvWhole
  <2> QED
    BY <1>1, <1>5, <2>3, <2>12 DEF Inv, M, R, value
<1> QED
  BY <1>4, <1>5 DEF Message

(* The work queue gives its first item away. *)
LEMMA TakeItemInv ==
    ASSUME Inv, NEW th \in Thread, TakeItem(th)
    PROVE  Inv'
<1> DEFINE m == thread[th]
           q == pool.workItems
           items == IF q = <<>> THEN <<>> ELSE Tail(q)
           item == IF q = <<>> THEN NoItem ELSE Head(q)
           me == [m EXCEPT !.pc = "io", !.item = item]
           V == [thread EXCEPT ![th] = me]
           Q == [pool EXCEPT !.workItems = items]
           R == IF items = <<>> /\ ~pool.destroyed THEN SelectorReady(sel, WorkQueue, FALSE) ELSE sel
<1>1. /\ m.pc = "message" /\ m.handler = WorkQueue /\ UNCHANGED net
      /\ thread' = [thread EXCEPT ![th].pc = "io", ![th].item = item] /\ pool' = Q /\ sel' = R
  BY DEF TakeItem
<1>2. /\ thread \in [Thread -> ThreadRec] /\ m \in ThreadRec /\ Local(th, m, pool)
      /\ pool \in PoolRec /\ sel \in SelectorRec /\ net \in NetRec
  BY InvTypes
<1>3. thread' = V
  BY <1>1, <1>2
<1>4. q \in Seq(Item)
  BY <1>2 DEF PoolRec
<1>5. items \in Seq(Item) /\ item \in Item \cup {NoItem} /\ Range(items) \subseteq Range(q)
  <2>1. CASE q = <<>>
    BY <1>4, <2>1, EmptySeq
  <2>2. CASE q # <<>>
    <3>1. /\ Head(q) \in Item /\ Tail(q) \in Seq(Item) /\ Len(Tail(q)) = Len(q) - 1
          /\ \A i \in 1 .. Len(Tail(q)) : Tail(q)[i] = q[i + 1]
      BY <1>4, <2>2, HeadTailProperties
    <3> DEFINE t == Tail(q)
    <3> HIDE DEF t, q
    <3>2. DOMAIN t = 1 .. Len(t) /\ DOMAIN q = 1 .. Len(q) /\ Len(q) \in Nat /\ Len(t) = Len(q) - 1
      BY <1>4, <3>1, LenProperties DEF t
    <3>3. \A i \in DOMAIN t : i + 1 \in DOMAIN q /\ t[i] = q[i + 1]
      BY <3>1, <3>2 DEF t
    <3>4. Range(t) \subseteq Range(q)
      BY <3>3 DEF Range
    <3> QED
      BY <2>2, <3>1, <3>4 DEF t
  <2> QED
    BY <2>1, <2>2
<1>6. /\ Q \in PoolRec /\ Q.workItems = items /\ Q.threads = pool.threads /\ Q.destroyed = pool.destroyed
      /\ Q.handlers = pool.handlers /\ Q.inUse = pool.inUse /\ Q.inUseIO = pool.inUseIO /\ Q.promote = pool.promote
  <2> HIDE DEF items
  <2> QED
    BY <1>2, <1>5 DEF PoolRec
<1>7. Performing(m) /\ ~Dispatching(m)
  BY <1>1 DEF Performing, Dispatching
<1>8. Readers(Thread, thread, pool) /\ Alive(Thread, thread, pool, sel, net) /\ Work(Thread, thread, pool, sel)
  BY InvTypes DEF Body
<1>9. WorkQueue \notin Range(pool.handlers) /\ \A u \in Thread : u # th => ~(thread[u].pc = "message" /\ thread[u].handler = WorkQueue)
  <2>1. \A u \in Thread : thread[u].pc = "message" => Performing(thread[u])
    BY DEF Performing
  <2> QED
    BY <1>1, <1>7, <1>8, <2>1 DEF Readers
<1>10. q # <<>> \/ pool.destroyed
  BY <1>1, <1>8 DEF Work
<1>11. ASSUME NEW h \in Handler, item = Fin(h) PROVE net.life[h] # "open" /\ h \notin Range(pool.handlers)
  <2>1. q # <<>> /\ Head(q) = Fin(h)
    BY <1>11, Items
  <2>2. Fin(h) \in Range(q)
    BY <1>4, <2>1, HeadInRange
  <2> QED
    BY <1>1, <1>8, <2>1, <2>2 DEF Alive
<1>12. me \in ThreadRec /\ me.pc = "io" /\ me.item = item /\ me.leader = m.leader
       /\ me.handler = WorkQueue /\ me.ioCompleted = m.ioCompleted
  <2> HIDE DEF item
  <2> QED
    BY <1>1, <1>2, <1>5 DEF ThreadRec
<1> HIDE DEF item, items, me, m, R, Q
<1>13. Performing(me) /\ ~Dispatching(me)
  BY <1>12 DEF Performing, Dispatching
<1>14. Local(th, me, pool)
  BY <1>1, <1>2, <1>12 DEF Local, EventHandler
<1>15. me.pc # "message" /\ m.pc # "selected"
  BY <1>1, <1>12
<1>16. \A h \in Handler : me.pc = "io" /\ me.item = Fin(h) => net.life[h] # "open" /\ h \notin Range(pool.handlers)
  BY <1>11, <1>12
<1>17. Whole(V, pool, sel, net)
  BY <1>1, <1>7, <1>12, <1>13, <1>14, <1>15, <1>16, InvFacts, RoleKept DEF m
<1>18. V[th] = me /\ \A u \in Thread : u # th => V[u] = thread[u]
  BY <1>2
<1> HIDE DEF V
<1>19. /\ R \in SelectorRec /\ R.registered = sel.registered /\ R.disabled = sel.disabled /\ R.events = sel.events
       /\ WorkQueue \in R.ready <=> items # <<>> \/ pool.destroyed
  <2>1. WorkQueue \in sel.ready
    BY <1>8, <1>10 DEF Work
  <2>2. CASE items = <<>> /\ ~pool.destroyed
    <3>1. R = SelectorReady(sel, WorkQueue, FALSE) /\ WorkQueue \in EventHandler /\ FALSE \in BOOLEAN
      BY <2>2 DEF R, EventHandler
    <3>2. /\ SameSelector(R, sel) /\ R.registered = sel.registered /\ R.disabled = sel.disabled
          /\ R.ready = IF FALSE THEN sel.ready \cup {WorkQueue} ELSE sel.ready \ {WorkQueue}
      BY <1>2, <3>1, ReadyFacts
    <3> QED
      BY <2>2, <3>2 DEF SameSelector
  <2>3. CASE ~(items = <<>> /\ ~pool.destroyed)
    <3>1. R = sel
      BY <2>3 DEF R
    <3> QED
      BY <1>2, <2>1, <2>3, <3>1
  <2> QED
    BY <2>2, <2>3
<1>20. \A u \in Thread : ~(V[u].pc = "message" /\ V[u].handler = WorkQueue)
  BY <1>9, <1>12, <1>18
<1>21. Alive(Thread, V, Q, R, net)
  <2>1. Alive(Thread, V, pool, sel, net)
    BY <1>17 DEF Whole, Body
  <2>2. \A i \in DOMAIN pool.handlers : pool.handlers[i] # WorkQueue
    BY <1>9 DEF Range
  <2>3. \A h \in Handler : Fin(h) \in Range(Q.workItems) => net.life[h] # "open"
    BY <1>5, <1>6, <2>1 DEF Alive
  <2> QED
    BY <1>6, <1>19, <1>20, <2>1, <2>2, <2>3 DEF Alive
<1>22. Work(Thread, V, Q, R)
  BY <1>6, <1>9, <1>19, <1>20 DEF Work
<1>23. Whole(V, Q, R, net)
  BY <1>2, <1>6, <1>17, <1>19, <1>21, <1>22, InvFacts, EnvWhole
<1> QED
  BY <1>1, <1>3, <1>23 DEF Inv

(* finished(): the handler may be released. *)
LEMMA RunFinishedInv ==
    ASSUME Inv, NEW th \in Thread, RunFinished(th)
    PROVE  Inv'
<1> DEFINE m == thread[th]
           h == m.item.handler
           turn == [m EXCEPT !.pc = "turn", !.item = NoItem]
           V == [thread EXCEPT ![th] = turn]
           M == [net EXCEPT !.life[h] = "finished"]
<1>1. /\ m.pc = "io" /\ m.item.kind = "finished" /\ net' = M
      /\ thread' = [thread EXCEPT ![th].pc = "turn", ![th].item = NoItem] /\ UNCHANGED <<pool, sel>>
  BY DEF RunFinished
<1>2. /\ thread \in [Thread -> ThreadRec] /\ m \in ThreadRec /\ Local(th, m, pool)
      /\ pool \in PoolRec /\ sel \in SelectorRec /\ net \in NetRec
  BY InvTypes
<1>3. thread' = V
  BY <1>1, <1>2
<1>4. h \in Handler /\ m.item = Fin(h)
  <2>1. m.item \in Item \cup {NoItem}
    BY <1>2 DEF ThreadRec
  <2>2. m.item \in [kind : {"finished"}, handler : Handler]
    BY <1>1, <2>1 DEF Item, NoItem
  <2> QED
    BY <2>2 DEF Fin
<1>5. net.life[h] # "open" /\ h \notin Range(pool.handlers)
  BY <1>1, <1>4, InvFacts DEF Alive
<1>6. turn \in ThreadRec /\ turn.pc = "turn" /\ turn.item = NoItem /\ turn.leader = m.leader
      /\ turn.handler = m.handler /\ turn.ioCompleted = m.ioCompleted
  BY <1>2 DEF ThreadRec
<1>7. net.life \in [Handler -> {"open", "closing", "finished"}] /\ M \in NetRec /\ M.data = net.data /\ M.buffer = net.buffer
      /\ M.arrived = net.arrived /\ M.life = [net.life EXCEPT ![h] = "finished"]
  <2> HIDE DEF h
  <2> QED
    BY <1>2, <1>4 DEF NetRec
<1> HIDE DEF m, turn, M, h
<1>8. Performing(turn) /\ Performing(m) /\ ~Dispatching(turn) /\ ~Dispatching(m)
  <2>1. ~m.ioCompleted
    BY <1>1, <1>2 DEF Local
  <2> QED
    BY <1>1, <1>6, <2>1 DEF Performing, Dispatching
<1>9. Local(th, turn, pool)
  BY <1>1, <1>2, <1>6 DEF Local
<1>10. turn.pc # "message" /\ m.pc # "selected" /\ turn.pc # "io"
  BY <1>1, <1>6
<1>11. Whole(V, pool, sel, net)
  BY <1>6, <1>8, <1>9, <1>10, InvFacts, RoleKept DEF m
<1>12. M.life[h] = "finished" /\ \A g \in Handler : g # h => M.life[g] = net.life[g]
  BY <1>4, <1>7
<1>13. sel.events = {}
  <2>1. pool.inUseIO >= 1
    BY <1>8, CountedOnce DEF m
  <2>2. \A u \in Thread : thread[u].pc # "selected"
    BY <2>1, InvTypes DEF Local
  <2> QED
    BY <2>2, InvFacts DEF Alive
<1> HIDE DEF V
<1>14. Data(M)
  BY <1>7, InvFacts DEF Data
<1>15. \A g \in Handler : net.life[g] # "open" => M.life[g] # "open"
  BY <1>12
<1>16. Alive(Thread, V, pool, sel, M)
  <2>1. Alive(Thread, V, pool, sel, net)
    BY <1>11 DEF Whole, Body
  <2>2. \A g \in Handler : M.life[g] # "open" => g \notin sel.registered
    BY <1>5, <1>12, <2>1 DEF Alive
  <2>3. \A g \in Handler : g \in sel.events \cup Range(pool.handlers) => M.life[g] # "finished"
    BY <1>5, <1>12, <1>13, <2>1 DEF Alive
  <2> QED
    BY <1>15, <2>1, <2>2, <2>3 DEF Alive
<1>17. Work(Thread, V, pool, sel)
  BY <1>11 DEF Whole, Body
<1>18. Whole(V, pool, sel, M)
  BY <1>2, <1>7, <1>11, <1>14, <1>15, <1>16, <1>17, EnvWhole
<1> QED
  BY <1>1, <1>3, <1>18 DEF Inv

-----------------------------------------------------------------------------
LEMMA InitInv ==
    ASSUME Init
    PROVE  Inv
<1>1. PICK started \in SUBSET Thread :
        /\ Cardinality(started) = Size
        /\ thread = [th \in Thread |-> NewThread(IF th \in started THEN "follower" ELSE "none")]
        /\ pool = [threads |-> started, promote |-> TRUE, destroyed |-> FALSE, workItems |-> <<>>,
                   handlers |-> <<>>, inUse |-> 0, inUseIO |-> 0]
        /\ sel = [registered |-> EventHandler, ready |-> {}, disabled |-> {}, selecting |-> FALSE,
                  interrupted |-> FALSE, selectNow |-> FALSE, events |-> {}]
        /\ net = [data |-> [h \in Handler |-> 0], buffer |-> [h \in Handler |-> 0],
                  arrived |-> [h \in Handler |-> 0], life |-> [h \in Handler |-> "open"], executed |-> 0]
  BY DEF Init
<1>2. \A th \in Thread : /\ thread[th] \in ThreadRec /\ ~thread[th].leader /\ thread[th].item = NoItem
                         /\ thread[th].pc \in {"follower", "none"} /\ (thread[th].pc = "follower" => th \in started)
  BY <1>1 DEF NewThread, ThreadRec
<1>3. thread \in [Thread -> ThreadRec]
  BY <1>1, <1>2
<1>4. /\ pool.threads = started /\ pool.promote = TRUE /\ pool.destroyed = FALSE /\ pool.workItems = <<>>
      /\ pool.handlers = <<>> /\ pool.inUse = 0 /\ pool.inUseIO = 0
  BY <1>1
<1>5. pool \in PoolRec
  <2>1. 0 \in -1 .. SizeMax /\ 0 \in 0 .. SizeIO
    BY Constants
  <2>2. <<>> \in Seq(Item) /\ <<>> \in Seq(EventHandler)
    BY EmptySeq
  <2> QED
    BY <1>1, <2>1, <2>2 DEF PoolRec
<1>6. sel \in SelectorRec /\ sel.ready = {} /\ sel.events = {}
  BY <1>1 DEF SelectorRec
<1>7. /\ net \in NetRec /\ \A h \in Handler : net.life[h] = "open" /\ net.data[h] = 0 /\ net.buffer[h] = 0 /\ net.arrived[h] = 0
  BY <1>1, Constants DEF NetRec
<1>8. Data(net)
  BY <1>7 DEF Data
<1>9. \A th \in Thread : ~Performing(thread[th]) /\ ~Dispatching(thread[th])
  BY <1>2 DEF Performing, Dispatching
<1>10. Locals(Thread, thread, pool)
  BY <1>2, <1>4 DEF Locals, Local
<1>11. Counts(Thread, thread, pool)
  <2>1. {u \in Thread : Performing(thread[u])} = {} /\ {u \in Thread : Dispatching(thread[u])} = {}
    BY <1>9
  <2>2. Cardinality({}) = 0
    BY FS_EmptySet
  <2>3. Cardinality(pool.threads) <= SizeMax
    BY <1>1, <1>4, Constants
  <2> QED
    BY <1>4, <2>1, <2>2, <2>3 DEF Counts
<1>12. Range(pool.handlers) = {} /\ Range(pool.workItems) = {} /\ DOMAIN pool.handlers = {}
  <2>1. DOMAIN <<>> = 1 .. 0
    BY EmptySeq, LenProperties
  <2> QED
    BY <1>4, <2>1 DEF Range
<1>13. Readers(Thread, thread, pool)
  BY <1>9, <1>12 DEF Readers, IsInjective
<1>14. Serial(Thread, thread, sel, net)
  BY <1>9 DEF Serial
<1>15. Alive(Thread, thread, pool, sel, net)
  BY <1>2, <1>4, <1>6, <1>7, <1>12 DEF Alive
<1>16. Work(Thread, thread, pool, sel)
  BY <1>2, <1>4, <1>6, <1>12 DEF Work
<1>17. Leadership(thread, pool)
  BY <1>2, <1>4 DEF Leadership
<1> QED
  BY <1>3, <1>5, <1>6, <1>7, <1>8, <1>10, <1>11, <1>13, <1>14, <1>15, <1>16, <1>17 DEF Inv, Whole, Body, Types

LEMMA NextInv ==
    ASSUME SizeMax > 1, Inv, [Next]_vars
    PROVE  Inv'
<1>1. CASE UNCHANGED vars
  BY <1>1 DEF vars, Inv
<1>2. ASSUME NEW th \in Thread, Run(th)
      PROVE  Inv'
  <2>1. CASE Select(th)
    BY <2>1, SelectInv
  <2>2. CASE Follow(th)
    BY <2>2, FollowerInv DEF Follow
  <2>3. CASE Selected(th)
    BY <2>3, SelectedInv
  <2>4. CASE Turn(th)
    BY <2>4, TurnInv
  <2>5. CASE Message(th)
    BY <2>5, MessageInv
  <2>6. CASE Dispatch(th)
    BY <2>6, IoCompletedInv DEF Dispatch
  <2>7. CASE TakeItem(th)
    BY <2>7, TakeItemInv
  <2>8. CASE RunCall(th)
    BY <2>8, IoCompletedInv DEF RunCall
  <2>9. CASE RunFinished(th)
    BY <2>9, RunFinishedInv
  <2>10. CASE RunJoin(th) \/ Leave(th)
    BY <2>10, QuietInv
  <2>11. CASE RunDestroyed(th)
    BY <2>11, RunDestroyedInv
  <2> QED
    BY <1>2, <2>1, <2>2, <2>3, <2>4, <2>5, <2>6, <2>7, <2>8, <2>9, <2>10, <2>11 DEF Run
<1>3. ASSUME NEW th \in Thread, Return(th) \/ FollowerTimeout(th) \/ ServerTimeout(th)
      PROVE  Inv'
  BY <1>3, QuietInv, FollowerTimeoutInv, ServerTimeoutInv
<1>4. ASSUME NEW h \in Handler, Update(h) \/ Finish(h) \/ Arrive(h)
      PROVE  Inv'
  BY <1>4, UpdateInv, FinishInv, ArriveInv
<1>5. CASE Execute \/ Destroy
  BY <1>5, ExecuteInv, DestroyInv
<1> QED
  BY <1>1, <1>2, <1>3, <1>4, <1>5 DEF Next

LEMMA TwoThreads ==
    ASSUME Inv, NEW th \in pool.threads, NEW u \in pool.threads, th # u
    PROVE  Cardinality(pool.threads) > 1
<1>1. IsFiniteSet(pool.threads)
  BY InvTypes, Constants, FS_Subset DEF PoolRec
<1>2. {th, u} \subseteq pool.threads
  OBVIOUS
<1>3. IsFiniteSet({th}) /\ Cardinality({th}) = 1
  BY FS_Singleton
<1>4. Cardinality({th} \cup {u}) = 1 + 1
  BY <1>3, FS_AddElement
<1>5. {th} \cup {u} = {th, u}
  OBVIOUS
<1>6. Cardinality({th, u}) <= Cardinality(pool.threads)
  BY <1>1, <1>2, FS_Subset
<1>7. Cardinality(pool.threads) \in Nat
  BY <1>1, FS_CardinalityType
<1> QED
  BY <1>4, <1>5, <1>6, <1>7

LEMMA InvSafe ==
    ASSUME SizeMax > 1, Inv
    PROVE  PoolSafe
<1>1. TypeOK
  BY InvTypes DEF TypeOK
<1>2. OneLeader
  <2>1. Leadership(thread, pool)
    BY DEF Inv, Whole
  <2>4. OneLeader <=> Cardinality(Leaders) = IF pool.promote THEN 0 ELSE 1
    BY Constants DEF OneLeader
  <2>2. CASE pool.promote
    <3>1. Leaders = {}
      BY <2>1, <2>2 DEF Leaders, Leadership
    <3>2. Cardinality({}) = 0
      BY FS_EmptySet
    <3> QED
      BY <2>2, <2>4, <3>1, <3>2
  <2>3. CASE ~pool.promote
    <3>1. PICK u \in Thread : thread[u].leader
      BY <2>1, <2>3 DEF Leadership
    <3>2. Leaders = {u}
      BY <2>1, <3>1 DEF Leaders, Leadership
    <3>3. Cardinality({u}) = 1
      BY FS_Singleton
    <3> QED
      BY <2>3, <2>4, <3>2, <3>3
  <2> QED
    BY <2>2, <2>3
<1>3. Counted
  BY DEF Inv, Whole, Body, Counts, Counted
<1>4. HandlersAlive
  BY InvFacts DEF Alive, HandlersAlive
<1>5. ASSUME NEW th \in Thread, thread[th].pc = "wait", MustWait(pool) PROVE Cardinality(pool.threads) > 1
  <2>1. th \in pool.threads /\ ~thread[th].leader /\ ~Performing(thread[th])
    BY <1>5, InvTypes DEF Local, Performing
  <2>2. \A u \in Thread : thread[u].leader \/ Performing(thread[u]) => u \in pool.threads
    BY InvTypes DEF Local, Performing
  <2>3. CASE ~pool.promote
    <3>1. PICK u \in Thread : thread[u].leader
      BY <2>3 DEF Inv, Whole, Leadership
    <3> QED
      BY <2>1, <2>2, <3>1, TwoThreads
  <2>4. CASE pool.promote
    <3>1. pool.inUseIO > 0
      BY <1>5, <2>4, Constants DEF MustWait
    <3>2. \E u \in Thread : Performing(thread[u])
      <4>1. SUFFICES ASSUME \A u \in Thread : ~Performing(thread[u]) PROVE FALSE
        OBVIOUS
      <4>2. {u \in Thread : Performing(thread[u])} = {}
        BY <4>1
      <4>3. Cardinality({}) = 0
        BY FS_EmptySet
      <4>4. pool.inUseIO = Cardinality({u \in Thread : Performing(thread[u])})
        BY DEF Inv, Whole, Body, Counts
      <4> QED
        BY <3>1, <4>2, <4>3, <4>4
    <3> QED
      BY <2>1, <2>2, <3>2, TwoThreads
  <2> QED
    BY <2>3, <2>4
<1>6. pool.inUse <= Cardinality(pool.threads)
  <2> DEFINE B == {u \in Thread : Dispatching(thread[u])}
  <2>1. B \subseteq pool.threads
    BY InvTypes DEF Local, Dispatching
  <2>2. IsFiniteSet(pool.threads)
    BY InvTypes, Constants, FS_Subset DEF PoolRec
  <2>3. pool.inUse = Cardinality(B)
    BY DEF Inv, Whole, Body, Counts
  <2> HIDE DEF B
  <2>4. Cardinality(B) <= Cardinality(pool.threads)
    BY <2>1, <2>2, FS_Subset
  <2> QED
    BY <2>3, <2>4
<1>7. \A th \in Thread :
        /\ thread[th].pc = "message" /\ thread[th].handler = WorkQueue => pool.workItems # <<>> \/ pool.destroyed
        /\ thread[th].pc = "selected" => pool.handlers = <<>>
  BY InvFacts, InvTypes DEF Work, Local
<1>8. AssertsHold
  BY <1>5, <1>6, <1>7 DEF AssertsHold
<1> QED
  BY <1>1, <1>2, <1>3, <1>4, <1>8 DEF PoolSafe

LEMMA InvOneReader ==
    ASSUME Inv
    PROVE  OneReader
<1> SUFFICES ASSUME NEW th \in Thread, NEW other \in Thread, th # other, thread[th].handler = thread[other].handler,
                    thread[th].handler \in EventHandler
             PROVE  /\ ~(Performing(thread[th]) /\ Performing(thread[other]))
                    /\ Serialize /\ thread[th].handler \in Handler =>
                         ~(thread[th].pc \in {"io", "user"} /\ thread[other].pc \in {"message", "io", "user"})
  BY DEF OneReader
<1>1. ~(Performing(thread[th]) /\ Performing(thread[other]))
  BY DEF Inv, Whole, Body, Readers
<1>2. \A u \in Thread : /\ thread[u].pc \in {"message", "io"} => Performing(thread[u])
                        /\ thread[u].pc = "user" => Dispatching(thread[u])
  BY DEF Performing, Dispatching
<1>3. Serialize /\ thread[th].handler \in Handler =>
        /\ ~(Dispatching(thread[th]) /\ (Performing(thread[other]) \/ Dispatching(thread[other])))
        /\ ~(Dispatching(thread[other]) /\ (Performing(thread[th]) \/ Dispatching(thread[th])))
  BY DEF Inv, Whole, Body, Serial
<1> QED
  BY <1>1, <1>2, <1>3

-----------------------------------------------------------------------------
(* A pool with one thread, the default.  It keeps the leadership and does  *)
(* not use the counters; what is left of the invariant is where the thread *)
(* is, and the list of handlers.                                           *)
Place(r, t, P) ==
    /\ r.pc \notin {"none", "wait", "woken"}
    /\ P.threads = {t} /\ P.inUseIO = 0
    /\ P.inUse = IF r.pc \in {"leaving", "gone"} THEN -1 ELSE 0
    /\ P.promote <=> r.pc = "follower"
    /\ r.leader <=> r.pc \notin {"follower", "gone"}
    /\ r.pc \in {"select", "selected", "follower"} => P.handlers = <<>>
    /\ r.pc \in {"message", "io", "user", "turn"} => r.handler \in EventHandler
    /\ r.pc \notin {"io", "user"} => r.item = NoItem
    /\ r.pc = "io" /\ r.item # NoItem => r.handler = WorkQueue

(* What holds of the list whatever the thread does, *)
Listed(P, S, N) ==
    /\ IsInjective(P.handlers)
    /\ P.destroyed => \A h \in Handler : N.life[h] # "open"
    /\ \A h \in Handler : N.life[h] # "open" => h \notin S.registered
    /\ \A h \in Handler : h \in Range(P.handlers) => N.life[h] # "finished"
    /\ \A h \in Handler : Fin(h) \in Range(P.workItems) => N.life[h] # "open"
    /\ \A h \in Handler : P.workItems # <<>> /\ Head(P.workItems) = Fin(h) =>
         \A i, j \in DOMAIN P.handlers : i < j /\ P.handlers[i] = WorkQueue => P.handlers[j] # h
    /\ WorkQueue \in S.ready <=> P.workItems # <<>> \/ P.destroyed
    /\ WorkQueue \in Range(P.handlers) => P.workItems # <<>> \/ P.destroyed

(* and what the thread r has taken from it. *)
Taken(r, P, S, N) ==
    /\ S.events # {} => r.pc = "selected"
    /\ \A h \in Handler : h \in S.events => N.life[h] # "finished"
    /\ r.pc = "message" => r.handler \notin Range(P.handlers)
    /\ r.pc = "message" /\ r.handler = WorkQueue =>
         /\ P.workItems # <<>> \/ P.destroyed
         /\ \A h \in Handler : P.workItems # <<>> /\ Head(P.workItems) = Fin(h) => h \notin Range(P.handlers)
    /\ \A h \in Handler : r.pc = "io" /\ r.item = Fin(h) => N.life[h] # "open" /\ h \notin Range(P.handlers)

Lone(t, T, P, S, N) ==
    /\ Types(T, P, S, N) /\ Data(N)
    /\ \A u \in Thread \ {t} : T[u].pc = "none" /\ T[u].leader = FALSE
    /\ Place(T[t], t, P) /\ Listed(P, S, N) /\ Taken(T[t], P, S, N)

Single(t) == Lone(t, thread, pool, sel, net)

LEMMA LonePut ==
    ASSUME NEW t \in Thread, NEW T, NEW P, NEW S, NEW N, Lone(t, T, P, S, N),
           NEW me \in ThreadRec, NEW Q \in PoolRec, NEW R \in SelectorRec, NEW M \in NetRec, Data(M),
           Place(me, t, Q), Listed(Q, R, M), Taken(me, Q, R, M)
    PROVE  Lone(t, [T EXCEPT ![t] = me], Q, R, M)
<1> DEFINE V == [T EXCEPT ![t] = me]
<1>1. T \in [Thread -> ThreadRec]
  BY DEF Lone, Types
<1>2. V \in [Thread -> ThreadRec] /\ V[t] = me /\ \A u \in Thread \ {t} : V[u] = T[u]
  BY <1>1
<1> HIDE DEF V
<1>3. \A u \in Thread \ {t} : V[u].pc = "none" /\ V[u].leader = FALSE
  BY <1>2 DEF Lone
<1> QED
  BY <1>2, <1>3 DEF Lone, Types, V

(* The clients leave the thread alone. *)
LEMMA LoneEnv ==
    ASSUME NEW t \in Thread, NEW T, NEW P, NEW S, NEW N, Lone(t, T, P, S, N),
           NEW Q \in PoolRec, NEW R \in SelectorRec, NEW M \in NetRec, Data(M),
           Q.threads = P.threads, Q.inUseIO = P.inUseIO, Q.inUse = P.inUse, Q.promote = P.promote,
           Q.handlers = P.handlers, Listed(Q, R, M), Taken(T[t], Q, R, M)
    PROVE  Lone(t, T, Q, R, M)
<1>1. Place(T[t], t, Q)
  BY DEF Lone, Place
<1> QED
  BY <1>1 DEF Lone, Types

LEMMA SingleFacts ==
    ASSUME NEW t \in Thread, Single(t)
    PROVE  /\ thread \in [Thread -> ThreadRec] /\ pool \in PoolRec /\ sel \in SelectorRec /\ net \in NetRec
           /\ thread[t] \in ThreadRec /\ Data(net) /\ Place(thread[t], t, pool) /\ Listed(pool, sel, net)
           /\ Taken(thread[t], pool, sel, net)
           /\ \A th \in Thread : thread[th].pc # "none" => th = t
           /\ \A th \in Thread : thread[th].pc \notin {"wait", "woken"}
BY DEF Single, Lone, Types, Place

(* The head of a list and the rest of it. *)
LEMMA HeadApart ==
    ASSUME NEW E, NEW q \in Seq(E), q # <<>>, IsInjective(q)
    PROVE  /\ Head(q) \in E /\ Head(q) \in Range(q) /\ Tail(q) \in Seq(E) /\ Suffix(Tail(q), q)
           /\ Head(q) \notin Range(Tail(q))
           /\ \A b : (\A i, j \in DOMAIN q : i < j /\ q[i] = Head(q) => q[j] # b) => b \notin Range(Tail(q))
<1> DEFINE x == Tail(q)
           h == Head(q)
<1>1. /\ h = q[1] /\ h \in E /\ x \in Seq(E) /\ Len(x) = Len(q) - 1 /\ \A i \in 1 .. Len(x) : x[i] = q[i + 1]
  BY HeadTailProperties
<1> HIDE DEF x, h
<1>2. Len(q) \in Nat /\ DOMAIN q = 1 .. Len(q) /\ Len(q) # 0 /\ DOMAIN x = 1 .. Len(x)
  BY <1>1, LenProperties, EmptySeq
<1>3. \A i \in DOMAIN x : i + 1 \in DOMAIN q /\ 1 < i + 1 /\ x[i] = q[i + 1]
  BY <1>1, <1>2
<1>4. 1 \in DOMAIN q
  BY <1>2
<1>5. h \in Range(q)
  BY <1>1, <1>4 DEF Range
<1>6. Suffix(x, q)
  <2>1. 1 \in 0 .. Len(q) /\ Len(x) = Len(q) - 1 /\ \A i \in 1 .. Len(x) : x[i] = q[i + 1]
    BY <1>1, <1>2
  <2> QED
    BY <2>1, Zenon DEF Suffix
<1>7. h \notin Range(x)
  BY <1>1, <1>3, <1>4 DEF Range, IsInjective
<1>8. ASSUME NEW b, \A i, j \in DOMAIN q : i < j /\ q[i] = h => q[j] # b
      PROVE  b \notin Range(x)
  BY <1>1, <1>3, <1>4, <1>8 DEF Range
<1> QED
  BY <1>1, <1>5, <1>6, <1>7, <1>8 DEF x, h

(* The list may lose what is at its front. *)
LEMMA ListedSuffix ==
    ASSUME NEW P \in PoolRec, NEW S, NEW N, Listed(P, S, N), NEW Q \in PoolRec, NEW R,
           Q.workItems = P.workItems, Q.destroyed = P.destroyed, Suffix(Q.handlers, P.handlers),
           R.registered = S.registered, R.ready = S.ready
    PROVE  Listed(Q, R, N)
<1> DEFINE p == P.handlers
           q == Q.handlers
<1>1. p \in Seq(EventHandler) /\ q \in Seq(EventHandler) /\ Suffix(q, p)
  BY DEF PoolRec
<1> HIDE DEF p, q
<1>2. /\ Range(q) \subseteq Range(p) /\ (IsInjective(p) => IsInjective(q))
      /\ \A a, b : (\A i, j \in DOMAIN p : i < j /\ p[i] = a => p[j] # b)
                     => (\A i, j \in DOMAIN q : i < j /\ q[i] = a => q[j] # b)
  BY <1>1, SuffixFacts, ZenonT(60)
<1>3. \A h \in Handler : Q.workItems # <<>> /\ Head(Q.workItems) = Fin(h) =>
         \A i, j \in DOMAIN q : i < j /\ q[i] = WorkQueue => q[j] # h
  BY <1>2 DEF Listed, p
<1> QED
  BY <1>2, <1>3 DEF Listed, p, q

WithList(Q, P, q) ==
    /\ Q \in PoolRec /\ Q.handlers = q /\ Q.threads = P.threads /\ Q.inUseIO = P.inUseIO /\ Q.inUse = P.inUse
    /\ Q.promote = P.promote /\ Q.workItems = P.workItems /\ Q.destroyed = P.destroyed

LEMMA SetHandlers ==
    ASSUME NEW P \in PoolRec, NEW q \in Seq(EventHandler)
    PROVE  WithList([P EXCEPT !.handlers = q], P, q)
BY DEF PoolRec, WithList

LEMMA NotNotified ==
    ASSUME NEW V
    PROVE  NotifyOne(V, FALSE) = {V}
BY DEF NotifyOne

(* The end of run(): the thread takes the next handler, or selects. *)
LeadsOn(k, p, s, m) ==
    LET next == NextHandlers(p, s) IN
    /\ k.notify = FALSE
    /\ \/ /\ k.sel = StartSelect(s) /\ k.pool = [p EXCEPT !.handlers = <<>>]
          /\ k.me = [m EXCEPT !.pc = "select", !.handler = NoHandler]
       \/ /\ next # <<>> /\ k.sel = s /\ k.pool = [p EXCEPT !.handlers = Tail(next)]
          /\ k.me = [m EXCEPT !.pc = "message", !.handler = Head(next), !.ioCompleted = FALSE]

LEMMA LeadAlone ==
    ASSUME SizeMax = 1, NEW p \in PoolRec, NEW s \in SelectorRec, NEW m \in ThreadRec, ~(p.inUseIO > 0)
    PROVE  LeadsOn(Lead(Locked(p, s, m, FALSE)), p, s, m)
<1> DEFINE l == Locked(p, s, m, FALSE)
           next == NextHandlers(l.pool, l.sel)
           rest == [l EXCEPT !.pool.handlers = next]
           taken == [l EXCEPT !.pool.handlers = Tail(next), !.me.pc = "message",
                              !.me.handler = Head(next), !.me.ioCompleted = FALSE]
<1>0. l.pool = p /\ l.sel = s /\ l.me = m /\ l = [pool |-> p, sel |-> s, me |-> m, notify |-> FALSE]
  BY DEF Locked
<1>5. l.notify = FALSE
  BY DEF Locked
<1>1. next = NextHandlers(p, s)
  BY <1>0
<1> HIDE DEF l
<1>2. Lead(l) = IF next = <<>>
                THEN [rest EXCEPT !.sel = StartSelect(l.sel), !.me.pc = "select", !.me.handler = NoHandler]
                ELSE taken
  BY <1>0 DEF Lead
<1> HIDE DEF next
<1>3. CASE next = <<>>
  <2>1. Lead(l) = [rest EXCEPT !.sel = StartSelect(s), !.me.pc = "select", !.me.handler = NoHandler]
    BY <1>0, <1>2, <1>3
  <2>2. /\ Lead(l).pool = [p EXCEPT !.handlers = <<>>] /\ Lead(l).sel = StartSelect(s)
        /\ Lead(l).me = [m EXCEPT !.pc = "select", !.handler = NoHandler]
    BY <1>0, <1>3, <2>1
  <2>3. Lead(l).notify = l.notify
    BY <1>0, <2>1
  <2>5. Lead(l).notify = FALSE
    BY <1>5, <2>3, Zenon
  <2>6. LeadsOn(Lead(l), p, s, m)
    BY <2>2, <2>5, Zenon DEF LeadsOn
  <2> QED
    BY <2>6 DEF l
<1>4. CASE next # <<>>
  <2>1. /\ Lead(l).pool = [p EXCEPT !.handlers = Tail(next)] /\ Lead(l).sel = s
        /\ Lead(l).me = [m EXCEPT !.pc = "message", !.handler = Head(next), !.ioCompleted = FALSE]
    BY <1>0, <1>2, <1>4
  <2>2. Lead(l).notify = l.notify
    BY <1>0, <1>2, <1>4
  <2>4. Lead(l).notify = FALSE
    BY <1>5, <2>2, Zenon
  <2>5. LeadsOn(Lead(l), p, s, m)
    BY <1>1, <1>4, <2>1, <2>4, Zenon DEF LeadsOn
  <2> QED
    BY <2>5 DEF l
<1> QED
  BY <1>3, <1>4

(* The thread leads on, with the list P and the selector S. *)
LEMMA LeadSingle ==
    ASSUME SizeMax = 1, NEW t \in Thread, Single(t), NEW P \in PoolRec, NEW S \in SelectorRec, NEW m \in ThreadRec,
           P.threads = {t}, P.inUseIO = 0, P.inUse = 0, ~P.promote, Listed(P, S, net), S.events = {},
           m.leader, m.item = NoItem, Unlock(t, Lead(Locked(P, S, m, FALSE))), net' = net
    PROVE  Single(t)'
<1> DEFINE k == Lead(Locked(P, S, m, FALSE))
           next == NextHandlers(P, S)
<1>1. thread \in [Thread -> ThreadRec] /\ net \in NetRec /\ Data(net) /\ ~(P.inUseIO > 0)
  BY SingleFacts
<1>a. LeadsOn(k, P, S, m)
  BY <1>1, LeadAlone
<1> HIDE DEF k
<1>2. /\ k.notify = FALSE
      /\ \/ /\ k.sel = StartSelect(S) /\ k.pool = [P EXCEPT !.handlers = <<>>]
            /\ k.me = [m EXCEPT !.pc = "select", !.handler = NoHandler]
         \/ /\ next # <<>> /\ k.sel = S /\ k.pool = [P EXCEPT !.handlers = Tail(next)]
            /\ k.me = [m EXCEPT !.pc = "message", !.handler = Head(next), !.ioCompleted = FALSE]
  BY <1>a, Zenon DEF LeadsOn
<1>3. pool' = k.pool /\ sel' = k.sel /\ thread' = [thread EXCEPT ![t] = k.me]
  <2> DEFINE V == [thread EXCEPT ![t] = k.me]
  <2>1. pool' = k.pool /\ sel' = k.sel /\ thread' \in NotifyOne(V, k.notify)
    BY DEF Unlock, k
  <2>2. k.notify = FALSE
    BY <1>2
  <2> HIDE DEF V
  <2>3. thread' \in NotifyOne(V, FALSE)
    BY <2>1, <2>2, Zenon
  <2>4. NotifyOne(V, FALSE) = {V}
    BY NotNotified, Zenon
  <2> QED
    BY <2>1, <2>3, <2>4 DEF V
<1>4. P.handlers \in Seq(EventHandler) /\ next \in Seq(EventHandler) /\ Suffix(next, P.handlers)
  BY NextFacts DEF PoolRec
<1>5. SUFFICES /\ k.me \in ThreadRec /\ k.pool \in PoolRec /\ k.sel \in SelectorRec
               /\ Place(k.me, t, k.pool) /\ Listed(k.pool, k.sel, net) /\ Taken(k.me, k.pool, k.sel, net)
  <2>1. Lone(t, [thread EXCEPT ![t] = k.me], k.pool, k.sel, net)
    BY <1>1, <1>5, LonePut DEF Single
  <2> QED
    BY <1>3, <2>1 DEF Single
<1> HIDE DEF next
<1>6. CASE k.sel = StartSelect(S) /\ k.pool = [P EXCEPT !.handlers = <<>>]
           /\ k.me = [m EXCEPT !.pc = "select", !.handler = NoHandler]
  <2>0. <<>> \in Seq(EventHandler) /\ Range(<<>>) = {}
    BY DEF Range
  <2>1. /\ k.sel \in SelectorRec /\ k.sel.registered = S.registered /\ k.sel.ready = S.ready
        /\ k.sel.disabled = S.disabled /\ k.sel.events = {}
    BY <1>6, StartSelectFacts
  <2>2. /\ k.pool \in PoolRec /\ k.pool.threads = {t} /\ k.pool.inUseIO = 0 /\ k.pool.inUse = 0 /\ ~k.pool.promote
        /\ k.pool.handlers = <<>> /\ k.pool.workItems = P.workItems /\ k.pool.destroyed = P.destroyed
    <3> DEFINE q == <<>>
    <3>1. k.pool = [P EXCEPT !.handlers = q] /\ q \in Seq(EventHandler)
      BY <1>6, <2>0
    <3> HIDE DEF q
    <3>2. WithList(k.pool, P, q)
      BY <3>1, SetHandlers
    <3> QED
      BY <3>2, Zenon DEF q, WithList
  <2>3. k.me \in ThreadRec /\ k.me.pc = "select" /\ k.me.leader /\ k.me.item = NoItem
    BY <1>6 DEF ThreadRec
  <2>4. Suffix(<<>>, P.handlers)
    <3>1. Len(P.handlers) \in Nat
      BY <1>4, LenProperties
    <3> QED
      BY <3>1 DEF Suffix
  <2>5. Listed(k.pool, k.sel, net)
    BY <2>1, <2>2, <2>4, ListedSuffix
  <2>6. Place(k.me, t, k.pool)
    BY <2>2, <2>3 DEF Place
  <2>7. Taken(k.me, k.pool, k.sel, net)
    BY <2>1, <2>3 DEF Taken
  <2> QED
    BY <2>1, <2>2, <2>3, <2>5, <2>6, <2>7
<1>7. CASE next # <<>> /\ k.sel = S /\ k.pool = [P EXCEPT !.handlers = Tail(next)]
           /\ k.me = [m EXCEPT !.pc = "message", !.handler = Head(next), !.ioCompleted = FALSE]
  <2> DEFINE h == Head(next)
             x == Tail(next)
             N1 == [P EXCEPT !.handlers = next]
  <2>1. N1 \in PoolRec /\ N1.handlers = next /\ N1.workItems = P.workItems /\ N1.destroyed = P.destroyed
    BY <1>4 DEF PoolRec
  <2> HIDE DEF N1
  <2>2. Listed(N1, S, net)
    BY <1>4, <2>1, ListedSuffix
  <2>3. IsInjective(next)
    BY <2>1, <2>2 DEF Listed
  <2>4. /\ h \in EventHandler /\ h \in Range(next) /\ x \in Seq(EventHandler) /\ Suffix(x, next) /\ h \notin Range(x)
        /\ \A b : (\A i, j \in DOMAIN next : i < j /\ next[i] = h => next[j] # b) => b \notin Range(x)
    BY <1>4, <1>7, <2>3, HeadApart
  <2> HIDE DEF h, x
  <2>5. /\ k.pool \in PoolRec /\ k.pool.threads = {t} /\ k.pool.inUseIO = 0 /\ k.pool.inUse = 0 /\ ~k.pool.promote
        /\ k.pool.handlers = x /\ k.pool.workItems = P.workItems /\ k.pool.destroyed = P.destroyed
    <3>1. k.pool = [P EXCEPT !.handlers = x]
      BY <1>7 DEF x
    <3>2. WithList(k.pool, P, x)
      BY <2>4, <3>1, SetHandlers
    <3> QED
      BY <3>2, Zenon DEF WithList
  <2>6. k.me \in ThreadRec /\ k.me.pc = "message" /\ k.me.leader /\ k.me.item = NoItem /\ k.me.handler = h
    BY <1>7, <2>4 DEF ThreadRec, h
  <2>7. Listed(k.pool, k.sel, net)
    BY <1>7, <2>1, <2>2, <2>4, <2>5, ListedSuffix
  <2>8. Place(k.me, t, k.pool)
    BY <2>4, <2>5, <2>6 DEF Place
  <2>9. ASSUME h = WorkQueue
        PROVE  /\ P.workItems # <<>> \/ P.destroyed
               /\ \A g \in Handler : P.workItems # <<>> /\ Head(P.workItems) = Fin(g) => g \notin Range(x)
    BY <2>1, <2>2, <2>4, <2>9 DEF Listed
  <2>10. Taken(k.me, k.pool, k.sel, net)
    BY <1>7, <2>4, <2>5, <2>6, <2>9 DEF Taken
  <2> QED
    BY <1>7, <2>5, <2>6, <2>7, <2>8, <2>10
<1> QED
  BY <1>2, <1>6, <1>7

LEMMA SingleFollow ==
    ASSUME SizeMax = 1, NEW t \in Thread, Single(t), Follow(t)
    PROVE  Single(t)'
<1> DEFINE r == thread[t]
           P == [pool EXCEPT !.promote = FALSE]
           m == [r EXCEPT !.leader = TRUE, !.handler = NoHandler]
<1>1. /\ r \in ThreadRec /\ pool \in PoolRec /\ sel \in SelectorRec /\ Place(r, t, pool) /\ Listed(pool, sel, net)
      /\ Taken(r, pool, sel, net)
  BY SingleFacts
<1>2. r.pc = "follower" /\ net' = net /\ Unlock(t, FollowerWait(Here(t)))
  BY SingleFacts DEF Follow
<1>3. pool.promote /\ pool.inUseIO = 0 /\ pool.inUse = 0 /\ pool.threads = {t} /\ r.item = NoItem
  BY <1>1, <1>2 DEF Place
<1>4. ~MustWait(pool)
  BY <1>3, Constants DEF MustWait
<1>6. /\ P \in PoolRec /\ P.threads = pool.threads /\ P.inUseIO = pool.inUseIO /\ P.inUse = pool.inUse /\ ~P.promote
      /\ P.handlers = pool.handlers /\ P.workItems = pool.workItems /\ P.destroyed = pool.destroyed
  BY <1>1 DEF PoolRec
<1>7. m \in ThreadRec /\ m.leader /\ m.item = NoItem
  BY <1>1, <1>3 DEF ThreadRec
<1>5. FollowerWait(Here(t)) = Lead(Locked(P, sel, m, FALSE))
  <2> DEFINE l == Here(t)
             k == [l EXCEPT !.pool.promote = FALSE, !.me.leader = TRUE, !.me.handler = NoHandler]
  <2>1. k.pool = P /\ k.sel = sel /\ k.me = m /\ k.notify = FALSE
    BY DEF Here, Locked
  <2>2. l \in LockedRec /\ l.pool = pool
    BY <1>1 DEF LockedRec, Here, Locked
  <2>3. k \in LockedRec
    <3> HIDE DEF P, m, l, r
    <3> QED
      BY <1>1, <1>6, <1>7, <2>1, <2>2 DEF LockedRec
  <2>4. FollowerWait(l) = Lead(k)
    BY <1>4, <2>2 DEF FollowerWait
  <2> HIDE DEF k
  <2> QED
    BY <2>1, <2>3, <2>4, LockedFields
<1>8. sel.events = {}
  BY <1>1, <1>2 DEF Taken
<1> HIDE DEF P, m
<1>9. Listed(P, sel, net)
  BY <1>1, <1>6 DEF Listed
<1> QED
  BY <1>1, <1>2, <1>3, <1>5, <1>6, <1>7, <1>8, <1>9, LeadSingle

LEMMA SingleTurn ==
    ASSUME SizeMax = 1, NEW t \in Thread, Single(t), Turn(t)
    PROVE  Single(t)'
<1> DEFINE r == thread[t]
<1>1. /\ r \in ThreadRec /\ pool \in PoolRec /\ sel \in SelectorRec /\ Place(r, t, pool) /\ Listed(pool, sel, net)
      /\ Taken(r, pool, sel, net)
  BY SingleFacts
<1>2. r.pc = "turn" /\ net' = net /\ Unlock(t, Lead(Locked(pool, sel, r, FALSE)))
  BY DEF Turn, Here
<1>3. ~pool.promote /\ pool.inUseIO = 0 /\ pool.inUse = 0 /\ pool.threads = {t} /\ r.item = NoItem /\ r.leader
  BY <1>1, <1>2 DEF Place
<1>4. sel.events = {}
  BY <1>1, <1>2 DEF Taken
<1> HIDE DEF r
<1> QED
  BY <1>1, <1>2, <1>3, <1>4, LeadSingle

LEMMA SingleSelected ==
    ASSUME SizeMax = 1, NEW t \in Thread, Single(t), Selected(t)
    PROVE  Single(t)'
<1> DEFINE r == thread[t]
<1>1. /\ r \in ThreadRec /\ pool \in PoolRec /\ sel \in SelectorRec /\ Place(r, t, pool) /\ Listed(pool, sel, net)
      /\ Taken(r, pool, sel, net)
  BY SingleFacts
<1>2. PICK order \in FinishSelect(sel) :
        Unlock(t, Lead([Here(t) EXCEPT !.pool.handlers = order, !.sel.selecting = FALSE, !.sel.events = {}]))
  BY DEF Selected
<1>3. r.pc = "selected" /\ net' = net
  BY DEF Selected
<1> DEFINE P == [pool EXCEPT !.handlers = order]
           S == [sel EXCEPT !.selecting = FALSE, !.events = {}]
<1>5. /\ order \in Seq(EventHandler) /\ IsInjective(order)
      /\ Range(order) \subseteq sel.events \cup ReadyHandlers(sel)
      /\ \A i, j \in DOMAIN order : i < j /\ order[i] \in ReadyHandlers(sel) => order[j] \in ReadyHandlers(sel)
  BY <1>1, FinishFacts
<1>6. ~pool.promote /\ pool.inUseIO = 0 /\ pool.inUse = 0 /\ pool.threads = {t} /\ r.item = NoItem /\ r.leader
  BY <1>1, <1>3 DEF Place
<1>7. WithList(P, pool, order)
  BY <1>1, <1>5, SetHandlers
<1>8. S \in SelectorRec /\ S.registered = sel.registered /\ S.ready = sel.ready /\ S.events = {}
  BY <1>1 DEF SelectorRec
<1>4. [Here(t) EXCEPT !.pool.handlers = order, !.sel.selecting = FALSE, !.sel.events = {}] = Locked(P, S, r, FALSE)
  <2> DEFINE l == Here(t)
             k == [l EXCEPT !.pool.handlers = order, !.sel.selecting = FALSE, !.sel.events = {}]
  <2>1. k.pool = P /\ k.sel = S /\ k.me = r /\ k.notify = FALSE
    BY DEF Here, Locked
  <2>2. l \in LockedRec
    BY <1>1 DEF LockedRec, Here, Locked
  <2>3. k \in LockedRec
    <3>1. P \in PoolRec
      BY <1>7 DEF WithList
    <3> HIDE DEF P, S, l, r
    <3> QED
      BY <1>8, <2>1, <2>2, <3>1 DEF LockedRec
  <2> HIDE DEF k
  <2>4. k = Locked(P, S, r, FALSE)
    BY <2>1, <2>3, LockedFields
  <2> QED
    BY <2>4 DEF k
<1> HIDE DEF P, S, r
<1>9. P \in PoolRec /\ P.handlers = order /\ P.threads = {t} /\ P.inUseIO = 0 /\ P.inUse = 0 /\ ~P.promote
      /\ P.workItems = pool.workItems /\ P.destroyed = pool.destroyed
  BY <1>6, <1>7, Zenon DEF WithList
<1>10. WorkQueue \notin sel.events /\ sel.events \subseteq Handler /\ ReadyHandlers(sel) \subseteq sel.registered \cap sel.ready
  BY <1>1, Constants DEF SelectorRec, ReadyHandlers
<1>11. \A h \in Handler : h \in Range(order) => net.life[h] # "finished"
  <2>1. \A h \in Handler : h \in sel.registered => net.life[h] = "open"
    BY <1>1 DEF Listed
  <2> QED
    BY <1>1, <1>5, <1>10, <2>1 DEF Taken
<1>12. WorkQueue \in Range(order) => pool.workItems # <<>> \/ pool.destroyed
  BY <1>1, <1>5, <1>10 DEF Listed
<1>13. ASSUME NEW h \in Handler, pool.workItems # <<>>, Head(pool.workItems) = Fin(h),
              NEW i \in DOMAIN order, NEW j \in DOMAIN order, i < j, order[i] = WorkQueue
       PROVE  order[j] # h
  <2>1. order[i] \in Range(order)
    BY DEF Range
  <2>2. order[i] \in ReadyHandlers(sel)
    BY <1>5, <1>10, <1>13, <2>1
  <2>3. order[j] \in ReadyHandlers(sel)
    BY <1>5, <1>13, <2>2
  <2>4. pool.workItems \in Seq(Item)
    BY <1>1 DEF PoolRec
  <2>5. Fin(h) \in Range(pool.workItems)
    BY <1>13, <2>4, HeadInRange
  <2>6. h \notin sel.registered
    BY <1>1, <2>5 DEF Listed
  <2> QED
    BY <1>10, <2>3, <2>6
<1>14. Listed(P, S, net)
  BY <1>1, <1>5, <1>8, <1>9, <1>11, <1>12, <1>13 DEF Listed
<1> QED
  BY <1>1, <1>2, <1>3, <1>4, <1>6, <1>8, <1>9, <1>14, LeadSingle

(* The thread goes on with what it does, or to what it has next. *)
LEMMA SingleMoves ==
    ASSUME NEW t \in Thread, Single(t), NEW me \in ThreadRec, thread' = [thread EXCEPT ![t] = me], net' = net, sel' = sel,
           pool' \in PoolRec, pool'.handlers = pool.handlers, pool'.workItems = pool.workItems, pool'.destroyed = pool.destroyed,
           Place(me, t, pool'), thread[t].pc # "selected",
           me.pc # "message", me.pc = "io" => \A h \in Handler : me.item # Fin(h)
    PROVE  Single(t)'
<1>1. sel \in SelectorRec /\ net \in NetRec /\ Data(net) /\ Listed(pool, sel, net) /\ Taken(thread[t], pool, sel, net)
  BY SingleFacts
<1>2. Listed(pool', sel, net)
  BY <1>1 DEF Listed
<1>3. Taken(me, pool', sel, net)
  BY <1>1 DEF Taken
<1>4. Lone(t, [thread EXCEPT ![t] = me], pool', sel, net)
  BY <1>1, <1>2, <1>3, LonePut DEF Single
<1> QED
  BY <1>4 DEF Single

(* What leaves the selector, the messages and the lists alone. *)
LEMMA SingleQuiet ==
    ASSUME NEW t \in Thread, Single(t), Return(t) \/ RunJoin(t) \/ Leave(t)
    PROVE  Single(t)'
<1> DEFINE m == thread[t]
           turn == [m EXCEPT !.pc = "turn", !.item = NoItem]
           gone == NewThread("gone")
<1>1. thread \in [Thread -> ThreadRec] /\ m \in ThreadRec /\ Place(m, t, pool) /\ pool \in PoolRec
  BY SingleFacts
<1>2. turn \in ThreadRec /\ turn.pc = "turn" /\ turn.item = NoItem /\ turn.leader = m.leader /\ turn.handler = m.handler
  BY <1>1 DEF ThreadRec
<1>3. [thread EXCEPT ![t].pc = "turn", ![t].item = NoItem] = [thread EXCEPT ![t] = turn]
  BY <1>1
<1>4. gone \in ThreadRec /\ gone.pc = "gone" /\ gone.leader = FALSE /\ gone.item = NoItem
  BY DEF NewThread, ThreadRec
<1>5. UNCHANGED <<pool, sel, net>>
  BY DEF Return, RunJoin, Leave
<1>6. CASE Return(t) \/ RunJoin(t)
  <2>1. thread' = [thread EXCEPT ![t] = turn] /\ m.pc \in {"user", "io"}
    BY <1>3, <1>6 DEF Return, RunJoin
  <2> HIDE DEF m, turn
  <2>2. Place(turn, t, pool)
    BY <1>1, <1>2, <2>1 DEF Place
  <2>3. turn.pc # "message" /\ turn.pc # "io" /\ m.pc # "selected"
    BY <1>2, <2>1
  <2> QED
    BY <1>1, <1>2, <1>5, <2>1, <2>2, <2>3, SingleMoves DEF m
<1>7. CASE Leave(t)
  <2>1. thread' = [thread EXCEPT ![t] = gone] /\ m.pc = "leaving"
    BY <1>7 DEF Leave
  <2> HIDE DEF m, gone
  <2>2. Place(gone, t, pool)
    BY <1>1, <1>4, <2>1 DEF Place
  <2>3. gone.pc # "message" /\ gone.pc # "io" /\ m.pc # "selected"
    BY <1>4, <2>1
  <2> QED
    BY <1>1, <1>4, <1>5, <2>1, <2>2, <2>3, SingleMoves DEF m
<1> QED
  BY <1>6, <1>7

(* ioCompleted() has nobody to promote. *)
Completed(p, s, m, pc) == Locked(p, s, [m EXCEPT !.ioCompleted = TRUE, !.pc = pc], FALSE)

LEMMA IoAlone ==
    ASSUME SizeMax = 1, NEW p \in PoolRec, NEW s \in SelectorRec, NEW m \in ThreadRec, NEW pc \in {"user", "leaving"}
    PROVE  IoCompleted(Locked(p, s, m, FALSE), pc) = Completed(p, s, m, pc)
<1> DEFINE l == Locked(p, s, m, FALSE)
           me == [m EXCEPT !.ioCompleted = TRUE, !.pc = pc]
<1>1. l.me = m /\ IoCompleted(l, pc) = [l EXCEPT !.me = [l.me EXCEPT !.ioCompleted = TRUE, !.pc = pc]]
  BY DEF IoCompleted, Locked
<1>2. IoCompleted(l, pc) = [l EXCEPT !.me = me]
  BY <1>1
<1>4. me \in ThreadRec
  BY DEF ThreadRec
<1> DEFINE k == [l EXCEPT !.me = me]
<1>5. k.pool = p /\ k.sel = s /\ k.me = me /\ k.notify = FALSE
  BY DEF Locked
<1>6. l \in LockedRec
  BY DEF LockedRec, Locked
<1> HIDE DEF me, l
<1>7. k \in LockedRec
  BY <1>4, <1>6 DEF LockedRec
<1> HIDE DEF k
<1>8. k = Locked(p, s, me, FALSE)
  BY <1>5, <1>7, LockedFields
<1>3. [l EXCEPT !.me = me] = Locked(p, s, me, FALSE)
  BY <1>8 DEF k
<1> QED
  BY <1>2, <1>3 DEF me, l, Completed

LEMMA SingleCompleted ==
    ASSUME SizeMax = 1, NEW t \in Thread, Single(t), Dispatch(t) \/ RunCall(t)
    PROVE  Single(t)'
<1> DEFINE m == thread[t]
           me == [m EXCEPT !.ioCompleted = TRUE, !.pc = "user"]
           V == [thread EXCEPT ![t] = me]
<1>1. /\ thread \in [Thread -> ThreadRec] /\ m \in ThreadRec /\ Place(m, t, pool) /\ pool \in PoolRec /\ sel \in SelectorRec
  BY SingleFacts
<1>2. m.pc = "io" /\ net' = net /\ IoCompletedUnlock(t, IoCompleted(Here(t), "user"))
  BY DEF Dispatch, RunCall
<1>3. IoCompleted(Here(t), "user") = Locked(pool, sel, me, FALSE)
  BY <1>1, IoAlone DEF Here, Completed
<1> DEFINE k == Locked(pool, sel, me, FALSE)
<1>a. k.sel = sel /\ k.pool = pool /\ k.me = me /\ k.notify = FALSE
  BY DEF Locked
<1> HIDE DEF k
<1>b. IoCompletedUnlock(t, k)
  BY <1>2, <1>3 DEF k
<1>c. sel' = sel /\ pool' = pool /\ thread' \in NotifyOne(V, k.notify)
  BY <1>a, <1>b DEF IoCompletedUnlock
<1>4. sel' = sel /\ pool' = pool /\ thread' \in NotifyOne(V, FALSE)
  BY <1>a, <1>c, Zenon
<1>5. me \in ThreadRec /\ me.pc = "user" /\ me.leader = m.leader /\ me.handler = m.handler
  BY <1>1 DEF ThreadRec
<1> HIDE DEF V, me, m
<1>6. thread' = V
  <2>1. NotifyOne(V, FALSE) = {V}
    BY NotNotified, Zenon
  <2> QED
    BY <1>4, <2>1
<1>7. Place(me, t, pool)
  BY <1>1, <1>2, <1>5 DEF Place
<1>8. me.pc # "message" /\ me.pc # "io" /\ m.pc # "selected"
  BY <1>2, <1>5
<1> QED
  BY <1>1, <1>2, <1>4, <1>5, <1>6, <1>7, <1>8, SingleMoves DEF m, V

(* The thread leaves a pool that is destroyed.  Nobody reads its counter   *)
(* any more, which goes below zero.                                        *)
LEMMA SingleDestroyed ==
    ASSUME SizeMax = 1, NEW t \in Thread, Single(t), RunDestroyed(t)
    PROVE  Single(t)'
<1> DEFINE m == thread[t]
           me == [m EXCEPT !.ioCompleted = TRUE, !.pc = "leaving"]
           V == [thread EXCEPT ![t] = me]
           l == IoCompleted(Here(t), "leaving")
           x == pool.inUse - 1
           Q == [pool EXCEPT !.inUse = x]
           k == [l EXCEPT !.pool.inUse = l.pool.inUse - 1]
<1>1. /\ thread \in [Thread -> ThreadRec] /\ m \in ThreadRec /\ Place(m, t, pool) /\ pool \in PoolRec /\ sel \in SelectorRec
  BY SingleFacts
<1>2. m.pc = "io" /\ m.item = NoItem /\ net' = net /\ Unlock(t, k)
  BY DEF RunDestroyed
<1>3. l = Locked(pool, sel, me, FALSE)
  BY <1>1, IoAlone DEF Here, Completed
<1>4. x = -1
  BY <1>1, <1>2 DEF Place
<1>5. /\ Q \in PoolRec /\ Q.threads = pool.threads /\ Q.inUseIO = pool.inUseIO /\ Q.inUse = x /\ Q.promote = pool.promote
      /\ Q.handlers = pool.handlers /\ Q.workItems = pool.workItems /\ Q.destroyed = pool.destroyed
  <2>1. x \in -1 .. SizeMax
    BY <1>4
  <2> HIDE DEF x
  <2> QED
    BY <1>1, <2>1 DEF PoolRec
<1> HIDE DEF l
<1>6. k.pool = Q /\ k.sel = sel /\ k.me = me /\ k.notify = FALSE
  BY <1>3 DEF Locked
<1> HIDE DEF k, Q
<1>7. sel' = sel /\ pool' = Q /\ thread' \in NotifyOne(V, k.notify)
  BY <1>2, <1>6 DEF Unlock
<1>8. me \in ThreadRec /\ me.pc = "leaving" /\ me.leader = m.leader /\ me.handler = m.handler /\ me.item = NoItem
  BY <1>1, <1>2 DEF ThreadRec
<1> HIDE DEF V, me, m
<1>9. thread' = V
  <2>1. NotifyOne(V, FALSE) = {V}
    BY NotNotified, Zenon
  <2>2. thread' \in NotifyOne(V, FALSE)
    BY <1>6, <1>7, Zenon
  <2> QED
    BY <2>1, <2>2
<1>10. Place(me, t, Q)
  BY <1>1, <1>2, <1>4, <1>5, <1>8 DEF Place
<1>11. me.pc # "message" /\ me.pc # "io" /\ m.pc # "selected"
  BY <1>2, <1>8
<1> QED
  BY <1>1, <1>2, <1>5, <1>7, <1>8, <1>9, <1>10, <1>11, SingleMoves DEF m, V

LEMMA SingleSelect ==
    ASSUME NEW t \in Thread, Single(t), Select(t)
    PROVE  Single(t)'
<1> DEFINE m == thread[t]
           me == [m EXCEPT !.pc = "selected"]
           R == [sel EXCEPT !.events = Epoll]
<1>1. m.pc = "select" /\ sel' = R /\ thread' = [thread EXCEPT ![t].pc = "selected"] /\ UNCHANGED <<pool, net>>
  BY DEF Select
<1>2. /\ thread \in [Thread -> ThreadRec] /\ m \in ThreadRec /\ Place(m, t, pool) /\ pool \in PoolRec /\ sel \in SelectorRec
      /\ net \in NetRec /\ Data(net) /\ Listed(pool, sel, net)
  BY SingleFacts
<1>3. thread' = [thread EXCEPT ![t] = me]
  BY <1>1, <1>2
<1>4. Epoll \subseteq Handler /\ Epoll \subseteq sel.registered
  BY DEF Epoll
<1>5. R \in SelectorRec /\ R.events = Epoll /\ R.registered = sel.registered /\ R.ready = sel.ready
  BY <1>2, <1>4 DEF SelectorRec
<1>6. me \in ThreadRec /\ me.pc = "selected" /\ me.leader = m.leader /\ me.item = m.item
  BY <1>2 DEF ThreadRec
<1> HIDE DEF m, me, R
<1>7. Place(me, t, pool)
  BY <1>1, <1>2, <1>6 DEF Place
<1>8. Listed(pool, R, net)
  BY <1>2, <1>5 DEF Listed
<1>9. \A h \in Handler : h \in R.events => net.life[h] # "finished"
  BY <1>2, <1>4, <1>5 DEF Listed
<1>10. Taken(me, pool, R, net)
  BY <1>6, <1>9 DEF Taken
<1>11. Lone(t, [thread EXCEPT ![t] = me], pool, R, net)
  BY <1>2, <1>5, <1>6, <1>7, <1>8, <1>10, LonePut DEF Single
<1> QED
  BY <1>1, <1>3, <1>11 DEF Single

LEMMA SingleMessage ==
    ASSUME NEW t \in Thread, Single(t), Message(t)
    PROVE  Single(t)'
<1> DEFINE m == thread[t]
           h == m.handler
           n == net.data[h] + net.buffer[h]
           me(x) == [m EXCEPT !.pc = x]
<1>1. m.pc = "message" /\ h \in Handler /\ pool' = pool
  BY DEF Message
<1>2. /\ thread \in [Thread -> ThreadRec] /\ m \in ThreadRec /\ Place(m, t, pool) /\ pool \in PoolRec /\ sel \in SelectorRec
      /\ net \in NetRec /\ Data(net) /\ Listed(pool, sel, net) /\ Taken(m, pool, sel, net)
  BY SingleFacts
<1>3. ASSUME NEW x \in {"turn", "io"}
      PROVE  /\ me(x) \in ThreadRec /\ Place(me(x), t, pool) /\ [thread EXCEPT ![t].pc = x] = [thread EXCEPT ![t] = me(x)]
             /\ me(x).pc = x /\ me(x).item = NoItem
  <2> DEFINE me1 == me(x)
  <2>1. me1 \in ThreadRec /\ me1.pc = x /\ me1.leader = m.leader /\ me1.item = m.item /\ me1.handler = m.handler
    BY <1>2 DEF ThreadRec
  <2>2. [thread EXCEPT ![t].pc = x] = [thread EXCEPT ![t] = me1]
    BY <1>2
  <2>3. m.item = NoItem
    BY <1>1, <1>2 DEF Place
  <2> HIDE DEF me, m, me1
  <2>4. Place(me1, t, pool)
    BY <1>1, <1>2, <2>1, <2>3 DEF Place
  <2> QED
    BY <2>1, <2>2, <2>3, <2>4 DEF me1
<1>4. CASE thread' = [thread EXCEPT ![t].pc = "turn"] /\ UNCHANGED <<sel, net>>
  <2> DEFINE turn == me("turn")
  <2>1. turn \in ThreadRec /\ Place(turn, t, pool) /\ thread' = [thread EXCEPT ![t] = turn] /\ turn.pc = "turn"
    BY <1>3, <1>4
  <2> HIDE DEF turn, me
  <2>2. turn.pc # "message" /\ turn.pc # "io" /\ m.pc # "selected"
    BY <1>1, <2>1
  <2> QED
    BY <1>1, <1>2, <1>4, <2>1, <2>2, SingleMoves
<1>5. ASSUME NEW buffered \in 0 .. 1, NEW x \in {"turn", "io"}, buffered < n,
             net' = [net EXCEPT !.buffer[h] = buffered, !.data[h] = n - 1 - buffered],
             sel' = SelectorReady(sel, h, buffered = 1), thread' = [thread EXCEPT ![t].pc = x]
      PROVE  Single(t)'
  <2> DEFINE M == [net EXCEPT !.buffer[h] = buffered, !.data[h] = n - 1 - buffered]
             value == buffered = 1
             R == SelectorReady(sel, h, value)
             me1 == me(x)
  <2>1. /\ net.data \in [Handler -> 0 .. Arrivals] /\ net.arrived \in [Handler -> 0 .. Arrivals]
        /\ net.buffer \in [Handler -> 0 .. 1] /\ Arrivals \in Nat
    BY <1>2, Constants DEF NetRec
  <2>2. net.data[h] \in 0 .. Arrivals /\ net.buffer[h] \in 0 .. 1 /\ net.arrived[h] \in 0 .. Arrivals /\ n <= net.arrived[h]
    BY <1>1, <1>2, <2>1 DEF Data
  <2>3. /\ thread' = [thread EXCEPT ![t] = me1] /\ me1 \in ThreadRec /\ Place(me1, t, pool)
        /\ me1.pc # "message" /\ me1.item = NoItem
    BY <1>3, <1>5
  <2> HIDE DEF me1, me
  <2>4. n \in Nat /\ n - 1 - buffered \in 0 .. Arrivals /\ (n - 1 - buffered) + buffered <= net.arrived[h]
    BY <1>5, <2>1, <2>2
  <2> HIDE DEF n, h
  <2>5. /\ M \in NetRec /\ M.life = net.life /\ M.arrived = net.arrived
        /\ M.buffer = [net.buffer EXCEPT ![h] = buffered] /\ M.data = [net.data EXCEPT ![h] = n - 1 - buffered]
    BY <1>2, <2>1, <2>4 DEF NetRec
  <2> HIDE DEF M
  <2>6. Data(M)
    <3> SUFFICES ASSUME NEW g \in Handler PROVE M.data[g] + M.buffer[g] <= M.arrived[g]
      BY DEF Data
    <3>1. net.data[g] + net.buffer[g] <= net.arrived[g]
      BY <1>2 DEF Data
    <3>2. CASE g = h
      <4>1. M.data[g] = n - 1 - buffered /\ M.buffer[g] = buffered /\ M.arrived[g] = net.arrived[h]
        BY <2>1, <2>5, <3>2
      <4> QED
        BY <2>4, <4>1
    <3>3. CASE g # h
      BY <2>1, <2>5, <3>1, <3>3
    <3> QED
      BY <3>2, <3>3
  <2>7. h \in EventHandler /\ h # WorkQueue /\ TRUE \in BOOLEAN /\ FALSE \in BOOLEAN /\ (value = TRUE \/ value = FALSE)
    BY <1>1, Constants DEF EventHandler
  <2> HIDE DEF R, value
  <2>8. /\ SameSelector(R, sel) /\ R.registered = sel.registered
        /\ R.ready = sel.ready \cup {h} \/ R.ready = sel.ready \ {h}
    <3>1. CASE value = TRUE
      <4>1. R = SelectorReady(sel, h, TRUE)
        BY <3>1 DEF R
      <4>2. /\ SameSelector(R, sel) /\ R.registered = sel.registered /\ R.disabled = sel.disabled
            /\ R.ready = IF TRUE THEN sel.ready \cup {h} ELSE sel.ready \ {h}
        BY <1>2, <2>7, <4>1, ReadyFacts
      <4> QED
        BY <4>2
    <3>2. CASE value = FALSE
      <4>1. R = SelectorReady(sel, h, FALSE)
        BY <3>2 DEF R
      <4>2. /\ SameSelector(R, sel) /\ R.registered = sel.registered /\ R.disabled = sel.disabled
            /\ R.ready = IF FALSE THEN sel.ready \cup {h} ELSE sel.ready \ {h}
        BY <1>2, <2>7, <4>1, ReadyFacts
      <4> QED
        BY <4>2
    <3> QED
      BY <2>7, <3>1, <3>2
  <2>9. R \in SelectorRec /\ R.events = sel.events /\ (WorkQueue \in R.ready <=> WorkQueue \in sel.ready)
    BY <2>7, <2>8 DEF SameSelector
  <2>10. Listed(pool, R, M)
    BY <1>2, <2>5, <2>8, <2>9 DEF Listed
  <2>11. Taken(me1, pool, R, M)
    <3>1. sel.events = {} /\ \A g \in Handler : me1.item # Fin(g)
      BY <1>1, <1>2, <2>3, Items DEF Taken
    <3> QED
      BY <2>3, <2>9, <3>1 DEF Taken
  <2>12. Lone(t, [thread EXCEPT ![t] = me1], pool, R, M)
    BY <1>2, <2>3, <2>5, <2>6, <2>9, <2>10, <2>11, LonePut DEF Single
  <2> QED
    BY <1>1, <1>5, <2>3, <2>12 DEF Single, M, R, value
<1> QED
  BY <1>4, <1>5 DEF Message

LEMMA TailRange ==
    ASSUME NEW E, NEW q \in Seq(E), q # <<>>
    PROVE  Head(q) \in E /\ Tail(q) \in Seq(E) /\ Range(Tail(q)) \subseteq Range(q)
<1> DEFINE x == Tail(q)
<1>1. Head(q) \in E /\ x \in Seq(E) /\ Len(x) = Len(q) - 1 /\ \A i \in 1 .. Len(x) : x[i] = q[i + 1]
  BY HeadTailProperties
<1> HIDE DEF x
<1>2. DOMAIN x = 1 .. Len(x) /\ DOMAIN q = 1 .. Len(q) /\ Len(q) \in Nat
  BY <1>1, LenProperties
<1>3. \A i \in DOMAIN x : i + 1 \in DOMAIN q /\ x[i] = q[i + 1]
  BY <1>1, <1>2
<1>4. Range(x) \subseteq Range(q)
  BY <1>3 DEF Range
<1> QED
  BY <1>1, <1>4 DEF x

LEMMA SingleTakeItem ==
    ASSUME NEW t \in Thread, Single(t), TakeItem(t)
    PROVE  Single(t)'
<1> DEFINE m == thread[t]
           q == pool.workItems
           items == IF q = <<>> THEN <<>> ELSE Tail(q)
           item == IF q = <<>> THEN NoItem ELSE Head(q)
           me == [m EXCEPT !.pc = "io", !.item = item]
           Q == [pool EXCEPT !.workItems = items]
           R == IF items = <<>> /\ ~pool.destroyed THEN SelectorReady(sel, WorkQueue, FALSE) ELSE sel
<1>1. /\ m.pc = "message" /\ m.handler = WorkQueue /\ net' = net
      /\ thread' = [thread EXCEPT ![t].pc = "io", ![t].item = item] /\ pool' = Q /\ sel' = R
  BY DEF TakeItem
<1>2. /\ thread \in [Thread -> ThreadRec] /\ m \in ThreadRec /\ Place(m, t, pool) /\ pool \in PoolRec /\ sel \in SelectorRec
      /\ net \in NetRec /\ Data(net) /\ Listed(pool, sel, net) /\ Taken(m, pool, sel, net)
  BY SingleFacts
<1>3. thread' = [thread EXCEPT ![t] = me]
  BY <1>1, <1>2
<1>4. q \in Seq(Item)
  BY <1>2 DEF PoolRec
<1>5. items \in Seq(Item) /\ item \in Item \cup {NoItem} /\ Range(items) \subseteq Range(q)
  <2>1. CASE q = <<>>
    BY <1>4, <2>1, EmptySeq
  <2>2. CASE q # <<>>
    BY <1>4, <2>2, TailRange
  <2> QED
    BY <2>1, <2>2
<1>6. /\ Q \in PoolRec /\ Q.workItems = items /\ Q.threads = pool.threads /\ Q.destroyed = pool.destroyed
      /\ Q.handlers = pool.handlers /\ Q.inUse = pool.inUse /\ Q.inUseIO = pool.inUseIO /\ Q.promote = pool.promote
  <2> HIDE DEF items
  <2> QED
    BY <1>2, <1>5 DEF PoolRec
<1>7. WorkQueue \notin Range(pool.handlers) /\ (q # <<>> \/ pool.destroyed) /\ sel.events = {}
  BY <1>1, <1>2 DEF Taken
<1>8. ASSUME NEW h \in Handler, item = Fin(h) PROVE net.life[h] # "open" /\ h \notin Range(pool.handlers)
  <2>1. q # <<>> /\ Head(q) = Fin(h)
    BY <1>8, Items
  <2>2. Fin(h) \in Range(q)
    BY <1>4, <2>1, HeadInRange
  <2> QED
    BY <1>1, <1>2, <2>1, <2>2 DEF Listed, Taken
<1>9. me \in ThreadRec /\ me.pc = "io" /\ me.item = item /\ me.leader = m.leader /\ me.handler = WorkQueue
  <2> HIDE DEF item
  <2> QED
    BY <1>1, <1>2, <1>5 DEF ThreadRec
<1> HIDE DEF item, items, me, m, R, Q
<1>10. Place(me, t, Q)
  BY <1>1, <1>2, <1>6, <1>9 DEF Place, EventHandler
<1>11. /\ R \in SelectorRec /\ R.registered = sel.registered /\ R.events = sel.events
       /\ WorkQueue \in R.ready <=> items # <<>> \/ pool.destroyed
  <2>1. WorkQueue \in sel.ready
    BY <1>2, <1>7 DEF Listed
  <2>2. CASE items = <<>> /\ ~pool.destroyed
    <3>1. R = SelectorReady(sel, WorkQueue, FALSE) /\ WorkQueue \in EventHandler /\ FALSE \in BOOLEAN
      BY <2>2 DEF R, EventHandler
    <3>2. /\ SameSelector(R, sel) /\ R.registered = sel.registered /\ R.disabled = sel.disabled
          /\ R.ready = IF FALSE THEN sel.ready \cup {WorkQueue} ELSE sel.ready \ {WorkQueue}
      BY <1>2, <3>1, ReadyFacts
    <3> QED
      BY <2>2, <3>2 DEF SameSelector
  <2>3. CASE ~(items = <<>> /\ ~pool.destroyed)
    <3>1. R = sel
      BY <2>3 DEF R
    <3> QED
      BY <1>2, <2>1, <2>3, <3>1
  <2> QED
    BY <2>2, <2>3
<1>12. Listed(Q, R, net)
  <2>1. \A i \in DOMAIN pool.handlers : pool.handlers[i] # WorkQueue
    BY <1>7 DEF Range
  <2>2. \A h \in Handler : Fin(h) \in Range(Q.workItems) => net.life[h] # "open"
    BY <1>2, <1>5, <1>6 DEF Listed
  <2> QED
    BY <1>2, <1>6, <1>7, <1>11, <2>1, <2>2 DEF Listed
<1>13. Taken(me, Q, R, net)
  BY <1>6, <1>7, <1>8, <1>9, <1>11 DEF Taken
<1>14. Lone(t, [thread EXCEPT ![t] = me], Q, R, net)
  BY <1>2, <1>6, <1>9, <1>10, <1>11, <1>12, <1>13, LonePut DEF Single
<1> QED
  BY <1>1, <1>3, <1>14 DEF Single

LEMMA SingleFinished ==
    ASSUME NEW t \in Thread, Single(t), RunFinished(t)
    PROVE  Single(t)'
<1> DEFINE m == thread[t]
           h == m.item.handler
           turn == [m EXCEPT !.pc = "turn", !.item = NoItem]
           M == [net EXCEPT !.life[h] = "finished"]
<1>1. /\ m.pc = "io" /\ m.item.kind = "finished" /\ net' = M
      /\ thread' = [thread EXCEPT ![t].pc = "turn", ![t].item = NoItem] /\ UNCHANGED <<pool, sel>>
  BY DEF RunFinished
<1>2. /\ thread \in [Thread -> ThreadRec] /\ m \in ThreadRec /\ Place(m, t, pool) /\ pool \in PoolRec /\ sel \in SelectorRec
      /\ net \in NetRec /\ Data(net) /\ Listed(pool, sel, net) /\ Taken(m, pool, sel, net)
  BY SingleFacts
<1>3. thread' = [thread EXCEPT ![t] = turn]
  BY <1>1, <1>2
<1>4. h \in Handler /\ m.item = Fin(h)
  <2>1. m.item \in Item \cup {NoItem}
    BY <1>2 DEF ThreadRec
  <2>2. m.item \in [kind : {"finished"}, handler : Handler]
    BY <1>1, <2>1 DEF Item, NoItem
  <2> QED
    BY <2>2 DEF Fin
<1>5. net.life[h] # "open" /\ h \notin Range(pool.handlers) /\ sel.events = {}
  BY <1>1, <1>2, <1>4 DEF Taken
<1>6. turn \in ThreadRec /\ turn.pc = "turn" /\ turn.item = NoItem /\ turn.leader = m.leader /\ turn.handler = m.handler
  BY <1>2 DEF ThreadRec
<1>7. net.life \in [Handler -> {"open", "closing", "finished"}] /\ M \in NetRec /\ M.data = net.data /\ M.buffer = net.buffer
      /\ M.arrived = net.arrived /\ M.life = [net.life EXCEPT ![h] = "finished"]
  <2> HIDE DEF h
  <2> QED
    BY <1>2, <1>4 DEF NetRec
<1> HIDE DEF m, turn, M, h
<1>8. Place(turn, t, pool)
  BY <1>1, <1>2, <1>6 DEF Place
<1>9. M.life[h] = "finished" /\ \A g \in Handler : g # h => M.life[g] = net.life[g]
  BY <1>4, <1>7
<1>10. Data(M)
  BY <1>2, <1>7 DEF Data
<1>11. Listed(pool, sel, M)
  <2>1. \A g \in Handler : net.life[g] # "open" => M.life[g] # "open"
    BY <1>9
  <2>2. \A g \in Handler : M.life[g] # "open" => g \notin sel.registered
    BY <1>2, <1>4, <1>5, <1>9 DEF Listed
  <2>3. \A g \in Handler : g \in Range(pool.handlers) => M.life[g] # "finished"
    BY <1>2, <1>5, <1>9 DEF Listed
  <2> QED
    BY <1>2, <2>1, <2>2, <2>3 DEF Listed
<1>12. Taken(turn, pool, sel, M)
  BY <1>5, <1>6 DEF Taken
<1>13. Lone(t, [thread EXCEPT ![t] = turn], pool, sel, M)
  BY <1>2, <1>6, <1>7, <1>8, <1>10, <1>11, <1>12, LonePut DEF Single
<1> QED
  BY <1>1, <1>3, <1>13 DEF Single

(* The clients: an item is queued, *)
LEMMA LoneQueue ==
    ASSUME NEW t \in Thread, NEW T, NEW P \in PoolRec, NEW S \in SelectorRec, NEW N, Lone(t, T, P, S, N), ~P.destroyed,
           NEW item \in Item, \A h \in Handler : item = Fin(h) => N.life[h] # "open",
           NEW Q \in PoolRec, Q.workItems = Append(P.workItems, item), Q.destroyed = P.destroyed, Q.threads = P.threads,
           Q.handlers = P.handlers, Q.inUse = P.inUse, Q.inUseIO = P.inUseIO, Q.promote = P.promote
    PROVE  Lone(t, T, Q, Queue(S, P.workItems), N)
<1> DEFINE R == Queue(S, P.workItems)
<1>1. /\ P.workItems \in Seq(Item) /\ Q.workItems # <<>> /\ Range(Q.workItems) \subseteq Range(P.workItems) \cup {item}
      /\ Head(Q.workItems) = IF P.workItems = <<>> THEN item ELSE Head(P.workItems)
  <2>1. P.workItems \in Seq(Item)
    BY DEF PoolRec
  <2> QED
    BY <2>1, AppendRange
<1>2. Listed(P, S, N) /\ Taken(T[t], P, S, N) /\ Data(N) /\ N \in NetRec
  BY DEF Lone, Types
<1>3. R \in SelectorRec /\ R.registered = S.registered /\ R.events = S.events /\ WorkQueue \in R.ready
  <2>1. CASE P.workItems = <<>>
    <3>1. R = SelectorReady(S, WorkQueue, TRUE) /\ WorkQueue \in EventHandler
      BY <2>1 DEF Queue, EventHandler
    <3>2. TRUE \in BOOLEAN
      OBVIOUS
    <3> HIDE DEF R
    <3>3. /\ SameSelector(R, S) /\ R.registered = S.registered /\ R.disabled = S.disabled
          /\ R.ready = IF TRUE THEN S.ready \cup {WorkQueue} ELSE S.ready \ {WorkQueue}
      BY <3>1, <3>2, ReadyFacts
    <3> QED
      BY <3>3 DEF SameSelector
  <2>2. CASE P.workItems # <<>>
    <3>1. R = S
      BY <2>2 DEF Queue
    <3> QED
      BY <1>2, <2>2, <3>1 DEF Listed
  <2> QED
    BY <2>1, <2>2
<1> HIDE DEF R
<1>4. \A h \in Handler : Fin(h) \in Range(Q.workItems) => N.life[h] # "open"
  BY <1>1, <1>2 DEF Listed
<1>5. ASSUME NEW h \in Handler, Head(Q.workItems) = Fin(h)
      PROVE  /\ T[t].pc = "message" /\ T[t].handler = WorkQueue => h \notin Range(Q.handlers)
             /\ \A i, j \in DOMAIN Q.handlers : i < j /\ Q.handlers[i] = WorkQueue => Q.handlers[j] # h
  <2>1. CASE P.workItems = <<>>
    <3>1. ~(T[t].pc = "message" /\ T[t].handler = WorkQueue) /\ WorkQueue \notin Range(P.handlers)
      BY <1>2, <2>1 DEF Listed, Taken
    <3>2. \A i \in DOMAIN Q.handlers : Q.handlers[i] # WorkQueue
      BY <3>1 DEF Range
    <3> QED
      BY <3>1, <3>2
  <2>2. CASE P.workItems # <<>>
    BY <1>1, <1>2, <1>5, <2>2 DEF Listed, Taken
  <2> QED
    BY <2>1, <2>2
<1>6. Listed(Q, R, N)
  BY <1>1, <1>2, <1>3, <1>4, <1>5 DEF Listed
<1>7. Taken(T[t], Q, R, N)
  BY <1>1, <1>2, <1>3, <1>5 DEF Taken
<1> QED
  BY <1>2, <1>3, <1>6, <1>7, LoneEnv DEF R

LEMMA SingleCall ==
    ASSUME NEW t \in Thread, Single(t), ~pool.destroyed, net.executed < Executes,
           NEW item \in Item, \A h \in Handler : item # Fin(h),
           net' = [net EXCEPT !.executed = net.executed + 1],
           pool' = [pool EXCEPT !.workItems = Append(pool.workItems, item)],
           sel' = Queue(sel, pool.workItems), thread' = thread
    PROVE  Single(t)'
<1> DEFINE M == [net EXCEPT !.executed = net.executed + 1]
           Q == Appended(pool, pool.threads, item)
<1>1. /\ pool \in PoolRec /\ sel \in SelectorRec /\ net \in NetRec /\ Data(net) /\ Listed(pool, sel, net)
      /\ Taken(thread[t], pool, sel, net) /\ pool.threads \in SUBSET Thread
  BY SingleFacts DEF PoolRec
<1>2. net.executed + 1 \in 0 .. Executes
  BY <1>1, Constants DEF NetRec
<1>3. M \in NetRec /\ M.life = net.life /\ M.data = net.data /\ M.buffer = net.buffer /\ M.arrived = net.arrived
  BY <1>1, <1>2 DEF NetRec
<1>4. /\ Q \in PoolRec /\ Q.threads = pool.threads /\ Q.workItems = Append(pool.workItems, item) /\ Q.destroyed = pool.destroyed
      /\ Q.handlers = pool.handlers /\ Q.inUse = pool.inUse /\ Q.inUseIO = pool.inUseIO /\ Q.promote = pool.promote
  BY <1>1, AppendPool
<1>5. pool' = Q
  BY <1>1 DEF PoolRec, Appended
<1> HIDE DEF Q, M
<1>6. Data(M)
  BY <1>1, <1>3 DEF Data
<1>7. Listed(pool, sel, M) /\ Taken(thread[t], pool, sel, M)
  BY <1>1, <1>3 DEF Listed, Taken
<1>8. Lone(t, thread, pool, sel, M)
  BY <1>1, <1>3, <1>6, <1>7, LoneEnv DEF Single
<1>9. Lone(t, thread, Q, Queue(sel, pool.workItems), M)
  BY <1>1, <1>4, <1>8, LoneQueue
<1> QED
  BY <1>5, <1>9 DEF Single, M

(* a connection is held or activated, *)
LEMMA SingleUpdate ==
    ASSUME NEW t \in Thread, Single(t), NEW h \in Handler, Update(h)
    PROVE  Single(t)'
<1> DEFINE add == h \notin sel.registered
           R == SelectorUpdate(sel, h, add)
<1>1. net.life[h] = "open" /\ sel' = R /\ UNCHANGED <<thread, pool, net>> /\ h \in EventHandler /\ add \in BOOLEAN
  BY DEF Update, EventHandler
<1>2. /\ pool \in PoolRec /\ sel \in SelectorRec /\ net \in NetRec /\ Data(net) /\ Listed(pool, sel, net)
      /\ Taken(thread[t], pool, sel, net)
  BY SingleFacts
<1> HIDE DEF add, R
<1>3. /\ SameSelector(R, sel) /\ R.ready = sel.ready /\ R.registered \subseteq sel.registered \cup {h}
  BY <1>1, <1>2, UpdateFacts, ZenonT(60) DEF R
<1>4. R \in SelectorRec /\ R.events = sel.events
  BY <1>3 DEF SameSelector
<1>5. Listed(pool, R, net)
  BY <1>1, <1>2, <1>3 DEF Listed
<1>6. Taken(thread[t], pool, R, net)
  BY <1>2, <1>4 DEF Taken
<1>7. Lone(t, thread, pool, R, net)
  BY <1>2, <1>4, <1>5, <1>6, LoneEnv DEF Single
<1> QED
  BY <1>1, <1>7 DEF Single

(* or closed; the pool is destroyed, *)
LEMMA SingleFinish ==
    ASSUME NEW t \in Thread, Single(t), NEW h \in Handler, Finish(h)
    PROVE  Single(t)'
<1> DEFINE S == SelectorUpdate(sel, h, FALSE)
           M == [net EXCEPT !.life[h] = "closing"]
           Q == Appended(pool, pool.threads, Fin(h))
<1>1. /\ ~pool.destroyed /\ net.life[h] = "open" /\ thread' = thread /\ net' = M
      /\ sel' = Queue(S, pool.workItems) /\ pool' = [pool EXCEPT !.workItems = Append(pool.workItems, Fin(h))]
  BY DEF Finish, Fin
<1>2. /\ pool \in PoolRec /\ sel \in SelectorRec /\ net \in NetRec /\ h \in EventHandler /\ FALSE \in BOOLEAN
      /\ Data(net) /\ Listed(pool, sel, net) /\ Taken(thread[t], pool, sel, net)
  BY SingleFacts DEF EventHandler
<1>3. pool.threads \in SUBSET Thread /\ Fin(h) \in Item
  BY <1>2, Items DEF PoolRec
<1>4. /\ Q \in PoolRec /\ Q.threads = pool.threads /\ Q.workItems = Append(pool.workItems, Fin(h)) /\ Q.destroyed = pool.destroyed
      /\ Q.handlers = pool.handlers /\ Q.inUse = pool.inUse /\ Q.inUseIO = pool.inUseIO /\ Q.promote = pool.promote
  BY <1>2, <1>3, AppendPool
<1>5. pool' = Q
  BY <1>1, <1>2 DEF PoolRec, Appended
<1>6. /\ net.life \in [Handler -> {"open", "closing", "finished"}]
      /\ M \in NetRec /\ M.data = net.data /\ M.buffer = net.buffer /\ M.arrived = net.arrived
      /\ M.life = [net.life EXCEPT ![h] = "closing"]
  BY <1>2 DEF NetRec
<1> HIDE DEF Q, M, S
<1>7. M.life[h] = "closing" /\ \A g \in Handler : g # h => M.life[g] = net.life[g]
  BY <1>6
<1>8. /\ SameSelector(S, sel) /\ S.ready = sel.ready /\ S.disabled = sel.disabled
      /\ S.registered = IF FALSE THEN sel.registered \cup {h} ELSE sel.registered \ {h}
  BY <1>2, UpdateFacts DEF S
<1>9. S \in SelectorRec /\ S.events = sel.events /\ S.registered = sel.registered \ {h}
  BY <1>8 DEF SameSelector
<1>10. Data(M)
  BY <1>2, <1>6 DEF Data
<1>11. \A g \in Handler : /\ net.life[g] # "open" => M.life[g] # "open"
                          /\ net.life[g] # "finished" => M.life[g] # "finished"
  BY <1>1, <1>7
<1>12. Listed(pool, S, M)
  <2>1. \A g \in Handler : M.life[g] # "open" => g \notin S.registered
    BY <1>2, <1>7, <1>9 DEF Listed
  <2> QED
    BY <1>2, <1>8, <1>11, <2>1 DEF Listed
<1>13. Taken(thread[t], pool, S, M)
  BY <1>2, <1>9, <1>11 DEF Taken
<1>14. Lone(t, thread, pool, S, M)
  BY <1>2, <1>6, <1>9, <1>10, <1>12, <1>13, LoneEnv DEF Single
<1>15. \A g \in Handler : Fin(h) = Fin(g) => M.life[g] # "open"
  BY <1>7, Items
<1>16. Lone(t, thread, Q, Queue(S, pool.workItems), M)
  BY <1>1, <1>2, <1>3, <1>4, <1>9, <1>14, <1>15, LoneQueue
<1> QED
  BY <1>1, <1>5, <1>16 DEF Single

LEMMA SingleDestroy ==
    ASSUME NEW t \in Thread, Single(t), Destroy
    PROVE  Single(t)'
<1> DEFINE Q == [pool EXCEPT !.destroyed = TRUE]
           R == SelectorReady(sel, WorkQueue, TRUE)
<1>1. /\ \A h \in Handler : net.life[h] = "finished"
      /\ pool' = Q /\ sel' = R /\ UNCHANGED <<thread, net>> /\ WorkQueue \in EventHandler /\ TRUE \in BOOLEAN
  BY DEF Destroy, EventHandler
<1>2. /\ pool \in PoolRec /\ sel \in SelectorRec /\ net \in NetRec /\ Data(net) /\ Listed(pool, sel, net)
      /\ Taken(thread[t], pool, sel, net)
  BY SingleFacts
<1>3. /\ Q \in PoolRec /\ Q.threads = pool.threads /\ Q.destroyed /\ Q.workItems = pool.workItems
      /\ Q.inUse = pool.inUse /\ Q.inUseIO = pool.inUseIO /\ Q.promote = pool.promote /\ Q.handlers = pool.handlers
  BY <1>2 DEF PoolRec
<1> HIDE DEF Q, R
<1>4. /\ SameSelector(R, sel) /\ R.registered = sel.registered /\ R.disabled = sel.disabled
      /\ R.ready = IF TRUE THEN sel.ready \cup {WorkQueue} ELSE sel.ready \ {WorkQueue}
  BY <1>1, <1>2, ReadyFacts DEF R
<1>5. R \in SelectorRec /\ R.events = sel.events /\ WorkQueue \in R.ready
  BY <1>4 DEF SameSelector
<1>6. Listed(Q, R, net)
  BY <1>1, <1>2, <1>3, <1>4, <1>5 DEF Listed
<1>7. Taken(thread[t], Q, R, net)
  BY <1>2, <1>3, <1>5 DEF Taken
<1>8. Lone(t, thread, Q, R, net)
  BY <1>2, <1>3, <1>5, <1>6, <1>7, LoneEnv DEF Single
<1> QED
  BY <1>1, <1>8 DEF Single

(* and a message arrives. *)
LEMMA SingleArrive ==
    ASSUME NEW t \in Thread, Single(t), NEW h \in Handler, Arrive(h)
    PROVE  Single(t)'
<1> DEFINE M == [net EXCEPT !.arrived[h] = net.arrived[h] + 1, !.data[h] = net.data[h] + 1]
<1>1. net.arrived[h] < Arrivals /\ net' = M /\ UNCHANGED <<thread, pool, sel>>
  BY DEF Arrive
<1>2. /\ pool \in PoolRec /\ sel \in SelectorRec /\ net \in NetRec /\ Data(net) /\ Listed(pool, sel, net)
      /\ Taken(thread[t], pool, sel, net)
  BY SingleFacts
<1>3. /\ net.data \in [Handler -> 0 .. Arrivals] /\ net.arrived \in [Handler -> 0 .. Arrivals]
      /\ net.buffer \in [Handler -> 0 .. 1] /\ Arrivals \in Nat
  BY <1>2, Constants DEF NetRec
<1>4. net.data[h] + 1 \in 0 .. Arrivals /\ net.arrived[h] + 1 \in 0 .. Arrivals
  <2>1. net.data[h] + net.buffer[h] <= net.arrived[h]
    BY <1>2 DEF Data
  <2>2. net.data[h] \in 0 .. Arrivals /\ net.buffer[h] \in 0 .. 1 /\ net.arrived[h] \in 0 .. Arrivals
    BY <1>3
  <2> QED
    BY <1>1, <1>3, <2>1, <2>2
<1>5. /\ M \in NetRec /\ M.life = net.life /\ M.buffer = net.buffer
      /\ M.arrived = [net.arrived EXCEPT ![h] = net.arrived[h] + 1] /\ M.data = [net.data EXCEPT ![h] = net.data[h] + 1]
  BY <1>2, <1>3, <1>4 DEF NetRec
<1> HIDE DEF M
<1>6. Data(M)
  <2> SUFFICES ASSUME NEW g \in Handler PROVE M.data[g] + M.buffer[g] <= M.arrived[g]
    BY DEF Data
  <2>1. net.data[g] + net.buffer[g] <= net.arrived[g]
    BY <1>2 DEF Data
  <2>2. net.data[g] \in 0 .. Arrivals /\ net.buffer[g] \in 0 .. 1 /\ net.arrived[g] \in 0 .. Arrivals
    BY <1>3
  <2>3. CASE g = h
    <3>1. M.data[g] = net.data[g] + 1 /\ M.arrived[g] = net.arrived[g] + 1 /\ M.buffer[g] = net.buffer[g]
      BY <1>3, <1>5, <2>3
    <3> QED
      BY <1>3, <2>1, <2>2, <3>1
  <2>4. CASE g # h
    BY <1>3, <1>5, <2>1, <2>4
  <2> QED
    BY <2>3, <2>4
<1>7. Listed(pool, sel, M) /\ Taken(thread[t], pool, sel, M)
  BY <1>2, <1>5 DEF Listed, Taken
<1>8. Lone(t, thread, pool, sel, M)
  BY <1>2, <1>5, <1>6, <1>7, LoneEnv DEF Single
<1> QED
  BY <1>1, <1>8 DEF Single

SInv == \E t \in Thread : Single(t)

LEMMA SingleInit ==
    ASSUME SizeMax = 1, Init
    PROVE  SInv
<1>1. PICK started \in SUBSET Thread :
        /\ Cardinality(started) = Size
        /\ thread = [th \in Thread |-> NewThread(IF th \in started THEN "follower" ELSE "none")]
        /\ pool = [threads |-> started, promote |-> TRUE, destroyed |-> FALSE, workItems |-> <<>>,
                   handlers |-> <<>>, inUse |-> 0, inUseIO |-> 0]
        /\ sel = [registered |-> EventHandler, ready |-> {}, disabled |-> {}, selecting |-> FALSE,
                  interrupted |-> FALSE, selectNow |-> FALSE, events |-> {}]
        /\ net = [data |-> [h \in Handler |-> 0], buffer |-> [h \in Handler |-> 0],
                  arrived |-> [h \in Handler |-> 0], life |-> [h \in Handler |-> "open"], executed |-> 0]
  BY DEF Init
<1>2. PICK t \in Thread : started = {t}
  <2>1. IsFiniteSet(started) /\ Cardinality(started) = 1
    BY <1>1, Constants, FS_Subset
  <2>2. \E t : started = {t}
    BY <2>1, FS_Singleton
  <2> QED
    BY <2>2
<1>3. Inv
  BY InitInv
<1>4. Types(thread, pool, sel, net) /\ Data(net)
  BY <1>3 DEF Inv, Whole, Body
<1>5. /\ thread[t].pc = "follower" /\ thread[t].leader = FALSE /\ thread[t].item = NoItem
      /\ \A u \in Thread \ {t} : thread[u].pc = "none" /\ thread[u].leader = FALSE
  BY <1>1, <1>2 DEF NewThread
<1>6. /\ pool.threads = {t} /\ pool.promote = TRUE /\ pool.destroyed = FALSE /\ pool.workItems = <<>>
      /\ pool.handlers = <<>> /\ pool.inUse = 0 /\ pool.inUseIO = 0
  BY <1>1, <1>2
<1>7. sel.ready = {} /\ sel.events = {}
  BY <1>1
<1>8. \A h \in Handler : net.life[h] = "open"
  BY <1>1
<1>9. Range(pool.handlers) = {} /\ Range(pool.workItems) = {} /\ DOMAIN pool.handlers = {}
  <2>1. DOMAIN <<>> = 1 .. 0
    BY EmptySeq, LenProperties
  <2> QED
    BY <1>6, <2>1 DEF Range
<1>10. Place(thread[t], t, pool)
  BY <1>5, <1>6 DEF Place
<1>11. Listed(pool, sel, net)
  BY <1>6, <1>7, <1>8, <1>9 DEF Listed, IsInjective
<1>12. Taken(thread[t], pool, sel, net)
  BY <1>5, <1>7 DEF Taken
<1> QED
  BY <1>4, <1>5, <1>10, <1>11, <1>12 DEF SInv, Single, Lone

LEMMA SingleRun ==
    ASSUME SizeMax = 1, NEW t \in Thread, Single(t), Run(t)
    PROVE  Single(t)'
<1>1. CASE Select(t)
  BY <1>1, SingleSelect
<1>2. CASE Follow(t)
  BY <1>2, SingleFollow
<1>3. CASE Selected(t)
  BY <1>3, SingleSelected
<1>4. CASE Turn(t)
  BY <1>4, SingleTurn
<1>5. CASE Message(t)
  BY <1>5, SingleMessage
<1>6. CASE Dispatch(t) \/ RunCall(t)
  BY <1>6, SingleCompleted
<1>7. CASE TakeItem(t)
  BY <1>7, SingleTakeItem
<1>8. CASE RunFinished(t)
  BY <1>8, SingleFinished
<1>9. CASE RunJoin(t) \/ Leave(t)
  BY <1>9, SingleQuiet
<1>10. CASE RunDestroyed(t)
  BY <1>10, SingleDestroyed
<1> QED
  BY <1>1, <1>2, <1>3, <1>4, <1>5, <1>6, <1>7, <1>8, <1>9, <1>10 DEF Run

LEMMA SingleNext ==
    ASSUME SizeMax = 1, SInv, [Next]_vars
    PROVE  SInv'
<1>1. PICK t \in Thread : Single(t)
  BY DEF SInv
<1>2. SUFFICES Single(t)'
  BY <1>2 DEF SInv
<1>3. CASE UNCHANGED vars
  BY <1>1, <1>3 DEF vars, Single
<1>4. ASSUME NEW th \in Thread, Run(th) \/ Return(th) \/ FollowerTimeout(th) \/ ServerTimeout(th)
      PROVE  th = t /\ ~FollowerTimeout(th)
  <2>1. thread[th].pc # "none"
    BY <1>4 DEF Run, Return, FollowerTimeout, ServerTimeout, Select, Follow, Selected, Turn, Message, Dispatch, TakeItem,
                RunCall, RunFinished, RunJoin, RunDestroyed, Leave
  <2>2. ~FollowerTimeout(th)
    BY <1>1, SingleFacts DEF FollowerTimeout
  <2> QED
    BY <1>1, <2>1, <2>2, SingleFacts
<1>5. CASE Run(t)
  BY <1>1, <1>5, SingleRun
<1>6. CASE Return(t)
  BY <1>1, <1>6, SingleQuiet
<1>7. CASE ServerTimeout(t)
  BY <1>1, <1>7, Items, SingleCall DEF ServerTimeout
<1>8. ASSUME NEW h \in Handler, Update(h) \/ Finish(h) \/ Arrive(h)
      PROVE  Single(t)'
  BY <1>1, <1>8, SingleUpdate, SingleFinish, SingleArrive
<1>9. CASE Execute
  BY <1>1, <1>9, Items, SingleCall DEF Execute
<1>10. CASE Destroy
  BY <1>1, <1>10, SingleDestroy
<1> QED
  BY <1>3, <1>4, <1>5, <1>6, <1>7, <1>8, <1>9, <1>10 DEF Next

LEMMA SingleSafe ==
    ASSUME SizeMax = 1, SInv
    PROVE  PoolSafe /\ OneReader
<1>1. PICK t \in Thread : Single(t)
  BY DEF SInv
<1> DEFINE r == thread[t]
<1>2. /\ Place(r, t, pool) /\ Listed(pool, sel, net) /\ Taken(r, pool, sel, net)
      /\ thread \in [Thread -> ThreadRec] /\ pool \in PoolRec /\ sel \in SelectorRec /\ net \in NetRec
      /\ \A th \in Thread : thread[th].pc # "none" => th = t
      /\ \A th \in Thread : thread[th].pc \notin {"wait", "woken"}
  BY <1>1, SingleFacts
<1>3. TypeOK
  BY <1>2 DEF TypeOK
<1>4. \A u \in Thread \ {t} : thread[u].pc = "none" /\ thread[u].leader = FALSE
  BY <1>1 DEF Single, Lone
<1>5. OneLeader
  <2> DEFINE ended == SizeMax = 1 /\ \A th \in Thread : thread[th].pc \in {"none", "gone"}
  <2>1. ended <=> r.pc = "gone"
    BY <1>2, <1>4 DEF Place
  <2>2. pool.promote \/ ended <=> ~r.leader
    BY <1>2, <2>1 DEF Place
  <2>3. OneLeader <=> Cardinality(Leaders) = IF pool.promote \/ ended THEN 0 ELSE 1
    BY DEF OneLeader
  <2> HIDE DEF ended
  <2>4. CASE r.leader
    <3>1. Leaders = {t}
      BY <1>4, <2>4 DEF Leaders
    <3>2. Cardinality({t}) = 1
      BY FS_Singleton
    <3> QED
      BY <2>2, <2>3, <2>4, <3>1, <3>2
  <2>5. CASE ~r.leader
    <3>1. Leaders = {}
      BY <1>4, <2>5 DEF Leaders
    <3>2. Cardinality({}) = 0
      BY FS_EmptySet
    <3> QED
      BY <2>2, <2>3, <2>5, <3>1, <3>2
  <2> QED
    BY <2>4, <2>5
<1>6. Counted
  BY DEF Counted
<1>7. HandlersAlive
  BY <1>2 DEF HandlersAlive, Listed, Taken
<1>8. AssertsHold
  <2>1. pool.inUse <= Cardinality(pool.threads)
    <3>1. Cardinality({t}) = 1
      BY FS_Singleton
    <3>2. pool.threads = {t} /\ (pool.inUse = 0 \/ pool.inUse = -1)
      BY <1>2 DEF Place
    <3> QED
      BY <3>1, <3>2
  <2>2. \A th \in Thread :
          /\ thread[th].pc = "message" /\ thread[th].handler = WorkQueue => pool.workItems # <<>> \/ pool.destroyed
          /\ thread[th].pc # "wait"
          /\ thread[th].pc = "selected" => pool.handlers = <<>>
    BY <1>2 DEF Place, Taken
  <2> QED
    BY <2>1, <2>2 DEF AssertsHold
<1>9. OneReader
  <2>1. \A th, other \in Thread : th # other => thread[th].pc = "none" \/ thread[other].pc = "none"
    BY <1>4
  <2> QED
    BY <2>1 DEF OneReader, Performing
<1> QED
  BY <1>3, <1>5, <1>6, <1>7, <1>8, <1>9 DEF PoolSafe

LEMMA AlwaysSingle ==
    ASSUME SizeMax = 1
    PROVE  Spec => []SInv
<1>1. Init => SInv
  BY SingleInit
<1>2. SInv /\ [Next]_vars => SInv'
  BY SingleNext
<1> QED
  BY <1>1, <1>2, PTL DEF Spec

-----------------------------------------------------------------------------
LEMMA AlwaysInv ==
    ASSUME SizeMax > 1
    PROVE  Spec => []Inv
<1>1. Init => Inv
  BY InitInv
<1>2. Inv /\ [Next]_vars => Inv'
  BY NextInv
<1> QED
  BY <1>1, <1>2, PTL DEF Spec

(* A pool is safe, whatever its sizes, the handlers, the messages and the  *)
(* order in which its threads run: one leader, exact counters, no released *)
(* handler in the list of run(), and the assertions of ThreadPool.cpp      *)
(* hold.                                                                   *)
THEOREM PoolAlwaysSafe == Spec => []PoolSafe
<1>1. CASE SizeMax > 1
  <2>1. Inv => PoolSafe
    BY <1>1, InvSafe
  <2>2. Spec => []Inv
    BY <1>1, AlwaysInv
  <2> QED
    BY <2>1, <2>2, PTL
<1>2. CASE SizeMax = 1
  <2>1. SInv => PoolSafe
    BY <1>2, SingleSafe
  <2>2. Spec => []SInv
    BY <1>2, AlwaysSingle
  <2> QED
    BY <2>1, <2>2, PTL
<1> QED
  BY <1>1, <1>2, Constants

(* No two threads read from one handler and, with Serialize, none reads    *)
(* from a handler while another one dispatches for it.                     *)
THEOREM OneReaderAlways == Spec => []OneReader
<1>1. CASE SizeMax > 1
  <2>1. Inv => OneReader
    BY InvOneReader
  <2>2. Spec => []Inv
    BY <1>1, AlwaysInv
  <2> QED
    BY <2>1, <2>2, PTL
<1>2. CASE SizeMax = 1
  <2>1. SInv => OneReader
    BY <1>2, SingleSafe
  <2>2. Spec => []SInv
    BY <1>2, AlwaysSingle
  <2> QED
    BY <2>1, <2>2, PTL
<1> QED
  BY <1>1, <1>2, Constants
=============================================================================
