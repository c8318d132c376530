-------------------------- MODULE ReplicationProofs --------------------------
(***************************************************************************)
(* Proofs about Replication for any number of nodes, updates, failures,    *)
(* restarts and generations, when the updates are those of one topic and   *)
(* elections are not abandoned in the calls of init().  (The runs that go  *)
(* beyond that find violations; see the README.)                           *)
(*                                                                         *)
(* The inductive invariant says that there is a log: a function from the   *)
(* log updates that have been given out to the content that each stands    *)
(* for.  No variable holds it, so the invariant begins with \E log.        *)
(***************************************************************************)
EXTENDS Replication, FiniteSetTheorems, TLAPS

(* The updates of one topic, whose lock is Topic. *)
OneTopic == Abandon = FALSE /\ \E k : Locks = {k} /\ k # Manager
Topic == CHOOSE k : k \in Locks
Current(n) == pending[n][Topic]

Pred(t) == <<t[1], t[2] - 1>>
Most(S) == S \subseteq Node /\ 2 * Cardinality(S) > Cardinality(Node)
Entry == [set : SUBSET Update, id : 0 .. MaxUpdates, by : Node \cup {None}]

(* The entries of a log: each has the update of its transaction besides    *)
(* what the one before it has, and those of a generation have one author.  *)
Chained(log, t) ==
    /\ Pred(t) \in DOMAIN log /\ log[t].id \in 1 .. next - 1
    /\ log[t].set = log[Pred(t)].set \cup {log[t].id}

IsLog(log) ==
    /\ DOMAIN log \subseteq LogUpdate
    /\ \A t \in DOMAIN log :
         /\ log[t] \in Entry /\ log[t].set \subseteq 1 .. next - 1 /\ t[2] < next
         /\ t[2] > 0 => Chained(log, t)
         /\ \A v \in DOMAIN log : t[1] = v[1] => log[t].by = log[v].by

(* A replica has the content of its log update, on disk and in memory. *)
Replicas(log) == \A n \in Node : llu[n] \in DOMAIN log /\ mem[n] = log[llu[n]].set /\ db[n] = mem[n]

(* A node that serves is in the generation of its log update; its master   *)
(* has the last log update of that generation.                             *)
Serving(log) ==
    /\ \A n \in Node : gen[n] # NoGen => llu[n][1] = gen[n] /\ master[n] = log[llu[n]].by
    /\ \A n \in Node : Master(n) => \A t \in DOMAIN log : t[1] = gen[n] => t[2] <= llu[n][2]

(* More than half of the nodes have come to each generation, and have left *)
(* those before it.                                                        *)
Reached(log) ==
    /\ \A t \in DOMAIN log : Most({n \in Node : llu[n][1] >= t[1]})
    /\ \A t \in DOMAIN log, g \in 1 .. MaxGen : g < t[1] => Most({n \in Node : gen[n] # g})

Updating(log) ==
    \A n \in Node :
        /\ Current(n) # NoUpdate => /\ Master(n) /\ Current(n).llu = llu[n]
                                    /\ llu[n][2] > 0 /\ Current(n).id = log[llu[n]].id
        /\ calling[n] # None => Current(n) # NoUpdate
        /\ calling[n] = None => awaited[n] = {}
        /\ n \notin observers[n]

(* An observer that is still in the generation of the master has all but   *)
(* the update in progress, and that one too when it has answered.          *)
Told(n, o) == Current(n) = NoUpdate \/ (calling[n] # None /\ o \notin awaited[n])
Observing ==
    \A n \in Node :
        /\ Master(n) => \A o \in observers[n] :
             gen[o] = gen[n] => llu[o] = IF Told(n, o) THEN llu[n] ELSE Pred(llu[n])
        /\ calling[n] # None => \A o \in observers[n] \ awaited[n] : ~Newer(llu[n], llu[o])

(* A call on its way carries an entry of the log, which is the next one of *)
(* the observer if it accepts it; the master waits for it or has given the *)
(* observer up.                                                            *)
Carried(log, m) ==
    /\ m.llu \in DOMAIN log /\ m.llu[2] > 0 /\ m.gen = m.llu[1]
    /\ m.id = log[m.llu].id /\ m.from = log[m.llu].by
    /\ Accepts(m) => llu[m.to] = Pred(m.llu)
Expected(m) ==
    /\ Master(m.from) /\ gen[m.from] = m.gen /\ m.to \in observers[m.from] =>
         calling[m.from] # None /\ m.to \in awaited[m.from] /\ Current(m.from).id = m.id
    /\ Current(m.from).id = m.id => m.llu = llu[m.from]
Messages(log) == \A m \in msgs : Carried(log, m) /\ Expected(m)

(* The nodes that have left the generation of n without having answered to *)
(* its update: when a later generation is without the update, they are too *)
(* many for the update to succeed.                                         *)
Left(n) == {o \in Node : gen[o] # gen[n] /\ ~(calling[n] # None /\ o \in observers[n] \ awaited[n])}
Missing(log) ==
    \A n \in Node, t \in DOMAIN log :
        Current(n) # NoUpdate /\ t[1] > gen[n] /\ Current(n).id \notin log[t].set => Most(Left(n))

(* An update that has succeeded is in every entry from some one on, which  *)
(* more than half of the nodes have come to; one that is gone, in none.    *)
From(log, s, u) == \A t \in DOMAIN log : ~Newer(s, t) => u \in log[t].set
Without(log, s, u) == \A t \in DOMAIN log : ~Newer(s, t) => u \notin log[t].set
Acked(log) ==
    \A u \in acked : \E s \in DOMAIN log : From(log, s, u) /\ Most({n \in Node : ~Newer(s, llu[n])})
Gone(log) ==
    \A u \in gone : u < next /\ \E s \in DOMAIN log : s[2] = 0 /\ Without(log, s, u)

Good(log) ==
    /\ IsLog(log) /\ Replicas(log) /\ Serving(log) /\ Reached(log) /\ Updating(log) /\ Observing
    /\ Messages(log) /\ Missing(log) /\ Acked(log) /\ Gone(log)

(* The inductive invariant. *)
Inv == TypeOK /\ \E log : Good(log)

-----------------------------------------------------------------------------
LEMMA TheTopic == OneTopic => Locks = {Topic} /\ Topic # Manager /\ Topic # None /\ Topic \in Locks
<1> SUFFICES ASSUME OneTopic PROVE Locks = {Topic} /\ Topic # Manager /\ Topic # None /\ Topic \in Locks
  OBVIOUS
<1>1. PICK k : Locks = {k} /\ k # Manager
  BY DEF OneTopic
<1>2. Topic \in Locks
  BY <1>1 DEF Topic
<1> QED
  BY <1>1, <1>2, LocksAssumption

LEMMA NodesCount == Cardinality(Node) \in Nat /\ Majority \in Nat /\ 2 * (Majority + 1) > Cardinality(Node)
<1>1. Cardinality(Node) \in Nat
  BY NodeAssumption, FS_CardinalityType
<1>2. \A k \in Nat : k \div 2 \in Nat /\ 2 * (k \div 2 + 1) > k
  OBVIOUS
<1> QED
  BY <1>1, <1>2 DEF Majority

LEMMA MostMeet ==
  ASSUME NEW S, NEW T, Most(S), Most(T)
  PROVE  \E n \in Node : n \in S /\ n \in T
<1>1. IsFiniteSet(S) /\ IsFiniteSet(T) /\ IsFiniteSet(Node)
  BY NodeAssumption, FS_Subset DEF Most
<1>2. Cardinality(S) \in Nat /\ Cardinality(T) \in Nat /\ Cardinality(Node) \in Nat
  BY <1>1, FS_CardinalityType
<1>3. S \subseteq Node /\ T \subseteq Node /\ Cardinality(S) + Cardinality(T) > Cardinality(Node)
  BY <1>2 DEF Most
<1>4. S \cap T # {}
  BY <1>1, <1>3, FS_MajoritiesIntersect
<1> QED
  BY <1>3, <1>4

LEMMA MostGrows ==
  ASSUME NEW S, NEW T, Most(S), S \subseteq T, T \subseteq Node
  PROVE  Most(T)
<1>1. IsFiniteSet(T) /\ IsFiniteSet(S)
  BY NodeAssumption, FS_Subset
<1>2. Cardinality(S) \in Nat /\ Cardinality(T) \in Nat /\ Cardinality(S) <= Cardinality(T)
  BY <1>1, FS_Subset, FS_CardinalityType
<1> QED
  BY <1>2, NodesCount DEF Most

(* A master and a majority of observers. *)
LEMMA MostWith ==
  ASSUME NEW n \in Node, NEW S, S \subseteq Node, n \notin S, Cardinality(S) >= Majority
  PROVE  Most(S \cup {n})
<1>1. IsFiniteSet(S)
  BY NodeAssumption, FS_Subset
<1>2. Cardinality(S \cup {n}) = Cardinality(S) + 1 /\ Cardinality(S) \in Nat
  BY <1>1, FS_AddElement, FS_CardinalityType
<1> QED
  BY <1>2, NodesCount DEF Most

LEMMA Stamps ==
  ASSUME NEW s \in LogUpdate, NEW t \in LogUpdate
  PROVE  /\ s[1] \in Nat /\ s[2] \in Nat /\ s[1] \in 0 .. MaxGen /\ s[2] \in 0 .. MaxUpdates
         /\ s[1] = t[1] /\ s[2] = t[2] => s = t
         /\ ~Newer(s, t) <=> s[1] < t[1] \/ (s[1] = t[1] /\ s[2] <= t[2])
         /\ s[2] > 0 /\ t[2] > 0 /\ Pred(s) = Pred(t) => s = t
         /\ s[2] > 0 => Newer(s, Pred(s)) /\ Pred(s)[1] = s[1] /\ Pred(s)[2] = s[2] - 1
BY BoundAssumption DEF LogUpdate, Newer, Pred

-----------------------------------------------------------------------------
(* The steps.  Kept(log) is what each has to show of the log after it. *)

Kept(log) == TypeOK' /\ Good(log)' /\ \A n \in Node : ~Newer(llu[n], llu'[n])

LEMMA NodeFacts ==
  ASSUME OneTopic, TypeOK, NEW n \in Node
  PROVE  /\ llu[n] \in LogUpdate /\ gen[n] \in 0 .. MaxGen /\ gen[n] \in Nat /\ observers[n] \subseteq Node
         /\ awaited[n] \subseteq observers[n] /\ awaited[n] \subseteq Node
         /\ pending[n] \in [Locks -> [id : 0 .. MaxUpdates, llu : LogUpdate]]
         /\ Current(n) \in [id : 0 .. MaxUpdates, llu : LogUpdate] /\ calling[n] \in {Topic, None}
<1>1. Locks = {Topic} /\ Topic \in Locks
  BY TheTopic
<1>2. pending[n] \in [Locks -> [id : 0 .. MaxUpdates, llu : LogUpdate]]
  BY DEF TypeOK
<1>3. Current(n) \in [id : 0 .. MaxUpdates, llu : LogUpdate]
  BY <1>1, <1>2 DEF Current
<1>4. calling[n] \in Locks \cup {None}
  BY DEF TypeOK
<1>5. gen[n] \in 0 .. MaxGen /\ llu[n] \in LogUpdate
  BY DEF TypeOK
<1> QED
  BY <1>1, <1>2, <1>3, <1>4, <1>5, BoundAssumption DEF TypeOK

(* A step that leaves the replicas alone. *)
LEMMA SameReplicas ==
  ASSUME TypeOK, NEW log, Good(log), UNCHANGED <<db, mem, llu, next>>
  PROVE  /\ IsLog(log)' /\ Replicas(log)' /\ \A n \in Node : ~Newer(llu[n], llu'[n])
         /\ gone' = gone => Gone(log)'
         /\ acked' = acked => Acked(log)'
<1>1. IsLog(log)'
  BY DEF Good, IsLog, Chained
<1>2. Replicas(log)'
  BY DEF Good, Replicas
<1>3. \A n \in Node : ~Newer(llu[n], llu'[n])
  <2> SUFFICES ASSUME NEW n \in Node PROVE ~Newer(llu[n], llu[n])
    OBVIOUS
  <2>1. llu[n] \in LogUpdate
    BY DEF TypeOK
  <2> QED
    BY <2>1, Stamps
<1>4. gone' = gone => Gone(log)'
  BY DEF Good, Gone, Without
<1>5. acked' = acked => Acked(log)'
  BY DEF Good, Acked, From, Most
<1> QED
  BY <1>1, <1>2, <1>3, <1>4, <1>5

(* A step in which nodes serve on or leave their generations. *)
LEMMA NoneServes ==
  ASSUME TypeOK, NEW log, Good(log), UNCHANGED <<llu>>,
         \A n \in Node : gen'[n] = NoGen \/ (gen'[n] = gen[n] /\ master'[n] = master[n])
  PROVE  /\ Serving(log)' /\ Reached(log)'
         /\ \A n \in Node : Master(n)' => Master(n)
<1>1. Serving(log)'
  BY DEF Good, Serving, Master
<1>2. ASSUME NEW t \in DOMAIN log PROVE Most({n \in Node : llu[n][1] >= t[1]})'
  BY DEF Good, Reached, Most
<1>3. ASSUME NEW t \in DOMAIN log, NEW g \in 1 .. MaxGen, g < t[1] PROVE Most({n \in Node : gen[n] # g})'
  <2>1. Most({n \in Node : gen[n] # g})
    BY <1>3 DEF Good, Reached
  <2>2. {n \in Node : gen[n] # g} \subseteq {n \in Node : gen'[n] # g}
    BY DEF NoGen
  <2>3. Most({n \in Node : gen'[n] # g})
    BY <2>1, <2>2, MostGrows
  <2> QED
    BY <2>3 DEF Most
<1>4. Reached(log)'
  BY <1>2, <1>3 DEF Reached
<1> QED
  BY <1>1, <1>4 DEF Master

LEMMA SendStep ==
  ASSUME OneTopic, TypeOK, NEW log, Good(log), NEW n \in Node, NEW k \in Locks, Send(n, k)
  PROVE  Kept(log)
<1> DEFINE u == Current(n)
           sent == {[to |-> o, from |-> n, gen |-> u.llu[1], id |-> u.id, llu |-> u.llu] : o \in observers[n]}
<1>1. k = Topic /\ Topic # None
  BY TheTopic
<1>2. /\ UNCHANGED <<db, mem, llu, gen, master, full, observers, pending, acked, gone, next, used>>
      /\ calling[n] = None /\ u # NoUpdate /\ calling' = [calling EXCEPT ![n] = Topic]
      /\ awaited' = [awaited EXCEPT ![n] = observers[n]] /\ msgs' = msgs \cup sent
  BY <1>1 DEF Send, Current
<1>3. /\ Master(n) /\ u.llu = llu[n] /\ llu[n][2] > 0 /\ u.id = log[llu[n]].id /\ awaited[n] = {}
      /\ n \notin observers[n] /\ gen[n] # NoGen
  BY <1>2 DEF Good, Updating, Master
<1>4. /\ u \in [id : 0 .. MaxUpdates, llu : LogUpdate] /\ observers[n] \subseteq Node /\ gen[n] \in 0 .. MaxGen
      /\ llu[n] \in LogUpdate /\ llu[n] \in DOMAIN log
  BY NodeFacts DEF Good, Replicas
<1>5. llu[n][1] = gen[n] /\ gen[n] \in 1 .. MaxGen /\ n = log[llu[n]].by /\ u.id \in Update
  <2>1. llu[n][1] = gen[n] /\ n = log[llu[n]].by
    BY <1>3 DEF Good, Serving, Master
  <2>2. gen[n] \in 1 .. MaxGen
    BY <1>3, <1>4, BoundAssumption DEF NoGen
  <2>3. u.id # 0 /\ u.id \in 0 .. MaxUpdates
    BY <1>3, <1>4, BoundAssumption DEF Good, IsLog, Chained
  <2> QED
    BY <2>1, <2>2, <2>3, BoundAssumption DEF Update
<1> HIDE DEF u
<1>6. sent \subseteq Message
  BY <1>3, <1>4, <1>5 DEF Message
<1>7. TypeOK'
  <2>1. awaited' \in [Node -> SUBSET Node] /\ \A p \in Node : awaited'[p] \subseteq observers'[p]
    BY <1>2, <1>4 DEF TypeOK
  <2>2. calling' \in [Node -> Locks \cup {None}]
    BY <1>1, <1>2 DEF TypeOK
  <2>3. msgs' \in SUBSET Message
    BY <1>2, <1>6 DEF TypeOK
  <2> QED
    BY <1>2, <2>1, <2>2, <2>3 DEF TypeOK
<1>8. \A p \in Node : /\ Current(p)' = Current(p) /\ Master(p)' = Master(p)
                      /\ calling'[p] = (IF p = n THEN Topic ELSE calling[p])
                      /\ awaited'[p] = (IF p = n THEN observers[n] ELSE awaited[p])
  BY <1>2 DEF Current, Master, TypeOK
<1>9. Updating(log)'
  BY <1>1, <1>2, <1>8, <1>3 DEF Good, Updating, u
<1>10. Observing'
  <2>1. \A p \in Node : \A o \in observers[p] : Told(p, o)' = Told(p, o)
    BY <1>1, <1>2, <1>3, <1>8 DEF Told, u
  <2>2. \A p \in Node : calling'[p] # None =>
          \A o \in observers'[p] \ awaited'[p] : calling[p] # None /\ o \in observers[p] \ awaited[p]
    BY <1>2, <1>8
  <2> QED
    BY <1>2, <1>8, <2>1, <2>2 DEF Good, Observing
<1>11. Messages(log)'
  <2>1. ASSUME NEW m \in msgs PROVE (Carried(log, m) /\ Expected(m))'
    <3>1. Carried(log, m) /\ Expected(m) /\ m.from \in Node /\ m.to \in Node
      BY <2>1 DEF Good, Messages, TypeOK, Message
    <3>2. m.from = n => ~(Master(m.from) /\ gen[m.from] = m.gen /\ m.to \in observers[m.from])
      BY <1>2, <3>1 DEF Expected
    <3> QED
      BY <1>2, <1>8, <3>1, <3>2 DEF Carried, Expected, Accepts
  <2>2. ASSUME NEW m \in sent PROVE (Carried(log, m) /\ Expected(m))'
    <3>1. PICK o \in observers[n] : m = [to |-> o, from |-> n, gen |-> u.llu[1], id |-> u.id, llu |-> u.llu]
      BY <2>2
    <3>2. m.to = o /\ m.from = n /\ m.gen = gen[n] /\ m.id = u.id /\ m.llu = llu[n]
      BY <1>3, <1>5, <3>1
    <3>3. gen[o] = gen[n] => llu[o] = Pred(llu[n])
      BY <1>2, <1>3 DEF Good, Observing, Told, u
    <3>4. Carried(log, m)'
      BY <1>2, <1>3, <1>4, <1>5, <3>2, <3>3 DEF Carried, Accepts
    <3>5. Expected(m)'
      BY <1>1, <1>2, <1>8, <3>2 DEF Expected, u
    <3> QED
      BY <3>4, <3>5
  <2> QED
    BY <1>2, <2>1, <2>2 DEF Messages
<1>12. Missing(log)'
  <2>1. \A p \in Node : Left(p)' = Left(p)
    BY <1>2, <1>8 DEF Left
  <2> QED
    BY <1>2, <1>8, <2>1 DEF Good, Missing, Most
<1>13. IsLog(log)' /\ Replicas(log)' /\ Acked(log)' /\ Gone(log)' /\ \A p \in Node : ~Newer(llu[p], llu'[p])
  BY <1>2, SameReplicas
<1>14. Serving(log)' /\ Reached(log)'
  BY <1>2, NoneServes
<1> QED
  BY <1>7, <1>9, <1>10, <1>11, <1>12, <1>13, <1>14 DEF Kept, Good

(* Observers are given up, and calls to them may be lost. *)
LEMMA EvictStep ==
  ASSUME OneTopic, TypeOK, NEW log, Good(log),
         UNCHANGED <<db, mem, llu, gen, master, full, pending, calling, acked, gone, next>>,
         observers' \in [Node -> SUBSET Node], awaited' \in [Node -> SUBSET Node],
         \A p \in Node : \E X : observers'[p] = observers[p] \ X /\ awaited'[p] = awaited[p] \ X,
         msgs' \subseteq msgs, used' \in [failures : 0 .. MaxFailures, crashes : 0 .. MaxCrashes]
  PROVE  Kept(log)
<1>1. TypeOK'
  <2>1. \A p \in Node : awaited'[p] \subseteq observers'[p]
    BY DEF TypeOK
  <2> QED
    BY <2>1 DEF TypeOK
<1>2. \A p \in Node : Current(p)' = Current(p) /\ Master(p)' = Master(p)
  BY DEF Current, Master
<1>3. \A p \in Node : /\ observers'[p] \subseteq observers[p] /\ awaited'[p] \subseteq awaited[p]
                      /\ \A o \in observers'[p] : o \in awaited'[p] <=> o \in awaited[p]
  OBVIOUS
<1>4. Updating(log)'
  BY <1>2, <1>3 DEF Good, Updating
<1>5. Observing'
  <2>1. \A p \in Node : \A o \in observers'[p] : Told(p, o)' = Told(p, o)
    BY <1>2, <1>3 DEF Told
  <2> QED
    BY <1>2, <1>3, <2>1 DEF Good, Observing
<1>6. Messages(log)'
  <2> SUFFICES ASSUME NEW m \in msgs' PROVE Carried(log, m)' /\ Expected(m)'
    BY DEF Messages
  <2>1. Carried(log, m) /\ Expected(m) /\ m.from \in Node /\ m.to \in Node
    BY DEF Good, Messages, TypeOK, Message
  <2> QED
    BY <1>2, <1>3, <2>1 DEF Carried, Expected, Accepts
<1>7. Missing(log)'
  <2> SUFFICES ASSUME NEW n \in Node, NEW t \in DOMAIN log,
                      Current(n) # NoUpdate /\ t[1] > gen[n] /\ Current(n).id \notin log[t].set
               PROVE  Most(Left(n))'
    BY <1>2 DEF Missing
  <2>1. Most(Left(n))
    BY DEF Good, Missing
  <2>2. Left(n) \subseteq Left(n)' /\ Left(n)' \subseteq Node
    BY <1>3 DEF Left
  <2>3. Most(Left(n)')
    BY <2>1, <2>2, MostGrows
  <2> QED
    BY <2>3 DEF Most
<1>8. IsLog(log)' /\ Replicas(log)' /\ Acked(log)' /\ Gone(log)' /\ \A p \in Node : ~Newer(llu[p], llu'[p])
  BY SameReplicas
<1>9. Serving(log)' /\ Reached(log)'
  BY NoneServes
<1> QED
  BY <1>1, <1>4, <1>5, <1>6, <1>7, <1>8, <1>9 DEF Kept, Good

LEMMA FailType ==
  ASSUME TypeOK, Fail
  PROVE  used' \in [failures : 0 .. MaxFailures, crashes : 0 .. MaxCrashes]
BY BoundAssumption DEF TypeOK, Fail

LEMMA CallFailsStep ==
  ASSUME OneTopic, TypeOK, NEW log, Good(log), NEW n \in Node, NEW o \in Node, CallFails(n, o)
  PROVE  Kept(log)
<1>1. \A p \in Node : \E X : observers'[p] = observers[p] \ X /\ awaited'[p] = awaited[p] \ X
  <2> SUFFICES ASSUME NEW p \in Node
               PROVE  \E X : observers'[p] = observers[p] \ X /\ awaited'[p] = awaited[p] \ X
    OBVIOUS
  <2>1. CASE p = n
    <3>1. observers'[p] = observers[p] \ {o} /\ awaited'[p] = awaited[p] \ {o}
      BY <2>1 DEF CallFails, TypeOK
    <3> QED
      BY <3>1
  <2>2. CASE p # n
    <3>1. observers'[p] = observers[p] \ {} /\ awaited'[p] = awaited[p] \ {}
      BY <2>2 DEF CallFails, TypeOK
    <3> QED
      BY <3>1
  <2> QED
    BY <2>1, <2>2
<1>2. observers' \in [Node -> SUBSET Node] /\ awaited' \in [Node -> SUBSET Node] /\ msgs' \subseteq msgs
  BY DEF CallFails, TypeOK
<1>3. UNCHANGED <<db, mem, llu, gen, master, full, pending, calling, acked, gone, next>> /\ Fail
  BY DEF CallFails
<1> QED
  BY <1>1, <1>2, <1>3, FailType, EvictStep

LEMMA PingFailsStep ==
  ASSUME OneTopic, TypeOK, NEW log, Good(log), NEW n \in Node, NEW o \in Node, PingFails(n, o)
  PROVE  Kept(log)
<1>1. \A p \in Node : \E X : observers'[p] = observers[p] \ X /\ awaited'[p] = awaited[p] \ X
  <2> SUFFICES ASSUME NEW p \in Node
               PROVE  \E X : observers'[p] = observers[p] \ X /\ awaited'[p] = awaited[p] \ X
    OBVIOUS
  <2>1. CASE p = n
    <3>1. observers'[p] = observers[p] \ {o} /\ awaited'[p] = awaited[p] \ {o}
      BY <2>1 DEF PingFails, TypeOK, Good, Updating
    <3> QED
      BY <3>1
  <2>2. CASE p # n
    <3>1. observers'[p] = observers[p] \ {} /\ awaited'[p] = awaited[p] \ {}
      BY <2>2 DEF PingFails, TypeOK
    <3> QED
      BY <3>1
  <2> QED
    BY <2>1, <2>2
<1>2. observers' \in [Node -> SUBSET Node] /\ awaited' \in [Node -> SUBSET Node] /\ msgs' \subseteq msgs
  BY DEF PingFails, TypeOK
<1>3. UNCHANGED <<db, mem, llu, gen, master, full, pending, calling, acked, gone, next>> /\ Fail
  BY DEF PingFails
<1> QED
  BY <1>1, <1>2, <1>3, FailType, EvictStep

(* An update that has succeeded: no generation can be without it. *)
LEMMA Succeeds ==
  ASSUME OneTopic, TypeOK, NEW log, Good(log), NEW n \in Node, calling[n] # None, awaited[n] = {},
         Cardinality(observers[n]) >= Majority
  PROVE  /\ llu[n] \in DOMAIN log /\ From(log, llu[n], Current(n).id)
         /\ Most({p \in Node : ~Newer(llu[n], llu[p])})
<1> DEFINE u == Current(n)
<1>1. /\ u # NoUpdate /\ Master(n) /\ llu[n][2] > 0 /\ u.id = log[llu[n]].id /\ n \notin observers[n]
      /\ llu[n] \in DOMAIN log /\ llu[n][1] = gen[n]
  BY DEF Good, Updating, Replicas, Serving, Master
<1>2. Most(observers[n] \cup {n})
  BY <1>1, NodeFacts, MostWith
<1>3. From(log, llu[n], u.id)
  <2> SUFFICES ASSUME NEW t \in DOMAIN log, ~Newer(llu[n], t) PROVE u.id \in log[t].set
    BY DEF From
  <2>1. t \in LogUpdate /\ llu[n] \in LogUpdate
    BY <1>1 DEF Good, IsLog
  <2>2. t[1] > gen[n] \/ (t[1] = gen[n] /\ llu[n][2] <= t[2])
    BY <1>1, <2>1, Stamps
  <2>3. CASE t[1] = gen[n] /\ llu[n][2] <= t[2]
    <3>1. t[2] <= llu[n][2]
      BY <1>1, <2>3 DEF Good, Serving
    <3>2. t = llu[n]
      BY <1>1, <2>1, <2>3, <3>1, Stamps
    <3> QED
      BY <1>1, <3>2 DEF Good, IsLog, Chained
  <2>4. CASE t[1] > gen[n]
    <3> SUFFICES ASSUME u.id \notin log[t].set PROVE FALSE
      OBVIOUS
    <3>1. Most(Left(n))
      BY <1>1, <2>4 DEF Good, Missing
    <3>2. PICK x \in Node : x \in Left(n) /\ x \in observers[n] \cup {n}
      BY <1>2, <3>1, MostMeet
    <3> QED
      BY <3>2 DEF Left
  <2> QED
    BY <2>2, <2>3, <2>4
<1>4. observers[n] \cup {n} \subseteq {p \in Node : ~Newer(llu[n], llu[p])}
  <2>1. \A p \in observers[n] : p \in Node /\ ~Newer(llu[n], llu[p])
    BY NodeFacts DEF Good, Observing
  <2>2. ~Newer(llu[n], llu[n])
    BY NodeFacts, Stamps
  <2> QED
    BY <2>1, <2>2
<1>5. Most({p \in Node : ~Newer(llu[n], llu[p])})
  BY <1>2, <1>4, MostGrows
<1> QED
  BY <1>1, <1>3, <1>5

LEMMA FinishStep ==
  ASSUME OneTopic, TypeOK, NEW log, Good(log), NEW n \in Node, Finish(n)
  PROVE  Kept(log)
<1> DEFINE u == Current(n)
<1>1. calling[n] = Topic /\ Topic # None /\ Topic # Manager /\ Locks = {Topic} /\ awaited[n] = {}
  BY NodeFacts, TheTopic DEF Finish
<1>2. /\ UNCHANGED <<db, mem, llu, gen, master, full, observers, awaited, msgs, gone, next, used>>
      /\ pending' = [pending EXCEPT ![n][Topic] = NoUpdate] /\ calling' = [calling EXCEPT ![n] = None]
      /\ acked' = acked \/ (Cardinality(observers[n]) >= Majority /\ acked' = acked \cup {u.id})
  BY <1>1 DEF Finish, Current
<1>3. \A p \in Node : /\ Current(p)' = (IF p = n THEN NoUpdate ELSE Current(p)) /\ Master(p)' = Master(p)
                      /\ calling'[p] = (IF p = n THEN None ELSE calling[p])
  BY <1>1, <1>2, NodeFacts DEF Current, Master, TypeOK
<1>4. u # NoUpdate /\ u.id \in Update
  <2>1. u # NoUpdate /\ u.id = log[llu[n]].id /\ llu[n] \in DOMAIN log /\ llu[n][2] > 0
    BY <1>1 DEF Good, Updating, Replicas
  <2>2. u.id \in 1 .. next - 1 /\ next \in 1 .. MaxUpdates + 1
    BY <2>1 DEF Good, IsLog, Chained, TypeOK
  <2> QED
    BY <2>1, <2>2, BoundAssumption DEF Update
<1>5. TypeOK'
  <2>1. NoUpdate \in [id : 0 .. MaxUpdates, llu : LogUpdate]
    BY BoundAssumption DEF NoUpdate, LogUpdate
  <2>2. pending' \in [Node -> [Locks -> [id : 0 .. MaxUpdates, llu : LogUpdate]]]
    BY <1>2, <2>1 DEF TypeOK
  <2>3. calling' \in [Node -> Locks \cup {None}] /\ acked' \in SUBSET Update
    BY <1>2, <1>4 DEF TypeOK
  <2> QED
    BY <1>2, <2>2, <2>3 DEF TypeOK
<1>6. Updating(log)'
  BY <1>1, <1>2, <1>3 DEF Good, Updating
<1>7. Observing'
  <2>1. \A p \in Node : \A o \in observers[p] : Told(p, o)' = Told(p, o)
    BY <1>1, <1>2, <1>3 DEF Told
  <2> QED
    BY <1>2, <1>3, <2>1 DEF Good, Observing
<1>8. Messages(log)'
  <2> SUFFICES ASSUME NEW m \in msgs PROVE Carried(log, m)' /\ Expected(m)'
    BY <1>2 DEF Messages
  <2>1. Carried(log, m) /\ Expected(m) /\ m.from \in Node /\ m.to \in Node
    BY DEF Good, Messages, TypeOK, Message
  <2>2. Carried(log, m)'
    BY <1>2, <2>1 DEF Carried, Accepts
  <2>3. m.id # 0 /\ NoUpdate.id = 0
    BY <2>1 DEF Carried, NoUpdate, Good, IsLog, Chained, TypeOK
  <2>4. Expected(m)'
    BY <1>1, <1>2, <1>3, <2>1, <2>3 DEF Expected
  <2> QED
    BY <2>2, <2>4
<1>9. Missing(log)'
  <2>1. \A p \in Node : p # n => Left(p)' = Left(p)
    BY <1>2, <1>3 DEF Left
  <2> QED
    BY <1>2, <1>3, <2>1 DEF Good, Missing, Most
<1>10. Acked(log)'
  <2>1. Acked(log)
    BY DEF Good
  <2>2. acked' = acked => Acked(log)'
    BY <1>2, SameReplicas
  <2>3. CASE Cardinality(observers[n]) >= Majority /\ acked' = acked \cup {u.id}
    <3>1. /\ llu[n] \in DOMAIN log /\ From(log, llu[n], u.id) /\ Most({p \in Node : ~Newer(llu[n], llu[p])})
      BY <1>1, <2>3, Succeeds
    <3> HIDE DEF u
    <3>2. \A v \in acked' : \E s \in DOMAIN log : From(log, s, v) /\ Most({p \in Node : ~Newer(s, llu[p])})
      BY <2>1, <2>3, <3>1 DEF Acked
    <3> QED
      BY <1>2, <3>2 DEF Acked, From, Most
  <2> QED
    BY <1>2, <2>2, <2>3
<1>11. IsLog(log)' /\ Replicas(log)' /\ Gone(log)' /\ \A p \in Node : ~Newer(llu[p], llu'[p])
  BY <1>2, SameReplicas
<1>12. Serving(log)' /\ Reached(log)'
  BY <1>2, NoneServes
<1> QED
  BY <1>5, <1>6, <1>7, <1>8, <1>9, <1>10, <1>11, <1>12 DEF Kept, Good

(* A node leaves its generation, with what it was doing in it. *)
LEMMA LeaveStep ==
  ASSUME OneTopic, TypeOK, NEW log, Good(log), NEW n \in Node, TypeOK',
         UNCHANGED <<db, mem, llu, msgs, acked, gone, next>>,
         gen' = [gen EXCEPT ![n] = NoGen], master' = [master EXCEPT ![n] = None],
         observers' = [observers EXCEPT ![n] = {}], awaited'[n] = {}, calling'[n] = None,
         Current(n)' = NoUpdate,
         \A p \in Node \ {n} : Current(p)' = Current(p) /\ calling'[p] = calling[p] /\ awaited'[p] = awaited[p]
  PROVE  Kept(log)
<1>1. \A p \in Node : /\ gen'[p] = (IF p = n THEN NoGen ELSE gen[p])
                      /\ master'[p] = (IF p = n THEN None ELSE master[p])
                      /\ observers'[p] = (IF p = n THEN {} ELSE observers[p])
  BY DEF TypeOK
<1>2. \A p \in Node : Master(p)' <=> p # n /\ Master(p)
  BY <1>1 DEF Master
<1>3. Updating(log)'
  BY <1>1, <1>2 DEF Good, Updating
<1>4. Observing'
  <2>1. \A p \in Node \ {n} : \A o \in observers[p] : Told(p, o)' = Told(p, o)
    BY DEF Told
  <2>2. \A p \in Node : Master(p) => gen[p] # NoGen
    BY DEF Master
  <2> QED
    BY <1>1, <1>2, <2>1, <2>2 DEF Good, Observing
<1>5. Messages(log)'
  <2> SUFFICES ASSUME NEW m \in msgs PROVE Carried(log, m)' /\ Expected(m)'
    BY DEF Messages
  <2>1. Carried(log, m) /\ Expected(m) /\ m.from \in Node /\ m.to \in Node /\ m.gen # NoGen
    BY BoundAssumption DEF Good, Messages, TypeOK, Message, NoGen
  <2>2. Carried(log, m)'
    BY <1>1, <2>1 DEF Carried, Accepts
  <2>3. m.id # 0 /\ NoUpdate.id = 0
    BY <2>1 DEF Carried, NoUpdate, Good, IsLog, Chained, TypeOK
  <2>4. Expected(m)'
    BY <1>1, <1>2, <2>1, <2>3 DEF Expected
  <2> QED
    BY <2>2, <2>4
<1>6. Missing(log)'
  <2> SUFFICES ASSUME NEW p \in Node \ {n}, NEW t \in DOMAIN log,
                      Current(p) # NoUpdate /\ t[1] > gen[p] /\ Current(p).id \notin log[t].set
               PROVE  Most(Left(p))'
    BY <1>1 DEF Missing
  <2>1. Most(Left(p)) /\ gen[p] # NoGen
    BY DEF Good, Missing, Updating, Master
  <2>2. Left(p) \subseteq Left(p)' /\ Left(p)' \subseteq Node
    BY <1>1, <2>1 DEF Left
  <2>3. Most(Left(p)')
    BY <2>1, <2>2, MostGrows
  <2> QED
    BY <2>3 DEF Most
<1>7. IsLog(log)' /\ Replicas(log)' /\ Acked(log)' /\ Gone(log)' /\ \A p \in Node : ~Newer(llu[p], llu'[p])
  BY SameReplicas
<1>8. Serving(log)' /\ Reached(log)'
  BY <1>1, NoneServes
<1> QED
  BY <1>3, <1>4, <1>5, <1>6, <1>7, <1>8 DEF Kept, Good

LEMMA RecoverStep ==
  ASSUME OneTopic, TypeOK, NEW log, Good(log), NEW n \in Node, Recover(n)
  PROVE  Kept(log)
<1>1. Current(n) = NoUpdate
  BY TheTopic DEF Recover, Idle, Current
<1>2. calling[n] = None /\ awaited[n] = {}
  BY <1>1 DEF Good, Updating
<1>3. /\ UNCHANGED <<db, mem, llu, full, pending, calling, awaited, msgs, acked, gone, next, used>>
      /\ gen' = [gen EXCEPT ![n] = NoGen] /\ master' = [master EXCEPT ![n] = None]
      /\ observers' = [observers EXCEPT ![n] = {}]
  BY DEF Recover
<1>4. TypeOK'
  BY <1>2, <1>3, BoundAssumption DEF TypeOK, NoGen
<1>5. \A p \in Node : Current(p)' = Current(p) /\ calling'[p] = calling[p] /\ awaited'[p] = awaited[p]
  BY <1>3 DEF Current
<1> QED
  BY <1>1, <1>2, <1>3, <1>4, <1>5, LeaveStep

LEMMA CrashStep ==
  ASSUME OneTopic, TypeOK, NEW log, Good(log), NEW n \in Node, Crash(n)
  PROVE  Kept(log)
<1>1. mem' = mem
  BY DEF Crash, TypeOK, Good, Replicas
<1>2. /\ UNCHANGED <<db, llu, msgs, acked, gone, next>>
      /\ gen' = [gen EXCEPT ![n] = NoGen] /\ master' = [master EXCEPT ![n] = None]
      /\ observers' = [observers EXCEPT ![n] = {}]
  BY DEF Crash
<1>3. TypeOK'
  <2>1. NoUpdate \in [id : 0 .. MaxUpdates, llu : LogUpdate]
    BY BoundAssumption DEF NoUpdate, LogUpdate
  <2>2. pending' \in [Node -> [Locks -> [id : 0 .. MaxUpdates, llu : LogUpdate]]]
    <3>1. [k \in Locks |-> NoUpdate] \in [Locks -> [id : 0 .. MaxUpdates, llu : LogUpdate]]
      BY <2>1
    <3>2. pending' = [pending EXCEPT ![n] = [k \in Locks |-> NoUpdate]]
      BY DEF Crash
    <3> QED
      BY <3>1, <3>2 DEF TypeOK
  <2>3. used' \in [failures : 0 .. MaxFailures, crashes : 0 .. MaxCrashes]
    <3>1. used \in [failures : 0 .. MaxFailures, crashes : 0 .. MaxCrashes] /\ used.crashes < MaxCrashes
          /\ used' = [used EXCEPT !.crashes = @ + 1]
      BY DEF TypeOK, Crash
    <3> QED
      BY <3>1, BoundAssumption
  <2>4. /\ calling' \in [Node -> Locks \cup {None}] /\ full' \in [Node -> BOOLEAN]
        /\ awaited' \in [Node -> SUBSET Node] /\ observers' \in [Node -> SUBSET Node]
        /\ \A p \in Node : awaited'[p] \subseteq observers'[p]
    BY DEF TypeOK, Crash
  <2>5. gen' \in [Node -> 0 .. MaxGen] /\ master' \in [Node -> Node \cup {None}]
    BY <1>2, BoundAssumption DEF TypeOK, NoGen
  <2> QED
    BY <1>1, <1>2, <2>2, <2>3, <2>4, <2>5 DEF TypeOK
<1>4. Current(n)' = NoUpdate
  BY TheTopic DEF Current, Crash, TypeOK
<1>5. /\ awaited'[n] = {} /\ calling'[n] = None
      /\ \A p \in Node \ {n} : Current(p)' = Current(p) /\ calling'[p] = calling[p] /\ awaited'[p] = awaited[p]
  BY DEF Crash, TypeOK, Current
<1> QED
  BY <1>1, <1>2, <1>3, <1>4, <1>5, LeaveStep

(* The nodes that have come to a log update have come to it for good. *)
LEMMA AckedStays ==
  ASSUME TypeOK, TypeOK', NEW log, Good(log), acked' = acked, \A n \in Node : ~Newer(llu[n], llu'[n])
  PROVE  Acked(log)'
<1> SUFFICES ASSUME NEW u \in acked
             PROVE  \E s \in DOMAIN log : From(log, s, u) /\ Most({n \in Node : ~Newer(s, llu'[n])})
  BY DEF Acked, From, Most
<1>1. PICK s \in DOMAIN log : From(log, s, u) /\ Most({n \in Node : ~Newer(s, llu[n])})
  BY DEF Good, Acked
<1>2. s \in LogUpdate
  BY DEF Good, IsLog
<1>3. {n \in Node : ~Newer(s, llu[n])} \subseteq {n \in Node : ~Newer(s, llu'[n])}
  <2> SUFFICES ASSUME NEW n \in Node, ~Newer(s, llu[n]) PROVE ~Newer(s, llu'[n])
    OBVIOUS
  <2>1. llu[n] \in LogUpdate /\ llu'[n] \in LogUpdate
    BY DEF TypeOK
  <2> QED
    BY <1>2, <2>1, Stamps
<1>4. Most({n \in Node : ~Newer(s, llu'[n])})
  BY <1>1, <1>3, MostGrows
<1> QED
  BY <1>1, <1>4

(* The answer to a call that the master waits for. *)
Waited(m) == m.to \in awaited[m.from] /\ calling[m.from] # None /\ Current(m.from).id = m.id

LEMMA CallFacts ==
  ASSUME OneTopic, TypeOK, NEW log, Good(log), NEW m \in msgs
  PROVE  /\ m \in Message /\ m.to \in Node /\ m.from \in Node /\ m.gen \in 1 .. MaxGen /\ m.id \in Update
         /\ m.llu \in LogUpdate /\ Carried(log, m) /\ Expected(m) /\ m.id # 0 /\ Chained(log, m.llu)
         /\ Waited(m) => Master(m.from) /\ gen[m.from] = m.gen /\ m.llu = llu[m.from]
                         /\ m.to \in observers[m.from]
<1>1. /\ m \in Message /\ m.to \in Node /\ m.from \in Node /\ m.gen \in 1 .. MaxGen /\ m.id \in Update
      /\ m.llu \in LogUpdate
  BY DEF TypeOK, Message
<1>2. Carried(log, m) /\ Expected(m)
  BY DEF Good, Messages
<1>3. m.id # 0 /\ Chained(log, m.llu)
  <2>1. m.llu \in DOMAIN log /\ m.llu[2] > 0
    BY <1>2 DEF Carried
  <2>2. Chained(log, m.llu)
    BY <2>1 DEF Good, IsLog
  <2> QED
    BY <1>1, <2>2, BoundAssumption DEF Update
<1>4. ASSUME Waited(m) PROVE Master(m.from) /\ gen[m.from] = m.gen /\ m.llu = llu[m.from] /\ m.to \in observers[m.from]
  <2>1. m.llu = llu[m.from] /\ m.to \in observers[m.from] /\ m.gen = m.llu[1]
    BY <1>1, <1>2, <1>4 DEF Waited, Expected, Carried, TypeOK
  <2>2. Current(m.from) # NoUpdate
    BY <1>1, <1>4 DEF Waited, Good, Updating
  <2>3. Master(m.from)
    BY <1>1, <2>2 DEF Good, Updating
  <2>4. gen[m.from] = llu[m.from][1]
    BY <1>1, <2>3 DEF Good, Serving, Master
  <2> QED
    BY <2>1, <2>3, <2>4
<1> QED
  BY <1>1, <1>2, <1>3, <1>4

LEMMA RefusedStep ==
  ASSUME OneTopic, TypeOK, NEW log, Good(log), NEW m \in msgs, Deliver(m), ~Accepts(m)
  PROVE  Kept(log)
<1>1. m.to \in Node /\ m.from \in Node
  BY CallFacts
<1>2. calling[m.from] # None => calling[m.from] = Topic
  BY <1>1, NodeFacts
<1>3. /\ UNCHANGED <<db, mem, llu, gen, master, full, pending, calling, acked, gone, next, used>>
      /\ msgs' \subseteq msgs
      /\ observers' = IF Waited(m) THEN [observers EXCEPT ![m.from] = @ \ {m.to}] ELSE observers
      /\ awaited' = IF Waited(m) THEN [awaited EXCEPT ![m.from] = @ \ {m.to}] ELSE awaited
  BY <1>2 DEF Deliver, Waited, Current
<1>4. observers' \in [Node -> SUBSET Node] /\ awaited' \in [Node -> SUBSET Node]
  BY <1>3 DEF TypeOK
<1>5. used' \in [failures : 0 .. MaxFailures, crashes : 0 .. MaxCrashes]
  BY <1>3 DEF TypeOK
<1>6. \A p \in Node : \E X : observers'[p] = observers[p] \ X /\ awaited'[p] = awaited[p] \ X
  <2> SUFFICES ASSUME NEW p \in Node
               PROVE  \E X : observers'[p] = observers[p] \ X /\ awaited'[p] = awaited[p] \ X
    OBVIOUS
  <2>1. CASE p = m.from /\ Waited(m)
    <3>1. observers'[p] = observers[p] \ {m.to} /\ awaited'[p] = awaited[p] \ {m.to}
      BY <1>3, <2>1 DEF TypeOK
    <3> QED
      BY <3>1
  <2>2. CASE ~(p = m.from /\ Waited(m))
    <3>1. observers'[p] = observers[p] \ {} /\ awaited'[p] = awaited[p] \ {}
      BY <1>3, <2>2 DEF TypeOK
    <3> QED
      BY <3>1
  <2> QED
    BY <2>1, <2>2
<1> QED
  BY <1>3, <1>4, <1>5, <1>6, EvictStep

LEMMA AcceptedStep ==
  ASSUME OneTopic, TypeOK, NEW log, Good(log), NEW m \in msgs, Deliver(m), Accepts(m)
  PROVE  Kept(log)
<1> DEFINE o == m.to
           f == m.from
<1>1. /\ m \in Message /\ o \in Node /\ f \in Node /\ m.gen \in 1 .. MaxGen /\ m.id \in Update
      /\ m.llu \in LogUpdate /\ Carried(log, m) /\ Expected(m) /\ m.id # 0 /\ Chained(log, m.llu)
      /\ Waited(m) => Master(f) /\ gen[f] = m.gen /\ m.llu = llu[f] /\ o \in observers[f]
  BY CallFacts
<1>2. /\ UNCHANGED <<observers, gen, master, full, pending, calling, acked, gone, next, used>>
      /\ msgs' = msgs \ {m} /\ llu' = [llu EXCEPT ![o] = m.llu]
      /\ db' = [db EXCEPT ![o] = @ \cup {m.id}] /\ mem' = [mem EXCEPT ![o] = @ \cup {m.id}]
      /\ awaited' = IF Waited(m) THEN [awaited EXCEPT ![f] = @ \ {o}] ELSE awaited
  <2>1. calling[f] # None => calling[f] = Topic
    BY <1>1, NodeFacts
  <2> QED
    BY <2>1 DEF Deliver, Waited, Current
<1>3. /\ gen[o] = m.gen /\ master[o] # o /\ gen[o] # NoGen /\ m.gen = m.llu[1] /\ m.llu \in DOMAIN log
      /\ m.llu[2] > 0 /\ llu[o] = Pred(m.llu) /\ m.id = log[m.llu].id /\ f = log[m.llu].by /\ ~Master(o)
  BY <1>1, BoundAssumption DEF Accepts, Carried, NoGen, Master
<1>4. llu[o][1] = m.llu[1] /\ ~Newer(llu[o], m.llu) /\ llu[o] \in DOMAIN log
  BY <1>1, <1>3, Stamps DEF Good, Replicas, Newer
<1>5. \A p \in Node : /\ llu'[p] = (IF p = o THEN m.llu ELSE llu[p]) /\ llu'[p][1] = llu[p][1]
                      /\ mem'[p] = (IF p = o THEN mem[o] \cup {m.id} ELSE mem[p])
                      /\ db'[p] = (IF p = o THEN db[o] \cup {m.id} ELSE db[p])
                      /\ Current(p)' = Current(p) /\ Master(p)' = Master(p)
                      /\ \A x \in Node : x \in awaited'[p] <=> x \in awaited[p] /\ ~(p = f /\ x = o /\ Waited(m))
  BY <1>1, <1>2, <1>3, <1>4 DEF TypeOK, Current, Master
<1>6. TypeOK'
  <2>1. llu' \in [Node -> LogUpdate] /\ db' \in [Node -> SUBSET Update] /\ mem' \in [Node -> SUBSET Update]
    BY <1>1, <1>2 DEF TypeOK
  <2>2. awaited' \in [Node -> SUBSET Node]
    BY <1>1, <1>2 DEF TypeOK
  <2>3. \A p \in Node : awaited'[p] \subseteq observers'[p]
    BY <1>2, <1>5, <2>2 DEF TypeOK
  <2>4. msgs' \in SUBSET Message
    BY <1>2 DEF TypeOK
  <2> QED
    BY <1>2, <2>1, <2>2, <2>3, <2>4 DEF TypeOK
<1>7. IsLog(log)'
  BY <1>2 DEF Good, IsLog, Chained
<1>8. Replicas(log)'
  <2>1. log[m.llu].set = log[llu[o]].set \cup {m.id}
    BY <1>1, <1>3 DEF Chained
  <2>2. \A p \in Node : llu[p] \in DOMAIN log /\ mem[p] = log[llu[p]].set /\ db[p] = mem[p]
    BY DEF Good, Replicas
  <2>3. mem'[o] = log[m.llu].set /\ db'[o] = mem'[o] /\ llu'[o] = m.llu
    BY <1>1, <1>5, <2>1, <2>2
  <2> QED
    BY <1>3, <1>5, <2>2, <2>3 DEF Replicas
<1>9. Serving(log)'
  <2>1. log[m.llu].by = log[llu[o]].by
    BY <1>3, <1>4 DEF Good, IsLog
  <2> QED
    BY <1>2, <1>3, <1>4, <1>5, <2>1 DEF Good, Serving
<1>10. Reached(log)'
  <2>1. \A t \in DOMAIN log : {n \in Node : llu'[n][1] >= t[1]} = {n \in Node : llu[n][1] >= t[1]}
    BY <1>5
  <2> QED
    BY <1>2, <2>1 DEF Good, Reached, Most
<1>11. \A p \in Node : Master(p) \/ Current(p) # NoUpdate \/ calling[p] # None => p # o /\ llu'[p] = llu[p]
  BY <1>3, <1>5 DEF Good, Updating
<1>12. Updating(log)'
  BY <1>2, <1>5, <1>11 DEF Good, Updating
<1>13. \A p \in Node : Master(p) /\ gen[p] = m.gen => p = f
  <2> SUFFICES ASSUME NEW p \in Node, Master(p), gen[p] = m.gen PROVE p = f
    OBVIOUS
  <2>1. llu[p] \in DOMAIN log /\ llu[p][1] = gen[p] /\ p = log[llu[p]].by
    BY DEF Good, Replicas, Serving, Master
  <2> QED
    BY <1>3, <2>1 DEF Good, IsLog
<1>14. Observing'
  <2>1. ASSUME NEW p \in Node, Master(p), NEW q \in observers[p], gen[q] = gen[p]
        PROVE  llu'[q] = IF Told(p, q)' THEN llu'[p] ELSE Pred(llu'[p])
    <3>1. llu'[p] = llu[p] /\ q \in Node
      BY <1>11, <2>1, NodeFacts
    <3>2. CASE q # o
      <4>1. Told(p, q)' = Told(p, q)
        BY <1>2, <1>5, <3>1, <3>2 DEF Told
      <4> QED
        BY <1>5, <2>1, <3>1, <3>2, <4>1 DEF Good, Observing
    <3>3. CASE q = o
      <4>1. p = f
        BY <1>3, <1>13, <2>1, <3>3
      <4>2. Waited(m)
        BY <1>1, <1>3, <2>1, <3>3, <4>1 DEF Expected, Waited
      <4>3. Told(p, q)'
        BY <1>2, <1>5, <3>1, <3>3, <4>1, <4>2 DEF Told, Waited
      <4> QED
        BY <1>1, <1>5, <3>1, <3>3, <4>1, <4>2, <4>3
    <3> QED
      BY <3>2, <3>3
  <2>2. ASSUME NEW p \in Node, calling[p] # None, NEW q \in observers[p] \ awaited'[p]
        PROVE  ~Newer(llu'[p], llu'[q])
    <3>1. llu'[p] = llu[p] /\ q \in Node /\ llu[p] \in LogUpdate /\ llu[q] \in LogUpdate
      BY <1>11, <2>2, NodeFacts
    <3>2. CASE q \notin awaited[p]
      <4>1. ~Newer(llu[p], llu[q])
        BY <2>2, <3>2 DEF Good, Observing
      <4>2. ~Newer(llu[q], llu'[q]) /\ llu'[q] \in LogUpdate
        BY <1>1, <1>4, <1>5, <3>1, Stamps
      <4> QED
        BY <3>1, <4>1, <4>2, Stamps
    <3>3. CASE q \in awaited[p]
      <4>1. p = f /\ q = o /\ Waited(m)
        BY <1>5, <2>2, <3>1, <3>3
      <4> QED
        BY <1>1, <1>5, <3>1, <4>1, Stamps
    <3> QED
      BY <3>2, <3>3
  <2> QED
    BY <1>2, <1>5, <2>1, <2>2 DEF Observing
<1>15. Messages(log)'
  <2> SUFFICES ASSUME NEW v \in msgs, v # m PROVE Carried(log, v)' /\ Expected(v)'
    BY <1>2 DEF Messages
  <2>1. /\ v \in Message /\ v.to \in Node /\ v.from \in Node /\ v.llu \in LogUpdate
        /\ Carried(log, v) /\ Expected(v) /\ v.id # 0
    BY CallFacts
  <2>2. v.to = o => v.llu # m.llu
    <3> SUFFICES ASSUME v.to = o, v.llu = m.llu PROVE v = m
      BY <2>1
    <3>1. v.id = m.id /\ v.from = m.from /\ v.gen = m.gen /\ v.to = m.to
      BY <1>1, <2>1 DEF Carried
    <3> QED
      BY <1>1, <2>1, <3>1 DEF Message
  <2>3. Carried(log, v)'
    <3>1. v.to = o => ~Accepts(v)
      <4> SUFFICES ASSUME v.to = o, Accepts(v) PROVE FALSE
        OBVIOUS
      <4>1. Pred(v.llu) = Pred(m.llu) /\ v.llu[2] > 0
        BY <1>3, <2>1 DEF Carried
      <4> QED
        BY <1>1, <1>3, <2>1, <2>2, <4>1, Stamps
    <3> QED
      BY <1>2, <1>5, <2>1, <3>1 DEF Carried, Accepts
  <2>4. Expected(v)'
    <3>1. ASSUME Master(v.from), gen[v.from] = v.gen, v.to \in observers[v.from]
          PROVE  calling[v.from] # None /\ v.to \in awaited'[v.from] /\ Current(v.from).id = v.id
      <4>1. calling[v.from] # None /\ v.to \in awaited[v.from] /\ Current(v.from).id = v.id /\ v.llu = llu[v.from]
        BY <2>1, <3>1 DEF Expected
      <4>2. ~(v.from = f /\ v.to = o /\ Waited(m))
        BY <1>1, <2>2, <4>1
      <4> QED
        BY <1>5, <2>1, <4>1, <4>2
    <3>2. ASSUME Current(v.from).id = v.id PROVE v.llu = llu'[v.from]
      <4>1. v.llu = llu[v.from] /\ Current(v.from) # NoUpdate
        BY <2>1, <3>2 DEF Expected, NoUpdate
      <4> QED
        BY <1>11, <2>1, <4>1
    <3> QED
      BY <1>2, <1>5, <2>1, <3>1, <3>2 DEF Expected
  <2> QED
    BY <2>3, <2>4
<1>16. Missing(log)'
  <2>1. \A p \in Node : Left(p)' = Left(p)
    BY <1>1, <1>2, <1>3, <1>5 DEF Left
  <2> QED
    BY <1>2, <1>5, <2>1 DEF Good, Missing, Most
<1>17. \A p \in Node : ~Newer(llu[p], llu'[p])
  <2> SUFFICES ASSUME NEW p \in Node PROVE ~Newer(llu[p], llu'[p])
    OBVIOUS
  <2>1. llu[p] \in LogUpdate
    BY NodeFacts
  <2> QED
    BY <1>4, <1>5, <2>1, Stamps
<1>18. Gone(log)'
  BY <1>2 DEF Good, Gone, Without
<1>19. Acked(log)'
  BY <1>2, <1>6, <1>17, AckedStays
<1> QED
  BY <1>6, <1>7, <1>8, <1>9, <1>10, <1>12, <1>14, <1>15, <1>16, <1>17, <1>18, <1>19 DEF Kept, Good

-----------------------------------------------------------------------------
(* The steps that give out a log update. *)

Extends(longer, log, stamp, e) ==
    /\ DOMAIN longer = DOMAIN log \cup {stamp} /\ stamp \notin DOMAIN log
    /\ longer[stamp] = e /\ \A t \in DOMAIN log : longer[t] = log[t]

LEMMA CanExtend ==
  ASSUME NEW log, NEW stamp, stamp \notin DOMAIN log, NEW e
  PROVE  \E longer : Extends(longer, log, stamp, e)
<1> DEFINE new == [t \in DOMAIN log \cup {stamp} |-> IF t = stamp THEN e ELSE log[t]]
<1>1. Extends(new, log, stamp, e)
  BY DEF Extends
<1> QED
  BY <1>1

LEMMA OneMaster ==
  ASSUME NEW log, Good(log), NEW p \in Node, NEW q \in Node, Master(p), Master(q), gen[p] = gen[q]
  PROVE  p = q
<1>1. llu[p] \in DOMAIN log /\ llu[p][1] = gen[p] /\ p = log[llu[p]].by
  BY DEF Good, Replicas, Serving, Master
<1>2. llu[q] \in DOMAIN log /\ llu[q][1] = gen[q] /\ q = log[llu[q]].by
  BY DEF Good, Replicas, Serving, Master
<1> QED
  BY <1>1, <1>2 DEF Good, IsLog

LEMMA CommitStep ==
  ASSUME OneTopic, TypeOK, NEW log, Good(log), NEW n \in Node, NEW k \in Locks, Commit(n, k)
  PROVE  \E longer : Kept(longer)
<1> DEFINE stamp == <<llu[n][1], llu[n][2] + 1>>
           e == [set |-> log[llu[n]].set \cup {next}, id |-> next, by |-> n]
<1>1. /\ k = Topic /\ Topic # Manager /\ Topic \in Locks /\ Locks = {Topic} /\ Topic # None
  BY TheTopic
<1>2. /\ UNCHANGED <<gen, master, full, observers, calling, awaited, msgs, acked, gone, used>>
      /\ Master(n) /\ Current(n) = NoUpdate /\ next <= MaxUpdates /\ next' = next + 1
      /\ db' = [db EXCEPT ![n] = @ \cup {next}] /\ mem' = [mem EXCEPT ![n] = @ \cup {next}]
      /\ llu' = [llu EXCEPT ![n] = stamp] /\ pending' = [pending EXCEPT ![n][Topic] = [id |-> next, llu |-> stamp]]
  BY <1>1 DEF Commit, Current
<1>3. /\ llu[n] \in LogUpdate /\ llu[n] \in DOMAIN log /\ llu[n][1] = gen[n] /\ n = log[llu[n]].by
      /\ gen[n] # NoGen /\ calling[n] = None /\ awaited[n] = {} /\ n \notin observers[n]
      /\ \A t \in DOMAIN log : t[1] = gen[n] => t[2] <= llu[n][2]
  BY <1>2, NodeFacts DEF Good, Replicas, Serving, Updating, Master
<1>4. next \in Nat /\ next >= 1 /\ next \in Update /\ llu[n][2] < next
  BY <1>2, <1>3, BoundAssumption DEF TypeOK, Update, Good, IsLog
<1>5. /\ stamp \in LogUpdate /\ stamp[1] = llu[n][1] /\ stamp[2] = llu[n][2] + 1 /\ stamp[2] > 0 /\ Pred(stamp) = llu[n]
      /\ stamp[2] <= next
  BY <1>2, <1>3, <1>4, BoundAssumption DEF LogUpdate, Pred
<1>6. stamp \notin DOMAIN log
  <2>1. llu[n][2] \in Nat
    BY <1>3, Stamps
  <2> HIDE DEF stamp
  <2> QED
    BY <1>3, <1>5, <2>1
<1>7. e.set = log[llu[n]].set \cup {next} /\ e.id = next /\ e.by = n
  OBVIOUS
<1>8. e \in Entry
  <2>1. log[llu[n]].set \subseteq Update
    BY <1>3 DEF Good, IsLog, Entry
  <2> QED
    BY <1>4, <2>1, BoundAssumption DEF Entry, Update
<1> HIDE DEF stamp, e
<1>9. PICK longer : Extends(longer, log, stamp, e)
  BY <1>6, CanExtend
<1>10. /\ DOMAIN longer = DOMAIN log \cup {stamp} /\ longer[stamp] = e
       /\ \A t \in DOMAIN log : longer[t] = log[t] /\ t # stamp /\ t \in LogUpdate
  BY <1>9 DEF Extends, Good, IsLog
<1>11. \A p \in Node : /\ llu'[p] = (IF p = n THEN stamp ELSE llu[p]) /\ llu'[p][1] = llu[p][1]
                       /\ mem'[p] = (IF p = n THEN mem[n] \cup {next} ELSE mem[p])
                       /\ db'[p] = (IF p = n THEN db[n] \cup {next} ELSE db[p])
                       /\ Current(p)' = (IF p = n THEN [id |-> next, llu |-> stamp] ELSE Current(p))
                       /\ Master(p)' = Master(p)
  BY <1>1, <1>2, <1>5 DEF TypeOK, Current, Master
<1>12. [id |-> next, llu |-> stamp] # NoUpdate
  BY <1>4 DEF NoUpdate
<1>13. TypeOK'
  <2>1. llu' \in [Node -> LogUpdate] /\ db' \in [Node -> SUBSET Update] /\ mem' \in [Node -> SUBSET Update]
    BY <1>2, <1>4, <1>5 DEF TypeOK
  <2>2. [id |-> next, llu |-> stamp] \in [id : 0 .. MaxUpdates, llu : LogUpdate]
    BY <1>2, <1>4, <1>5, BoundAssumption
  <2>3. pending' \in [Node -> [Locks -> [id : 0 .. MaxUpdates, llu : LogUpdate]]]
    BY <1>2, <2>2 DEF TypeOK
  <2>4. next' \in 1 .. MaxUpdates + 1
    BY <1>2, <1>4, BoundAssumption
  <2> QED
    BY <1>2, <2>1, <2>3, <2>4 DEF TypeOK
<1>14. IsLog(longer)'
  <2> SUFFICES ASSUME NEW t \in DOMAIN longer
               PROVE  /\ longer[t] \in Entry /\ longer[t].set \subseteq 1 .. next /\ t[2] < next + 1
                      /\ t[2] > 0 => /\ Pred(t) \in DOMAIN longer /\ longer[t].id \in 1 .. next
                                     /\ longer[t].set = longer[Pred(t)].set \cup {longer[t].id}
                      /\ \A v \in DOMAIN longer : t[1] = v[1] => longer[t].by = longer[v].by
    <3>1. DOMAIN longer \subseteq LogUpdate /\ next' - 1 = next /\ next' = next + 1
      BY <1>2, <1>4, <1>5, <1>10
    <3> QED
      BY <3>1 DEF IsLog, Chained
  <2>1. \A v \in DOMAIN log : v[1] = stamp[1] => log[v].by = n
    BY <1>3, <1>5 DEF Good, IsLog
  <2>2. CASE t \in DOMAIN log
    <3>1. /\ log[t] \in Entry /\ log[t].set \subseteq 1 .. next - 1 /\ t[2] < next /\ t \in LogUpdate
          /\ t[2] > 0 => Chained(log, t)
          /\ \A v \in DOMAIN log : t[1] = v[1] => log[t].by = log[v].by
      BY <1>10, <2>2 DEF Good, IsLog
    <3>2. t[2] < next + 1 /\ log[t].set \subseteq 1 .. next
      BY <1>4, <3>1, Stamps
    <3>3. t[2] > 0 => /\ Pred(t) \in DOMAIN longer /\ longer[t].id \in 1 .. next
                      /\ longer[t].set = longer[Pred(t)].set \cup {longer[t].id}
      BY <1>4, <1>10, <2>2, <3>1 DEF Chained
    <3>4. \A v \in DOMAIN longer : t[1] = v[1] => longer[t].by = longer[v].by
      BY <1>7, <1>10, <2>1, <2>2, <3>1
    <3> QED
      BY <1>10, <2>2, <3>1, <3>2, <3>3, <3>4
  <2>3. CASE t = stamp
    <3>1. log[llu[n]].set \subseteq 1 .. next - 1
      BY <1>3 DEF Good, IsLog
    <3>2. longer[t].set \subseteq 1 .. next /\ longer[t].id \in 1 .. next
      BY <1>4, <1>7, <1>10, <2>3, <3>1
    <3>3. t[2] < next + 1
      BY <1>4, <1>5, <2>3, Stamps
    <3>4. \A v \in DOMAIN longer : t[1] = v[1] => longer[t].by = longer[v].by
      BY <1>7, <1>10, <2>1, <2>3
    <3> QED
      BY <1>3, <1>5, <1>7, <1>8, <1>10, <2>3, <3>2, <3>3, <3>4
  <2> QED
    BY <1>10, <2>2, <2>3
<1>15. Replicas(longer)'
  <2>1. \A p \in Node : llu[p] \in DOMAIN log /\ mem[p] = log[llu[p]].set /\ db[p] = mem[p]
    BY DEF Good, Replicas
  <2>2. llu'[n] = stamp /\ mem'[n] = longer[stamp].set /\ db'[n] = mem'[n]
    BY <1>7, <1>10, <1>11, <2>1, ZenonT(60)
  <2>3. \A p \in Node : p # n => llu'[p] \in DOMAIN log /\ mem'[p] = log[llu'[p]].set /\ db'[p] = mem'[p]
    BY <1>11, <2>1
  <2>4. \A p \in Node : llu'[p] \in DOMAIN longer /\ mem'[p] = longer[llu'[p]].set /\ db'[p] = mem'[p]
    BY <1>10, <2>2, <2>3
  <2> QED
    BY <2>4 DEF Replicas
<1>16. Serving(longer)'
  <2>1. \A p \in Node : gen'[p] # NoGen => llu'[p][1] = gen'[p] /\ master'[p] = longer[llu'[p]].by
    <3>1. master[n] = n
      BY <1>2 DEF Master
    <3>2. \A p \in Node : llu[p] \in DOMAIN log /\ (gen[p] # NoGen => llu[p][1] = gen[p] /\ master[p] = log[llu[p]].by)
      BY DEF Good, Replicas, Serving
    <3> QED
      BY <1>2, <1>3, <1>5, <1>7, <1>10, <1>11, <3>1, <3>2
  <2>2. ASSUME NEW p \in Node, Master(p), NEW t \in DOMAIN longer, t[1] = gen[p] PROVE t[2] <= llu'[p][2]
    <3>1. CASE p = n
      BY <1>3, <1>5, <1>10, <1>11, <2>2, <3>1, Stamps
    <3>2. CASE p # n
      <4>1. t # stamp
        BY <1>2, <1>3, <1>5, <2>2, <3>2, OneMaster
      <4> QED
        BY <1>10, <1>11, <2>2, <3>2, <4>1 DEF Good, Serving
    <3> QED
      BY <3>1, <3>2
  <2> QED
    BY <1>2, <1>11, <2>1, <2>2 DEF Serving
<1>17. Reached(longer)'
  <2>1. \A t \in DOMAIN log : {p \in Node : llu'[p][1] >= t[1]} = {p \in Node : llu[p][1] >= t[1]}
    BY <1>11
  <2>2. \A t \in DOMAIN longer : \E v \in DOMAIN log : v[1] = t[1]
    BY <1>3, <1>5, <1>10
  <2> QED
    BY <1>2, <2>1, <2>2 DEF Good, Reached, Most
<1>18. Updating(longer)'
  BY <1>2, <1>3, <1>5, <1>7, <1>10, <1>11, <1>12 DEF Good, Updating, Replicas
<1>19. \A p \in Node : ~Newer(llu[p], llu'[p]) /\ llu[p] \in LogUpdate /\ llu'[p] \in LogUpdate
  <2> SUFFICES ASSUME NEW p \in Node PROVE ~Newer(llu[p], llu'[p]) /\ llu[p] \in LogUpdate /\ llu'[p] \in LogUpdate
    OBVIOUS
  <2>1. llu[p] \in LogUpdate /\ llu'[p] \in LogUpdate
    BY <1>5, <1>11, NodeFacts
  <2> QED
    BY <1>3, <1>5, <1>11, <2>1, Stamps
<1>20. Observing'
  <2>1. ASSUME NEW p \in Node, Master(p), NEW q \in observers[p], gen[q] = gen[p]
        PROVE  llu'[q] = IF Told(p, q)' THEN llu'[p] ELSE Pred(llu'[p])
    <3>1. q \in Node /\ q # p
      BY <2>1, NodeFacts DEF Good, Updating
    <3>2. llu[q] = IF Told(p, q) THEN llu[p] ELSE Pred(llu[p])
      BY <2>1 DEF Good, Observing
    <3>3. CASE p = n
      BY <1>2, <1>3, <1>5, <1>11, <1>12, <3>1, <3>2, <3>3 DEF Told
    <3>4. CASE p # n
      <4>1. q # n
        BY <1>2, <2>1, <3>1, <3>4, OneMaster
      <4> QED
        BY <1>2, <1>11, <3>1, <3>2, <3>4, <4>1 DEF Told
    <3> QED
      BY <3>3, <3>4
  <2>2. ASSUME NEW p \in Node, calling[p] # None, NEW q \in observers[p] \ awaited[p] PROVE ~Newer(llu'[p], llu'[q])
    <3>1. q \in Node /\ p # n /\ ~Newer(llu[p], llu[q])
      BY <1>3, <2>2, NodeFacts DEF Good, Observing
    <3> QED
      BY <1>11, <1>19, <3>1, Stamps
  <2> QED
    BY <1>2, <1>11, <2>1, <2>2 DEF Observing
<1>21. Messages(longer)'
  <2> SUFFICES ASSUME NEW v \in msgs PROVE Carried(longer, v)' /\ Expected(v)'
    BY <1>2 DEF Messages
  <2>1. v.to \in Node /\ v.from \in Node /\ Carried(log, v) /\ Expected(v) /\ Chained(log, v.llu)
    BY CallFacts
  <2>2. v.id # next /\ v.llu \in DOMAIN log
    BY <1>4, <2>1 DEF Chained, Carried
  <2>3. Accepts(v) => v.to # n
    BY <1>2 DEF Accepts, Master
  <2>4. Carried(longer, v)'
    BY <1>2, <1>10, <1>11, <2>1, <2>2, <2>3 DEF Carried, Accepts
  <2>5. Expected(v)'
    <3>1. v.from = n => ~(Master(v.from) /\ gen[v.from] = v.gen /\ v.to \in observers[v.from])
      BY <1>3, <2>1 DEF Expected
    <3> QED
      BY <1>2, <1>11, <2>1, <2>2, <3>1 DEF Expected
  <2> QED
    BY <2>4, <2>5
<1>22. Missing(longer)'
  <2> SUFFICES ASSUME NEW p \in Node, NEW t \in DOMAIN longer, Current(p)' # NoUpdate, t[1] > gen[p],
                      Current(p)'.id \notin longer[t].set
               PROVE  Most(Left(p))
    <3>1. \A p \in Node : Left(p)' = Left(p)
      BY <1>2 DEF Left
    <3> QED
      BY <1>2, <3>1 DEF Missing, Most
  <2>1. CASE p = n
    <3>1. t \in DOMAIN log
      BY <1>3, <1>5, <1>10, <2>1, Stamps
    <3>2. gen[n] \in 1 .. MaxGen
      BY <1>3, NodeFacts, BoundAssumption DEF NoGen
    <3>3. Most({o \in Node : gen[o] # gen[n]})
      BY <2>1, <3>1, <3>2 DEF Good, Reached
    <3>4. Left(n) = {o \in Node : gen[o] # gen[n]}
      BY <1>3 DEF Left
    <3> QED
      BY <2>1, <3>3, <3>4
  <2>2. CASE p # n
    <3>1. Current(p) # NoUpdate /\ Current(p).id \notin longer[t].set
      BY <1>11, <2>2
    <3>2. \E v \in DOMAIN log : v[1] > gen[p] /\ Current(p).id \notin log[v].set
      BY <1>3, <1>5, <1>7, <1>10, <3>1
    <3> QED
      BY <3>1, <3>2 DEF Good, Missing
  <2> QED
    BY <2>1, <2>2
<1>23. Acked(longer)'
  <2> SUFFICES ASSUME NEW u \in acked
               PROVE  \E s \in DOMAIN longer : From(longer, s, u) /\ Most({p \in Node : ~Newer(s, llu'[p])})
    BY <1>2 DEF Acked, From, Most
  <2>1. PICK s \in DOMAIN log : From(log, s, u) /\ Most({p \in Node : ~Newer(s, llu[p])})
    BY DEF Good, Acked
  <2>2. s \in LogUpdate /\ s # stamp
    BY <1>10
  <2>3. ~Newer(s, stamp) => ~Newer(s, llu[n])
    BY <1>3, <1>5, <2>2, Stamps
  <2>4. From(longer, s, u)
    BY <1>3, <1>7, <1>10, <2>1, <2>3 DEF From
  <2>5. {p \in Node : ~Newer(s, llu[p])} \subseteq {p \in Node : ~Newer(s, llu'[p])}
    BY <1>19, <2>2, Stamps
  <2>6. Most({p \in Node : ~Newer(s, llu'[p])})
    BY <2>1, <2>5, MostGrows
  <2> QED
    BY <1>10, <2>4, <2>6
<1>24. Gone(longer)'
  <2> SUFFICES ASSUME NEW u \in gone
               PROVE  u < next + 1 /\ \E s \in DOMAIN longer : s[2] = 0 /\ Without(longer, s, u)
    BY <1>2 DEF Gone, Without
  <2>1. PICK s \in DOMAIN log : u < next /\ s[2] = 0 /\ Without(log, s, u)
    BY DEF Good, Gone
  <2>2. u \in Nat
    BY BoundAssumption DEF TypeOK, Update
  <2>3. ~Newer(s, stamp) => ~Newer(s, llu[n])
    BY <1>3, <1>5, <1>10, <2>1, Stamps
  <2>4. Without(longer, s, u)
    BY <1>3, <1>4, <1>7, <1>10, <2>1, <2>2, <2>3 DEF Without
  <2> QED
    BY <1>4, <1>10, <2>1, <2>2, <2>4
<1>25. Good(longer)'
  BY <1>14, <1>15, <1>16, <1>17, <1>18, <1>20, <1>21, <1>22, <1>23, <1>24 DEF Good
<1>26. Kept(longer)
  BY <1>13, <1>19, <1>25 DEF Kept
<1> QED
  BY <1>26

(* What an election does, and what the log says of the nodes it is among. *)
Elected(log, c, group, inited, from, stamp) ==
    /\ stamp \in LogUpdate /\ stamp[1] = llu[from][1] + 1 /\ stamp[2] = 0
    /\ from \in group /\ c \in group /\ inited \subseteq group \ {c}
    /\ Most(group) /\ Most(inited \cup {c})
    /\ \A m \in group : m \in Node /\ ~Newer(llu[m], llu[from]) /\ gen[m] = NoGen
    /\ \A p \in Node :
         IF p \in inited \cup {c}
         THEN /\ llu'[p] = stamp /\ mem'[p] = mem[from] /\ db'[p] = mem[from]
              /\ gen'[p] = stamp[1] /\ master'[p] = c
         ELSE /\ llu'[p] = llu[p] /\ mem'[p] = mem[p] /\ db'[p] = db[p]
              /\ gen'[p] = gen[p] /\ master'[p] = master[p]
    /\ observers' = [observers EXCEPT ![c] = inited]
    /\ gone' = gone \cup ((1 .. next - 1) \ mem[from])
    /\ UNCHANGED <<pending, calling, awaited, msgs, acked, next, used>>
    /\ TypeOK'

LEMMA ElectType ==
  ASSUME OneTopic, TypeOK, NEW log, Good(log), NEW c \in Node, NEW group \in SUBSET Node,
         NEW inited \in SUBSET (group \ {c}), c \in group, 2 * Cardinality(group) > Cardinality(Node),
         Elect(c, group, inited)
  PROVE  \E from \in group : \E stamp : Elected(log, c, group, inited, from, stamp)
<1>1. PICK from \in Latest(c, group) :
        LET stamp == <<llu[from][1] + 1, 0>>
            content == mem[from]
            enough == Cardinality(inited) >= Majority
            served == IF enough THEN inited \cup {c} ELSE {}
        IN
        /\ stamp[1] <= MaxGen
        /\ enough \/ Abandon
        /\ full[c] \/ group = Node
        /\ full' = [n \in Node |-> full[n] \/ n \in served \/ n = c]
        /\ \A n \in group : gen[n] = NoGen
        /\ db' = [n \in Node |-> IF n \in inited \/ (n = c /\ from # c) THEN content ELSE db[n]]
        /\ mem' = [n \in Node |-> IF n \in inited \cup {c} THEN content ELSE mem[n]]
        /\ llu' = [n \in Node |-> IF n \in inited \cup {c} THEN stamp ELSE llu[n]]
        /\ gen' = [n \in Node |-> IF n \in served THEN stamp[1] ELSE gen[n]]
        /\ master' = [n \in Node |-> IF n \in served THEN c ELSE master[n]]
        /\ observers' = IF enough THEN [observers EXCEPT ![c] = inited] ELSE observers
        /\ gone' = IF enough THEN gone \cup ((1 .. next - 1) \ content) ELSE gone
        /\ UNCHANGED <<pending, calling, awaited, msgs, acked, next, used>>
  BY DEF Elect
<1> DEFINE stamp == <<llu[from][1] + 1, 0>>
<1>2. from \in group /\ from \in Node /\ \A m \in group : m \in Node /\ ~Newer(llu[m], llu[from])
  BY <1>1 DEF Latest
<1>3. llu[from] \in LogUpdate /\ llu[from][1] \in 0 .. MaxGen
  BY <1>2, NodeFacts, Stamps
<1>4. /\ stamp[1] <= MaxGen /\ Cardinality(inited) >= Majority
      /\ full' = [n \in Node |-> full[n] \/ n \in inited \cup {c} \/ n = c]
      /\ \A n \in group : gen[n] = NoGen
      /\ db' = [n \in Node |-> IF n \in inited \/ (n = c /\ from # c) THEN mem[from] ELSE db[n]]
      /\ mem' = [n \in Node |-> IF n \in inited \cup {c} THEN mem[from] ELSE mem[n]]
      /\ llu' = [n \in Node |-> IF n \in inited \cup {c} THEN stamp ELSE llu[n]]
      /\ gen' = [n \in Node |-> IF n \in inited \cup {c} THEN stamp[1] ELSE gen[n]]
      /\ master' = [n \in Node |-> IF n \in inited \cup {c} THEN c ELSE master[n]]
      /\ observers' = [observers EXCEPT ![c] = inited]
      /\ gone' = gone \cup ((1 .. next - 1) \ mem[from])
      /\ UNCHANGED <<pending, calling, awaited, msgs, acked, next, used>>
  BY <1>1, Zenon DEF OneTopic
<1>5. stamp[1] = llu[from][1] + 1 /\ stamp[2] = 0 /\ stamp \in LogUpdate /\ stamp[1] \in 0 .. MaxGen
  BY <1>3, <1>4, BoundAssumption DEF LogUpdate
<1> HIDE DEF stamp
<1>6. Most(group) /\ Most(inited \cup {c})
  BY <1>4, MostWith DEF Most
<1>7. db[c] = mem[c] /\ awaited[c] = {}
  BY <1>4 DEF Good, Replicas, Updating, Master
<1>8. \A p \in Node :
         IF p \in inited \cup {c}
         THEN /\ llu'[p] = stamp /\ mem'[p] = mem[from] /\ db'[p] = mem[from]
              /\ gen'[p] = stamp[1] /\ master'[p] = c
         ELSE /\ llu'[p] = llu[p] /\ mem'[p] = mem[p] /\ db'[p] = db[p]
              /\ gen'[p] = gen[p] /\ master'[p] = master[p]
  BY <1>4, <1>7
<1>9. TypeOK'
  <2>1. db' \in [Node -> SUBSET Update] /\ mem' \in [Node -> SUBSET Update]
    BY <1>2, <1>4 DEF TypeOK
  <2>2. llu' \in [Node -> LogUpdate] /\ gen' \in [Node -> 0 .. MaxGen] /\ master' \in [Node -> Node \cup {None}]
    BY <1>4, <1>5 DEF TypeOK
  <2>3. full' \in [Node -> BOOLEAN]
    BY <1>4 DEF TypeOK
  <2>4. observers' \in [Node -> SUBSET Node]
    BY <1>4 DEF TypeOK
  <2>5. \A n \in Node : awaited'[n] \subseteq observers'[n]
    BY <1>4, <1>7 DEF TypeOK
  <2>6. gone' \in SUBSET Update
    <3>1. next \in 1 .. MaxUpdates + 1 /\ gone \subseteq Update
      BY DEF TypeOK
    <3>2. \A u \in 1 .. next - 1 : u \in Update
      BY <3>1, BoundAssumption DEF Update
    <3> QED
      BY <1>4, <3>1, <3>2
  <2> QED
    BY <1>4, <2>1, <2>2, <2>3, <2>4, <2>5, <2>6 DEF TypeOK
<1>10. Elected(log, c, group, inited, from, stamp)
  BY <1>2, <1>4, <1>5, <1>6, <1>8, <1>9 DEF Elected
<1> QED
  BY <1>2, <1>10

(* The log update of an election is of a new generation. *)
LEMMA NewGeneration ==
  ASSUME OneTopic, TypeOK, NEW log, Good(log), NEW c \in Node, NEW group \in SUBSET Node,
         NEW inited, NEW from \in group, NEW stamp, Elected(log, c, group, inited, from, stamp)
  PROVE  /\ \A t \in DOMAIN log : t \in LogUpdate /\ t[1] <= llu[from][1] /\ t[1] < stamp[1]
         /\ stamp \notin DOMAIN log
         /\ \A p \in Node : gen[p] < stamp[1]
         /\ \A p \in Node : ~Newer(llu[p], llu'[p]) /\ llu[p] \in LogUpdate /\ llu'[p] \in LogUpdate
<1>1. from \in Node /\ llu[from] \in LogUpdate /\ llu[from][1] \in Nat /\ stamp \in LogUpdate /\ stamp[1] = llu[from][1] + 1
  BY NodeFacts, Stamps DEF Elected
<1>2. ASSUME NEW t \in DOMAIN log PROVE t \in LogUpdate /\ t[1] <= llu[from][1] /\ t[1] < stamp[1]
  <2>1. t \in LogUpdate /\ Most({n \in Node : llu[n][1] >= t[1]})
    BY DEF Good, IsLog, Reached
  <2>2. PICK m \in Node : m \in group /\ llu[m][1] >= t[1]
    BY <2>1, MostMeet DEF Elected
  <2>3. ~Newer(llu[m], llu[from]) /\ llu[m] \in LogUpdate
    BY <2>2, NodeFacts DEF Elected
  <2>4. llu[m][1] <= llu[from][1] /\ t[1] \in Nat /\ llu[m][1] \in Nat
    BY <1>1, <2>1, <2>3, Stamps
  <2> QED
    BY <1>1, <2>1, <2>2, <2>4
<1>3. ASSUME NEW p \in Node PROVE gen[p] < stamp[1]
  <2>1. llu[p] \in DOMAIN log /\ (gen[p] # NoGen => llu[p][1] = gen[p])
    BY DEF Good, Replicas, Serving
  <2> QED
    BY <1>1, <1>2, <2>1 DEF NoGen
<1>4. ASSUME NEW p \in Node PROVE ~Newer(llu[p], llu'[p]) /\ llu[p] \in LogUpdate /\ llu'[p] \in LogUpdate
  <2>1. llu[p] \in LogUpdate /\ llu[p] \in DOMAIN log /\ llu[p][1] < stamp[1]
    BY <1>2, NodeFacts DEF Good, Replicas
  <2>2. llu'[p] = llu[p] \/ llu'[p] = stamp
    BY DEF Elected
  <2> QED
    BY <1>1, <2>1, <2>2, Stamps
<1>5. stamp \notin DOMAIN log
  BY <1>1, <1>2
<1> QED
  BY <1>2, <1>3, <1>4, <1>5

LEMMA ElectStep ==
  ASSUME OneTopic, TypeOK, NEW log, Good(log), NEW c \in Node, NEW group \in SUBSET Node,
         NEW inited, NEW from \in group, NEW stamp, Elected(log, c, group, inited, from, stamp)
  PROVE  \E longer : Kept(longer)
<1> DEFINE e == [set |-> mem[from], id |-> 0, by |-> c]
           served == inited \cup {c}
<1>1. /\ \A t \in DOMAIN log : t \in LogUpdate /\ t[1] <= llu[from][1] /\ t[1] < stamp[1]
      /\ stamp \notin DOMAIN log
      /\ \A p \in Node : gen[p] < stamp[1]
      /\ \A p \in Node : ~Newer(llu[p], llu'[p]) /\ llu[p] \in LogUpdate /\ llu'[p] \in LogUpdate
  BY NewGeneration
<1>2. /\ stamp \in LogUpdate /\ stamp[1] = llu[from][1] + 1 /\ stamp[2] = 0 /\ stamp[1] \in Nat
      /\ from \in Node /\ llu[from] \in LogUpdate /\ llu[from] \in DOMAIN log /\ mem[from] = log[llu[from]].set
      /\ c \in group /\ served \subseteq group /\ served \subseteq Node /\ c \notin inited /\ c \in served
      /\ Most(group) /\ Most(served) /\ \A m \in group : m \in Node /\ ~Newer(llu[m], llu[from]) /\ gen[m] = NoGen
  BY <1>1, Stamps DEF Elected, Good, Replicas
<1>3. \A p \in served : /\ llu'[p] = stamp /\ mem'[p] = mem[from] /\ db'[p] = mem[from]
                        /\ gen'[p] = stamp[1] /\ master'[p] = c
  BY <1>2 DEF Elected
<1>4. \A p \in Node \ served : /\ llu'[p] = llu[p] /\ mem'[p] = mem[p] /\ db'[p] = db[p]
                               /\ gen'[p] = gen[p] /\ master'[p] = master[p]
  BY DEF Elected
<1>5. /\ UNCHANGED <<pending, calling, awaited, msgs, acked, next, used>> /\ TypeOK'
      /\ gone' = gone \cup ((1 .. next - 1) \ mem[from])
      /\ \A p \in Node : /\ observers'[p] = IF p = c THEN inited ELSE observers[p]
                         /\ Current(p)' = Current(p)
  BY DEF Elected, TypeOK, Current
<1>6. e.set = log[llu[from]].set /\ e.id = 0 /\ e.by = c
  BY <1>2
<1>7. e \in Entry
  BY <1>2, BoundAssumption DEF Entry, TypeOK
<1> HIDE DEF e
<1>8. PICK longer : Extends(longer, log, stamp, e)
  BY <1>1, CanExtend
<1>9. /\ DOMAIN longer = DOMAIN log \cup {stamp} /\ longer[stamp] = e
      /\ \A t \in DOMAIN log : longer[t] = log[t] /\ t # stamp
  BY <1>8 DEF Extends
<1>10. next \in Nat /\ next >= 1
  BY BoundAssumption DEF TypeOK
<1>11. \A p \in Node : Current(p) # NoUpdate \/ calling[p] # None =>
         /\ Current(p) # NoUpdate /\ Master(p) /\ gen[p] # NoGen
         /\ p \notin group /\ p \notin served /\ p # c /\ p \in Node \ served
  BY <1>2 DEF Good, Updating, Master
<1>12. \A p \in Node : Master(p)' => p \notin inited /\ (p # c => p \in Node \ served /\ Master(p))
  BY <1>2, <1>3, <1>4 DEF Master
<1> HIDE DEF served
<1>13. IsLog(longer)'
  <2> SUFFICES ASSUME NEW t \in DOMAIN longer
               PROVE  /\ longer[t] \in Entry /\ longer[t].set \subseteq 1 .. next - 1 /\ t[2] < next
                      /\ t[2] > 0 => Chained(longer, t)
                      /\ \A v \in DOMAIN longer : t[1] = v[1] => longer[t].by = longer[v].by
    <3>1. DOMAIN longer \subseteq LogUpdate
      BY <1>1, <1>2, <1>9
    <3> QED
      BY <1>5, <3>1 DEF IsLog, Chained
  <2>1. CASE t \in DOMAIN log
    <3>1. /\ log[t] \in Entry /\ log[t].set \subseteq 1 .. next - 1 /\ t[2] < next
          /\ t[2] > 0 => Chained(log, t)
          /\ \A v \in DOMAIN log : t[1] = v[1] => log[t].by = log[v].by
      BY <2>1 DEF Good, IsLog
    <3>2. t[2] > 0 => Chained(longer, t)
      BY <1>9, <2>1, <3>1 DEF Chained
    <3>3. t[1] # stamp[1] /\ longer[t] = log[t]
      BY <1>1, <1>2, <1>9, <2>1
    <3> QED
      BY <1>9, <3>1, <3>2, <3>3
  <2>2. CASE t = stamp
    <3>1. log[llu[from]].set \subseteq 1 .. next - 1
      BY <1>2 DEF Good, IsLog
    <3>2. \A v \in DOMAIN log : v[1] # stamp[1]
      BY <1>1, <1>2
    <3> QED
      BY <1>2, <1>6, <1>7, <1>9, <1>10, <2>2, <3>1, <3>2
  <2> QED
    BY <1>9, <2>1, <2>2
<1>14. Replicas(longer)'
  <2>1. \A p \in Node : llu[p] \in DOMAIN log /\ mem[p] = log[llu[p]].set /\ db[p] = mem[p]
    BY DEF Good, Replicas
  <2>2. \A p \in served : llu'[p] \in DOMAIN longer /\ mem'[p] = longer[llu'[p]].set /\ db'[p] = mem'[p]
    BY <1>2, <1>3, <1>6, <1>9
  <2>3. \A p \in Node \ served : llu'[p] \in DOMAIN longer /\ mem'[p] = longer[llu'[p]].set /\ db'[p] = mem'[p]
    BY <1>4, <1>9, <2>1
  <2> QED
    BY <2>2, <2>3 DEF Replicas
<1>15. Serving(longer)'
  <2>1. ASSUME NEW p \in Node, gen'[p] # NoGen PROVE llu'[p][1] = gen'[p] /\ master'[p] = longer[llu'[p]].by
    <3>1. CASE p \in served
      BY <1>3, <1>6, <1>9, <3>1
    <3>2. CASE p \notin served
      <4>1. llu[p] \in DOMAIN log /\ llu[p][1] = gen[p] /\ master[p] = log[llu[p]].by
        BY <1>4, <2>1, <3>2 DEF Good, Replicas, Serving
      <4> QED
        BY <1>4, <1>9, <3>2, <4>1
    <3> QED
      BY <3>1, <3>2
  <2>2. ASSUME NEW p \in Node, Master(p)', NEW t \in DOMAIN longer, t[1] = gen'[p] PROVE t[2] <= llu'[p][2]
    <3>1. CASE p = c
      BY <1>1, <1>2, <1>3, <1>9, <2>2, <3>1
    <3>2. CASE p # c
      <4>1. Master(p) /\ gen'[p] = gen[p] /\ llu'[p] = llu[p]
        BY <1>4, <1>12, <2>2, <3>2
      <4>2. t \in DOMAIN log
        BY <1>1, <1>2, <1>9, <2>2, <4>1, NodeFacts
      <4> QED
        BY <2>2, <4>1, <4>2 DEF Good, Serving
    <3> QED
      BY <3>1, <3>2
  <2> QED
    BY <2>1, <2>2 DEF Serving
<1>16. Reached(longer)'
  <2>1. ASSUME NEW t \in DOMAIN longer PROVE Most({p \in Node : llu'[p][1] >= t[1]})
    <3>1. CASE t = stamp
      <4>1. served \subseteq {p \in Node : llu'[p][1] >= t[1]}
        BY <1>2, <1>3, <3>1
      <4> QED
        BY <1>2, <4>1, MostGrows
    <3>2. CASE t \in DOMAIN log
      <4>1. Most({p \in Node : llu[p][1] >= t[1]}) /\ t \in LogUpdate
        BY <1>1, <3>2 DEF Good, Reached
      <4>2. ASSUME NEW p \in Node, llu[p][1] >= t[1] PROVE llu'[p][1] >= t[1]
        <5>1. t[1] \in Nat /\ llu[p][1] \in Nat /\ llu'[p][1] \in Nat /\ llu[p][1] <= llu'[p][1]
          BY <1>1, <4>1, Stamps
        <5> QED
          BY <4>2, <5>1
      <4>3. {p \in Node : llu[p][1] >= t[1]} \subseteq {p \in Node : llu'[p][1] >= t[1]}
        BY <4>2
      <4> QED
        BY <4>1, <4>3, MostGrows
    <3> QED
      BY <1>9, <3>1, <3>2
  <2>2. ASSUME NEW t \in DOMAIN longer, NEW g \in 1 .. MaxGen, g < t[1] PROVE Most({p \in Node : gen'[p] # g})
    <3>1. g < stamp[1]
      BY <1>1, <1>2, <1>9, <2>2, Stamps
    <3>2. group \subseteq {p \in Node : gen'[p] # g}
      BY <1>2, <1>3, <1>4, <3>1 DEF NoGen
    <3> QED
      BY <1>2, <3>2, MostGrows
  <2> QED
    BY <2>1, <2>2 DEF Reached, Most
<1>17. Updating(longer)'
  <2> SUFFICES ASSUME NEW p \in Node
               PROVE  /\ Current(p) # NoUpdate => /\ Master(p)' /\ Current(p).llu = llu'[p]
                                                  /\ llu'[p][2] > 0 /\ Current(p).id = longer[llu'[p]].id
                      /\ calling[p] # None => Current(p) # NoUpdate
                      /\ calling[p] = None => awaited[p] = {}
                      /\ p \notin observers'[p]
    BY <1>5 DEF Updating
  <2>1. CASE Current(p) # NoUpdate
    <3>1. /\ Master(p) /\ Current(p).llu = llu[p] /\ llu[p][2] > 0 /\ Current(p).id = log[llu[p]].id
          /\ llu[p] \in DOMAIN log
      BY <2>1 DEF Good, Updating, Replicas
    <3>2. llu'[p] = llu[p] /\ Master(p)' /\ longer[llu[p]] = log[llu[p]]
      BY <1>4, <1>9, <1>11, <2>1, <3>1 DEF Master
    <3> QED
      BY <1>2, <1>5, <3>1, <3>2 DEF Good, Updating
  <2>2. CASE Current(p) = NoUpdate
    BY <1>2, <1>5, <2>2 DEF Good, Updating
  <2> QED
    BY <2>1, <2>2
<1>18. Observing'
  <2>1. ASSUME NEW p \in Node, Master(p)', NEW q \in observers'[p], gen'[q] = gen'[p]
        PROVE  llu'[q] = IF Told(p, q)' THEN llu'[p] ELSE Pred(llu'[p])
    <3>1. CASE p = c
      <4>1. q \in served /\ Current(p)' = NoUpdate
        BY <1>2, <1>5, <1>11, <2>1, <3>1 DEF served
      <4> QED
        BY <1>2, <1>3, <3>1, <4>1 DEF Told
    <3>2. CASE p # c
      <4>1. p \in Node \ served /\ Master(p) /\ q \in observers[p] /\ q \in Node
        BY <1>5, <1>12, <2>1, <3>2, NodeFacts
      <4>2. gen'[p] = gen[p] /\ gen[p] < stamp[1] /\ gen[p] \in Nat
        BY <1>1, <1>4, <4>1, NodeFacts
      <4>3. q \in Node \ served
        BY <1>2, <1>3, <2>1, <4>1, <4>2
      <4>4. llu[q] = IF Told(p, q) THEN llu[p] ELSE Pred(llu[p])
        BY <1>4, <2>1, <4>1, <4>2, <4>3 DEF Good, Observing
      <4> QED
        BY <1>4, <1>5, <4>1, <4>3, <4>4 DEF Told
    <3> QED
      BY <3>1, <3>2
  <2>2. ASSUME NEW p \in Node, calling[p] # None, NEW q \in observers'[p] \ awaited[p] PROVE ~Newer(llu'[p], llu'[q])
    <3>1. p \in Node \ served /\ p # c /\ q \in observers[p] \ awaited[p] /\ q \in Node
      BY <1>5, <1>11, <2>2, NodeFacts
    <3>2. ~Newer(llu[p], llu[q]) /\ llu'[p] = llu[p]
      BY <1>4, <2>2, <3>1 DEF Good, Observing
    <3> QED
      BY <1>1, <3>1, <3>2, Stamps
  <2> QED
    BY <1>5, <2>1, <2>2 DEF Observing
<1>19. Messages(longer)'
  <2> SUFFICES ASSUME NEW v \in msgs PROVE Carried(longer, v)' /\ Expected(v)'
    BY <1>5 DEF Messages
  <2>1. v.to \in Node /\ v.from \in Node /\ Carried(log, v) /\ Expected(v) /\ v.id # 0
    BY CallFacts
  <2>2. v.llu \in DOMAIN log /\ v.gen = v.llu[1] /\ v.gen # stamp[1]
    BY <1>1, <1>2, <2>1 DEF Carried
  <2>3. Carried(longer, v)'
    <3>1. Accepts(v)' => v.to \in Node \ served /\ Accepts(v)
      BY <1>3, <1>4, <2>1, <2>2 DEF Accepts
    <3> QED
      BY <1>4, <1>9, <2>1, <2>2, <3>1 DEF Carried
  <2>4. Expected(v)'
    <3>1. ASSUME Master(v.from)', gen'[v.from] = v.gen, v.to \in observers'[v.from]
          PROVE  calling[v.from] # None /\ v.to \in awaited[v.from] /\ Current(v.from).id = v.id
      <4>1. v.from \in Node \ served /\ v.from # c
        BY <1>2, <1>3, <2>1, <2>2, <3>1
      <4>2. Master(v.from) /\ gen[v.from] = v.gen /\ v.to \in observers[v.from]
        BY <1>4, <1>5, <1>12, <2>1, <3>1, <4>1
      <4> QED
        BY <2>1, <4>2 DEF Expected
    <3>2. ASSUME Current(v.from).id = v.id PROVE v.llu = llu'[v.from]
      <4>1. v.llu = llu[v.from] /\ Current(v.from) # NoUpdate
        BY <2>1, <3>2 DEF Expected, NoUpdate
      <4> QED
        BY <1>4, <1>11, <2>1, <4>1
    <3> QED
      BY <1>5, <2>1, <3>1, <3>2 DEF Expected
  <2> QED
    BY <2>3, <2>4
<1>20. Missing(longer)'
  <2> SUFFICES ASSUME NEW p \in Node, NEW t \in DOMAIN longer, Current(p) # NoUpdate, t[1] > gen'[p],
                      Current(p).id \notin longer[t].set
               PROVE  Most(Left(p)')
    BY <1>5 DEF Missing, Most
  <2>1. p \in Node \ served /\ p # c /\ Master(p) /\ gen'[p] = gen[p] /\ gen[p] < stamp[1] /\ gen[p] \in Nat /\ gen[p] # NoGen
    BY <1>1, <1>4, <1>11, NodeFacts
  <2>2. \A o \in Node : gen'[o] = gen[o] \/ gen'[o] = stamp[1]
    BY <1>3, <1>4
  <2>3. Left(p) \subseteq Left(p)' /\ Left(p)' \subseteq Node
    BY <1>2, <1>5, <2>1, <2>2 DEF Left
  <2>4. CASE t \in DOMAIN log
    <3>1. Most(Left(p))
      BY <1>9, <2>1, <2>4 DEF Good, Missing
    <3> QED
      BY <2>3, <3>1, MostGrows
  <2>5. CASE t = stamp
    <3>1. Current(p).id \notin log[llu[from]].set
      BY <1>6, <1>9, <2>5
    <3>2. CASE llu[from][1] > gen[p]
      <4>1. Most(Left(p))
        BY <1>2, <3>1, <3>2 DEF Good, Missing
      <4> QED
        BY <2>3, <4>1, MostGrows
    <3>3. CASE ~(llu[from][1] > gen[p])
      <4>1. /\ llu[p] \in DOMAIN log /\ llu[p] \in LogUpdate /\ llu[p][1] = gen[p] /\ llu[p][2] > 0
            /\ Current(p).id = log[llu[p]].id
        BY <2>1, NodeFacts DEF Good, Replicas, Serving, Updating
      <4>2. Current(p).id \in log[llu[p]].set
        BY <4>1 DEF Good, IsLog, Chained
      <4>3. llu[from] # llu[p] /\ llu[from][1] = gen[p]
        BY <1>1, <1>2, <2>1, <3>1, <3>3, <4>1, <4>2, Stamps
      <4>4. llu[from][2] <= llu[p][2]
        BY <1>2, <2>1, <4>3 DEF Good, Serving
      <4>5. Newer(llu[p], llu[from])
        BY <1>2, <4>1, <4>3, <4>4, Stamps
      <4>6. ASSUME NEW o \in group, calling[p] # None, o \in observers[p] \ awaited[p] PROVE FALSE
        <5>1. ~Newer(llu[p], llu[o]) /\ ~Newer(llu[o], llu[from]) /\ llu[o] \in LogUpdate
          BY <1>1, <1>2, <4>6 DEF Good, Observing
        <5> QED
          BY <1>2, <4>1, <4>5, <5>1, Stamps
      <4>7. group \subseteq Left(p)'
        BY <1>2, <1>5, <2>1, <2>2, <4>6 DEF Left
      <4> QED
        BY <1>2, <2>3, <4>7, MostGrows
    <3> QED
      BY <3>2, <3>3
  <2> QED
    BY <1>9, <2>4, <2>5
<1>21. Acked(longer)'
  <2> SUFFICES ASSUME NEW u \in acked
               PROVE  \E s \in DOMAIN longer : From(longer, s, u) /\ Most({p \in Node : ~Newer(s, llu'[p])})
    BY <1>5 DEF Acked, From, Most
  <2>1. PICK s \in DOMAIN log : From(log, s, u) /\ Most({p \in Node : ~Newer(s, llu[p])})
    BY DEF Good, Acked
  <2>2. PICK m \in Node : m \in group /\ ~Newer(s, llu[m])
    BY <1>2, <2>1, MostMeet
  <2>3. ~Newer(s, llu[from])
    BY <1>1, <1>2, <2>1, <2>2, Stamps
  <2>4. From(longer, s, u)
    BY <1>2, <1>6, <1>9, <2>1, <2>3 DEF From
  <2>5. {p \in Node : ~Newer(s, llu[p])} \subseteq {p \in Node : ~Newer(s, llu'[p])}
    BY <1>1, <2>1, Stamps
  <2>6. Most({p \in Node : ~Newer(s, llu'[p])})
    BY <2>1, <2>5, MostGrows
  <2> QED
    BY <1>9, <2>4, <2>6
<1>22. Gone(longer)'
  <2> SUFFICES ASSUME NEW u \in gone'
               PROVE  u < next /\ \E s \in DOMAIN longer : s[2] = 0 /\ Without(longer, s, u)
    BY <1>5 DEF Gone, Without
  <2>1. CASE u \in gone
    <3>1. PICK s \in DOMAIN log : u < next /\ s[2] = 0 /\ Without(log, s, u)
      BY <2>1 DEF Good, Gone
    <3>2. ~Newer(s, llu[from])
      BY <1>1, <1>2, <3>1, Stamps
    <3>3. Without(longer, s, u)
      BY <1>2, <1>6, <1>9, <3>1, <3>2 DEF Without
    <3> QED
      BY <1>9, <3>1, <3>3
  <2>2. CASE u \in (1 .. next - 1) \ mem[from]
    <3>1. Without(longer, stamp, u)
      <4>1. \A t \in DOMAIN log : Newer(stamp, t)
        BY <1>1, <1>2, Stamps
      <4> QED
        BY <1>2, <1>6, <1>9, <2>2, <4>1 DEF Without
    <3> QED
      BY <1>2, <1>9, <1>10, <2>2, <3>1
  <2> QED
    BY <1>5, <2>1, <2>2
<1>23. Good(longer)'
  BY <1>13, <1>14, <1>15, <1>16, <1>17, <1>18, <1>19, <1>20, <1>21, <1>22 DEF Good
<1>24. Kept(longer)
  BY <1>1, <1>5, <1>23 DEF Kept
<1> QED
  BY <1>24

-----------------------------------------------------------------------------
(* The specification. *)

LEMMA InitGood ==
  ASSUME OneTopic, Init
  PROVE  Inv
<1> DEFINE log == [t \in {<<0, 0>>} |-> [set |-> {}, id |-> 0, by |-> None]]
<1>1. DOMAIN log = {<<0, 0>>} /\ log[<<0, 0>>] = [set |-> {}, id |-> 0, by |-> None]
  OBVIOUS
<1>2. [set |-> {}, id |-> 0, by |-> None] \in Entry /\ <<0, 0>> \in LogUpdate
  BY BoundAssumption DEF Entry, LogUpdate
<1>3. <<0, 0>>[1] = 0 /\ <<0, 0>>[2] = 0 /\ [set |-> {}, id |-> 0, by |-> None].set = {}
  OBVIOUS
<1>4. /\ Locks = {Topic} /\ Topic \in Locks /\ next = 1 /\ msgs = {} /\ acked = {} /\ gone = {}
      /\ \A n \in Node : /\ db[n] = {} /\ mem[n] = {} /\ llu[n] = <<0, 0>> /\ gen[n] = NoGen /\ master[n] = None
                         /\ observers[n] = {} /\ awaited[n] = {} /\ Current(n) = NoUpdate /\ calling[n] = None
  BY TheTopic DEF Init, Current
<1>5. TypeOK
  <2>1. NoUpdate \in [id : 0 .. MaxUpdates, llu : LogUpdate]
    BY <1>2, BoundAssumption DEF NoUpdate
  <2>2. pending \in [Node -> [Locks -> [id : 0 .. MaxUpdates, llu : LogUpdate]]]
    BY <2>1 DEF Init
  <2>3. used \in [failures : 0 .. MaxFailures, crashes : 0 .. MaxCrashes]
    BY BoundAssumption DEF Init
  <2>4. next \in 1 .. MaxUpdates + 1 /\ gen \in [Node -> 0 .. MaxGen]
    BY BoundAssumption DEF Init, NoGen
  <2> QED
    BY <1>2, <1>4, <2>2, <2>3, <2>4 DEF Init, TypeOK
<1>6. Most(Node)
  <2>1. Cardinality(Node) \in Nat /\ Cardinality(Node) # 0
    BY NodeAssumption, FS_CardinalityType, FS_EmptySet
  <2> QED
    BY <2>1 DEF Most
<1> HIDE DEF log
<1>7. IsLog(log)
  BY <1>1, <1>2, <1>3, <1>4 DEF IsLog
<1>8. Replicas(log)
  BY <1>1, <1>3, <1>4 DEF Replicas
<1>9. Serving(log)
  BY <1>4 DEF Serving, Master
<1>10. Reached(log)
  <2>1. {n \in Node : llu[n][1] >= 0} = Node
    BY <1>3, <1>4
  <2>2. \A g \in 1 .. MaxGen : ~(g < 0)
    BY BoundAssumption
  <2> QED
    BY <1>1, <1>3, <1>6, <2>1, <2>2 DEF Reached
<1>11. Updating(log) /\ Observing /\ Messages(log) /\ Missing(log) /\ Acked(log) /\ Gone(log)
  BY <1>4 DEF Updating, Observing, Messages, Missing, Acked, Gone, Master
<1> QED
  BY <1>5, <1>7, <1>8, <1>9, <1>10, <1>11 DEF Inv, Good

(* Every step keeps a log, and no log update goes back. *)
LEMMA NextKeeps ==
  ASSUME OneTopic, Inv, [Next]_vars
  PROVE  Inv' /\ \A n \in Node : ~Newer(llu[n], llu'[n])
<1>1. TypeOK
  BY DEF Inv
<1>2. PICK log : Good(log)
  BY DEF Inv
<1> SUFFICES \E longer : Kept(longer)
  BY DEF Kept, Inv
<1>3. CASE UNCHANGED vars
  <2>1. TypeOK'
    BY <1>1, <1>3 DEF TypeOK, vars
  <2>2. UNCHANGED <<db, mem, llu, gen, master, observers, pending, calling, awaited, msgs, acked, gone, next>>
    BY <1>3 DEF vars
  <2>3. IsLog(log)' /\ Replicas(log)' /\ Acked(log)' /\ Gone(log)' /\ \A n \in Node : ~Newer(llu[n], llu'[n])
    BY <1>1, <1>2, <2>2, SameReplicas
  <2>4. Serving(log)' /\ Reached(log)'
    BY <1>2, <2>2 DEF Good, Serving, Master, Reached, Most
  <2>5. Updating(log)' /\ Observing'
    BY <1>2, <2>2 DEF Good, Updating, Master, Current, Observing, Told
  <2>6. Messages(log)'
    BY <1>2, <2>2 DEF Good, Messages, Carried, Accepts, Expected, Master, Current
  <2>7. Missing(log)'
    BY <1>2, <2>2 DEF Good, Missing, Current, Left, Most
  <2> QED
    BY <2>1, <2>3, <2>4, <2>5, <2>6, <2>7 DEF Kept, Good
<1>4. ASSUME NEW n \in Node, NEW k \in Locks, Commit(n, k) PROVE \E longer : Kept(longer)
  BY <1>1, <1>2, <1>4, CommitStep
<1>5. ASSUME NEW n \in Node, NEW k \in Locks, Send(n, k) PROVE \E longer : Kept(longer)
  BY <1>1, <1>2, <1>5, SendStep
<1>6. ASSUME NEW m \in msgs, Deliver(m) PROVE \E longer : Kept(longer)
  BY <1>1, <1>2, <1>6, AcceptedStep, RefusedStep
<1>7. ASSUME NEW n \in Node, NEW o \in Node, CallFails(n, o) PROVE \E longer : Kept(longer)
  BY <1>1, <1>2, <1>7, CallFailsStep
<1>8. ASSUME NEW n \in Node, NEW o \in Node, PingFails(n, o) PROVE \E longer : Kept(longer)
  BY <1>1, <1>2, <1>8, PingFailsStep
<1>9. ASSUME NEW n \in Node, Finish(n) PROVE \E longer : Kept(longer)
  BY <1>1, <1>2, <1>9, FinishStep
<1>10. ASSUME NEW n \in Node, Recover(n) PROVE \E longer : Kept(longer)
  BY <1>1, <1>2, <1>10, RecoverStep
<1>11. ASSUME NEW n \in Node, Crash(n) PROVE \E longer : Kept(longer)
  BY <1>1, <1>2, <1>11, CrashStep
<1>12. ASSUME NEW c \in Node, NEW group \in SUBSET Node, NEW inited \in SUBSET (group \ {c}), c \in group,
              2 * Cardinality(group) > Cardinality(Node), Elect(c, group, inited)
       PROVE  \E longer : Kept(longer)
  <2>1. PICK from \in group : \E stamp : Elected(log, c, group, inited, from, stamp)
    BY <1>1, <1>2, <1>12, ElectType
  <2>2. PICK stamp : Elected(log, c, group, inited, from, stamp)
    BY <2>1
  <2> QED
    BY <1>1, <1>2, <2>2, ElectStep
<1> QED
  BY <1>3, <1>4, <1>5, <1>6, <1>7, <1>8, <1>9, <1>10, <1>11, <1>12 DEF Next

-----------------------------------------------------------------------------
(* What the log shows of the replicas. *)

(* The master of the newest generation has the newest log update. *)
LEMMA NewestHasAll ==
  ASSUME OneTopic, TypeOK, NEW log, Good(log), NEW n \in Node, Newest(n), NEW t \in DOMAIN log
  PROVE  ~Newer(t, llu[n]) /\ llu[n] \in DOMAIN log
<1>1. t \in LogUpdate /\ Most({m \in Node : llu[m][1] >= t[1]})
  BY DEF Good, IsLog, Reached
<1>2. PICK m \in Node : llu[m][1] >= t[1]
  BY <1>1, MostMeet
<1>3. llu[m][1] <= gen[n] /\ llu[n][1] = gen[n] /\ llu[n] \in DOMAIN log /\ (t[1] = gen[n] => t[2] <= llu[n][2])
  BY DEF Newest, Good, Serving, Replicas, Master
<1>4. llu[n] \in LogUpdate /\ llu[m] \in LogUpdate
  BY NodeFacts
<1>5. t[1] \in Nat /\ llu[m][1] \in Nat /\ llu[n][1] \in Nat
  BY <1>1, <1>4, Stamps
<1>6. t[1] <= llu[n][1]
  BY <1>2, <1>3, <1>5
<1> QED
  BY <1>1, <1>3, <1>4, <1>6, Stamps

LEMMA InvDurable ==
  ASSUME OneTopic, Inv
  PROVE  DurableUpdates
<1>1. TypeOK
  BY DEF Inv
<1>2. PICK log : Good(log)
  BY DEF Inv
<1>3. \A n \in Node : llu[n] \in DOMAIN log /\ mem[n] = log[llu[n]].set /\ db[n] = mem[n]
  BY <1>2 DEF Good, Replicas
<1>4. ASSUME NEW u \in acked PROVE 2 * Cardinality({n \in Node : u \in db[n]}) > Cardinality(Node)
  <2>1. PICK s \in DOMAIN log : From(log, s, u) /\ Most({n \in Node : ~Newer(s, llu[n])})
    BY <1>2 DEF Good, Acked
  <2>2. {n \in Node : ~Newer(s, llu[n])} \subseteq {n \in Node : u \in db[n]}
    BY <1>3, <2>1 DEF From
  <2>3. Most({n \in Node : u \in db[n]})
    BY <2>1, <2>2, MostGrows
  <2> QED
    BY <2>3 DEF Most
<1>5. ASSUME NEW n \in Node, Newest(n), NEW u \in acked PROVE u \in db[n] \cap mem[n]
  <2>1. PICK s \in DOMAIN log : From(log, s, u)
    BY <1>2 DEF Good, Acked
  <2>2. ~Newer(s, llu[n]) /\ llu[n] \in DOMAIN log
    BY <1>1, <1>2, <1>5, NewestHasAll
  <2> QED
    BY <1>3, <2>1, <2>2 DEF From
<1> QED
  BY <1>4, <1>5 DEF DurableUpdates, AckedAtMajority, LatestState

LEMMA InvGone ==
  ASSUME OneTopic, Inv
  PROVE  NoResurrection
<1>1. TypeOK
  BY DEF Inv
<1>2. PICK log : Good(log)
  BY DEF Inv
<1>3. ASSUME NEW n \in Node, Newest(n), NEW u \in gone PROVE u \notin mem[n]
  <2>1. PICK s \in DOMAIN log : Without(log, s, u)
    BY <1>2 DEF Good, Gone
  <2>2. ~Newer(s, llu[n]) /\ llu[n] \in DOMAIN log
    BY <1>1, <1>2, <1>3, NewestHasAll
  <2> QED
    BY <1>2, <2>1, <2>2 DEF Without, Good, Replicas
<1> QED
  BY <1>3 DEF NoResurrection

(* What a caller was told has been done stays done: the updates are in the *)
(* databases of more than half of the nodes, and in that of the master of  *)
(* the newest generation (Observers::wait, NodeI::mergeContinue).          *)
THEOREM UpdatesDurable ==
  ASSUME OneTopic
  PROVE  Spec => []DurableUpdates
<1>1. Init => Inv
  BY InitGood
<1>2. Inv /\ [Next]_vars => Inv'
  BY NextKeeps
<1>3. Inv => DurableUpdates
  BY InvDurable
<1> QED
  BY <1>1, <1>2, <1>3, PTL DEF Spec

(* An update that a group was elected without does not come back in the    *)
(* memory of a later master (TopicManagerImpl::initMaster gives the group  *)
(* a new generation at once, so that no older replica is the latest).      *)
THEOREM NothingResurrected ==
  ASSUME OneTopic
  PROVE  Spec => []NoResurrection
<1>1. Init => Inv
  BY InitGood
<1>2. Inv /\ [Next]_vars => Inv'
  BY NextKeeps
<1>3. Inv => NoResurrection
  BY InvGone
<1> QED
  BY <1>1, <1>2, <1>3, PTL DEF Spec

(* The log update of a replica tells how recent it is: two members of a    *)
(* group with the same one have the same content, and it never goes back   *)
(* (LLUWrapper's writes in TopicImpl and TopicManagerImpl).                *)
THEOREM StampsTellContent ==
  ASSUME OneTopic
  PROVE  Spec => StampsTell
<1>1. Init => Inv
  BY InitGood
<1>2. Inv /\ [Next]_vars => Inv'
  BY NextKeeps
<1>3. Inv => TypeOK /\ SameStampSameContent
  BY DEF Inv, Good, Replicas, SameStampSameContent
<1>4. Inv /\ [Next]_vars => [\A n \in Node : ~Newer(llu[n], llu'[n])]_vars
  BY NextKeeps
<1> QED
  BY <1>1, <1>2, <1>3, <1>4, PTL DEF Spec, StampsTell, StampsGrow
=============================================================================
