----------------------------- MODULE Replication -----------------------------
(***************************************************************************)
(* The updates of the replicated topics of IceStorm: TopicManagerI.cpp,    *)
(* TopicI.cpp and Observers.cpp.  The master commits an update to its      *)
(* database, with a log update (generation, iteration), and then calls the *)
(* observers, which are the other members of its group.                    *)
(*                                                                         *)
(* An update is a number; the content of a database is the set of the      *)
(* updates in it (to remove a subscriber, or a topic, is an update too).   *)
(* Elect is the outcome of an election of NodeI, which Election models in  *)
(* detail; it is one step here, and may be abandoned half-way.             *)
(***************************************************************************)
EXTENDS Integers, FiniteSets

CONSTANTS
    Node,
    None,
    Locks,        \* the mutexes under which updates run: _subscribersMutex of
                  \* each TopicImpl, and Manager
    Manager,      \* TopicManagerImpl::_mutex, held by create()
    Abandon,      \* whether elections fail in the calls of init() at the members
    MaxGen,       \* bound: generations
    MaxUpdates,   \* bound: updates
    MaxFailures,  \* bound: calls of the master that time out, pings that fail
    MaxCrashes    \* bound: restarts

ASSUME NodeAssumption == IsFiniteSet(Node) /\ Node # {} /\ None \notin Node
ASSUME LocksAssumption == None \notin Locks /\ Abandon \in BOOLEAN
ASSUME BoundAssumption ==
    MaxGen \in Nat /\ MaxUpdates \in Nat /\ MaxFailures \in Nat /\ MaxCrashes \in Nat

VARIABLES
    db,         \* the content of the database of each node
    mem,        \* the content of _topics and their _subscribers
    llu,        \* the last log update in the database
    gen,        \* _generation of a node that serves, NoGen of another
    master,     \* its coordinator
    full,       \* _max is the number of nodes
    observers,  \* Observers::_observers of a master
    pending,    \* the update whose transaction a lock of a node has committed
    calling,    \* the lock whose thread holds Observers::_mutex
    awaited,    \* the observers it waits for
    msgs,       \* calls on their way to observers
    acked,      \* updates whose caller has had no exception
    gone,       \* updates that a group has been elected without
    next,       \* number of the next update
    used        \* failures and crashes, for their bounds

vars == <<db, mem, llu, gen, master, full, observers, pending, calling, awaited, msgs, acked, gone, next, used>>

NoGen == 0
Majority == Cardinality(Node) \div 2
Update == 1 .. MaxUpdates
LogUpdate == (0 .. MaxGen) \X (0 .. MaxUpdates)

(* The order of log updates. *)
Newer(a, b) == a[1] > b[1] \/ (a[1] = b[1] /\ a[2] > b[2])

NoUpdate == [id |-> 0, llu |-> <<0, 0>>]
Message == [to : Node, from : Node, gen : 1 .. MaxGen, id : Update, llu : LogUpdate]

TypeOK ==
    /\ db \in [Node -> SUBSET Update] /\ mem \in [Node -> SUBSET Update]
    /\ llu \in [Node -> LogUpdate]
    /\ gen \in [Node -> 0 .. MaxGen] /\ master \in [Node -> Node \cup {None}]
    /\ full \in [Node -> BOOLEAN]
    /\ observers \in [Node -> SUBSET Node] /\ awaited \in [Node -> SUBSET Node]
    /\ \A n \in Node : awaited[n] \subseteq observers[n]
    /\ pending \in [Node -> [Locks -> [id : 0 .. MaxUpdates, llu : LogUpdate]]]
    /\ calling \in [Node -> Locks \cup {None}]
    /\ msgs \in SUBSET Message
    /\ acked \in SUBSET Update /\ gone \in SUBSET Update /\ next \in 1 .. MaxUpdates + 1
    /\ used \in [failures : 0 .. MaxFailures, crashes : 0 .. MaxCrashes]

Master(n) == gen[n] # NoGen /\ master[n] = n
Idle(n) == \A k \in Locks : pending[n][k] = NoUpdate

-----------------------------------------------------------------------------
(* Mutant of Commit: the log update of a transaction is not incremented. *)
CommitSameStamp(n, k) ==
    /\ Master(n) /\ Cardinality(observers[n]) >= Majority
    /\ pending[n][k] = NoUpdate /\ next <= MaxUpdates
    /\ db' = [db EXCEPT ![n] = @ \cup {next}]
    /\ mem' = IF k = Manager THEN mem ELSE [mem EXCEPT ![n] = @ \cup {next}]
    /\ pending' = [pending EXCEPT ![n][k] = [id |-> next, llu |-> llu[n]]]
    /\ next' = next + 1
    /\ UNCHANGED <<llu, gen, master, full, observers, calling, awaited, msgs, acked, gone, used>>

(* startUpdate() at the master, then the transaction of the update, under  *)
(* the mutex of its topic or, to create a topic, of the manager.  A topic  *)
(* is installed in memory only after the observers have been called.       *)
Commit(n, k) ==
    LET stamp == <<llu[n][1], llu[n][2] + 1>> IN
    /\ Master(n) /\ Cardinality(observers[n]) >= Majority
    /\ pending[n][k] = NoUpdate /\ next <= MaxUpdates
    /\ db' = [db EXCEPT ![n] = @ \cup {next}]
    /\ mem' = IF k = Manager THEN mem ELSE [mem EXCEPT ![n] = @ \cup {next}]
    /\ llu' = [llu EXCEPT ![n] = stamp]
    /\ pending' = [pending EXCEPT ![n][k] = [id |-> next, llu |-> stamp]]
    /\ next' = next + 1
    /\ UNCHANGED <<gen, master, full, observers, calling, awaited, msgs, acked, gone, used>>

(* Observers::createTopic, addSubscriber ...: the calls under its mutex. *)
Send(n, k) ==
    LET u == pending[n][k] IN
    /\ calling[n] = None /\ u # NoUpdate
    /\ calling' = [calling EXCEPT ![n] = k]
    /\ awaited' = [awaited EXCEPT ![n] = observers[n]]
    /\ msgs' = msgs \cup {[to |-> o, from |-> n, gen |-> u.llu[1], id |-> u.id, llu |-> u.llu] :
                          o \in observers[n]}
    /\ UNCHANGED <<db, mem, llu, gen, master, full, observers, pending, acked, gone, next, used>>

(* startObserverUpdate(). *)
Accepts(m) == gen[m.to] = m.gen /\ master[m.to] # m.to

(* The operation of ReplicaObserverI, and its answer if it is awaited: the *)
(* update and its log update are written; a node of another generation     *)
(* refuses, and is evicted.                                                *)
Deliver(m) ==
    LET waits == m.to \in awaited[m.from] /\ calling[m.from] # None
                 /\ pending[m.from][calling[m.from]].id = m.id
    IN
    /\ msgs' = msgs \ {m}
    /\ IF Accepts(m)
       THEN /\ db' = [db EXCEPT ![m.to] = @ \cup {m.id}]
            /\ mem' = [mem EXCEPT ![m.to] = @ \cup {m.id}]
            /\ llu' = [llu EXCEPT ![m.to] = m.llu]
            /\ UNCHANGED observers
       ELSE /\ observers' = IF waits THEN [observers EXCEPT ![m.from] = @ \ {m.to}] ELSE observers
            /\ UNCHANGED <<db, mem, llu>>
    /\ awaited' = IF waits THEN [awaited EXCEPT ![m.from] = @ \ {m.to}] ELSE awaited
    /\ UNCHANGED <<gen, master, full, pending, calling, acked, gone, next, used>>

Fail == used.failures < MaxFailures /\ used' = [used EXCEPT !.failures = @ + 1]

(* A call fails at the master; it may be lost, or still arrive. *)
CallFails(n, o) ==
    /\ Fail /\ o \in awaited[n]
    /\ awaited' = [awaited EXCEPT ![n] = @ \ {o}]
    /\ observers' = [observers EXCEPT ![n] = @ \ {o}]
    /\ \/ UNCHANGED msgs
       \/ msgs' = {m \in msgs : ~(m.from = n /\ m.to = o)}
    /\ UNCHANGED <<db, mem, llu, gen, master, full, pending, calling, acked, gone, next>>

(* Observers::wait() returns, or throws without a majority of observers;   *)
(* the caller of the update gets its answer.                               *)
Finish(n) ==
    LET k == calling[n]
        u == pending[n][k]
        enough == Cardinality(observers[n]) >= Majority
    IN
    /\ k # None /\ awaited[n] = {}
    /\ acked' = IF enough THEN acked \cup {u.id} ELSE acked
    /\ mem' = IF k = Manager /\ enough THEN [mem EXCEPT ![n] = @ \cup {u.id}] ELSE mem
    /\ pending' = [pending EXCEPT ![n][k] = NoUpdate]
    /\ calling' = [calling EXCEPT ![n] = None]
    /\ UNCHANGED <<db, llu, gen, master, full, observers, awaited, msgs, gone, next, used>>

(* Observers::check(): a ping fails. *)
PingFails(n, o) ==
    /\ Fail /\ Master(n) /\ calling[n] = None /\ o \in observers[n]
    /\ Cardinality(observers[n]) >= Majority
    /\ observers' = [observers EXCEPT ![n] = @ \ {o}]
    /\ UNCHANGED <<db, mem, llu, gen, master, full, pending, calling, awaited, msgs, acked, gone, next>>

-----------------------------------------------------------------------------
(* recovery() when no update is in progress: of a master, which looks      *)
(* whether it has a majority, or of a member that does not reach it.       *)
Recover(n) ==
    /\ gen[n] # NoGen /\ Idle(n)
    /\ Master(n) => Cardinality(observers[n]) < Majority
    /\ ~Master(n) => gen[master[n]] # gen[n] \/ n \notin observers[master[n]]
    /\ gen' = [gen EXCEPT ![n] = NoGen] /\ master' = [master EXCEPT ![n] = None]
    /\ observers' = [observers EXCEPT ![n] = {}]
    /\ UNCHANGED <<db, mem, llu, full, pending, calling, awaited, msgs, acked, gone, next, used>>

(* A node restarts: TopicManagerImpl reads the database. *)
Crash(n) ==
    /\ used.crashes < MaxCrashes /\ used' = [used EXCEPT !.crashes = @ + 1]
    /\ mem' = [mem EXCEPT ![n] = db[n]]
    /\ full' = [full EXCEPT ![n] = FALSE]
    /\ gen' = [gen EXCEPT ![n] = NoGen] /\ master' = [master EXCEPT ![n] = None]
    /\ observers' = [observers EXCEPT ![n] = {}] /\ awaited' = [awaited EXCEPT ![n] = {}]
    /\ pending' = [pending EXCEPT ![n] = [k \in Locks |-> NoUpdate]]
    /\ calling' = [calling EXCEPT ![n] = None]
    /\ UNCHANGED <<db, llu, msgs, acked, gone, next>>

(* Mutant of Latest: the iteration is not compared. *)
LatestGeneration(c, group) ==
    IF \A n \in group : llu[n][1] <= llu[c][1] THEN {c}
    ELSE {n \in group : \A m \in group : llu[m][1] <= llu[n][1]}

(* The node whose content the group takes: one with the largest log        *)
(* update, the coordinator itself if it has it.                            *)
Latest(c, group) ==
    IF \A n \in group : ~Newer(llu[n], llu[c]) THEN {c}
    ELSE {n \in group : \A m \in group : ~Newer(llu[m], llu[n])}

(* Mutant of Elect: the members take the content and not the new stamp. *)
ElectOldStamp(c, group, inited) ==
    \E from \in Latest(c, group) :
      LET stamp == <<llu[from][1] + 1, 0>>
          content == mem[from]
          enough == Cardinality(inited) >= Majority
          served == IF enough THEN inited \cup {c} ELSE {}
      IN
      /\ stamp[1] <= MaxGen
      /\ enough \/ Abandon
      /\ full[c] \/ group = Node
      /\ full' = [n \in Node |-> full[n] \/ n \in served \/ n = c]
      /\ \A n \in group : gen[n] = NoGen
      /\ db' = [n \in Node |-> IF n \in inited \/ (n = c /\ from # c) THEN content ELSE db[n]]
      /\ mem' = [n \in Node |-> IF n \in inited \cup {c} THEN content ELSE mem[n]]
      /\ llu' = [n \in Node |-> IF n = c THEN stamp ELSE llu[n]]
      /\ gen' = [n \in Node |-> IF n \in served THEN stamp[1] ELSE gen[n]]
      /\ master' = [n \in Node |-> IF n \in served THEN c ELSE master[n]]
      /\ observers' = IF enough THEN [observers EXCEPT ![c] = inited] ELSE observers
      /\ gone' = IF enough THEN gone \cup ((1 .. next - 1) \ content) ELSE gone
      /\ UNCHANGED <<pending, calling, awaited, msgs, acked, next, used>>

(* An election with coordinator c: sync() with the latest member, then     *)
(* initMaster(), then observerInit() at the members.  It succeeds at       *)
(* inited, a majority; if not, the election is abandoned.  All nodes take  *)
(* part in the first one.                                                  *)
Elect(c, group, inited) ==
    \E from \in Latest(c, group) :
      LET stamp == <<llu[from][1] + 1, 0>>
          content == mem[from]
          enough == Cardinality(inited) >= Majority
          served == IF enough THEN inited \cup {c} ELSE {}
      IN
      /\ stamp[1] <= MaxGen
      /\ enough \/ Abandon
      /\ full[c] \/ group = Node
      /\ full' = [n \in Node |-> full[n] \/ n \in served \/ n = c]
      /\ \A n \in group : gen[n] = NoGen
      /\ db' = [n \in Node |-> IF n \in inited \/ (n = c /\ from # c) THEN content ELSE db[n]]
      /\ mem' = [n \in Node |-> IF n \in inited \cup {c} THEN content ELSE mem[n]]
      /\ llu' = [n \in Node |-> IF n \in inited \cup {c} THEN stamp ELSE llu[n]]
      /\ gen' = [n \in Node |-> IF n \in served THEN stamp[1] ELSE gen[n]]
      /\ master' = [n \in Node |-> IF n \in served THEN c ELSE master[n]]
      /\ observers' = IF enough THEN [observers EXCEPT ![c] = inited] ELSE observers
      /\ gone' = IF enough THEN gone \cup ((1 .. next - 1) \ content) ELSE gone
      /\ UNCHANGED <<pending, calling, awaited, msgs, acked, next, used>>

Init ==
    /\ db = [n \in Node |-> {}] /\ mem = db
    /\ llu = [n \in Node |-> <<0, 0>>]
    /\ gen = [n \in Node |-> NoGen] /\ master = [n \in Node |-> None]
    /\ full = [n \in Node |-> FALSE]
    /\ observers = [n \in Node |-> {}] /\ awaited = [n \in Node |-> {}]
    /\ pending = [n \in Node |-> [k \in Locks |-> NoUpdate]]
    /\ calling = [n \in Node |-> None] /\ msgs = {} /\ acked = {} /\ gone = {} /\ next = 1
    /\ used = [failures |-> 0, crashes |-> 0]

Next ==
    \/ \E n \in Node, k \in Locks : Commit(n, k) \/ Send(n, k)
    \/ \E m \in msgs : Deliver(m)
    \/ \E n, o \in Node : CallFails(n, o) \/ PingFails(n, o)
    \/ \E n \in Node : Finish(n) \/ Recover(n) \/ Crash(n)
    \/ \E c \in Node, group \in SUBSET Node : \E inited \in SUBSET (group \ {c}) :
         c \in group /\ 2 * Cardinality(group) > Cardinality(Node) /\ Elect(c, group, inited)

Spec == Init /\ [][Next]_vars

-----------------------------------------------------------------------------
(* The master of the newest generation; one that is left behind may still  *)
(* believe that it is master.                                              *)
Newest(n) == Master(n) /\ \A m \in Node : llu[m][1] <= gen[n]

(* "At this point we've ensured that we have the latest database state"    *)
(* (NodeI::mergeContinue): the master of the newest generation has every   *)
(* update whose caller was told that it succeeded.                         *)
LatestState ==
    \A n \in Node :
        Newest(n) => acked \subseteq db[n] \cap mem[n]

(* "The client will now magically get A==10" (TopicManagerImpl::initMaster *)
(* prevents it): an update that a group was elected without does not come  *)
(* back with a replica that returns.                                       *)
NoResurrection ==
    \A n \in Node :
        Newest(n) => mem[n] \cap gone = {}

(* What a caller was told has been done is in the databases of more than   *)
(* half of the nodes, so that no election can miss it.                     *)
AckedAtMajority ==
    \A u \in acked : 2 * Cardinality({n \in Node : u \in db[n]}) > Cardinality(Node)

(* The log update of a node that serves never goes back, whatever the      *)
(* order in which transactions and calls of observers happen.              *)
StampsGrow ==
    [][\A n \in Node : ~Newer(llu[n], llu'[n])]_vars

(* Members of a group with the same log update have the same content in    *)
(* memory: the log update tells how recent a replica is.                   *)
SameStampSameContent ==
    \A n, m \in Node :
        gen[n] # NoGen /\ gen[n] = gen[m] /\ llu[n] = llu[m] => mem[n] = mem[m]

(* What a caller was told has been done is in the databases of more than   *)
(* half of the nodes, so that no election can miss it, and the master of   *)
(* the newest generation has it.                                           *)
DurableUpdates == AckedAtMajority /\ LatestState

(* The log update of a replica tells how recent it is: members of a group  *)
(* with the same one have the same content, and it never goes back.        *)
StampsTell == [](TypeOK /\ SameStampSameContent) /\ StampsGrow
=============================================================================
