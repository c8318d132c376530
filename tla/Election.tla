------------------------------ MODULE Election ------------------------------
(***************************************************************************)
(* The election of the IceStorm replicas (IceStorm/NodeI.cpp), with the    *)
(* part of the replica (TopicManagerImpl) and of its list of observers     *)
(* (Observers.cpp) that an election drives.                                *)
(*                                                                         *)
(* The algorithm is Garcia-Molina's invitation algorithm.  A node that is  *)
(* its own coordinator looks for other coordinators (check), invites them  *)
(* and its own members to a new group (merge), collects the acceptances,   *)
(* brings its database up to date, initialises the replicas of the members *)
(* and tells them to go (mergeContinue).  A member that loses its          *)
(* coordinator goes back to a group of its own (timeout, recovery).        *)
(*                                                                         *)
(* One step is one section of the code between two points at which another *)
(* thread can run: a section under NodeI::_mutex, or one remote call made  *)
(* with the mutex free.  Each node has one timer thread (check, merge,     *)
(* mergeContinue and timeout never overlap), any number of dispatch        *)
(* threads in invitation(), and client threads in an update or a cached    *)
(* read.  A twoway call runs at its target in the step of the caller, and  *)
(* may fail before or after it has run there; oneway calls are messages.   *)
(*                                                                         *)
(* Left out because they only move a timer: the two sets of invitations    *)
(* issued and accepted, and every delay.  A log update is reduced to its   *)
(* generation: no update is written here, so its iteration stays 0.        *)
(***************************************************************************)
EXTENDS Integers, FiniteSets, FiniteSetsExt

CONSTANTS
    Node,          \* the replicas (the keys of NodeI::_nodes)
    None,          \* a null proxy
    MaxSeq,        \* group names a node can have in use at one time
    MaxGen,        \* bound: the highest generation that initMaster can store
    MaxUpdates,    \* bound: client threads that start an update or a cached read
    MaxChecks,     \* bound: checks for other coordinators
    MaxFailures,   \* bound: remote calls other than accept() that fail
    MaxRefusals,   \* bound: calls to accept() that fail
    MaxCrashes,    \* bound: crashes followed by a restart
    MaxDestroys    \* bound: nodes shut down with destroy()

ASSUME NodeAssumption == IsFiniteSet(Node) /\ Cardinality(Node) \in Nat \ {0}
ASSUME NoneAssumption == None \notin Node
ASSUME BoundAssumption ==
    /\ MaxSeq \in Nat \ {0} /\ MaxGen \in Nat /\ MaxUpdates \in Nat /\ MaxChecks \in Nat
    /\ MaxFailures \in Nat /\ MaxRefusals \in Nat /\ MaxCrashes \in Nat /\ MaxDestroys \in Nat

VARIABLES
    node,       \* node[n]: the fields of NodeI, its timer thread and its other threads
    llu,        \* llu[n]: generation of the last log update in n's database
    observers,  \* observers[n]: Observers::_observers, the replicas n updates
    reaped,     \* reaped[n]: Observers::_reaped, the replicas n has evicted
    msgs,       \* the oneway calls on their way
    used        \* how much of each bound has been used

vars == <<node, llu, observers, reaped, msgs, used>>

-----------------------------------------------------------------------------
(* NodeState *)
Inactive       == "Inactive"
InElection     == "Election"
Reorganization == "Reorganization"
Normal         == "Normal"

States == {Inactive, InElection, Reorganization, Normal}

(* A group name is the id of the node that made it and a UUID. *)
Group == Node \X (1 .. MaxSeq)
NoGroup == <<None, 0>>

(* The generation of a log update. *)
Gen == Nat
NoGen == -1

(* _nodes.size() / 2, the members a coordinator needs besides itself. *)
Majority == Cardinality(Node) \div 2

(* GroupNodeInfo, without the observer proxy: the id stands for it. *)
Member == [id : Node, llu : Gen]
Members == {s \in SUBSET Member : IsFiniteSet(s)}
Ids(members) == {m.id : m \in members}

(* What the timer thread is doing, with the locals of the task it runs:    *)
(* coordinator and group probed by timeout(), group, members and stamp of  *)
(* mergeContinue(), the nodes still to call and those that answered.       *)
TimerPC == {"idle", "checkCall", "merge", "mergeWait", "sync", "initMaster",
            "init", "ready", "timeoutCall", "timeoutFailed", "recover"}
Timer == [pc : TimerPC, j : Node \cup {None}, g : Group \cup {NoGroup},
          members : Members, stamp : Gen, todo : SUBSET Node, done : SUBSET Node]
TimerIdle == [pc |-> "idle", j |-> None, g |-> NoGroup,
              members |-> {}, stamp |-> 0, todo |-> {}, done |-> {}]

(* A thread in invitation(): waiting for updates, about to forward the     *)
(* invitation, about to accept it.                                         *)
Handler == [pc : {"wait", "forward", "accept"}, j : Node, g : Group,
            forward : SUBSET Node, max : Nat]

(* _checkTask is null, on the timer, or the task that is running. *)
CheckTask == {"null", "scheduled", "running"}

NodeRec == [state : States, coord : Node, group : Group, up : Members,
            max : Nat, generation : Gen \cup {NoGen},
            coordinatorProxy : Node \cup {None}, updateCounter : Nat,
            destroyed : BOOLEAN, checkTask : CheckTask, mergeTask : BOOLEAN,
            mergeSet : SUBSET Node, mergeContinueTask : BOOLEAN, timeoutTask : BOOLEAN,
            timer : Timer, recovering : Nat, lostMajority : BOOLEAN,
            invitations : SUBSET Handler]

Message ==
    [type : {"invitation"}, from : Node, to : Node, j : Node, g : Group]
        \cup [type : {"accept"}, to : Node, j : Node, g : Group, llu : Gen, max : Nat]

Invitation(from, to, j, g) ==
    [type |-> "invitation", from |-> from, to |-> to, j |-> j, g |-> g]

Used == [updates : 0 .. MaxUpdates, checks : 0 .. MaxChecks, failures : 0 .. MaxFailures, refusals : 0 .. MaxRefusals,
         crashes : 0 .. MaxCrashes, destroys : 0 .. MaxDestroys]

TypeOK ==
    /\ node \in [Node -> NodeRec]
    /\ llu \in [Node -> Gen]
    /\ observers \in [Node -> SUBSET Node]
    /\ reaped \in [Node -> SUBSET Node]
    /\ msgs \in SUBSET Message
    /\ used \in Used

-----------------------------------------------------------------------------
(* Ice::generateUUID(): a group name that nothing refers to any more.  The *)
(* least one is taken, so that a name is the only thing a choice could     *)
(* distinguish.                                                            *)
Referenced(g) ==
    \/ \E m \in Node : \/ node[m].group = g
                       \/ node[m].timer.g = g
                       \/ \E h \in node[m].invitations : h.g = g
    \/ \E m \in msgs : m.g = g

FreshGroups(n) ==
    {<<n, k>> : k \in {i \in 1 .. MaxSeq : /\ ~Referenced(<<n, i>>)
                                          /\ \A l \in 1 .. i - 1 : Referenced(<<n, l>>)}}

Busy(r) == r.state \in {InElection, Reorganization}

(* Mutant of RecoverEnd: the check is not scheduled again. *)
RecoverEndNoCheck(n, r, g) ==
    [r EXCEPT !.group = g, !.generation = NoGen, !.coord = n, !.up = {},
              !.mergeTask = FALSE, !.timeoutTask = FALSE,
              !.mergeSet = IF r.timer.pc = "merge" THEN @ ELSE {}]

(* The rest of recovery() once no update is in progress. *)
RecoverEnd(n, r, g) ==
    [r EXCEPT !.group = g, !.generation = NoGen, !.coord = n, !.up = {},
              !.mergeTask = FALSE, !.timeoutTask = FALSE,
              !.mergeSet = IF r.timer.pc = "merge" THEN @ ELSE {},
              !.checkTask = IF @ = "null" THEN "scheduled" ELSE @]

(* recovery(lock): it never interrupts an election, and it waits on the    *)
(* condition variable, with the mutex free, while updates are in progress. *)
RecoverIgnored(r) == r.state = InElection
RecoverWaits(r) == ~RecoverIgnored(r) /\ r.updateCounter > 0 /\ ~r.destroyed
Recover(n, r, g) ==
    IF RecoverIgnored(r) THEN r
    ELSE IF RecoverWaits(r) \/ r.destroyed THEN [r EXCEPT !.state = Inactive]
    ELSE RecoverEnd(n, [r EXCEPT !.state = Inactive], g)

(* The timer thread calls recovery() and returns, or waits in it. *)
TimerRecover(n, r, g) ==
    [Recover(n, r, g) EXCEPT
        !.timer = IF RecoverWaits(r) THEN [TimerIdle EXCEPT !.pc = "recover"] ELSE TimerIdle]

(* A thread other than the timer's calls recovery(). *)
ThreadRecover(n, r, g) ==
    [Recover(n, r, g) EXCEPT !.recovering = IF RecoverWaits(r) THEN @ + 1 ELSE @]

(* A remote call fails. *)
Failure ==
    /\ used.failures < MaxFailures
    /\ used' = [used EXCEPT !.failures = @ + 1]

(* A client thread starts an update. *)
Client ==
    /\ used.updates < MaxUpdates
    /\ used' = [used EXCEPT !.updates = @ + 1]

Set(n, r) == node' = [node EXCEPT ![n] = r]

-----------------------------------------------------------------------------
(* Mutant of Check: a coordinator goes on without a majority. *)
CheckKeepsServing(n) ==
    LET r == node[n] IN
    /\ r.timer.pc = "idle" /\ r.checkTask = "scheduled" /\ ~r.destroyed
    /\ ~Busy(r) /\ r.coord = n
    /\ used.checks < MaxChecks
    /\ used' = [used EXCEPT !.checks = @ + 1]
    /\ reaped' = [reaped EXCEPT ![n] = {}]
    /\ Set(n, [r EXCEPT !.up = {m \in @ : m.id \notin reaped[n]}, !.checkTask = "running",
                        !.timer.pc = "checkCall", !.timer.todo = Node \ {n}])
    /\ UNCHANGED <<llu, observers, msgs>>

(* NodeI::check().  A check of a node that is not its own coordinator, or  *)
(* that is in an election, is put back on the timer and changes nothing.   *)
Check(n) ==
    LET r == node[n]
        left == {m \in r.up : m.id \notin reaped[n]}
    IN
    /\ r.timer.pc = "idle" /\ r.checkTask = "scheduled" /\ ~r.destroyed
    /\ ~Busy(r) /\ r.coord = n
    /\ used.checks < MaxChecks
    /\ used' = [used EXCEPT !.checks = @ + 1]
    /\ reaped' = [reaped EXCEPT ![n] = {}]
    /\ IF reaped[n] # {} /\ Cardinality(left) < Majority
         THEN \E g \in FreshGroups(n) :
                Set(n, TimerRecover(n, [r EXCEPT !.up = left, !.checkTask = "null"], g))
         ELSE Set(n, [r EXCEPT !.up = left, !.checkTask = "running",
                               !.timer.pc = "checkCall", !.timer.todo = Node \ {n}])
    /\ UNCHANGED <<llu, observers, msgs>>

(* NodeI::areYouCoordinator() *)
AreYouCoordinator(m) == ~Busy(node[m]) /\ node[m].coord = m

(* The call to areYouCoordinator() on one of the other nodes. *)
CheckCall(n, m) ==
    LET r == node[n]
        called == [r EXCEPT !.timer.todo = @ \ {m}]
    IN
    /\ r.timer.pc = "checkCall" /\ m \in r.timer.todo
    /\ \/ /\ Set(n, IF AreYouCoordinator(m)
                      THEN [called EXCEPT !.timer.done = @ \cup {m}]
                      ELSE called)
          /\ UNCHANGED used
       \/ Failure /\ Set(n, called)
    /\ UNCHANGED <<llu, observers, reaped, msgs>>

(* The second locked section of check(): the node may have changed. *)
CheckDone(n) ==
    LET r == node[n]
        found == r.timer.done
        idle == [r EXCEPT !.timer = TimerIdle]
    IN
    /\ r.timer.pc = "checkCall" /\ r.timer.todo = {}
    /\ Set(n, IF r.destroyed \/ Busy(r) \/ r.coord # n
                THEN [idle EXCEPT !.checkTask = "null"]
                ELSE IF found = {}
                       THEN [idle EXCEPT !.checkTask = "scheduled"]
                       ELSE [idle EXCEPT !.checkTask = "null", !.mergeTask = TRUE,
                                         !.mergeSet = found])
    /\ UNCHANGED <<llu, observers, reaped, msgs, used>>

-----------------------------------------------------------------------------
(* The timer takes the merge task: from here Timer::cancel() returns false. *)
MergeFire(n) ==
    LET r == node[n] IN
    /\ r.timer.pc = "idle" /\ r.mergeTask /\ ~r.destroyed
    /\ Set(n, [r EXCEPT !.timer.pc = "merge"])
    /\ UNCHANGED <<llu, observers, reaped, msgs, used>>

(* merge() once no update is in progress: a new group, the invitations to  *)
(* the coordinators found and to the members, and the task that continues. *)
MergeOpen(n, r, g) ==
    LET invited == r.mergeSet \cup Ids(r.up) IN
    /\ Set(n, [r EXCEPT !.group = g, !.coord = n, !.up = {}, !.mergeSet = {},
                        !.mergeContinueTask = TRUE, !.timer = TimerIdle])
    /\ msgs' = msgs \cup {Invitation(n, m, n, g) : m \in invited}

(* NodeI::merge() *)
Merge(n) ==
    LET r == [node[n] EXCEPT !.mergeTask = FALSE] IN
    /\ r.timer.pc = "merge"
    /\ IF Busy(r) \/ r.destroyed
         THEN /\ Set(n, [r EXCEPT !.state = IF Busy(r) THEN @ ELSE InElection,
                                  !.timer = TimerIdle, !.mergeSet = {}])
              /\ UNCHANGED msgs
         ELSE /\ IF r.updateCounter > 0
                   THEN /\ Set(n, [r EXCEPT !.state = InElection, !.timer.pc = "mergeWait"])
                        /\ UNCHANGED msgs
                   ELSE \E g \in FreshGroups(n) :
                          MergeOpen(n, [r EXCEPT !.state = InElection], g)
    /\ UNCHANGED <<llu, observers, reaped, used>>

MergeResume(n) ==
    LET r == node[n] IN
    /\ r.timer.pc = "mergeWait"
    /\ \/ /\ r.destroyed
          /\ Set(n, [r EXCEPT !.timer = TimerIdle, !.mergeSet = {}])
          /\ UNCHANGED msgs
       \/ /\ ~r.destroyed /\ r.updateCounter = 0
          /\ \E g \in FreshGroups(n) : MergeOpen(n, r, g)
    /\ UNCHANGED <<llu, observers, reaped, used>>

-----------------------------------------------------------------------------
(* Mutant of NotEnough: a majority is enough for the first election. *)
NotMajority(r) == Cardinality(r.up) < Majority

(* The first locked section of mergeContinue(): all nodes must take part   *)
(* in the first election, a majority in the later ones.                    *)
NotEnough(r) ==
    LET ingroup == Cardinality(r.up) IN
    \/ r.max # Cardinality(Node) /\ ingroup # Cardinality(Node) - 1
    \/ ingroup < Majority

MergeContinue(n) ==
    LET r == [node[n] EXCEPT !.mergeContinueTask = FALSE, !.state = Reorganization] IN
    /\ node[n].timer.pc = "idle" /\ node[n].mergeContinueTask /\ ~node[n].destroyed
    /\ IF NotEnough(r)
         THEN \E g \in FreshGroups(n) : Set(n, TimerRecover(n, r, g))
         ELSE Set(n, [r EXCEPT !.timer = [TimerIdle EXCEPT !.pc = "sync", !.g = r.group,
                                                           !.members = r.up]])
    /\ UNCHANGED <<llu, observers, reaped, msgs, used>>

(* The steps of mergeContinue() that fail end in recovery(). *)
Abandon(n) ==
    \E g \in FreshGroups(n) : Set(n, TimerRecover(n, node[n], g))

(* TopicManagerImpl::sync() from a member with the latest database, if it  *)
(* is later than ours.  The stamp of the new generation is computed from   *)
(* our log update and those the members sent with their acceptances.       *)
Latest(m, members) == m \in members /\ \A x \in members : x.llu <= m.llu

Sync(n) ==
    LET r == node[n]
        members == r.timer.members
        Go(maxllu) == Set(n, [r EXCEPT !.max = Max({@, Cardinality(members) + 1}),
                                       !.timer.pc = "initMaster", !.timer.stamp = maxllu + 1])
    IN
    /\ r.timer.pc = "sync"
    /\ \/ /\ \A m \in members : m.llu <= llu[n]
          /\ Go(llu[n])
          /\ UNCHANGED <<llu, observers, used>>
       \/ \E m \in members :
            /\ Latest(m, members) /\ m.llu > llu[n]
            /\ \/ /\ node[m.id].timer.pc # "init"   \* getContent() needs m's TopicManagerImpl::_mutex
                  /\ llu' = [llu EXCEPT ![n] = llu[m.id]]
                  /\ observers' = [observers EXCEPT ![n] = {}]
                  /\ Go(m.llu)
                  /\ UNCHANGED used
               \/ /\ Failure /\ Abandon(n)
                  /\ UNCHANGED <<llu, observers>>
    /\ UNCHANGED <<reaped, msgs>>

(* TopicManagerImpl::initMaster(): the stamp is stored, or the database    *)
(* refuses it; then Observers::init() forgets the old observers.           *)
InitMaster(n) ==
    LET r == node[n] IN
    /\ r.timer.pc = "initMaster"
    /\ \/ /\ r.timer.stamp <= MaxGen
          /\ llu' = [llu EXCEPT ![n] = r.timer.stamp]
          /\ observers' = [observers EXCEPT ![n] = {}]
          /\ reaped' = [reaped EXCEPT ![n] = {}]
          /\ Set(n, [r EXCEPT !.timer.pc = "init", !.timer.todo = Ids(r.timer.members)])
          /\ UNCHANGED used
       \/ /\ Failure /\ Abandon(n)
          /\ UNCHANGED <<llu, observers, reaped>>
    /\ UNCHANGED msgs

(* NodeI::checkObserverInit() *)
ObserverInitAllowed(m) == node[m].state = Reorganization /\ node[m].coord # m

(* Observers::init(): ReplicaObserver::init() on member m, which stores    *)
(* the stamp in m's database and forgets m's own observers.                *)
InitObserver(n, m) ==
    LET r == node[n]
        called == [r EXCEPT !.timer.todo = @ \ {m}]
        Applied == /\ ObserverInitAllowed(m)
                   /\ node[m].timer.pc # "init"     \* observerInit() needs m's TopicManagerImpl::_mutex
                   /\ llu' = [llu EXCEPT ![m] = r.timer.stamp]
    IN
    /\ r.timer.pc = "init" /\ m \in r.timer.todo
    /\ \/ /\ Applied
          /\ observers' = [observers EXCEPT ![m] = {}]
          /\ Set(n, [called EXCEPT !.timer.done = @ \cup {m}])
          /\ UNCHANGED <<reaped, used>>
       \/ /\ ~ObserverInitAllowed(m)
          /\ reaped' = [reaped EXCEPT ![n] = @ \cup {m}]
          /\ Set(n, called)
          /\ UNCHANGED <<llu, observers, used>>
       \/ /\ Failure
          /\ \/ /\ Applied
                /\ observers' = [observers EXCEPT ![m] = {}]
             \/ UNCHANGED <<llu, observers>>
          /\ reaped' = [reaped EXCEPT ![n] = @ \cup {m}]
          /\ Set(n, called)
    /\ UNCHANGED msgs

(* The end of Observers::init(): too few observers, or ready() is next. *)
InitDone(n) ==
    LET r == node[n] IN
    /\ r.timer.pc = "init" /\ r.timer.todo = {}
    /\ IF Cardinality(r.timer.done) < Majority
         THEN Abandon(n) /\ UNCHANGED observers
         ELSE /\ observers' = [observers EXCEPT ![n] = r.timer.done]
              /\ Set(n, [r EXCEPT !.timer.pc = "ready", !.timer.todo = Ids(r.timer.members),
                                  !.timer.done = {}])
    /\ UNCHANGED <<llu, reaped, msgs, used>>

(* Mutant of ReadyAccepted: a destroyed node is not excluded. *)
ReadyAlwaysAccepted(q, j, g) == q.state = Reorganization /\ q.group = g /\ q.coord = j

(* NodeI::ready() at member q *)
ReadyAccepted(q, j, g) ==
    ~q.destroyed /\ q.state = Reorganization /\ q.group = g /\ q.coord = j
OnReady(q, j, g, max, generation) ==
    IF ReadyAccepted(q, j, g)
      THEN [q EXCEPT !.max = Max({@, max}), !.generation = generation, !.state = Normal,
                     !.coordinatorProxy = j,
                     !.checkTask = IF @ = "null" THEN "scheduled" ELSE @]
      ELSE q

(* mergeContinue() calls ready() on member m, and gives up if it fails. *)
Ready(n, m) ==
    LET r == node[n]
        ran == [node EXCEPT ![m] = OnReady(@, n, r.timer.g, r.max, r.timer.stamp)]
    IN
    /\ r.timer.pc = "ready" /\ m \in r.timer.todo
    /\ \/ /\ node' = [ran EXCEPT ![n].timer.todo = @ \ {m}]
          /\ UNCHANGED used
       \/ /\ Failure
          /\ \E after \in {node, ran}, g \in FreshGroups(n) :
               node' = [after EXCEPT ![n] = TimerRecover(n, @, g)]
    /\ UNCHANGED <<llu, observers, reaped, msgs>>

(* The last section of mergeContinue(): the coordinator starts to serve. *)
ReadyDone(n) ==
    LET r == node[n] IN
    /\ r.timer.pc = "ready" /\ r.timer.todo = {}
    /\ Set(n, IF r.destroyed
                THEN [r EXCEPT !.timer = TimerIdle]
                ELSE [r EXCEPT !.state = Normal, !.coordinatorProxy = None,
                               !.generation = r.timer.stamp, !.checkTask = "scheduled",
                               !.timer = TimerIdle])
    /\ UNCHANGED <<llu, observers, reaped, msgs, used>>

-----------------------------------------------------------------------------
(* Mutant of Join: the name of the group is not taken over. *)
JoinKeepsGroup(n, r, j, g) ==
    [r EXCEPT !.coord = j,
              !.invitations = @ \cup {[pc |-> "forward", j |-> j, g |-> g, max |-> r.max,
                                       forward |-> IF r.coord = n THEN Ids(r.up) ELSE {}]}]

(* invitation() once no update is in progress: the node joins group g. *)
Join(n, r, j, g) ==
    [r EXCEPT !.coord = j, !.group = g,
              !.invitations = @ \cup {[pc |-> "forward", j |-> j, g |-> g, max |-> r.max,
                                       forward |-> IF r.coord = n THEN Ids(r.up) ELSE {}]}]

(* NodeI::invitation(), first locked section.  A merge task that cannot be *)
(* cancelled any more means that this node's own merge has begun.          *)
OnInvitation(n, msg) ==
    LET r == node[n]
        joining == [r EXCEPT !.state = InElection, !.mergeTask = FALSE, !.mergeSet = {}]
    IN
    /\ msg.type = "invitation" /\ msg.to = n
    /\ msgs' = msgs \ {msg}
    /\ IF r.destroyed \/ Busy(r) \/ (r.mergeTask /\ r.timer.pc = "merge")
         THEN UNCHANGED node
         ELSE Set(n, IF r.updateCounter = 0
                       THEN Join(n, joining, msg.j, msg.g)
                       ELSE [joining EXCEPT !.invitations = @ \cup
                               {[pc |-> "wait", j |-> msg.j, g |-> msg.g, max |-> 0,
                                 forward |-> {}]}])
    /\ UNCHANGED <<llu, observers, reaped, used>>

InvitationResume(n, h) ==
    LET r == [node[n] EXCEPT !.invitations = @ \ {h}] IN
    /\ h \in node[n].invitations /\ h.pc = "wait"
    /\ \/ r.destroyed /\ Set(n, r)
       \/ ~r.destroyed /\ r.updateCounter = 0 /\ Set(n, Join(n, r, h.j, h.g))
    /\ UNCHANGED <<llu, observers, reaped, msgs, used>>

(* The invitation is forwarded to the members the node had as a            *)
(* coordinator; then the node reorganizes and watches its coordinator.     *)
InvitationForward(n, h) ==
    LET r == [node[n] EXCEPT !.invitations = @ \ {h}] IN
    /\ h \in node[n].invitations /\ h.pc = "forward"
    /\ msgs' = msgs \cup {Invitation(n, m, h.j, h.g) : m \in h.forward}
    /\ Set(n, IF r.destroyed
                THEN r
                ELSE [r EXCEPT !.state = Reorganization, !.timeoutTask = TRUE,
                               !.invitations = @ \cup {[h EXCEPT !.pc = "accept"]}])
    /\ UNCHANGED <<llu, observers, reaped, used>>

(* accept() is sent with the log update of that moment, or the call fails. *)
InvitationAccept(n, h) ==
    LET r == [node[n] EXCEPT !.invitations = @ \ {h}] IN
    /\ h \in node[n].invitations /\ h.pc = "accept"
    /\ \/ /\ Set(n, r)
          /\ msgs' = msgs \cup {[type |-> "accept", to |-> h.j, j |-> n, g |-> h.g,
                                 llu |-> llu[n], max |-> h.max]}
          /\ UNCHANGED used
       \/ /\ used.refusals < MaxRefusals
          /\ used' = [used EXCEPT !.refusals = @ + 1]
          /\ \E g \in FreshGroups(n) : Set(n, ThreadRecover(n, r, g))
          /\ UNCHANGED msgs
    /\ UNCHANGED <<llu, observers, reaped>>

(* Mutant of OnAccept: the continuation is cancelled and not scheduled again. *)
OnAcceptCancels(n, msg) ==
    LET r == node[n] IN
    /\ msg.type = "accept" /\ msg.to = n
    /\ msgs' = msgs \ {msg}
    /\ IF ~r.destroyed /\ r.state = InElection /\ r.group = msg.g /\ r.coord = n
         THEN Set(n, [r EXCEPT !.up = @ \cup {[id |-> msg.j, llu |-> msg.llu]},
                               !.max = Max({@, msg.max}), !.mergeContinueTask = FALSE])
         ELSE UNCHANGED node
    /\ UNCHANGED <<llu, observers, reaped, used>>

(* NodeI::accept() *)
OnAccept(n, msg) ==
    LET r == node[n] IN
    /\ msg.type = "accept" /\ msg.to = n
    /\ msgs' = msgs \ {msg}
    /\ IF ~r.destroyed /\ r.state = InElection /\ r.group = msg.g /\ r.coord = n
         THEN Set(n, [r EXCEPT !.up = IF msg.j \in Ids(@) THEN @
                                        ELSE @ \cup {[id |-> msg.j, llu |-> msg.llu]},
                               !.max = Max({@, msg.max})])
         ELSE UNCHANGED node
    /\ UNCHANGED <<llu, observers, reaped, used>>

(* A oneway call is lost with its connection. *)
Lose(msg) ==
    /\ Failure
    /\ msgs' = msgs \ {msg}
    /\ UNCHANGED <<node, llu, observers, reaped>>

-----------------------------------------------------------------------------
(* NodeI::timeout(): what to probe is copied under the mutex. *)
Timeout(n) ==
    LET r == node[n] IN
    /\ r.timer.pc = "idle" /\ r.timeoutTask /\ ~r.destroyed /\ r.coord # n
    /\ Set(n, [r EXCEPT !.timer = [TimerIdle EXCEPT !.pc = "timeoutCall", !.j = r.coord,
                                                    !.g = r.group]])
    /\ UNCHANGED <<llu, observers, reaped, msgs, used>>

(* Mutant of AreYouThere: a node that is not in the group is answered yes. *)
AreYouThereForAll(c, g, n) == node[c].group = g /\ node[c].coord = c

(* NodeI::areYouThere() at c *)
AreYouThere(c, g, n) == node[c].group = g /\ node[c].coord = c /\ n \in Ids(node[c].up)

TimeoutCall(n) ==
    LET r == node[n]
        failed == [r EXCEPT !.timer.pc = "timeoutFailed"]
    IN
    /\ r.timer.pc = "timeoutCall"
    /\ \/ /\ Set(n, IF AreYouThere(r.timer.j, r.timer.g, n)
                      THEN [r EXCEPT !.timer = TimerIdle]
                      ELSE failed)
          /\ UNCHANGED used
       \/ Failure /\ Set(n, failed)
    /\ UNCHANGED <<llu, observers, reaped, msgs>>

(* recovery(), only if the node is still in the group that was probed. *)
TimeoutFailed(n) ==
    LET r == node[n] IN
    /\ r.timer.pc = "timeoutFailed"
    /\ IF r.coord = r.timer.j /\ r.group = r.timer.g
         THEN \E g \in FreshGroups(n) : Set(n, TimerRecover(n, r, g))
         ELSE Set(n, [r EXCEPT !.timer = TimerIdle])
    /\ UNCHANGED <<llu, observers, reaped, msgs, used>>

-----------------------------------------------------------------------------
(* A recovery() that waited goes on once it has the mutex again.  It does  *)
(* not look at the state again.                                            *)
RecoverResume(n) ==
    LET r == node[n]
        End(x) == IF r.destroyed THEN Set(n, x)
                  ELSE r.updateCounter = 0 /\ \E g \in FreshGroups(n) : Set(n, RecoverEnd(n, x, g))
    IN
    /\ \/ r.timer.pc = "recover" /\ End([r EXCEPT !.timer = TimerIdle])
       \/ r.recovering > 0 /\ End([r EXCEPT !.recovering = @ - 1])
    /\ UNCHANGED <<llu, observers, reaped, msgs, used>>

(* startUpdate(), updateMaster(), startCachedRead() and                    *)
(* startObserverUpdate() once they are let through.                        *)
StartUpdate(n) ==
    LET r == node[n] IN
    /\ ~r.destroyed /\ r.state = Normal
    /\ Client
    /\ Set(n, [r EXCEPT !.updateCounter = @ + 1])
    /\ UNCHANGED <<llu, observers, reaped, msgs>>

FinishUpdate(n) ==
    LET r == node[n] IN
    /\ r.updateCounter > 0
    /\ Set(n, [r EXCEPT !.updateCounter = @ - 1])
    /\ UNCHANGED <<llu, observers, reaped, msgs, used>>

(* Observers::check() pings the observers before an update, and            *)
(* Observers::wait() collects the answers to one: those that fail are out. *)
Evict(n) ==
    /\ Failure
    /\ Cardinality(observers[n]) >= Majority \/ node[n].updateCounter > 0
    /\ \E m \in observers[n] :
         /\ observers' = [observers EXCEPT ![n] = @ \ {m}]
         /\ reaped' = [reaped EXCEPT ![n] = @ \cup {m}]
    /\ UNCHANGED <<node, llu, msgs>>

(* startUpdate() and updateMaster() look for a majority of observers with  *)
(* NodeI::_mutex free ...                                                  *)
ObserversCheck(n) ==
    /\ ~node[n].lostMajority /\ Cardinality(observers[n]) < Majority
    /\ Client
    /\ Set(n, [node[n] EXCEPT !.lostMajority = TRUE])
    /\ UNCHANGED <<llu, observers, reaped, msgs>>

(* ... and the coordinator that had none recovers. *)
LostMajority(n) ==
    LET r == [node[n] EXCEPT !.lostMajority = FALSE] IN
    /\ node[n].lostMajority
    /\ IF r.coordinatorProxy = None /\ ~r.destroyed /\ r.state = Normal
         THEN \E g \in FreshGroups(n) : Set(n, ThreadRecover(n, r, g))
         ELSE Set(n, r)
    /\ UNCHANGED <<llu, observers, reaped, msgs, used>>

(* A member's call on the master fails, or an update of the master does    *)
(* not fit its database: recovery(generation), which is ignored in an      *)
(* election and in a reorganization.                                       *)
GenerationRecovery(n) ==
    LET r == node[n] IN
    /\ ~Busy(r) /\ r.generation # NoGen /\ r.coordinatorProxy # None
    /\ Failure
    /\ \E g \in FreshGroups(n) : Set(n, ThreadRecover(n, r, g))
    /\ UNCHANGED <<llu, observers, reaped, msgs>>

-----------------------------------------------------------------------------
(* NodeI::destroy() *)
Destroy(n) ==
    LET r == node[n] IN
    /\ used.destroys < MaxDestroys
    /\ ~r.destroyed /\ r.updateCounter = 0
    /\ used' = [used EXCEPT !.destroys = @ + 1]
    /\ Set(n, [r EXCEPT !.destroyed = TRUE, !.timeoutTask = FALSE, !.mergeTask = FALSE,
                        !.mergeSet = IF r.timer.pc = "merge" THEN @ ELSE {},
                        !.checkTask = "null"])
    /\ UNCHANGED <<llu, observers, reaped, msgs>>

(* NodeI::NodeI() and NodeI::start(): a group of its own, a first check. *)
Started(n, g) ==
    [state |-> Inactive, coord |-> n, group |-> g, up |-> {}, max |-> 0,
     generation |-> NoGen, coordinatorProxy |-> None, updateCounter |-> 0,
     destroyed |-> FALSE, checkTask |-> "scheduled", mergeTask |-> FALSE, mergeSet |-> {},
     mergeContinueTask |-> FALSE, timeoutTask |-> FALSE, timer |-> TimerIdle,
     recovering |-> 0, lostMajority |-> FALSE, invitations |-> {}]

(* The process dies and is started again: only the database is left. *)
Crash(n) ==
    /\ used.crashes < MaxCrashes
    /\ used' = [used EXCEPT !.crashes = @ + 1]
    /\ \E g \in FreshGroups(n) : Set(n, Started(n, g))
    /\ observers' = [observers EXCEPT ![n] = {}]
    /\ reaped' = [reaped EXCEPT ![n] = {}]
    /\ UNCHANGED <<llu, msgs>>

Init ==
    /\ node = [n \in Node |-> Started(n, <<n, 1>>)]
    /\ llu = [n \in Node |-> 0]
    /\ observers = [n \in Node |-> {}]
    /\ reaped = [n \in Node |-> {}]
    /\ msgs = {}
    /\ used = [updates |-> 0, checks |-> 0, failures |-> 0, refusals |-> 0, crashes |-> 0, destroys |-> 0]

TimerStep(n) ==
    \/ Check(n) \/ CheckDone(n)
    \/ MergeFire(n) \/ Merge(n) \/ MergeResume(n)
    \/ MergeContinue(n) \/ Sync(n) \/ InitMaster(n) \/ InitDone(n) \/ ReadyDone(n)
    \/ \E m \in Node : CheckCall(n, m) \/ InitObserver(n, m) \/ Ready(n, m)
    \/ Timeout(n) \/ TimeoutCall(n) \/ TimeoutFailed(n)

InvitationStep(n) ==
    \/ \E m \in msgs : OnInvitation(n, m) \/ OnAccept(n, m)
    \/ \E h \in node[n].invitations :
         InvitationResume(n, h) \/ InvitationForward(n, h) \/ InvitationAccept(n, h)

ClientStep(n) ==
    \/ StartUpdate(n) \/ FinishUpdate(n) \/ Evict(n)
    \/ ObserversCheck(n) \/ LostMajority(n) \/ GenerationRecovery(n)

Next ==
    \/ \E n \in Node : \/ TimerStep(n) \/ InvitationStep(n) \/ RecoverResume(n)
                       \/ ClientStep(n) \/ Destroy(n) \/ Crash(n)
    \/ \E m \in msgs : Lose(m)

Spec == Init /\ [][Next]_vars
-----------------------------------------------------------------------------
(* A group is named by its coordinator: recovery() and merge() name a      *)
(* group after the node and make the node the coordinator, invitation()    *)
(* takes the two from the same call.  This is why the "real coordinator    *)
(* is" branch of ready() is never taken.                                   *)
GroupNamesCoordinator ==
    /\ \A n \in Node : node[n].group[1] = node[n].coord
    /\ \A n \in Node : \A h \in node[n].invitations : h.g[1] = h.j
    /\ \A m \in msgs : m.type = "invitation" => m.g[1] = m.j

(* The assertions of NodeI.cpp, each at the step that evaluates it: no     *)
(* merge is scheduled when a check begins, a merge finds no continuation   *)
(* scheduled, mergeContinue() starts in an election and ends with no check *)
(* scheduled, an invitation that has been forwarded is still in the        *)
(* election it started.                                                    *)
AssertsHold ==
    \A n \in Node : LET r == node[n] IN ~r.destroyed =>
        /\ r.timer.pc = "idle" /\ r.checkTask = "scheduled" => ~r.mergeTask
        /\ r.timer.pc \in {"merge", "mergeWait"} => ~r.mergeContinueTask
        /\ r.mergeContinueTask => r.state = InElection
        /\ r.timer.pc = "ready" => r.checkTask = "null"
        /\ \A h \in r.invitations : h.pc = "forward" => r.state = InElection

(* A node that is its own coordinator and in no election keeps looking for *)
(* others: a check is scheduled or running, or a merge is, or a recovery() *)
(* that will schedule one waits for updates, or a thread of invitation()   *)
(* is about to take the node into another group.                           *)
Looks(n, r) ==
    r.coord = n /\ ~Busy(r) /\ ~r.destroyed =>
        \/ r.checkTask # "null" \/ r.mergeTask \/ r.timer.pc \in {"merge", "recover"}
        \/ r.mergeContinueTask \/ r.recovering > 0
        \/ \E h \in r.invitations : h.pc \in {"wait", "forward"}
KeepsLooking == \A n \in Node : Looks(n, node[n])

(* A coordinator that serves has a majority behind it: the members it      *)
(* counts are at least half of the other nodes.                            *)
MasterHasMajority ==
    \A n \in Node : LET r == node[n] IN
        r.state = Normal /\ r.coord = n /\ ~r.destroyed => Cardinality(r.up) >= Majority

(* No node serves before all nodes have been in one group: _max is the     *)
(* size of the largest group so far.                                       *)
FullStartup ==
    \A n \in Node : node[n].state = Normal => node[n].max >= Cardinality(Node)

(* The nodes that serve in one group serve in one generation. *)
OneGenerationPerGroup ==
    \A m, n \in Node :
        node[m].state = Normal /\ node[n].state = Normal /\ node[m].group = node[n].group
            => node[m].generation = node[n].generation

(* A coordinator that serves has a majority behind it, and the nodes that  *)
(* serve in one group serve in one generation, through any failures,       *)
(* crashes and shutdowns, as long as no update has been started and no     *)
(* accept() has failed: a recovery() that waits for an update, or that     *)
(* follows a failed accept(), takes a node out of a later election.        *)
MajorityServes ==
    used.updates = 0 /\ used.refusals = 0 => MasterHasMajority /\ OneGenerationPerGroup

(* "The new stamp must be larger than every LLU in the group, including    *)
(* our own" (mergeContinue()).                                             *)
StampDominates ==
    \A n \in Node : LET r == node[n] IN
        r.timer.pc = "initMaster" =>
            /\ llu[n] < r.timer.stamp
            /\ \A m \in Ids(r.timer.members) :
                 node[m].group = r.timer.g => llu[m] < r.timer.stamp

(* "Never interrupt an election in progress" (recovery()): a node that has *)
(* joined a group leaves the election for the reorganization of that group.*)
ElectionUninterrupted ==
    [][\A n \in Node :
        /\ node[n].state = InElection /\ node[n].coord # n
        /\ used'.crashes = used.crashes
        /\ \E h \in node[n].invitations : h.pc = "forward" /\ h.g = node[n].group
        => /\ node'[n].coord = node[n].coord /\ node'[n].group = node[n].group
           /\ node'[n].state \in {InElection, Reorganization}]_vars

(* Once destroy() has run, a node never starts to serve: not when its own  *)
(* mergeContinue() ends, nor when a coordinator calls ready().             *)
DestroyedNeverServes ==
    [][\A n \in Node : node[n].destroyed /\ node'[n].destroyed /\ node[n].state # Normal
                          => node'[n].state # Normal]_vars

(* The timer thread runs the tasks that are due, a dispatch thread runs to *)
(* its end, an update ends, and a waiting thread is woken by notify_all(). *)
Fairness ==
    \A n \in Node : /\ WF_vars(TimerStep(n)) /\ WF_vars(InvitationStep(n))
                    /\ WF_vars(RecoverResume(n)) /\ WF_vars(FinishUpdate(n))

(* An election ends: no node waits for ever for updates, answers or calls. *)
ElectionEnds ==
    \A n \in Node : node[n].state = InElection ~> node[n].state # InElection

(* "The end of the election/reorg will re-schedule the check" (check()): a *)
(* reorganization ends.                                                    *)
ReorganizationEnds ==
    \A n \in Node : node[n].state = Reorganization ~> node[n].state # Reorganization

(* A coordinator reorganizes and its timer thread is not in mergeContinue().*)
Stranded(n) ==
    /\ node[n].state = Reorganization /\ node[n].coord = n
    /\ node[n].timer.pc \notin {"sync", "initMaster", "init", "ready"}

(* A member does not wait for ever for ready(), as long as its coordinator *)
(* is not stranded: the coordinator calls it, or the member's timeout()    *)
(* finds that it is not in the group.                                      *)
MemberSettles ==
    \A n \in Node : node[n].state = Reorganization /\ node[n].coord # n
                       ~> node[n].state # Reorganization \/ \E c \in Node : Stranded(c)
=============================================================================
