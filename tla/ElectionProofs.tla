--------------------------- MODULE ElectionProofs ---------------------------
(***************************************************************************)
(* What Election guarantees for every number of nodes, every bound and     *)
(* every failure: the state is well formed, a group is named by its        *)
(* coordinator, nobody serves before all nodes have met, a lone            *)
(* coordinator keeps looking for others, and a node that was destroyed     *)
(* serves no more.  Without updates and failed accept() calls, a           *)
(* coordinator that serves has a majority, and a group has one generation. *)
(***************************************************************************)
EXTENDS Election, FiniteSetTheorems, TLAPS

-----------------------------------------------------------------------------
(* Facts about the helpers. *)

(* The larger of two numbers, as mergeContinue() and ready() raise _max. *)
LEMMA MaxOfTwo ==
    ASSUME NEW a \in Nat, NEW b \in Nat
    PROVE  Max({a, b}) \in Nat /\ Max({a, b}) >= a /\ Max({a, b}) >= b
<1>1. \E x \in {a, b} : \A y \in {a, b} : x >= y
  OBVIOUS
<1>2. Max({a, b}) \in {a, b} /\ \A y \in {a, b} : Max({a, b}) >= y
  BY <1>1, Zenon DEF Max
<1> QED
  BY <1>2

(* A new group is named after its node. *)
LEMMA FreshGroup ==
    ASSUME NEW n \in Node, NEW g \in FreshGroups(n)
    PROVE  g \in Group /\ g[1] = n
<1>1. PICK k \in 1 .. MaxSeq : g = <<n, k>>
  BY Zenon DEF FreshGroups
<1> QED
  BY <1>1 DEF Group

LEMMA NoMembers == {} \in Members
BY FS_EmptySet DEF Members

(* recovery() leaves a well-formed node. *)
LEMMA RecoverEndType ==
    ASSUME NEW n \in Node, NEW r \in NodeRec, NEW g \in Group
    PROVE  RecoverEnd(n, r, g) \in NodeRec
BY NoMembers, ZenonT(60) DEF RecoverEnd, NodeRec, Gen, NoGen, CheckTask

LEMMA RecoverType ==
    ASSUME NEW n \in Node, NEW r \in NodeRec, NEW g \in Group
    PROVE  Recover(n, r, g) \in NodeRec
<1>1. [r EXCEPT !.state = Inactive] \in NodeRec
  BY DEF NodeRec, States
<1> QED
  BY <1>1, RecoverEndType DEF Recover

LEMMA TimerIdleType == TimerIdle \in Timer
BY NoMembers DEF TimerIdle, Timer, TimerPC, Gen

LEMMA TimerRecoverType ==
    ASSUME NEW n \in Node, NEW r \in NodeRec, NEW g \in Group
    PROVE  TimerRecover(n, r, g) \in NodeRec
<1>1. Recover(n, r, g) \in NodeRec
  BY RecoverType
<1>2. [TimerIdle EXCEPT !.pc = "recover"] \in Timer
  BY NoMembers DEF TimerIdle, Timer, TimerPC, Gen
<1> QED
  BY <1>1, <1>2, TimerIdleType DEF TimerRecover, NodeRec

LEMMA ThreadRecoverType ==
    ASSUME NEW n \in Node, NEW r \in NodeRec, NEW g \in Group
    PROVE  ThreadRecover(n, r, g) \in NodeRec
BY RecoverType DEF ThreadRecover, NodeRec

LEMMA JoinType ==
    ASSUME NEW n \in Node, NEW r \in NodeRec, NEW j \in Node, NEW g \in Group
    PROVE  Join(n, r, j, g) \in NodeRec
<1> DEFINE h == [pc |-> "forward", j |-> j, g |-> g, max |-> r.max,
                 forward |-> IF r.coord = n THEN Ids(r.up) ELSE {}]
<1>1. Ids(r.up) \subseteq Node
  BY DEF Ids, NodeRec, Members, Member
<1>2. h \in Handler
  BY <1>1 DEF Handler, NodeRec
<1>3. r.invitations \cup {h} \subseteq Handler
  BY <1>2 DEF NodeRec
<1> HIDE DEF h
<1>4. [r EXCEPT !.coord = j, !.group = g, !.invitations = @ \cup {h}] \in NodeRec
  BY <1>3 DEF NodeRec
<1> QED
  BY <1>4 DEF Join, h

LEMMA OnReadyType ==
    ASSUME NEW q \in NodeRec, NEW j \in Node, NEW g \in Group, NEW max \in Nat,
           NEW generation \in Gen
    PROVE  OnReady(q, j, g, max, generation) \in NodeRec
<1> DEFINE larger == Max({q.max, max})
<1>1. larger \in Nat
  BY MaxOfTwo DEF NodeRec
<1> HIDE DEF larger
<1>2. [q EXCEPT !.max = larger, !.generation = generation, !.state = Normal,
                !.coordinatorProxy = j,
                !.checkTask = IF @ = "null" THEN "scheduled" ELSE @] \in NodeRec
  BY <1>1 DEF NodeRec, States, CheckTask
<1> QED
  BY <1>2, Zenon DEF OnReady, larger

LEMMA StartedType ==
    ASSUME NEW n \in Node, NEW g \in Group
    PROVE  Started(n, g) \in NodeRec
BY TimerIdleType, NoMembers DEF Started, NodeRec, States, NoGen, CheckTask, Inactive

-----------------------------------------------------------------------------
(* Type correctness. *)

LEMMA SetType ==
    ASSUME TypeOK, NEW n \in Node, NEW r \in NodeRec, Set(n, r)
    PROVE  node' \in [Node -> NodeRec]
BY DEF TypeOK, Set

LEMMA NodeType ==
    ASSUME TypeOK, NEW n \in Node
    PROVE  /\ node[n] \in NodeRec /\ node[n].timer \in Timer
           /\ Ids(node[n].up) \subseteq Node /\ Ids(node[n].timer.members) \subseteq Node
<1>1. node[n] \in NodeRec
  BY DEF TypeOK
<1>2. node[n].timer \in Timer /\ node[n].up \in Members
  BY <1>1 DEF NodeRec
<1>3. node[n].timer.members \in Members
  BY <1>2 DEF Timer
<1> QED
  BY <1>1, <1>2, <1>3 DEF Ids, Members, Member

LEMMA AbandonType ==
    ASSUME TypeOK, NEW n \in Node, Abandon(n)
    PROVE  node' \in [Node -> NodeRec]
<1>1. PICK g \in FreshGroups(n) : Set(n, TimerRecover(n, node[n], g))
  BY DEF Abandon
<1>2. TimerRecover(n, node[n], g) \in NodeRec
  BY NodeType, FreshGroup, TimerRecoverType
<1> QED
  BY <1>1, <1>2, SetType

LEMMA FailureType ==
    ASSUME TypeOK, Failure
    PROVE  used' \in Used
BY BoundAssumption DEF TypeOK, Used, Failure

LEMMA ClientType ==
    ASSUME TypeOK, Client
    PROVE  used' \in Used
BY BoundAssumption DEF TypeOK, Used, Client

(* The timer thread goes on with another task or another step. *)
LEMMA TimerStepType ==
    ASSUME NEW r \in NodeRec, NEW t \in Timer
    PROVE  [r EXCEPT !.timer = t] \in NodeRec
BY DEF NodeRec

LEMMA CheckType ==
    ASSUME TypeOK, NEW n \in Node, Check(n)
    PROVE  TypeOK'
<1> DEFINE r == node[n]
           left == {m \in r.up : m.id \notin reaped[n]}
<1>1. r \in NodeRec /\ r.timer \in Timer /\ r.up \in Members
  BY NodeType DEF NodeRec
<1>2. left \in Members
  BY <1>1, FS_Subset DEF Members
<1> HIDE DEF left
<1>3. node' \in [Node -> NodeRec]
  <2>1. CASE \E g \in FreshGroups(n) :
               Set(n, TimerRecover(n, [r EXCEPT !.up = left, !.checkTask = "null"], g))
    <3>1. [r EXCEPT !.up = left, !.checkTask = "null"] \in NodeRec
      BY <1>1, <1>2 DEF NodeRec, CheckTask
    <3> QED
      BY <2>1, <3>1, FreshGroup, TimerRecoverType, SetType
  <2>2. CASE Set(n, [r EXCEPT !.up = left, !.checkTask = "running",
                              !.timer.pc = "checkCall", !.timer.todo = Node \ {n}])
    <3>1. [r.timer EXCEPT !.pc = "checkCall", !.todo = Node \ {n}] \in Timer
      BY <1>1 DEF Timer, TimerPC
    <3>2. [r EXCEPT !.up = left, !.checkTask = "running",
                    !.timer = [r.timer EXCEPT !.pc = "checkCall", !.todo = Node \ {n}]]
            \in NodeRec
      BY <1>1, <1>2, <3>1 DEF NodeRec, CheckTask
    <3>3. [r EXCEPT !.up = left, !.checkTask = "running",
                    !.timer.pc = "checkCall", !.timer.todo = Node \ {n}] \in NodeRec
      BY <3>2, <1>1 DEF NodeRec, Timer
    <3> QED
      BY <2>2, <3>3, SetType
  <2> QED
    BY <2>1, <2>2 DEF Check, left
<1>4. /\ used.checks < MaxChecks /\ used' = [used EXCEPT !.checks = @ + 1]
      /\ reaped' = [reaped EXCEPT ![n] = {}] /\ UNCHANGED <<llu, observers, msgs>>
  BY DEF Check
<1>5. used' \in Used
  BY <1>4, BoundAssumption DEF TypeOK, Used
<1> QED
  BY <1>3, <1>4, <1>5 DEF TypeOK

LEMMA CheckCallType ==
    ASSUME TypeOK, NEW n \in Node, NEW m \in Node, CheckCall(n, m)
    PROVE  TypeOK'
<1> DEFINE r == node[n]
           t == [r.timer EXCEPT !.todo = @ \ {m}]
           u == [t EXCEPT !.done = @ \cup {m}]
<1>1. r \in NodeRec /\ r.timer \in Timer
  BY NodeType
<1>2. t \in Timer /\ u \in Timer
  BY <1>1 DEF Timer
<1>3. [r EXCEPT !.timer = t] \in NodeRec /\ [r EXCEPT !.timer = u] \in NodeRec
  BY <1>1, <1>2, TimerStepType
<1>4. \/ Set(n, [r EXCEPT !.timer = t]) \/ Set(n, [r EXCEPT !.timer = u])
  BY <1>1, ZenonT(60) DEF CheckCall, NodeRec
<1>5. node' \in [Node -> NodeRec]
  BY <1>3, <1>4, SetType
<1>6. used' \in Used
  BY FailureType DEF CheckCall, TypeOK
<1> QED
  BY <1>5, <1>6 DEF CheckCall, TypeOK

LEMMA CheckDoneType ==
    ASSUME TypeOK, NEW n \in Node, CheckDone(n)
    PROVE  TypeOK'
<1> DEFINE r == node[n]
           idle == [r EXCEPT !.timer = TimerIdle]
<1>1. r \in NodeRec /\ r.timer \in Timer
  BY NodeType
<1>2. idle \in NodeRec /\ r.timer.done \subseteq Node
  BY <1>1, TimerIdleType, TimerStepType DEF Timer
<1> HIDE DEF idle
<1>3. /\ [idle EXCEPT !.checkTask = "null"] \in NodeRec
      /\ [idle EXCEPT !.checkTask = "scheduled"] \in NodeRec
      /\ [idle EXCEPT !.checkTask = "null", !.mergeTask = TRUE, !.mergeSet = r.timer.done]
           \in NodeRec
  BY <1>2 DEF NodeRec, CheckTask
<1>4. node' \in [Node -> NodeRec]
  BY <1>3, SetType DEF CheckDone, idle
<1> QED
  BY <1>4 DEF CheckDone, TypeOK

LEMMA MergeFireType ==
    ASSUME TypeOK, NEW n \in Node, MergeFire(n)
    PROVE  TypeOK'
<1>1. node[n] \in NodeRec /\ [node[n].timer EXCEPT !.pc = "merge"] \in Timer
  BY NodeType DEF Timer, TimerPC
<1>2. [node[n] EXCEPT !.timer = [node[n].timer EXCEPT !.pc = "merge"]] \in NodeRec
  BY <1>1, TimerStepType
<1>3. node' \in [Node -> NodeRec]
  BY <1>2, SetType DEF MergeFire
<1> QED
  BY <1>3 DEF MergeFire, TypeOK

LEMMA MergeOpenType ==
    ASSUME TypeOK, NEW n \in Node, NEW r \in NodeRec, NEW g \in Group, MergeOpen(n, r, g)
    PROVE  node' \in [Node -> NodeRec] /\ msgs' \in SUBSET Message
<1> DEFINE q == [r EXCEPT !.group = g, !.coord = n, !.up = {}, !.mergeSet = {},
                          !.mergeContinueTask = TRUE, !.timer = TimerIdle]
           invited == r.mergeSet \cup Ids(r.up)
<1>1. q \in NodeRec
  BY NoMembers, TimerIdleType DEF NodeRec
<1>2. invited \subseteq Node
  BY DEF NodeRec, Ids, Members, Member
<1>3. {Invitation(n, m, n, g) : m \in invited} \subseteq Message
  BY <1>2 DEF Invitation, Message
<1>4. Set(n, q) /\ msgs' = msgs \cup {Invitation(n, m, n, g) : m \in invited}
  BY Zenon DEF MergeOpen
<1> HIDE DEF q, invited
<1> QED
  BY <1>1, <1>3, <1>4, SetType DEF TypeOK

LEMMA MergeType ==
    ASSUME TypeOK, NEW n \in Node, Merge(n)
    PROVE  TypeOK'
<1> DEFINE r == [node[n] EXCEPT !.mergeTask = FALSE]
<1>0. node[n] \in NodeRec
  BY NodeType
<1>1. r \in NodeRec /\ r.timer \in Timer
  BY <1>0 DEF NodeRec
<1> HIDE DEF r
<1>2. node' \in [Node -> NodeRec] /\ msgs' \in SUBSET Message
  <2>1. CASE /\ Set(n, [r EXCEPT !.state = IF Busy(r) THEN @ ELSE InElection,
                                  !.timer = TimerIdle, !.mergeSet = {}])
             /\ UNCHANGED msgs
    <3>1. [r EXCEPT !.state = IF Busy(r) THEN @ ELSE InElection, !.timer = TimerIdle,
                    !.mergeSet = {}] \in NodeRec
      BY <1>1, TimerIdleType DEF NodeRec, States
    <3> QED
      BY <2>1, <3>1, SetType DEF TypeOK
  <2>2. CASE /\ Set(n, [r EXCEPT !.state = InElection, !.timer.pc = "mergeWait"])
             /\ UNCHANGED msgs
    <3>1. [r.timer EXCEPT !.pc = "mergeWait"] \in Timer
      BY <1>1 DEF Timer, TimerPC
    <3>2. [r EXCEPT !.state = InElection, !.timer = [r.timer EXCEPT !.pc = "mergeWait"]]
            \in NodeRec
      BY <1>1, <3>1 DEF NodeRec, States
    <3>3. [r EXCEPT !.state = InElection, !.timer.pc = "mergeWait"] \in NodeRec
      BY <1>1, <3>2 DEF NodeRec
    <3> QED
      BY <2>2, <3>3, SetType DEF TypeOK
  <2>3. CASE \E g \in FreshGroups(n) : MergeOpen(n, [r EXCEPT !.state = InElection], g)
    <3>1. [r EXCEPT !.state = InElection] \in NodeRec
      BY <1>1 DEF NodeRec, States
    <3> QED
      BY <2>3, <3>1, FreshGroup, MergeOpenType
  <2> QED
    BY <2>1, <2>2, <2>3 DEF Merge, r
<1> QED
  BY <1>2 DEF Merge, TypeOK

LEMMA MergeResumeType ==
    ASSUME TypeOK, NEW n \in Node, MergeResume(n)
    PROVE  TypeOK'
<1> DEFINE r == node[n]
<1>0. r \in NodeRec
  BY NodeType
<1>1. r \in NodeRec /\ [r EXCEPT !.timer = TimerIdle, !.mergeSet = {}] \in NodeRec
  BY <1>0, TimerIdleType DEF NodeRec
<1>2. node' \in [Node -> NodeRec] /\ msgs' \in SUBSET Message
  BY <1>1, SetType, FreshGroup, MergeOpenType DEF MergeResume, TypeOK
<1> QED
  BY <1>2 DEF MergeResume, TypeOK

LEMMA MergeContinueType ==
    ASSUME TypeOK, NEW n \in Node, MergeContinue(n)
    PROVE  TypeOK'
<1> DEFINE r == [node[n] EXCEPT !.mergeContinueTask = FALSE, !.state = Reorganization]
           t == [TimerIdle EXCEPT !.pc = "sync", !.g = r.group, !.members = r.up]
<1>0. node[n] \in NodeRec
  BY NodeType
<1>1. r \in NodeRec
  BY <1>0 DEF NodeRec, States
<1>2. t \in Timer
  BY <1>1, NoMembers DEF TimerIdle, Timer, TimerPC, Gen, NodeRec
<1>3. [r EXCEPT !.timer = t] \in NodeRec
  BY <1>1, <1>2, TimerStepType
<1> HIDE DEF r, t
<1>4. (\E g \in FreshGroups(n) : Set(n, TimerRecover(n, r, g))) \/ Set(n, [r EXCEPT !.timer = t])
  BY DEF MergeContinue, r, t
<1>5. node' \in [Node -> NodeRec]
  BY <1>1, <1>3, <1>4, FreshGroup, TimerRecoverType, SetType
<1> QED
  BY <1>5 DEF MergeContinue, TypeOK

LEMMA SyncType ==
    ASSUME TypeOK, NEW n \in Node, Sync(n)
    PROVE  TypeOK'
<1> DEFINE r == node[n]
           larger == Max({r.max, Cardinality(r.timer.members) + 1})
           T(x) == [r.timer EXCEPT !.pc = "initMaster", !.stamp = x + 1]
<1>1. r \in NodeRec /\ r.timer \in Timer
  BY NodeType
<1>2. r.timer.members \in Members /\ r.max \in Nat
  BY <1>1 DEF NodeRec, Timer
<1>3. Cardinality(r.timer.members) + 1 \in Nat
  BY <1>2, FS_CardinalityType DEF Members
<1>4. larger \in Nat
  BY <1>2, <1>3, MaxOfTwo
<1> HIDE DEF larger
<1>5. ASSUME NEW x \in Nat
      PROVE  [r EXCEPT !.max = larger, !.timer.pc = "initMaster", !.timer.stamp = x + 1]
               \in NodeRec
  <2>0. ASSUME NEW y \in Nat
        PROVE  [r.timer EXCEPT !.pc = "initMaster", !.stamp = y] \in Timer
    BY <1>1 DEF Timer, TimerPC, Gen
  <2>a. x + 1 \in Nat
    OBVIOUS
  <2>1. T(x) \in Timer
    BY <2>0, <2>a, Zenon
  <2>2. [r EXCEPT !.max = larger, !.timer = T(x)] \in NodeRec
    BY <1>1, <1>4, <2>1 DEF NodeRec
  <2> QED
    BY <1>1, <2>2 DEF NodeRec, Timer
<1>6. node' \in [Node -> NodeRec]
  <2>1. CASE Set(n, [r EXCEPT !.max = larger, !.timer.pc = "initMaster",
                              !.timer.stamp = llu[n] + 1])
    BY <2>1, <1>5, SetType DEF TypeOK, Gen
  <2>2. CASE \E m \in r.timer.members :
               Set(n, [r EXCEPT !.max = larger, !.timer.pc = "initMaster",
                                !.timer.stamp = m.llu + 1])
    BY <2>2, <1>2, <1>5, SetType DEF Members, Member, Gen
  <2>3. CASE Abandon(n)
    BY <2>3, AbandonType
  <2> QED
    BY <2>1, <2>2, <2>3 DEF Sync, larger
<1>7. used' \in Used
  BY FailureType DEF Sync, TypeOK
<1>8. llu' \in [Node -> Gen]
  BY <1>2 DEF Sync, TypeOK, Members, Member
<1>9. observers' \in [Node -> SUBSET Node] /\ UNCHANGED <<reaped, msgs>>
  BY DEF Sync, TypeOK
<1> QED
  BY <1>6, <1>7, <1>8, <1>9 DEF TypeOK

LEMMA InitMasterType ==
    ASSUME TypeOK, NEW n \in Node, InitMaster(n)
    PROVE  TypeOK'
<1> DEFINE r == node[n]
           t == [r.timer EXCEPT !.pc = "init", !.todo = Ids(r.timer.members)]
<1>1. r \in NodeRec /\ r.timer \in Timer /\ Ids(r.timer.members) \subseteq Node
  BY NodeType
<1>2. t \in Timer
  BY <1>1 DEF Timer, TimerPC
<1>3. [r EXCEPT !.timer = t] \in NodeRec
  BY <1>1, <1>2, TimerStepType
<1>4. Set(n, [r EXCEPT !.timer = t]) \/ Abandon(n)
  BY <1>1 DEF InitMaster, NodeRec
<1>5. node' \in [Node -> NodeRec]
  BY <1>3, <1>4, SetType, AbandonType
<1>6. used' \in Used
  BY FailureType DEF InitMaster, TypeOK
<1>7. llu' \in [Node -> Gen]
  BY <1>1 DEF InitMaster, TypeOK, Timer
<1>8. /\ observers' \in [Node -> SUBSET Node] /\ reaped' \in [Node -> SUBSET Node]
      /\ UNCHANGED msgs
  BY DEF InitMaster, TypeOK
<1> QED
  BY <1>5, <1>6, <1>7, <1>8 DEF TypeOK

LEMMA InitObserverType ==
    ASSUME TypeOK, NEW n \in Node, NEW m \in Node, InitObserver(n, m)
    PROVE  TypeOK'
<1> DEFINE r == node[n]
           t == [r.timer EXCEPT !.todo = @ \ {m}]
           u == [t EXCEPT !.done = @ \cup {m}]
<1>1. r \in NodeRec /\ r.timer \in Timer
  BY NodeType
<1>2. t \in Timer /\ u \in Timer
  BY <1>1 DEF Timer
<1>3. [r EXCEPT !.timer = t] \in NodeRec /\ [r EXCEPT !.timer = u] \in NodeRec
  BY <1>1, <1>2, TimerStepType
<1>4. \/ Set(n, [r EXCEPT !.timer = t]) \/ Set(n, [r EXCEPT !.timer = u])
  <2> DEFINE called == [r EXCEPT !.timer.todo = @ \ {m}]
  <2>1. called = [r EXCEPT !.timer = t]
    BY <1>1 DEF NodeRec
  <2>2. [called EXCEPT !.timer.done = @ \cup {m}] = [r EXCEPT !.timer = u]
    BY <1>1 DEF NodeRec
  <2>3. Set(n, called) \/ Set(n, [called EXCEPT !.timer.done = @ \cup {m}])
    BY Zenon DEF InitObserver
  <2> QED
    BY <2>1, <2>2, <2>3, Zenon
<1>5. node' \in [Node -> NodeRec]
  BY <1>3, <1>4, SetType
<1>6. used' \in Used
  BY FailureType DEF InitObserver, TypeOK
<1>7. llu' \in [Node -> Gen]
  BY <1>1 DEF InitObserver, TypeOK, Timer
<1>8. /\ observers' \in [Node -> SUBSET Node] /\ reaped' \in [Node -> SUBSET Node]
      /\ UNCHANGED msgs
  BY DEF InitObserver, TypeOK
<1> QED
  BY <1>5, <1>6, <1>7, <1>8 DEF TypeOK

LEMMA InitDoneType ==
    ASSUME TypeOK, NEW n \in Node, InitDone(n)
    PROVE  TypeOK'
<1> DEFINE r == node[n]
           t == [r.timer EXCEPT !.pc = "ready", !.todo = Ids(r.timer.members), !.done = {}]
<1>1. r \in NodeRec /\ r.timer \in Timer /\ Ids(r.timer.members) \subseteq Node
  BY NodeType
<1>2. t \in Timer
  BY <1>1 DEF Timer, TimerPC
<1>3. [r EXCEPT !.timer = t] \in NodeRec
  BY <1>1, <1>2, TimerStepType
<1>4. Set(n, [r EXCEPT !.timer = t]) \/ Abandon(n)
  BY <1>1 DEF InitDone, NodeRec
<1>5. node' \in [Node -> NodeRec]
  BY <1>3, <1>4, SetType, AbandonType
<1>6. observers' \in [Node -> SUBSET Node]
  BY <1>1 DEF InitDone, TypeOK, Timer
<1> QED
  BY <1>5, <1>6 DEF InitDone, TypeOK

LEMMA ReadyType ==
    ASSUME TypeOK, NEW n \in Node, NEW m \in Node, Ready(n, m)
    PROVE  TypeOK'
<1> DEFINE r == node[n]
           ran == [node EXCEPT ![m] = OnReady(node[m], n, r.timer.g, r.max, r.timer.stamp)]
<1>1. r \in NodeRec /\ r.timer \in Timer /\ r.max \in Nat
  BY NodeType DEF NodeRec
<1>2. node' \in [Node -> NodeRec]
  <2>1. ran \in [Node -> NodeRec]
    <3>1. ASSUME r.timer.g \in Group
          PROVE  OnReady(node[m], n, r.timer.g, r.max, r.timer.stamp) \in NodeRec
      BY <1>1, <3>1, NodeType, OnReadyType DEF Timer
    <3>2. ASSUME r.timer.g \notin Group
          PROVE  OnReady(node[m], n, r.timer.g, r.max, r.timer.stamp) = node[m]
      <4>1. node[m].group \in Group
        BY NodeType DEF NodeRec
      <4> QED
        BY <3>2, <4>1 DEF OnReady, ReadyAccepted
    <3>3. node[m] \in NodeRec
      BY NodeType
    <3> QED
      BY <3>1, <3>2, <3>3 DEF TypeOK
  <2>2. ASSUME NEW f \in [Node -> NodeRec]
        PROVE  [f EXCEPT ![n].timer.todo = @ \ {m}] \in [Node -> NodeRec]
    <3>1. f[n] \in NodeRec /\ f[n].timer \in Timer
      BY DEF NodeRec
    <3>2. [f[n].timer EXCEPT !.todo = @ \ {m}] \in Timer
      BY <3>1 DEF Timer
    <3>3. [f[n] EXCEPT !.timer = [f[n].timer EXCEPT !.todo = @ \ {m}]] \in NodeRec
      BY <3>1, <3>2, TimerStepType
    <3> QED
      BY <3>3
  <2>3. ASSUME NEW f \in [Node -> NodeRec], NEW g \in FreshGroups(n)
        PROVE  [f EXCEPT ![n] = TimerRecover(n, f[n], g)] \in [Node -> NodeRec]
    BY FreshGroup, TimerRecoverType
  <2>4. node \in [Node -> NodeRec]
    BY DEF TypeOK
  <2> HIDE DEF ran
  <2>5. \/ node' = [ran EXCEPT ![n].timer.todo = @ \ {m}]
        \/ \E after \in {node, ran}, g \in FreshGroups(n) :
             node' = [after EXCEPT ![n] = TimerRecover(n, after[n], g)]
    BY DEF Ready, ran
  <2> QED
    BY <2>1, <2>2, <2>3, <2>4, <2>5
<1>3. used' \in Used
  BY FailureType DEF Ready, TypeOK
<1> QED
  BY <1>2, <1>3 DEF Ready, TypeOK

LEMMA ReadyDoneType ==
    ASSUME TypeOK, NEW n \in Node, ReadyDone(n)
    PROVE  TypeOK'
<1> DEFINE r == node[n]
<1>0. r \in NodeRec /\ r.timer \in Timer
  BY NodeType
<1>1. r.timer.stamp \in Gen
  BY <1>0 DEF Timer
<1>2. /\ [r EXCEPT !.timer = TimerIdle] \in NodeRec
      /\ [r EXCEPT !.state = Normal, !.coordinatorProxy = None, !.generation = r.timer.stamp,
                   !.checkTask = "scheduled", !.timer = TimerIdle] \in NodeRec
  BY <1>0, <1>1, TimerIdleType DEF NodeRec, States, CheckTask
<1>3. node' \in [Node -> NodeRec]
  BY <1>2, SetType DEF ReadyDone
<1> QED
  BY <1>3 DEF ReadyDone, TypeOK

LEMMA OnInvitationType ==
    ASSUME TypeOK, NEW n \in Node, NEW msg \in msgs, OnInvitation(n, msg)
    PROVE  TypeOK'
<1> DEFINE r == node[n]
           joining == [r EXCEPT !.state = InElection, !.mergeTask = FALSE, !.mergeSet = {}]
           h == [pc |-> "wait", j |-> msg.j, g |-> msg.g, max |-> 0, forward |-> {}]
<1>0. r \in NodeRec
  BY NodeType
<1>1. msg.j \in Node /\ msg.g \in Group
  BY DEF TypeOK, Message, OnInvitation
<1>2. joining \in NodeRec
  BY <1>0 DEF NodeRec, States
<1> HIDE DEF joining
<1>3. h \in Handler
  BY <1>1 DEF Handler
<1> HIDE DEF h
<1>4. [joining EXCEPT !.invitations = @ \cup {h}] \in NodeRec
  BY <1>2, <1>3 DEF NodeRec
<1>5. Join(n, joining, msg.j, msg.g) \in NodeRec
  BY <1>1, <1>2, JoinType
<1>6. \/ UNCHANGED node
      \/ Set(n, Join(n, joining, msg.j, msg.g))
      \/ Set(n, [joining EXCEPT !.invitations = @ \cup {h}])
  BY Zenon DEF OnInvitation, joining, h
<1>7. node' \in [Node -> NodeRec]
  BY <1>4, <1>5, <1>6, SetType DEF TypeOK
<1> QED
  BY <1>7 DEF OnInvitation, TypeOK

LEMMA HandlerGone ==
    ASSUME NEW r \in NodeRec, NEW h
    PROVE  [r EXCEPT !.invitations = @ \ {h}] \in NodeRec
BY DEF NodeRec

LEMMA InvitationResumeType ==
    ASSUME TypeOK, NEW n \in Node, NEW h \in node[n].invitations, InvitationResume(n, h)
    PROVE  TypeOK'
<1> DEFINE r == [node[n] EXCEPT !.invitations = @ \ {h}]
<1>0. node[n] \in NodeRec
  BY NodeType
<1>1. r \in NodeRec /\ h.j \in Node /\ h.g \in Group
  BY <1>0, HandlerGone DEF NodeRec, Handler
<1> HIDE DEF r
<1>2. Set(n, r) \/ Set(n, Join(n, r, h.j, h.g))
  BY DEF InvitationResume, r
<1>3. node' \in [Node -> NodeRec]
  BY <1>1, <1>2, JoinType, SetType
<1> QED
  BY <1>3 DEF InvitationResume, TypeOK

LEMMA InvitationForwardType ==
    ASSUME TypeOK, NEW n \in Node, NEW h \in node[n].invitations, InvitationForward(n, h)
    PROVE  TypeOK'
<1> DEFINE r == [node[n] EXCEPT !.invitations = @ \ {h}]
           k == [h EXCEPT !.pc = "accept"]
<1>0. node[n] \in NodeRec
  BY NodeType
<1>1. r \in NodeRec /\ h \in Handler
  BY <1>0, HandlerGone DEF NodeRec
<1>2. k \in Handler /\ h.j \in Node /\ h.g \in Group /\ h.forward \subseteq Node
  BY <1>1 DEF Handler
<1>3. {Invitation(n, m, h.j, h.g) : m \in h.forward} \subseteq Message
  BY <1>2 DEF Invitation, Message
<1> HIDE DEF r, k
<1>4. [r EXCEPT !.state = Reorganization, !.timeoutTask = TRUE, !.invitations = @ \cup {k}]
        \in NodeRec
  BY <1>1, <1>2 DEF NodeRec, States
<1>5. \/ Set(n, r)
      \/ Set(n, [r EXCEPT !.state = Reorganization, !.timeoutTask = TRUE,
                          !.invitations = @ \cup {k}])
  BY Zenon DEF InvitationForward, r, k
<1>6. node' \in [Node -> NodeRec]
  BY <1>1, <1>4, <1>5, SetType
<1>7. msgs' \in SUBSET Message
  BY <1>3 DEF InvitationForward, TypeOK
<1> QED
  BY <1>6, <1>7 DEF InvitationForward, TypeOK

LEMMA InvitationAcceptType ==
    ASSUME TypeOK, NEW n \in Node, NEW h \in node[n].invitations, InvitationAccept(n, h)
    PROVE  TypeOK'
<1> DEFINE r == [node[n] EXCEPT !.invitations = @ \ {h}]
           a == [type |-> "accept", to |-> h.j, j |-> n, g |-> h.g, llu |-> llu[n],
                 max |-> h.max]
<1>0. node[n] \in NodeRec
  BY NodeType
<1>1. r \in NodeRec /\ h \in Handler
  BY <1>0, HandlerGone DEF NodeRec
<1>2. a \in Message
  BY <1>1 DEF Handler, Message, TypeOK
<1> HIDE DEF r, a
<1>3. \/ Set(n, r) /\ msgs' = msgs \cup {a} /\ UNCHANGED used
      \/ /\ used.refusals < MaxRefusals /\ used' = [used EXCEPT !.refusals = @ + 1]
         /\ \E g \in FreshGroups(n) : Set(n, ThreadRecover(n, r, g))
         /\ UNCHANGED msgs
  BY Zenon DEF InvitationAccept, r, a
<1>4. node' \in [Node -> NodeRec]
  BY <1>1, <1>3, FreshGroup, ThreadRecoverType, SetType
<1>5. msgs' \in SUBSET Message
  BY <1>2, <1>3 DEF TypeOK
<1>6. used' \in Used
  BY <1>3, BoundAssumption DEF TypeOK, Used
<1> QED
  BY <1>4, <1>5, <1>6 DEF InvitationAccept, TypeOK

LEMMA OnAcceptType ==
    ASSUME TypeOK, NEW n \in Node, NEW msg \in msgs, OnAccept(n, msg)
    PROVE  TypeOK'
<1> DEFINE r == node[n]
           up == IF msg.j \in Ids(r.up) THEN r.up ELSE r.up \cup {[id |-> msg.j, llu |-> msg.llu]}
           larger == Max({r.max, msg.max})
<1>0. r \in NodeRec
  BY NodeType
<1>1. msg.j \in Node /\ msg.llu \in Gen /\ msg.max \in Nat
  BY DEF TypeOK, Message, OnAccept
<1>2. r.up \in Members /\ r.max \in Nat
  BY <1>0 DEF NodeRec
<1>3. up \in Members
  <2> DEFINE x == [id |-> msg.j, llu |-> msg.llu]
  <2>1. x \in Member
    BY <1>1 DEF Member
  <2> HIDE DEF x
  <2>2. IsFiniteSet(r.up \cup {x})
    BY <1>2, FS_AddElement DEF Members
  <2>3. r.up \cup {x} \in Members
    BY <1>2, <2>1, <2>2 DEF Members
  <2> QED
    BY <1>2, <2>3, Zenon DEF x
<1>4. larger \in Nat
  BY <1>1, <1>2, MaxOfTwo
<1> HIDE DEF up, larger
<1>5. [r EXCEPT !.up = up, !.max = larger] \in NodeRec
  BY <1>0, <1>3, <1>4 DEF NodeRec
<1>6. UNCHANGED node \/ Set(n, [r EXCEPT !.up = up, !.max = larger])
  BY Zenon DEF OnAccept, up, larger
<1>7. node' \in [Node -> NodeRec]
  BY <1>5, <1>6, SetType DEF TypeOK
<1> QED
  BY <1>7 DEF OnAccept, TypeOK

LEMMA LoseType ==
    ASSUME TypeOK, NEW msg \in msgs, Lose(msg)
    PROVE  TypeOK'
BY FailureType DEF Lose, TypeOK

LEMMA TimeoutType ==
    ASSUME TypeOK, NEW n \in Node, Timeout(n)
    PROVE  TypeOK'
<1> DEFINE r == node[n]
           t == [TimerIdle EXCEPT !.pc = "timeoutCall", !.j = r.coord, !.g = r.group]
<1>0. r \in NodeRec
  BY NodeType
<1>1. t \in Timer
  BY <1>0, NoMembers DEF TimerIdle, Timer, TimerPC, Gen, NodeRec
<1> HIDE DEF t
<1>2. [r EXCEPT !.timer = t] \in NodeRec
  BY <1>0, <1>1, TimerStepType
<1>3. node' \in [Node -> NodeRec]
  BY <1>2, SetType DEF Timeout, t
<1> QED
  BY <1>3 DEF Timeout, TypeOK

LEMMA TimeoutCallType ==
    ASSUME TypeOK, NEW n \in Node, TimeoutCall(n)
    PROVE  TypeOK'
<1> DEFINE r == node[n]
           t == [r.timer EXCEPT !.pc = "timeoutFailed"]
<1>0. r \in NodeRec /\ r.timer \in Timer
  BY NodeType
<1>1. t \in Timer
  BY <1>0 DEF Timer, TimerPC
<1>2. [r EXCEPT !.timer = t] \in NodeRec /\ [r EXCEPT !.timer = TimerIdle] \in NodeRec
  BY <1>0, <1>1, TimerIdleType, TimerStepType
<1>3. Set(n, [r EXCEPT !.timer = t]) \/ Set(n, [r EXCEPT !.timer = TimerIdle])
  BY <1>0 DEF TimeoutCall, NodeRec
<1>4. node' \in [Node -> NodeRec]
  BY <1>2, <1>3, SetType
<1>5. used' \in Used
  BY FailureType DEF TimeoutCall, TypeOK
<1> QED
  BY <1>4, <1>5 DEF TimeoutCall, TypeOK

LEMMA TimeoutFailedType ==
    ASSUME TypeOK, NEW n \in Node, TimeoutFailed(n)
    PROVE  TypeOK'
<1>0. node[n] \in NodeRec /\ [node[n] EXCEPT !.timer = TimerIdle] \in NodeRec
  BY NodeType, TimerIdleType, TimerStepType
<1>1. node' \in [Node -> NodeRec]
  BY <1>0, FreshGroup, TimerRecoverType, SetType DEF TimeoutFailed
<1> QED
  BY <1>1 DEF TimeoutFailed, TypeOK

LEMMA RecoverResumeType ==
    ASSUME TypeOK, NEW n \in Node, RecoverResume(n)
    PROVE  TypeOK'
<1> DEFINE r == node[n]
           x == [r EXCEPT !.timer = TimerIdle]
           y == [r EXCEPT !.recovering = @ - 1]
<1>0. r \in NodeRec
  BY NodeType
<1>1. x \in NodeRec
  BY <1>0, TimerIdleType, TimerStepType
<1>2. ASSUME r.recovering > 0
      PROVE  y \in NodeRec
  BY <1>0, <1>2 DEF NodeRec
<1> HIDE DEF x, y
<1>3. \E z \in {x, y} :
        /\ z = y => r.recovering > 0 \/ x = y
        /\ Set(n, z) \/ \E g \in FreshGroups(n) : Set(n, RecoverEnd(n, z, g))
  BY DEF RecoverResume, x, y
<1>4. node' \in [Node -> NodeRec]
  BY <1>1, <1>2, <1>3, FreshGroup, RecoverEndType, SetType
<1> QED
  BY <1>4 DEF RecoverResume, TypeOK

LEMMA UpdateType ==
    ASSUME TypeOK, NEW n \in Node, StartUpdate(n) \/ FinishUpdate(n)
    PROVE  TypeOK'
<1> DEFINE r == node[n]
<1>0. r \in NodeRec
  BY NodeType
<1>1. [r EXCEPT !.updateCounter = @ + 1] \in NodeRec
  BY <1>0 DEF NodeRec
<1>2. ASSUME r.updateCounter > 0
      PROVE  [r EXCEPT !.updateCounter = @ - 1] \in NodeRec
  BY <1>0, <1>2 DEF NodeRec
<1>3. node' \in [Node -> NodeRec]
  BY <1>1, <1>2, SetType DEF StartUpdate, FinishUpdate
<1>4. used' \in Used
  BY ClientType DEF StartUpdate, FinishUpdate, TypeOK
<1> QED
  BY <1>3, <1>4 DEF StartUpdate, FinishUpdate, TypeOK

LEMMA EvictType ==
    ASSUME TypeOK, NEW n \in Node, Evict(n)
    PROVE  TypeOK'
BY FailureType DEF Evict, TypeOK

LEMMA MajorityType ==
    ASSUME TypeOK, NEW n \in Node, ObserversCheck(n) \/ LostMajority(n)
    PROVE  TypeOK'
<1> DEFINE r == [node[n] EXCEPT !.lostMajority = FALSE]
           q == [node[n] EXCEPT !.lostMajority = TRUE]
<1>0. node[n] \in NodeRec
  BY NodeType
<1>1. r \in NodeRec /\ q \in NodeRec
  BY <1>0 DEF NodeRec
<1> HIDE DEF r, q
<1>2. Set(n, q) \/ Set(n, r) \/ \E g \in FreshGroups(n) : Set(n, ThreadRecover(n, r, g))
  BY DEF ObserversCheck, LostMajority, r, q
<1>3. node' \in [Node -> NodeRec]
  BY <1>1, <1>2, FreshGroup, ThreadRecoverType, SetType
<1>4. used' \in Used
  BY ClientType DEF ObserversCheck, LostMajority, TypeOK
<1> QED
  BY <1>3, <1>4 DEF ObserversCheck, LostMajority, TypeOK

LEMMA GenerationRecoveryType ==
    ASSUME TypeOK, NEW n \in Node, GenerationRecovery(n)
    PROVE  TypeOK'
<1>1. node' \in [Node -> NodeRec]
  BY NodeType, FreshGroup, ThreadRecoverType, SetType DEF GenerationRecovery
<1> QED
  BY <1>1, FailureType DEF GenerationRecovery, TypeOK

LEMMA DestroyType ==
    ASSUME TypeOK, NEW n \in Node, Destroy(n)
    PROVE  TypeOK'
<1> DEFINE r == node[n]
           q == [r EXCEPT !.destroyed = TRUE, !.timeoutTask = FALSE, !.mergeTask = FALSE,
                          !.mergeSet = IF r.timer.pc = "merge" THEN @ ELSE {},
                          !.checkTask = "null"]
<1>0. r \in NodeRec
  BY NodeType
<1>1. q \in NodeRec
  BY <1>0 DEF NodeRec, CheckTask
<1> HIDE DEF q
<1>2. /\ Set(n, q) /\ used.destroys < MaxDestroys /\ used' = [used EXCEPT !.destroys = @ + 1]
      /\ UNCHANGED <<llu, observers, reaped, msgs>>
  BY Zenon DEF Destroy, q
<1>3. used' \in Used
  BY <1>2, BoundAssumption DEF TypeOK, Used
<1> QED
  BY <1>1, <1>2, <1>3, SetType DEF TypeOK

LEMMA CrashType ==
    ASSUME TypeOK, NEW n \in Node, Crash(n)
    PROVE  TypeOK'
<1>1. node' \in [Node -> NodeRec]
  BY FreshGroup, StartedType, SetType DEF Crash
<1>2. used' \in Used
  BY BoundAssumption DEF TypeOK, Used, Crash
<1> QED
  BY <1>1, <1>2 DEF Crash, TypeOK

LEMMA InitType == Init => TypeOK
<1> SUFFICES ASSUME Init PROVE TypeOK
  OBVIOUS
<1>1. \A n \in Node : <<n, 1>> \in Group
  BY BoundAssumption DEF Group
<1>2. \A n \in Node : Started(n, <<n, 1>>) \in NodeRec
  BY <1>1, StartedType
<1>3. used \in Used
  BY BoundAssumption DEF Init, Used
<1> QED
  BY <1>2, <1>3 DEF Init, TypeOK, Gen

LEMMA NextType == TypeOK /\ [Next]_vars => TypeOK'
<1> SUFFICES ASSUME TypeOK, [Next]_vars PROVE TypeOK'
  OBVIOUS
<1>1. ASSUME NEW n \in Node, TimerStep(n) PROVE TypeOK'
  BY <1>1, CheckType, CheckCallType, CheckDoneType, MergeFireType, MergeType, MergeResumeType,
     MergeContinueType, SyncType, InitMasterType, InitObserverType, InitDoneType, ReadyType,
     ReadyDoneType, TimeoutType, TimeoutCallType, TimeoutFailedType DEF TimerStep
<1>2. ASSUME NEW n \in Node, InvitationStep(n) PROVE TypeOK'
  BY <1>2, OnInvitationType, OnAcceptType, InvitationResumeType, InvitationForwardType,
     InvitationAcceptType DEF InvitationStep
<1>3. ASSUME NEW n \in Node, ClientStep(n) PROVE TypeOK'
  BY <1>3, UpdateType, EvictType, MajorityType, GenerationRecoveryType DEF ClientStep
<1>4. ASSUME NEW n \in Node, RecoverResume(n) \/ Destroy(n) \/ Crash(n) PROVE TypeOK'
  BY <1>4, RecoverResumeType, DestroyType, CrashType
<1>5. ASSUME NEW m \in msgs, Lose(m) PROVE TypeOK'
  BY <1>5, LoseType
<1>6. CASE UNCHANGED vars
  BY <1>6 DEF TypeOK, vars
<1> QED
  BY <1>1, <1>2, <1>3, <1>4, <1>5, <1>6 DEF Next

(* Every reachable state is well formed, whatever the number of nodes and  *)
(* the bounds: a step of NodeI leaves every field, message, observer list  *)
(* and database stamp in its type.                                         *)
THEOREM TypeCorrect == Spec => []TypeOK
<1>1. Init => TypeOK
  BY InitType
<1>2. TypeOK /\ [Next]_vars => TypeOK'
  BY NextType
<1> QED
  BY <1>1, <1>2, PTL DEF Spec

-----------------------------------------------------------------------------
(* Groups and startup are proved together, from a predicate on the record  *)
(* of one node that strengthens them; the others from what each step does  *)
(* to a node (Kept).                                                       *)
N == Cardinality(Node)

(* The node and its dispatch threads name groups by their coordinators. *)
Named(r) == r.group[1] = r.coord /\ \A h \in r.invitations : h.g[1] = h.j

(* FullStartup holds at ReadyDone because mergeContinue() has passed the   *)
(* test of its first section, and has raised _max after sync().            *)
Startup(r) ==
    /\ r.state = Normal => r.max >= N
    /\ r.timer.pc \in {"initMaster", "init", "ready"} => r.max >= N
    /\ r.timer.pc = "sync" => r.max >= N \/ Cardinality(r.timer.members) + 1 >= N

NodeInv(r) == Named(r) /\ Startup(r)

MsgsNamed == \A m \in msgs : m.type = "invitation" => m.g[1] = m.j

(* The inductive invariant. *)
Inv == TypeOK /\ MsgsNamed /\ \A n \in Node : NodeInv(node[n])

-----------------------------------------------------------------------------
(* What the helpers establish on the record of one node. *)

LEMMA NType == N \in Nat
BY NodeAssumption DEF N

(* The facts about one node that the steps below start from. *)
LEMMA NodeFacts ==
    ASSUME Inv, NEW n \in Node
    PROVE  node[n] \in NodeRec /\ node[n].timer \in Timer /\ NodeInv(node[n]) /\ TypeOK
BY NodeType DEF Inv

(* A change that keeps the names, the timer thread and _max, and does not  *)
(* begin to serve, keeps the invariant of the node.                        *)
LEMMA FrameInv ==
    ASSUME NEW r \in NodeRec, NEW q, NodeInv(r),
           q.group = r.group, q.coord = r.coord, q.invitations \subseteq r.invitations,
           q.state = Normal => r.state = Normal, q.timer = r.timer, q.max = r.max
    PROVE  NodeInv(q)
BY DEF NodeInv, Named, Startup

(* The same when the timer thread moves to a step that promises nothing. *)
LEMMA QuietInv ==
    ASSUME NEW r \in NodeRec, NEW q, NodeInv(r),
           q.group = r.group, q.coord = r.coord, q.invitations \subseteq r.invitations,
           q.state = Normal => r.state = Normal, q.max = r.max,
           q.timer.pc \notin {"sync", "initMaster", "init", "ready"}
    PROVE  NodeInv(q)
BY DEF NodeInv, Named, Startup

LEMMA RecoverEndInv ==
    ASSUME NEW n \in Node, NEW r \in NodeRec, NEW g \in Group, g[1] = n, NodeInv(r)
    PROVE  NodeInv(RecoverEnd(n, r, g))
BY DEF NodeInv, Named, Startup, RecoverEnd, NodeRec

LEMMA RecoverInv ==
    ASSUME NEW n \in Node, NEW r \in NodeRec, NEW g \in Group, g[1] = n, NodeInv(r)
    PROVE  NodeInv(Recover(n, r, g))
<1> DEFINE i == [r EXCEPT !.state = Inactive]
<1>1. i \in NodeRec /\ NodeInv(i)
  BY DEF NodeInv, Named, Startup, NodeRec, States, Inactive, Normal
<1>2. NodeInv(RecoverEnd(n, i, g))
  BY <1>1, RecoverEndInv
<1> HIDE DEF i
<1>3. Recover(n, r, g) \in {r, i, RecoverEnd(n, i, g)}
  BY DEF Recover, i
<1> QED
  BY <1>1, <1>2, <1>3

LEMMA TimerRecoverInv ==
    ASSUME NEW n \in Node, NEW r \in NodeRec, NEW g \in FreshGroups(n), NodeInv(r)
    PROVE  NodeInv(TimerRecover(n, r, g))
<1> DEFINE q == Recover(n, r, g)
           t == IF RecoverWaits(r) THEN [TimerIdle EXCEPT !.pc = "recover"] ELSE TimerIdle
<1>1. q \in NodeRec /\ NodeInv(q)
  BY FreshGroup, RecoverType, RecoverInv
<1>2. t.pc \in {"idle", "recover"}
  BY DEF TimerIdle
<1> HIDE DEF q, t
<1>3. NodeInv([q EXCEPT !.timer = t])
  BY <1>1, <1>2, QuietInv DEF NodeRec
<1> QED
  BY <1>3 DEF TimerRecover, q, t

LEMMA ThreadRecoverInv ==
    ASSUME NEW n \in Node, NEW r \in NodeRec, NEW g \in FreshGroups(n), NodeInv(r)
    PROVE  NodeInv(ThreadRecover(n, r, g))
<1> DEFINE q == Recover(n, r, g)
<1>1. q \in NodeRec /\ NodeInv(q)
  BY FreshGroup, RecoverType, RecoverInv
<1> HIDE DEF q
<1>2. \A k : NodeInv([q EXCEPT !.recovering = k])
  BY <1>1, FrameInv DEF NodeRec
<1> QED
  BY <1>2 DEF ThreadRecover, q

(* invitation() takes the coordinator and the group from the same call. *)
LEMMA JoinInv ==
    ASSUME NEW n \in Node, NEW r \in NodeRec, NEW j \in Node, NEW g \in Group, g[1] = j,
           NodeInv(r)
    PROVE  NodeInv(Join(n, r, j, g))
<1> DEFINE h == [pc |-> "forward", j |-> j, g |-> g, max |-> r.max,
                 forward |-> IF r.coord = n THEN Ids(r.up) ELSE {}]
<1>1. h.g = g /\ h.j = j
  OBVIOUS
<1> HIDE DEF h
<1>2. NodeInv([r EXCEPT !.coord = j, !.group = g, !.invitations = @ \cup {h}])
  BY <1>1 DEF NodeInv, Named, Startup, NodeRec
<1> QED
  BY <1>2 DEF Join, h

(* ready() begins to serve with the _max of a coordinator that has met     *)
(* all nodes.                                                              *)
LEMMA OnReadyInv ==
    ASSUME NEW q \in NodeRec, NodeInv(q), NEW j, NEW g, NEW max \in Nat, max >= N, NEW generation
    PROVE  NodeInv(OnReady(q, j, g, max, generation))
<1> DEFINE larger == Max({q.max, max})
<1>1. q.max \in Nat
  BY DEF NodeRec
<1>2. larger \in Nat /\ larger >= N
  BY <1>1, MaxOfTwo, NType
<1> HIDE DEF larger
<1>3. NodeInv([q EXCEPT !.max = larger, !.generation = generation, !.state = Normal,
                        !.coordinatorProxy = j,
                        !.checkTask = IF @ = "null" THEN "scheduled" ELSE @])
  BY <1>2, NType DEF NodeInv, Named, Startup, NodeRec
<1> QED
  BY <1>3, Zenon DEF OnReady, larger

-----------------------------------------------------------------------------
(* The steps.  AllInv is what each one has to preserve besides the types. *)

AllInv == MsgsNamed /\ \A n \in Node : NodeInv(node[n])

(* A step that changes the record of one node. *)
LEMMA SetInv ==
    ASSUME Inv, NEW n \in Node, NEW r, NodeInv(r), Set(n, r)
    PROVE  \A m \in Node : NodeInv(node'[m])
BY DEF Inv, TypeOK, Set

LEMMA SameMsgs ==
    ASSUME Inv, msgs' \subseteq msgs
    PROVE  MsgsNamed'
BY DEF Inv, MsgsNamed

LEMMA AbandonInv ==
    ASSUME Inv, NEW n \in Node, Abandon(n)
    PROVE  \A m \in Node : NodeInv(node'[m])
BY NodeFacts, TimerRecoverInv, SetInv DEF Abandon

LEMMA CheckInv ==
    ASSUME Inv, NEW n \in Node, Check(n)
    PROVE  AllInv'
<1> DEFINE r == node[n]
           left == {m \in r.up : m.id \notin reaped[n]}
           q == [r EXCEPT !.up = left, !.checkTask = "null"]
           t == [r.timer EXCEPT !.pc = "checkCall", !.todo = Node \ {n}]
           s == [r EXCEPT !.up = left, !.checkTask = "running", !.timer = t]
<1>1. r \in NodeRec /\ r.timer \in Timer /\ NodeInv(r) /\ r.up \in Members
  BY NodeFacts DEF NodeRec
<1>2. left \in Members
  BY <1>1, FS_Subset DEF Members
<1> HIDE DEF left
<1>3. q \in NodeRec /\ NodeInv(q)
  <2>1. q \in NodeRec
    BY <1>1, <1>2 DEF NodeRec, CheckTask
  <2> QED
    BY <1>1, <2>1, FrameInv DEF NodeRec
<1>4. t.pc = "checkCall"
  BY <1>1 DEF Timer
<1> HIDE DEF t
<1>5. NodeInv(s)
  BY <1>1, <1>4, QuietInv DEF NodeRec
<1>6. s = [r EXCEPT !.up = left, !.checkTask = "running",
                    !.timer.pc = "checkCall", !.timer.todo = Node \ {n}]
  BY <1>1 DEF t, NodeRec, Timer
<1> HIDE DEF q, s
<1>7. (\E g \in FreshGroups(n) : Set(n, TimerRecover(n, q, g))) \/ Set(n, s)
  BY <1>6 DEF Check, left, q
<1>8. \A m \in Node : NodeInv(node'[m])
  BY <1>3, <1>5, <1>7, TimerRecoverInv, SetInv
<1> QED
  BY <1>8, SameMsgs DEF Check, AllInv

LEMMA CheckCallInv ==
    ASSUME Inv, NEW n \in Node, NEW m \in Node, CheckCall(n, m)
    PROVE  AllInv'
<1> DEFINE r == node[n]
           t == [r.timer EXCEPT !.todo = @ \ {m}]
           u == [t EXCEPT !.done = @ \cup {m}]
<1>1. r \in NodeRec /\ r.timer \in Timer /\ NodeInv(r)
  BY NodeFacts
<1>2. t.pc = "checkCall" /\ u.pc = "checkCall"
  BY <1>1 DEF CheckCall, Timer
<1>3. Set(n, [r EXCEPT !.timer = t]) \/ Set(n, [r EXCEPT !.timer = u])
  BY <1>1, ZenonT(60) DEF CheckCall, NodeRec
<1> HIDE DEF t, u
<1>4. NodeInv([r EXCEPT !.timer = t]) /\ NodeInv([r EXCEPT !.timer = u])
  BY <1>1, <1>2, QuietInv DEF NodeRec
<1>5. \A k \in Node : NodeInv(node'[k])
  BY <1>3, <1>4, SetInv
<1> QED
  BY <1>5, SameMsgs DEF CheckCall, AllInv

LEMMA CheckDoneInv ==
    ASSUME Inv, NEW n \in Node, CheckDone(n)
    PROVE  AllInv'
<1> DEFINE r == node[n]
           idle == [r EXCEPT !.timer = TimerIdle]
<1>1. r \in NodeRec /\ NodeInv(r) /\ TimerIdle.pc = "idle"
  BY NodeFacts DEF TimerIdle
<1>2. \A c, b, s : NodeInv([r EXCEPT !.timer = TimerIdle, !.checkTask = c, !.mergeTask = b,
                                     !.mergeSet = s])
  BY <1>1, QuietInv DEF NodeRec
<1>3. \A c : NodeInv([r EXCEPT !.timer = TimerIdle, !.checkTask = c])
  BY <1>1, QuietInv DEF NodeRec
<1>4. \/ \E c : Set(n, [r EXCEPT !.timer = TimerIdle, !.checkTask = c])
      \/ \E c, b, s : Set(n, [r EXCEPT !.timer = TimerIdle, !.checkTask = c, !.mergeTask = b,
                                       !.mergeSet = s])
  <2>1. CASE Set(n, [idle EXCEPT !.checkTask = "null"])
    BY <1>1, <2>1 DEF NodeRec
  <2>2. CASE Set(n, [idle EXCEPT !.checkTask = "scheduled"])
    BY <1>1, <2>2 DEF NodeRec
  <2>3. CASE Set(n, [idle EXCEPT !.checkTask = "null", !.mergeTask = TRUE,
                                 !.mergeSet = r.timer.done])
    BY <1>1, <2>3 DEF NodeRec
  <2> QED
    BY <2>1, <2>2, <2>3, Zenon DEF CheckDone
<1>5. \A k \in Node : NodeInv(node'[k])
  BY <1>2, <1>3, <1>4, SetInv
<1> QED
  BY <1>5, SameMsgs DEF CheckDone, AllInv

LEMMA MergeFireInv ==
    ASSUME Inv, NEW n \in Node, MergeFire(n)
    PROVE  AllInv'
<1> DEFINE r == node[n]
           t == [r.timer EXCEPT !.pc = "merge"]
<1>1. r \in NodeRec /\ r.timer \in Timer /\ NodeInv(r) /\ t.pc = "merge"
  BY NodeFacts DEF Timer
<1> HIDE DEF t
<1>2. NodeInv([r EXCEPT !.timer = t])
  BY <1>1, QuietInv DEF NodeRec
<1>3. Set(n, [r EXCEPT !.timer = t])
  BY <1>1 DEF MergeFire, NodeRec, t
<1> QED
  BY <1>2, <1>3, SetInv, SameMsgs DEF MergeFire, AllInv

(* merge() names the new group after the node and sends that name. *)
LEMMA MergeOpenInv ==
    ASSUME Inv, NEW n \in Node, NEW r \in NodeRec, NodeInv(r), NEW g \in FreshGroups(n),
           MergeOpen(n, r, g)
    PROVE  AllInv'
<1> DEFINE q == [r EXCEPT !.group = g, !.coord = n, !.up = {}, !.mergeSet = {},
                          !.mergeContinueTask = TRUE, !.timer = TimerIdle]
           invited == r.mergeSet \cup Ids(r.up)
<1>1. g[1] = n /\ TimerIdle.pc = "idle"
  BY FreshGroup DEF TimerIdle
<1>2. NodeInv(q)
  BY <1>1 DEF NodeInv, Named, Startup, NodeRec
<1>3. Set(n, q) /\ msgs' = msgs \cup {Invitation(n, m, n, g) : m \in invited}
  BY Zenon DEF MergeOpen
<1> HIDE DEF q, invited
<1>4. MsgsNamed'
  BY <1>1, <1>3 DEF Inv, MsgsNamed, Invitation
<1> QED
  BY <1>2, <1>3, <1>4, SetInv DEF AllInv

LEMMA MergeInv ==
    ASSUME Inv, NEW n \in Node, Merge(n)
    PROVE  AllInv'
<1> DEFINE r == [node[n] EXCEPT !.mergeTask = FALSE]
           s == IF Busy(r) THEN r.state ELSE InElection
           e == [r EXCEPT !.state = InElection]
           t == [r.timer EXCEPT !.pc = "mergeWait"]
<1>1. node[n] \in NodeRec /\ node[n].timer \in Timer /\ NodeInv(node[n])
  BY NodeFacts
<1>2. r \in NodeRec /\ r.timer \in Timer /\ NodeInv(r)
  <2>1. r \in NodeRec /\ r.timer = node[n].timer
    BY <1>1 DEF NodeRec
  <2> QED
    BY <1>1, <2>1, FrameInv DEF NodeRec
<1>3. s # Normal /\ TimerIdle.pc = "idle" /\ t.pc = "mergeWait"
  BY <1>2 DEF Busy, InElection, Reorganization, Normal, TimerIdle, Timer
<1>4. e \in NodeRec /\ NodeInv(e)
  <2>1. e \in NodeRec /\ e.state # Normal
    BY <1>2 DEF NodeRec, States, InElection, Normal
  <2> QED
    BY <1>2, <2>1, FrameInv DEF NodeRec
<1> HIDE DEF s, t, r
<1>5. /\ NodeInv([r EXCEPT !.state = s, !.timer = TimerIdle, !.mergeSet = {}])
      /\ NodeInv([r EXCEPT !.state = InElection, !.timer = t])
  BY <1>2, <1>3, QuietInv, ZenonT(60) DEF NodeRec, InElection, Normal
<1>6. \/ Set(n, [r EXCEPT !.state = s, !.timer = TimerIdle, !.mergeSet = {}]) /\ UNCHANGED msgs
      \/ Set(n, [r EXCEPT !.state = InElection, !.timer = t]) /\ UNCHANGED msgs
      \/ \E g \in FreshGroups(n) : MergeOpen(n, e, g)
  <2>1. CASE /\ Set(n, [r EXCEPT !.state = IF Busy(r) THEN @ ELSE InElection,
                                 !.timer = TimerIdle, !.mergeSet = {}])
             /\ UNCHANGED msgs
    BY <1>2, <2>1 DEF NodeRec, s
  <2>2. CASE /\ Set(n, [r EXCEPT !.state = InElection, !.timer.pc = "mergeWait"])
             /\ UNCHANGED msgs
    BY <1>2, <2>2 DEF NodeRec, t
  <2>3. CASE \E g \in FreshGroups(n) : MergeOpen(n, e, g)
    BY <2>3
  <2> QED
    BY <2>1, <2>2, <2>3 DEF Merge, r
<1> HIDE DEF e
<1> QED
  BY <1>4, <1>5, <1>6, SetInv, SameMsgs, MergeOpenInv DEF AllInv

LEMMA MergeResumeInv ==
    ASSUME Inv, NEW n \in Node, MergeResume(n)
    PROVE  AllInv'
<1> DEFINE r == node[n]
<1>1. r \in NodeRec /\ NodeInv(r) /\ TimerIdle.pc = "idle"
  BY NodeFacts DEF TimerIdle
<1>2. NodeInv([r EXCEPT !.timer = TimerIdle, !.mergeSet = {}])
  BY <1>1, QuietInv DEF NodeRec
<1>3. \/ Set(n, [r EXCEPT !.timer = TimerIdle, !.mergeSet = {}]) /\ UNCHANGED msgs
      \/ \E g \in FreshGroups(n) : MergeOpen(n, r, g)
  BY DEF MergeResume
<1> QED
  BY <1>1, <1>2, <1>3, SetInv, SameMsgs, MergeOpenInv DEF AllInv

(* The test of mergeContinue(): _max is the number of nodes, or all the    *)
(* other nodes have accepted.                                              *)
LEMMA MergeContinueInv ==
    ASSUME Inv, NEW n \in Node, MergeContinue(n)
    PROVE  AllInv'
<1> DEFINE r == [node[n] EXCEPT !.mergeContinueTask = FALSE, !.state = Reorganization]
           t == [TimerIdle EXCEPT !.pc = "sync", !.g = r.group, !.members = r.up]
<1>1. node[n] \in NodeRec /\ NodeInv(node[n])
  BY NodeFacts
<1>2. r \in NodeRec /\ NodeInv(r)
  <2>1. r \in NodeRec /\ r.state # Normal
    BY <1>1 DEF NodeRec, States, Reorganization, Normal
  <2> QED
    BY <1>1, <2>1, FrameInv DEF NodeRec
<1> HIDE DEF r
<1>3. t.pc = "sync" /\ t.members = r.up
  BY DEF TimerIdle
<1> HIDE DEF t
<1>4. ASSUME ~NotEnough(r)
      PROVE  NodeInv([r EXCEPT !.timer = t])
  <2>1. Cardinality(r.up) \in Nat /\ r.max \in Nat
    BY <1>2, FS_CardinalityType DEF NodeRec, Members
  <2>2. r.max >= N \/ Cardinality(r.up) + 1 >= N
    BY <1>4, <2>1, NType DEF NotEnough, N
  <2> QED
    BY <1>2, <1>3, <2>2 DEF NodeInv, Named, Startup, NodeRec
<1>5. \/ \E g \in FreshGroups(n) : Set(n, TimerRecover(n, r, g))
      \/ ~NotEnough(r) /\ Set(n, [r EXCEPT !.timer = t])
  BY SMTT(30) DEF MergeContinue, r, t
<1>6. \A k \in Node : NodeInv(node'[k])
  BY <1>2, <1>4, <1>5, TimerRecoverInv, SetInv, SMTT(30)
<1> QED
  BY <1>6, SameMsgs DEF MergeContinue, AllInv

(* After sync() the coordinator's _max counts its members and itself. *)
LEMMA SyncInv ==
    ASSUME Inv, NEW n \in Node, Sync(n)
    PROVE  AllInv'
<1> DEFINE r == node[n]
           size == Cardinality(r.timer.members) + 1
           larger == Max({r.max, size})
<1>1. r \in NodeRec /\ r.timer \in Timer /\ NodeInv(r) /\ r.timer.pc = "sync"
  BY NodeFacts DEF Sync
<1>2. r.max \in Nat /\ size \in Nat /\ (r.max >= N \/ size >= N)
  <2>1. r.timer.members \in Members /\ r.max \in Nat
    BY <1>1 DEF NodeRec, Timer
  <2>2. size \in Nat
    BY <2>1, FS_CardinalityType, SMTT(30) DEF Members
  <2> QED
    BY <1>1, <2>1, <2>2 DEF NodeInv, Startup
<1>3. larger \in Nat /\ larger >= r.max /\ larger >= size
  BY <1>2, MaxOfTwo, Zenon
<1>4. larger >= N /\ (r.max >= N => larger >= N)
  BY <1>2, <1>3, NType, SMTT(30)
<1> HIDE DEF larger
<1>5. \A t : NodeInv([r EXCEPT !.max = larger, !.timer = t])
  BY <1>1, <1>4, SMTT(30) DEF NodeInv, Named, Startup, NodeRec
<1>6. \/ \E x : Set(n, [r EXCEPT !.max = larger, !.timer.pc = "initMaster", !.timer.stamp = x])
      \/ Abandon(n)
  BY DEF Sync, larger
<1>7. \A x : [r EXCEPT !.max = larger, !.timer.pc = "initMaster", !.timer.stamp = x]
              = [r EXCEPT !.max = larger,
                          !.timer = [r.timer EXCEPT !.pc = "initMaster", !.stamp = x]]
  BY <1>1 DEF NodeRec, Timer
<1>8. \A k \in Node : NodeInv(node'[k])
  BY <1>5, <1>6, <1>7, SetInv, AbandonInv
<1> QED
  BY <1>8, SameMsgs, ZenonT(60) DEF Sync, AllInv

(* The timer thread moves on inside mergeContinue(), after sync(). *)
LEMMA LaterInv ==
    ASSUME NEW r \in NodeRec, NodeInv(r), r.timer.pc \in {"initMaster", "init", "ready"},
           NEW t, t.pc # "sync"
    PROVE  NodeInv([r EXCEPT !.timer = t])
BY DEF NodeInv, Named, Startup, NodeRec

LEMMA InitMasterInv ==
    ASSUME Inv, NEW n \in Node, InitMaster(n)
    PROVE  AllInv'
<1> DEFINE r == node[n]
           t == [r.timer EXCEPT !.pc = "init", !.todo = Ids(r.timer.members)]
<1>1. r \in NodeRec /\ r.timer \in Timer /\ NodeInv(r) /\ r.timer.pc = "initMaster"
  BY NodeFacts DEF InitMaster
<1>2. t.pc = "init"
  BY <1>1 DEF Timer
<1>3. Set(n, [r EXCEPT !.timer = t]) \/ Abandon(n)
  BY <1>1 DEF InitMaster, NodeRec
<1> HIDE DEF t
<1>4. NodeInv([r EXCEPT !.timer = t])
  BY <1>1, <1>2, LaterInv
<1> QED
  BY <1>3, <1>4, SetInv, AbandonInv, SameMsgs DEF InitMaster, AllInv

LEMMA InitObserverInv ==
    ASSUME Inv, NEW n \in Node, NEW m \in Node, InitObserver(n, m)
    PROVE  AllInv'
<1> DEFINE r == node[n]
           t == [r.timer EXCEPT !.todo = @ \ {m}]
           u == [t EXCEPT !.done = @ \cup {m}]
           called == [r EXCEPT !.timer.todo = @ \ {m}]
<1>1. r \in NodeRec /\ r.timer \in Timer /\ NodeInv(r) /\ r.timer.pc = "init"
  BY NodeFacts DEF InitObserver
<1>2. t.pc = "init" /\ u.pc = "init"
  BY <1>1 DEF Timer
<1>3. called = [r EXCEPT !.timer = t]
  BY <1>1 DEF NodeRec
<1>4. [called EXCEPT !.timer.done = @ \cup {m}] = [r EXCEPT !.timer = u]
  BY <1>1 DEF NodeRec
<1>5. Set(n, called) \/ Set(n, [called EXCEPT !.timer.done = @ \cup {m}])
  BY Zenon DEF InitObserver
<1> HIDE DEF t, u, called
<1>6. NodeInv([r EXCEPT !.timer = t]) /\ NodeInv([r EXCEPT !.timer = u])
  BY <1>1, <1>2, LaterInv
<1>7. \A k \in Node : NodeInv(node'[k])
  BY <1>3, <1>4, <1>5, <1>6, SetInv
<1> QED
  BY <1>7, SameMsgs DEF InitObserver, AllInv

LEMMA InitDoneInv ==
    ASSUME Inv, NEW n \in Node, InitDone(n)
    PROVE  AllInv'
<1> DEFINE r == node[n]
           t == [r.timer EXCEPT !.pc = "ready", !.todo = Ids(r.timer.members), !.done = {}]
<1>1. r \in NodeRec /\ r.timer \in Timer /\ NodeInv(r) /\ r.timer.pc = "init"
  BY NodeFacts DEF InitDone
<1>2. t.pc = "ready"
  BY <1>1 DEF Timer
<1>3. Set(n, [r EXCEPT !.timer = t]) \/ Abandon(n)
  BY <1>1 DEF InitDone, NodeRec
<1> HIDE DEF t
<1>4. NodeInv([r EXCEPT !.timer = t])
  BY <1>1, <1>2, LaterInv
<1> QED
  BY <1>3, <1>4, SetInv, AbandonInv, SameMsgs DEF InitDone, AllInv

LEMMA ReadyInv ==
    ASSUME Inv, NEW n \in Node, NEW m \in Node, Ready(n, m)
    PROVE  AllInv'
<1> DEFINE r == node[n]
           ran == [node EXCEPT ![m] = OnReady(node[m], n, r.timer.g, r.max, r.timer.stamp)]
           P(f) == f \in [Node -> NodeRec] /\ \A k \in Node : NodeInv(f[k])
<1>1. r \in NodeRec /\ r.max \in Nat /\ r.max >= N /\ r.timer.pc = "ready" /\ r.timer \in Timer
  BY NodeFacts DEF Ready, NodeRec, NodeInv, Startup
<1>2. P(node)
  BY NodeFacts DEF TypeOK
<1>3. P(ran)
  <2>1. NodeInv(OnReady(node[m], n, r.timer.g, r.max, r.timer.stamp))
    BY <1>1, <1>2, OnReadyInv
  <2>2. OnReady(node[m], n, r.timer.g, r.max, r.timer.stamp) \in NodeRec
    <3>1. CASE r.timer.g \in Group
      BY <1>1, <1>2, <3>1, OnReadyType DEF Timer
    <3>2. CASE r.timer.g \notin Group
      <4>1. node[m] \in NodeRec /\ node[m].group \in Group
        BY <1>2 DEF NodeRec
      <4>2. OnReady(node[m], n, r.timer.g, r.max, r.timer.stamp) = node[m]
        BY <3>2, <4>1, SMTT(30) DEF OnReady, ReadyAccepted
      <4> QED
        BY <4>1, <4>2
    <3> QED
      BY <3>1, <3>2
  <2> QED
    BY <1>2, <2>1, <2>2
<1>4. ran[n].timer = r.timer
  BY <1>1, <1>2, SMTT(30) DEF OnReady, NodeRec
<1>5. \/ node' = [ran EXCEPT ![n].timer.todo = @ \ {m}]
      \/ \E after \in {node, ran}, g \in FreshGroups(n) :
           node' = [after EXCEPT ![n] = TimerRecover(n, after[n], g)]
  BY DEF Ready
<1> HIDE DEF ran
<1>6. CASE node' = [ran EXCEPT ![n].timer.todo = @ \ {m}]
  <2> DEFINE t == [r.timer EXCEPT !.todo = @ \ {m}]
  <2>1. t.pc = "ready"
    BY <1>1 DEF Timer
  <2>2. node' = [ran EXCEPT ![n] = [ran[n] EXCEPT !.timer = t]]
    BY <1>3, <1>4, <1>6 DEF NodeRec
  <2> HIDE DEF t
  <2>3. NodeInv([ran[n] EXCEPT !.timer = t])
    BY <1>1, <1>3, <1>4, <2>1, LaterInv
  <2>4. \A k \in Node : NodeInv(node'[k])
    BY <1>3, <2>2, <2>3
  <2> QED
    BY <2>4, SameMsgs DEF Ready, AllInv
<1>7. ASSUME NEW after \in {node, ran}, NEW g \in FreshGroups(n),
             node' = [after EXCEPT ![n] = TimerRecover(n, after[n], g)]
      PROVE  AllInv'
  <2>1. P(after)
    BY <1>2, <1>3
  <2>2. NodeInv(TimerRecover(n, after[n], g))
    BY <2>1, TimerRecoverInv
  <2>3. \A k \in Node : NodeInv(node'[k])
    BY <1>7, <2>1, <2>2
  <2> QED
    BY <2>3, SameMsgs DEF Ready, AllInv
<1> QED
  BY <1>5, <1>6, <1>7

LEMMA ReadyDoneInv ==
    ASSUME Inv, NEW n \in Node, ReadyDone(n)
    PROVE  AllInv'
<1> DEFINE r == node[n]
<1>1. r \in NodeRec /\ NodeInv(r) /\ r.timer.pc = "ready" /\ TimerIdle.pc = "idle"
  BY NodeFacts DEF ReadyDone, TimerIdle
<1>2. /\ NodeInv([r EXCEPT !.timer = TimerIdle])
      /\ NodeInv([r EXCEPT !.state = Normal, !.coordinatorProxy = None,
                           !.generation = r.timer.stamp, !.checkTask = "scheduled",
                           !.timer = TimerIdle])
  BY <1>1 DEF NodeInv, Named, Startup, NodeRec
<1>3. \A k \in Node : NodeInv(node'[k])
  BY <1>2, SetInv DEF ReadyDone
<1> QED
  BY <1>3, SameMsgs DEF ReadyDone, AllInv

LEMMA OnInvitationInv ==
    ASSUME Inv, NEW n \in Node, NEW msg \in msgs, OnInvitation(n, msg)
    PROVE  AllInv'
<1> DEFINE r == node[n]
           joining == [r EXCEPT !.state = InElection, !.mergeTask = FALSE, !.mergeSet = {}]
           h == [pc |-> "wait", j |-> msg.j, g |-> msg.g, max |-> 0, forward |-> {}]
<1>1. r \in NodeRec /\ NodeInv(r)
  BY NodeFacts
<1>2. msg.j \in Node /\ msg.g \in Group /\ msg.g[1] = msg.j
  BY DEF Inv, TypeOK, MsgsNamed, Message, OnInvitation
<1>3. joining \in NodeRec /\ NodeInv(joining)
  <2>1. joining \in NodeRec /\ joining.state # Normal
    BY <1>1 DEF NodeRec, States, InElection, Normal
  <2> QED
    BY <1>1, <2>1, FrameInv DEF NodeRec
<1> HIDE DEF joining
<1>4. NodeInv([joining EXCEPT !.invitations = @ \cup {h}])
  <2>1. h.g[1] = h.j
    BY <1>2
  <2> HIDE DEF h
  <2> QED
    BY <1>3, <2>1 DEF NodeInv, Named, Startup, NodeRec
<1>5. NodeInv(Join(n, joining, msg.j, msg.g))
  BY <1>2, <1>3, JoinInv
<1> HIDE DEF h
<1>6. \/ UNCHANGED node
      \/ Set(n, Join(n, joining, msg.j, msg.g))
      \/ Set(n, [joining EXCEPT !.invitations = @ \cup {h}])
  BY Zenon DEF OnInvitation, joining, h
<1>7. \A k \in Node : NodeInv(node'[k])
  BY <1>4, <1>5, <1>6, SetInv DEF Inv
<1> QED
  BY <1>7, SameMsgs DEF OnInvitation, AllInv

(* A dispatch thread that ends, and one that goes on, keep the names. *)
LEMMA HandlerGoneInv ==
    ASSUME Inv, NEW n \in Node, NEW h \in node[n].invitations
    PROVE  /\ [node[n] EXCEPT !.invitations = @ \ {h}] \in NodeRec
           /\ NodeInv([node[n] EXCEPT !.invitations = @ \ {h}])
           /\ h \in Handler /\ h.j \in Node /\ h.g \in Group /\ h.g[1] = h.j
<1>1. node[n] \in NodeRec /\ NodeInv(node[n])
  BY NodeFacts
<1>2. [node[n] EXCEPT !.invitations = @ \ {h}] \in NodeRec
  BY <1>1, HandlerGone
<1>3. h \in Handler
  BY <1>1 DEF NodeRec
<1>4. h.j \in Node /\ h.g \in Group /\ h.g[1] = h.j
  BY <1>1, <1>3 DEF Handler, NodeInv, Named
<1>5. NodeInv([node[n] EXCEPT !.invitations = @ \ {h}])
  BY <1>1, FrameInv DEF NodeRec
<1> QED
  BY <1>2, <1>3, <1>4, <1>5

LEMMA InvitationResumeInv ==
    ASSUME Inv, NEW n \in Node, NEW h \in node[n].invitations, InvitationResume(n, h)
    PROVE  AllInv'
<1> DEFINE r == [node[n] EXCEPT !.invitations = @ \ {h}]
<1>1. r \in NodeRec /\ NodeInv(r) /\ NodeInv(Join(n, r, h.j, h.g))
  BY HandlerGoneInv, JoinInv
<1> HIDE DEF r
<1>2. Set(n, r) \/ Set(n, Join(n, r, h.j, h.g))
  BY DEF InvitationResume, r
<1> QED
  BY <1>1, <1>2, SetInv, SameMsgs DEF InvitationResume, AllInv

LEMMA InvitationForwardInv ==
    ASSUME Inv, NEW n \in Node, NEW h \in node[n].invitations, InvitationForward(n, h)
    PROVE  AllInv'
<1> DEFINE r == [node[n] EXCEPT !.invitations = @ \ {h}]
           k == [h EXCEPT !.pc = "accept"]
<1>1. r \in NodeRec /\ NodeInv(r) /\ h \in Handler /\ h.g[1] = h.j
  BY HandlerGoneInv
<1>2. k.g[1] = k.j
  BY <1>1 DEF Handler
<1> HIDE DEF r, k
<1>3. NodeInv([r EXCEPT !.state = Reorganization, !.timeoutTask = TRUE,
                        !.invitations = @ \cup {k}])
  BY <1>1, <1>2 DEF NodeInv, Named, Startup, NodeRec, Reorganization, Normal
<1>4. \/ Set(n, r)
      \/ Set(n, [r EXCEPT !.state = Reorganization, !.timeoutTask = TRUE,
                          !.invitations = @ \cup {k}])
  BY Zenon DEF InvitationForward, r, k
<1>5. MsgsNamed'
  BY <1>1 DEF InvitationForward, Inv, MsgsNamed, Invitation
<1> QED
  BY <1>1, <1>3, <1>4, <1>5, SetInv DEF AllInv

LEMMA InvitationAcceptInv ==
    ASSUME Inv, NEW n \in Node, NEW h \in node[n].invitations, InvitationAccept(n, h)
    PROVE  AllInv'
<1> DEFINE r == [node[n] EXCEPT !.invitations = @ \ {h}]
           a == [type |-> "accept", to |-> h.j, j |-> n, g |-> h.g, llu |-> llu[n],
                 max |-> h.max]
<1>1. r \in NodeRec /\ NodeInv(r) /\ a.type # "invitation"
  BY HandlerGoneInv
<1> HIDE DEF r, a
<1>2. \/ Set(n, r) /\ msgs' = msgs \cup {a}
      \/ (\E g \in FreshGroups(n) : Set(n, ThreadRecover(n, r, g))) /\ UNCHANGED msgs
  BY Zenon DEF InvitationAccept, r, a
<1>3. MsgsNamed'
  BY <1>1, <1>2 DEF Inv, MsgsNamed
<1> QED
  BY <1>1, <1>2, <1>3, ThreadRecoverInv, SetInv DEF AllInv

LEMMA OnAcceptInv ==
    ASSUME Inv, NEW n \in Node, NEW msg \in msgs, OnAccept(n, msg)
    PROVE  AllInv'
<1> DEFINE r == node[n]
           larger == Max({r.max, msg.max})
<1>1. r \in NodeRec /\ NodeInv(r) /\ r.max \in Nat
  BY NodeFacts DEF NodeRec
<1>2. msg.max \in Nat
  BY DEF Inv, TypeOK, Message, OnAccept
<1>3. larger \in Nat /\ larger >= r.max
  BY <1>1, <1>2, MaxOfTwo
<1> HIDE DEF larger
<1>4. \A up : NodeInv([r EXCEPT !.up = up, !.max = larger])
  BY <1>1, <1>3, NType DEF NodeInv, Named, Startup, NodeRec
<1>5. UNCHANGED node \/ \E up : Set(n, [r EXCEPT !.up = up, !.max = larger])
  BY DEF OnAccept, larger
<1>6. \A k \in Node : NodeInv(node'[k])
  BY <1>4, <1>5, SetInv DEF Inv
<1> QED
  BY <1>6, SameMsgs DEF OnAccept, AllInv

LEMMA TimeoutInv ==
    ASSUME Inv, NEW n \in Node, Timeout(n) \/ TimeoutCall(n) \/ TimeoutFailed(n)
    PROVE  AllInv'
<1> DEFINE r == node[n]
           t == [TimerIdle EXCEPT !.pc = "timeoutCall", !.j = r.coord, !.g = r.group]
           u == [r.timer EXCEPT !.pc = "timeoutFailed"]
<1>1. r \in NodeRec /\ r.timer \in Timer /\ NodeInv(r) /\ TimerIdle.pc = "idle"
  BY NodeFacts DEF TimerIdle
<1>2. t.pc = "timeoutCall" /\ u.pc = "timeoutFailed"
  BY <1>1 DEF TimerIdle, Timer
<1>3. \/ \E s \in {t, u, TimerIdle} : Set(n, [r EXCEPT !.timer = s])
      \/ \E g \in FreshGroups(n) : Set(n, TimerRecover(n, r, g))
  <2>1. [r EXCEPT !.timer.pc = "timeoutFailed"] = [r EXCEPT !.timer = u]
    BY <1>1 DEF NodeRec
  <2>2. CASE Timeout(n)
    BY <2>2 DEF Timeout
  <2>3. CASE TimeoutCall(n)
    BY <2>1, <2>3 DEF TimeoutCall
  <2>4. CASE TimeoutFailed(n)
    BY <2>4 DEF TimeoutFailed
  <2> QED
    BY <2>2, <2>3, <2>4
<1> HIDE DEF t, u
<1>4. \A s \in {t, u, TimerIdle} : NodeInv([r EXCEPT !.timer = s])
  BY <1>1, <1>2, QuietInv DEF NodeRec
<1>5. \A k \in Node : NodeInv(node'[k])
  BY <1>1, <1>3, <1>4, TimerRecoverInv, SetInv
<1>6. UNCHANGED msgs
  BY DEF Timeout, TimeoutCall, TimeoutFailed
<1> QED
  BY <1>5, <1>6, SameMsgs DEF AllInv

LEMMA RecoverResumeInv ==
    ASSUME Inv, NEW n \in Node, RecoverResume(n)
    PROVE  AllInv'
<1> DEFINE r == node[n]
           x == [r EXCEPT !.timer = TimerIdle]
           y == [r EXCEPT !.recovering = @ - 1]
<1>1. r \in NodeRec /\ NodeInv(r) /\ TimerIdle.pc = "idle"
  BY NodeFacts DEF TimerIdle
<1>2. x \in NodeRec /\ NodeInv(x)
  BY <1>1, TimerIdleType, TimerStepType, QuietInv DEF NodeRec
<1>3. ASSUME r.recovering > 0
      PROVE  y \in NodeRec /\ NodeInv(y)
  <2>1. y \in NodeRec
    BY <1>1, <1>3 DEF NodeRec
  <2>2. NodeInv(y)
    BY <1>1, FrameInv DEF NodeRec
  <2> QED
    BY <2>1, <2>2
<1> HIDE DEF x, y
<1>4. \E z \in {x, y} :
        /\ z = y => r.recovering > 0 \/ x = y
        /\ Set(n, z) \/ \E g \in FreshGroups(n) : Set(n, RecoverEnd(n, z, g))
  BY DEF RecoverResume, x, y
<1>5. \A k \in Node : NodeInv(node'[k])
  BY <1>2, <1>3, <1>4, FreshGroup, RecoverEndInv, SetInv
<1> QED
  BY <1>5, SameMsgs DEF RecoverResume, AllInv

LEMMA ClientInv ==
    ASSUME Inv, NEW n \in Node, ClientStep(n)
    PROVE  AllInv'
<1> DEFINE r == node[n]
<1>1. r \in NodeRec /\ NodeInv(r)
  BY NodeFacts
<1>2. /\ \A k : NodeInv([r EXCEPT !.updateCounter = k])
      /\ \A k : NodeInv([r EXCEPT !.lostMajority = k])
      /\ [r EXCEPT !.lostMajority = FALSE] \in NodeRec
  BY <1>1, FrameInv DEF NodeRec
<1>3. CASE StartUpdate(n) \/ FinishUpdate(n)
  BY <1>2, <1>3, SetInv, SameMsgs DEF StartUpdate, FinishUpdate, AllInv
<1>4. CASE Evict(n)
  BY <1>4, SameMsgs DEF Evict, Inv, AllInv
<1>5. CASE ObserversCheck(n)
  BY <1>2, <1>5, SetInv, SameMsgs DEF ObserversCheck, AllInv
<1>6. CASE LostMajority(n)
  <2> DEFINE q == [r EXCEPT !.lostMajority = FALSE]
  <2>1. q \in NodeRec /\ NodeInv(q)
    BY <1>2
  <2> HIDE DEF q
  <2>2. Set(n, q) \/ \E g \in FreshGroups(n) : Set(n, ThreadRecover(n, q, g))
    BY <1>6 DEF LostMajority, q
  <2> QED
    BY <1>6, <2>1, <2>2, ThreadRecoverInv, SetInv, SameMsgs DEF LostMajority, AllInv
<1>7. CASE GenerationRecovery(n)
  BY <1>1, <1>7, ThreadRecoverInv, SetInv, SameMsgs DEF GenerationRecovery, AllInv
<1> QED
  BY <1>3, <1>4, <1>5, <1>6, <1>7 DEF ClientStep

LEMMA StartedInv ==
    ASSUME NEW n \in Node, NEW g \in Group, g[1] = n
    PROVE  NodeInv(Started(n, g))
BY DEF Started, NodeInv, Named, Startup, TimerIdle, Inactive, Normal

LEMMA DestroyInv ==
    ASSUME Inv, NEW n \in Node, Destroy(n)
    PROVE  AllInv'
<1> DEFINE r == node[n]
           q == [r EXCEPT !.destroyed = TRUE, !.timeoutTask = FALSE, !.mergeTask = FALSE,
                          !.mergeSet = IF r.timer.pc = "merge" THEN @ ELSE {},
                          !.checkTask = "null"]
<1>1. r \in NodeRec /\ NodeInv(r)
  BY NodeFacts
<1>2. NodeInv(q)
  BY <1>1, FrameInv, ZenonT(60) DEF NodeRec
<1> HIDE DEF q
<1>3. Set(n, q) /\ UNCHANGED msgs
  BY Zenon DEF Destroy, q
<1> QED
  BY <1>2, <1>3, SetInv, SameMsgs DEF AllInv

LEMMA CrashInv ==
    ASSUME Inv, NEW n \in Node, Crash(n)
    PROVE  AllInv'
BY FreshGroup, StartedInv, SetInv, SameMsgs DEF Crash, AllInv

-----------------------------------------------------------------------------
LEMMA InitInv == Init => Inv
<1> SUFFICES ASSUME Init PROVE Inv
  OBVIOUS
<1>1. \A n \in Node : <<n, 1>> \in Group
  BY BoundAssumption DEF Group
<1>2. \A n \in Node : NodeInv(Started(n, <<n, 1>>))
  BY <1>1, StartedInv
<1> QED
  BY <1>2, InitType DEF Init, Inv, MsgsNamed

LEMMA NextInv == Inv /\ [Next]_vars => Inv'
<1> SUFFICES ASSUME Inv, [Next]_vars PROVE Inv'
  OBVIOUS
<1>1. TypeOK'
  BY NextType DEF Inv
<1>2. ASSUME NEW n \in Node, TimerStep(n) PROVE AllInv'
  BY <1>2, CheckInv, CheckCallInv, CheckDoneInv, MergeFireInv, MergeInv, MergeResumeInv,
     MergeContinueInv, SyncInv, InitMasterInv, InitObserverInv, InitDoneInv, ReadyInv,
     ReadyDoneInv, TimeoutInv DEF TimerStep
<1>3. ASSUME NEW n \in Node, InvitationStep(n) PROVE AllInv'
  BY <1>3, OnInvitationInv, OnAcceptInv, InvitationResumeInv, InvitationForwardInv,
     InvitationAcceptInv DEF InvitationStep
<1>4. ASSUME NEW n \in Node, RecoverResume(n) \/ ClientStep(n) \/ Destroy(n) \/ Crash(n)
      PROVE  AllInv'
  BY <1>4, RecoverResumeInv, ClientInv, DestroyInv, CrashInv
<1>5. ASSUME NEW m \in msgs, Lose(m) PROVE AllInv'
  BY <1>5, SameMsgs DEF Lose, Inv, AllInv
<1>6. ASSUME UNCHANGED vars PROVE AllInv'
  <2>1. node' = node /\ msgs' = msgs
    BY <1>6 DEF vars
  <2> QED
    BY <2>1, SameMsgs DEF Inv, AllInv
<1>7. AllInv'
  <2>1. CASE Next
    BY <1>2, <1>3, <1>4, <1>5, <2>1, Zenon DEF Next
  <2> QED
    BY <1>6, <2>1
<1> QED
  BY <1>1, <1>7 DEF Inv, AllInv

LEMMA InvAlways == Spec => []Inv
BY InitInv, NextInv, PTL DEF Spec

(* A node, a thread in invitation() and an invitation on its way name a    *)
(* group by its coordinator, for every number of nodes and every failure:  *)
(* the branch of ready() for "the real coordinator" cannot be taken.       *)
THEOREM GroupsNamed == Spec => []GroupNamesCoordinator
<1>1. Inv => GroupNamesCoordinator
  BY DEF Inv, NodeInv, Named, MsgsNamed, GroupNamesCoordinator
<1> QED
  BY <1>1, InvAlways, PTL

(* No node serves before all nodes have been in one group, for every       *)
(* number of nodes and whatever fails or crashes: mergeContinue() tests    *)
(* it, and ready() passes it on.                                           *)
THEOREM StartupIsFull == Spec => []FullStartup
<1>1. Inv => FullStartup
  BY DEF Inv, NodeInv, Startup, FullStartup, N
<1> QED
  BY <1>1, InvAlways, PTL

-----------------------------------------------------------------------------
(* A node keeps looking for other coordinators, and a destroyed one does   *)
(* not begin to serve.  Kept says both of a step that makes r of q.        *)
Kept(n, r, q) ==
    /\ Looks(n, r) => Looks(n, q)
    /\ r.destroyed /\ q.destroyed /\ r.state # Normal => q.state # Normal
AllKept == \A n \in Node : Kept(n, node[n], node'[n])

(* Nothing that the two are about has changed. *)
SameLook(r, q) ==
    /\ q.coord = r.coord /\ q.state = r.state /\ q.destroyed = r.destroyed /\ q.checkTask = r.checkTask
    /\ q.mergeTask = r.mergeTask /\ q.mergeContinueTask = r.mergeContinueTask /\ q.recovering = r.recovering
    /\ q.invitations = r.invitations
    /\ r.timer.pc \in {"merge", "recover"} => q.timer.pc \in {"merge", "recover"}

LEMMA SameLookKept ==
    ASSUME NEW n, NEW r, NEW q, SameLook(r, q)
    PROVE  Kept(n, r, q)
BY DEF Kept, SameLook, Looks, Busy

LEMMA SetKept ==
    ASSUME TypeOK, NEW n \in Node, NEW q, Set(n, q), Kept(n, node[n], q)
    PROVE  AllKept
<1>1. \A m \in Node : m # n => node'[m] = node[m]
  BY DEF Set, TypeOK
<1>2. node'[n] = q
  BY DEF Set, TypeOK
<1>3. \A m \in Node : Kept(m, node[m], node[m])
  BY DEF Kept
<1> QED
  BY <1>1, <1>2, <1>3 DEF AllKept

LEMMA UnchangedKept ==
    ASSUME node' = node
    PROVE  AllKept
BY DEF AllKept, Kept

(* recovery() leaves an election alone; otherwise it schedules a check or  *)
(* waits.                                                                  *)
LEMMA RecoverLooks ==
    ASSUME NEW n \in Node, NEW r \in NodeRec, NEW g \in Group
    PROVE  LET q == Recover(n, r, g) IN
           /\ q \in NodeRec /\ q.destroyed = r.destroyed /\ q.state \in {r.state, Inactive}
           /\ q.recovering = r.recovering
           /\ ~RecoverWaits(r) => Looks(n, q)
<1> DEFINE i == [r EXCEPT !.state = Inactive]
           k == RecoverEnd(n, i, g)
           q == Recover(n, r, g)
<1>1. i \in NodeRec /\ i.state = Inactive /\ i.destroyed = r.destroyed /\ i.recovering = r.recovering /\ r.recovering \in Nat
  BY DEF NodeRec, States
<1>2. q \in NodeRec
  BY RecoverType
<1> HIDE DEF i
<1>3. k.state = Inactive /\ k.destroyed = r.destroyed /\ k.recovering = r.recovering /\ k.checkTask # "null"
  BY <1>1 DEF RecoverEnd, NodeRec
<1> HIDE DEF k
<1>4. CASE RecoverIgnored(r)
  <2>1. q = r
    BY <1>4 DEF Recover
  <2>2. Looks(n, r)
    BY <1>4 DEF RecoverIgnored, Looks, Busy
  <2> QED
    BY <1>2, <2>1, <2>2
<1>5. CASE ~RecoverIgnored(r) /\ (RecoverWaits(r) \/ r.destroyed)
  <2>1. q = i
    BY <1>5 DEF Recover, i
  <2>2. ~RecoverWaits(r) => Looks(n, i)
    BY <1>1, <1>5 DEF Looks
  <2> QED
    BY <1>1, <1>2, <2>1, <2>2
<1>6. CASE ~RecoverIgnored(r) /\ ~(RecoverWaits(r) \/ r.destroyed)
  <2>1. q = k
    BY <1>6 DEF Recover, i, k
  <2>2. Looks(n, k)
    BY <1>3 DEF Looks
  <2> QED
    BY <1>2, <1>3, <2>1, <2>2
<1> QED
  BY <1>4, <1>5, <1>6

LEMMA TimerRecoverLooks ==
    ASSUME NEW n \in Node, NEW r \in NodeRec, NEW g \in FreshGroups(n)
    PROVE  LET q == TimerRecover(n, r, g) IN
           Looks(n, q) /\ q.destroyed = r.destroyed /\ q.state \in {r.state, Inactive}
<1> DEFINE q == Recover(n, r, g)
           t == IF RecoverWaits(r) THEN [TimerIdle EXCEPT !.pc = "recover"] ELSE TimerIdle
           k == [q EXCEPT !.timer = t]
<1>1. /\ q \in NodeRec /\ q.destroyed = r.destroyed /\ q.state \in {r.state, Inactive}
      /\ ~RecoverWaits(r) => Looks(n, q)
  BY FreshGroup, RecoverLooks
<1>2. t.pc = IF RecoverWaits(r) THEN "recover" ELSE "idle"
  BY DEF TimerIdle
<1> HIDE DEF q, t
<1>3. /\ k.timer = t /\ k.destroyed = q.destroyed /\ k.state = q.state /\ k.coord = q.coord
      /\ k.checkTask = q.checkTask /\ k.mergeTask = q.mergeTask /\ k.mergeContinueTask = q.mergeContinueTask
      /\ k.recovering = q.recovering /\ k.invitations = q.invitations
  BY <1>1 DEF NodeRec
<1>4. k = TimerRecover(n, r, g)
  BY DEF TimerRecover, q, t
<1> HIDE DEF k
<1>5. RecoverWaits(r) => Looks(n, k)
  BY <1>2, <1>3 DEF Looks
<1>6. ~RecoverWaits(r) => Looks(n, k)
  <2> SUFFICES ASSUME ~RecoverWaits(r) PROVE Looks(n, k)
    OBVIOUS
  <2>1. q.timer.pc \in {"merge", "recover"} /\ q.coord = n /\ ~Busy(q) /\ ~q.destroyed => q.checkTask # "null"
    <3> SUFFICES ASSUME ~Busy(q), ~q.destroyed PROVE q.checkTask # "null"
      OBVIOUS
    <3>1. ~r.destroyed /\ r.state # InElection
      <4>1. r.state = InElection => q = r
        BY DEF q, Recover, RecoverIgnored
      <4> QED
        BY <1>1, <4>1 DEF Busy
    <3>2. q = RecoverEnd(n, [r EXCEPT !.state = Inactive], g)
      BY <3>1 DEF q, Recover, RecoverIgnored
    <3>3. [r EXCEPT !.state = Inactive] \in NodeRec
      BY DEF NodeRec, States
    <3> QED
      BY <3>2, <3>3 DEF RecoverEnd, NodeRec
  <2> QED
    BY <1>1, <1>3, <2>1 DEF Looks, Busy
<1> QED
  BY <1>1, <1>3, <1>4, <1>5, <1>6

LEMMA ThreadRecoverLooks ==
    ASSUME NEW n \in Node, NEW r \in NodeRec, NEW g \in FreshGroups(n)
    PROVE  LET q == ThreadRecover(n, r, g) IN
           Looks(n, q) /\ q.destroyed = r.destroyed /\ q.state \in {r.state, Inactive}
<1> DEFINE q == Recover(n, r, g)
           k == [q EXCEPT !.recovering = IF RecoverWaits(r) THEN @ + 1 ELSE @]
<1>1. /\ q \in NodeRec /\ q.destroyed = r.destroyed /\ q.state \in {r.state, Inactive} /\ q.recovering \in Nat
      /\ ~RecoverWaits(r) => Looks(n, q)
  BY FreshGroup, RecoverLooks DEF NodeRec
<1> HIDE DEF q
<1>2. /\ k.destroyed = q.destroyed /\ k.state = q.state /\ k.coord = q.coord /\ k.timer = q.timer
      /\ k.checkTask = q.checkTask /\ k.mergeTask = q.mergeTask /\ k.mergeContinueTask = q.mergeContinueTask
      /\ k.recovering = (IF RecoverWaits(r) THEN q.recovering + 1 ELSE q.recovering) /\ k.invitations = q.invitations
  BY <1>1 DEF NodeRec
<1>3. k = ThreadRecover(n, r, g)
  BY DEF ThreadRecover, q
<1> HIDE DEF k
<1>4. RecoverWaits(r) => k.recovering > 0
  BY <1>1, <1>2
<1>5. Looks(n, k)
  BY <1>1, <1>2, <1>4 DEF Looks, Busy
<1> QED
  BY <1>1, <1>2, <1>3, <1>5

(* A step that calls recovery(). *)
LEMMA RecoveringKept ==
    ASSUME TypeOK, NEW n \in Node, NEW r \in NodeRec, NEW g \in FreshGroups(n),
           Set(n, TimerRecover(n, r, g)) \/ Set(n, ThreadRecover(n, r, g)),
           r.destroyed = node[n].destroyed, r.state = node[n].state \/ r.state # Normal
    PROVE  AllKept
<1>1. Inactive # Normal
  BY DEF Inactive, Normal
<1>2. Kept(n, node[n], TimerRecover(n, r, g))
  BY <1>1, TimerRecoverLooks DEF Kept
<1>3. Kept(n, node[n], ThreadRecover(n, r, g))
  BY <1>1, ThreadRecoverLooks DEF Kept
<1> QED
  BY <1>2, <1>3, SetKept

LEMMA AbandonKept ==
    ASSUME TypeOK, NEW n \in Node, Abandon(n)
    PROVE  AllKept
BY NodeType, RecoveringKept DEF Abandon

(* A step of the timer thread that is neither in merge() nor in recovery(). *)
LEMMA TimerKept ==
    ASSUME TypeOK, NEW n \in Node, NEW t, Set(n, [node[n] EXCEPT !.timer = t]),
           node[n].timer.pc \notin {"merge", "recover"}
    PROVE  AllKept
<1> DEFINE q == [node[n] EXCEPT !.timer = t]
<1>1. node[n] \in NodeRec
  BY NodeType
<1>2. SameLook(node[n], q)
  BY <1>1 DEF SameLook, NodeRec
<1> HIDE DEF q
<1>3. Set(n, q)
  BY DEF q
<1> QED
  BY <1>2, <1>3, SameLookKept, SetKept

(* A node that is destroyed, or in an election, or has a check or a merge  *)
(* on its timer, has nothing to keep; it must not begin to serve.          *)
LEMMA SettledKept ==
    ASSUME TypeOK, NEW n \in Node, NEW q, Set(n, q),
           \/ q.destroyed \/ Busy(q) \/ q.checkTask # "null" \/ q.mergeTask \/ q.mergeContinueTask
           \/ \E h \in q.invitations : h.pc \in {"wait", "forward"},
           q.state = Normal => node[n].state = Normal \/ ~q.destroyed
    PROVE  AllKept
<1>1. Kept(n, node[n], q)
  BY DEF Kept, Looks
<1> QED
  BY <1>1, SetKept

LEMMA CheckKept ==
    ASSUME TypeOK, NEW n \in Node, Check(n)
    PROVE  AllKept
<1> DEFINE r == node[n]
           left == {m \in r.up : m.id \notin reaped[n]}
           q == [r EXCEPT !.up = left, !.checkTask = "null"]
           s == [r EXCEPT !.up = left, !.checkTask = "running",
                          !.timer.pc = "checkCall", !.timer.todo = Node \ {n}]
<1>1. r \in NodeRec /\ r.up \in Members
  BY NodeType DEF NodeRec
<1>2. left \in Members
  BY <1>1, FS_Subset DEF Members
<1> HIDE DEF left
<1>3. q \in NodeRec /\ q.state = r.state /\ q.destroyed = r.destroyed
  BY <1>1, <1>2 DEF NodeRec, CheckTask
<1>4. s.checkTask = "running" /\ s.state = r.state
  BY <1>1 DEF NodeRec
<1> HIDE DEF q, s
<1>5. (\E g \in FreshGroups(n) : Set(n, TimerRecover(n, q, g))) \/ Set(n, s)
  BY DEF Check, left, q, s
<1> QED
  BY <1>3, <1>4, <1>5, RecoveringKept, SettledKept

LEMMA CheckCallKept ==
    ASSUME TypeOK, NEW n \in Node, NEW m \in Node, CheckCall(n, m)
    PROVE  AllKept
<1> DEFINE r == node[n]
           t == [r.timer EXCEPT !.todo = @ \ {m}]
           u == [t EXCEPT !.done = @ \cup {m}]
<1>1. r \in NodeRec /\ r.timer.pc = "checkCall"
  BY NodeType DEF CheckCall
<1>2. Set(n, [r EXCEPT !.timer = t]) \/ Set(n, [r EXCEPT !.timer = u])
  BY <1>1, ZenonT(60) DEF CheckCall, NodeRec
<1> HIDE DEF t, u
<1> QED
  BY <1>1, <1>2, TimerKept

(* check() ends: it is on the timer again, or a merge is, unless the node  *)
(* was destroyed, is in an election or has another coordinator by then.    *)
LEMMA CheckDoneKept ==
    ASSUME TypeOK, NEW n \in Node, CheckDone(n)
    PROVE  AllKept
<1> DEFINE r == node[n]
           idle == [r EXCEPT !.timer = TimerIdle]
           a == [idle EXCEPT !.checkTask = "null"]
           b == [idle EXCEPT !.checkTask = "scheduled"]
           c == [idle EXCEPT !.checkTask = "null", !.mergeTask = TRUE, !.mergeSet = r.timer.done]
<1>1. r \in NodeRec
  BY NodeType
<1>2. a.state = r.state /\ a.destroyed = r.destroyed /\ a.coord = r.coord
  BY <1>1 DEF NodeRec
<1>3. b.state = r.state /\ b.checkTask = "scheduled"
  BY <1>1 DEF NodeRec
<1>4. c.state = r.state /\ c.mergeTask
  BY <1>1 DEF NodeRec
<1> HIDE DEF a, b, c
<1>5. \/ (r.destroyed \/ Busy(r) \/ r.coord # n) /\ Set(n, a)
      \/ Set(n, b)
      \/ Set(n, c)
  BY Zenon DEF CheckDone, a, b, c
<1>6. r.destroyed \/ Busy(r) \/ r.coord # n => Kept(n, r, a)
  BY <1>2 DEF Kept, Looks, Busy
<1> QED
  BY <1>3, <1>4, <1>5, <1>6, SetKept, SettledKept

LEMMA MergeFireKept ==
    ASSUME TypeOK, NEW n \in Node, MergeFire(n)
    PROVE  AllKept
<1> DEFINE r == node[n]
           t == [r.timer EXCEPT !.pc = "merge"]
<1>1. r \in NodeRec /\ r.timer.pc = "idle"
  BY NodeType DEF MergeFire
<1>2. Set(n, [r EXCEPT !.timer = t])
  BY <1>1 DEF MergeFire, NodeRec
<1> HIDE DEF t
<1> QED
  BY <1>1, <1>2, TimerKept

LEMMA MergeOpenKept ==
    ASSUME TypeOK, NEW n \in Node, NEW r \in NodeRec, NEW g, MergeOpen(n, r, g),
           r.state = Normal => node[n].state = Normal
    PROVE  AllKept
<1> DEFINE q == [r EXCEPT !.group = g, !.coord = n, !.up = {}, !.mergeSet = {},
                          !.mergeContinueTask = TRUE, !.timer = TimerIdle]
<1>1. q.mergeContinueTask /\ q.state = r.state
  BY DEF NodeRec
<1>2. Set(n, q)
  BY DEF MergeOpen
<1> HIDE DEF q
<1> QED
  BY <1>1, <1>2, SettledKept

(* merge() is in an election when it ends; one of a destroyed node too. *)
LEMMA MergeKept ==
    ASSUME TypeOK, NEW n \in Node, Merge(n)
    PROVE  AllKept
<1> DEFINE r == [node[n] EXCEPT !.mergeTask = FALSE]
           a == [r EXCEPT !.state = IF Busy(r) THEN @ ELSE InElection,
                          !.timer = TimerIdle, !.mergeSet = {}]
           b == [r EXCEPT !.state = InElection, !.timer.pc = "mergeWait"]
           e == [r EXCEPT !.state = InElection]
<1>0. node[n] \in NodeRec
  BY NodeType
<1>1. r \in NodeRec
  BY <1>0 DEF NodeRec
<1> HIDE DEF r
<1>2. Busy(a) /\ a.state # Normal
  <2>1. a.state = IF Busy(r) THEN r.state ELSE InElection
    BY <1>1 DEF NodeRec
  <2> QED
    BY <2>1 DEF Busy, InElection, Reorganization, Normal
<1>3. Busy(b) /\ b.state # Normal
  BY <1>1 DEF NodeRec, Busy, InElection, Reorganization, Normal
<1>4. e \in NodeRec /\ e.state # Normal
  BY <1>1 DEF NodeRec, States, InElection, Normal
<1> HIDE DEF a, b, e
<1>5. Set(n, a) \/ Set(n, b) \/ \E g \in FreshGroups(n) : MergeOpen(n, e, g)
  BY Zenon DEF Merge, r, a, b, e
<1> QED
  BY <1>2, <1>3, <1>4, <1>5, MergeOpenKept, SettledKept

LEMMA MergeResumeKept ==
    ASSUME TypeOK, NEW n \in Node, MergeResume(n)
    PROVE  AllKept
<1> DEFINE r == node[n]
           a == [r EXCEPT !.timer = TimerIdle, !.mergeSet = {}]
<1>1. r \in NodeRec
  BY NodeType
<1>2. a.state = r.state /\ a.destroyed = r.destroyed
  BY <1>1 DEF NodeRec
<1> HIDE DEF a
<1>3. (r.destroyed /\ Set(n, a)) \/ \E g \in FreshGroups(n) : MergeOpen(n, r, g)
  BY DEF MergeResume, a
<1> QED
  BY <1>1, <1>2, <1>3, MergeOpenKept, SettledKept

LEMMA MergeContinueKept ==
    ASSUME TypeOK, NEW n \in Node, MergeContinue(n)
    PROVE  AllKept
<1> DEFINE r == [node[n] EXCEPT !.mergeContinueTask = FALSE, !.state = Reorganization]
           t == [TimerIdle EXCEPT !.pc = "sync", !.g = r.group, !.members = r.up]
           q == [r EXCEPT !.timer = t]
<1>0. node[n] \in NodeRec
  BY NodeType
<1>1. r \in NodeRec /\ r.state = Reorganization /\ r.destroyed = node[n].destroyed
  BY <1>0 DEF NodeRec, States
<1> HIDE DEF r, t
<1>2. q.state = Reorganization
  BY <1>1 DEF NodeRec
<1>3. (\E g \in FreshGroups(n) : Set(n, TimerRecover(n, r, g))) \/ Set(n, q)
  BY Zenon DEF MergeContinue, r, t
<1>4. Busy(q) /\ q.state # Normal /\ r.state # Normal
  BY <1>1, <1>2 DEF Busy, Reorganization, Normal
<1> HIDE DEF q
<1> QED
  BY <1>1, <1>3, <1>4, RecoveringKept, SettledKept

LEMMA SyncKept ==
    ASSUME TypeOK, NEW n \in Node, Sync(n)
    PROVE  AllKept
<1> DEFINE r == node[n]
           Go(x, s) == Set(n, [r EXCEPT !.max = x, !.timer.pc = "initMaster", !.timer.stamp = s])
<1>1. r \in NodeRec /\ r.timer.pc = "sync"
  BY NodeType DEF Sync
<1>2. Abandon(n) \/ \E x, s : Go(x, s)
  BY ZenonT(60) DEF Sync
<1>3. ASSUME NEW x, NEW s, Go(x, s)
      PROVE  AllKept
  <2> DEFINE q == [r EXCEPT !.max = x, !.timer.pc = "initMaster", !.timer.stamp = s]
  <2>1. SameLook(r, q)
    BY <1>1 DEF SameLook, NodeRec
  <2>2. Set(n, q)
    BY <1>3
  <2> HIDE DEF q
  <2> QED
    BY <2>1, <2>2, SameLookKept, SetKept
<1> QED
  BY <1>2, <1>3, AbandonKept

LEMMA InitMasterKept ==
    ASSUME TypeOK, NEW n \in Node, InitMaster(n)
    PROVE  AllKept
<1> DEFINE r == node[n]
           t == [r.timer EXCEPT !.pc = "init", !.todo = Ids(r.timer.members)]
<1>1. r \in NodeRec /\ r.timer.pc = "initMaster"
  BY NodeType DEF InitMaster
<1>2. [r EXCEPT !.timer.pc = "init", !.timer.todo = Ids(r.timer.members)] = [r EXCEPT !.timer = t]
  BY <1>1 DEF NodeRec
<1>3. Abandon(n) \/ Set(n, [r EXCEPT !.timer = t])
  BY <1>2, ZenonT(60) DEF InitMaster
<1> HIDE DEF t
<1> QED
  BY <1>1, <1>3, TimerKept, AbandonKept

LEMMA InitObserverKept ==
    ASSUME TypeOK, NEW n \in Node, NEW m \in Node, InitObserver(n, m)
    PROVE  AllKept
<1> DEFINE r == node[n]
           t == [r.timer EXCEPT !.todo = @ \ {m}]
           u == [t EXCEPT !.done = @ \cup {m}]
           called == [r EXCEPT !.timer.todo = @ \ {m}]
<1>1. r \in NodeRec /\ r.timer.pc = "init"
  BY NodeType DEF InitObserver
<1>2. called = [r EXCEPT !.timer = t]
  BY <1>1 DEF NodeRec
<1>3. [called EXCEPT !.timer.done = @ \cup {m}] = [r EXCEPT !.timer = u]
  BY <1>1, ZenonT(60) DEF NodeRec
<1>4. Set(n, called) \/ Set(n, [called EXCEPT !.timer.done = @ \cup {m}])
  BY ZenonT(60) DEF InitObserver
<1>5. Set(n, [r EXCEPT !.timer = t]) \/ Set(n, [r EXCEPT !.timer = u])
  BY <1>2, <1>3, <1>4
<1> HIDE DEF t, u, called
<1> QED
  BY <1>1, <1>5, TimerKept

LEMMA InitDoneKept ==
    ASSUME TypeOK, NEW n \in Node, InitDone(n)
    PROVE  AllKept
<1> DEFINE r == node[n]
           t == [r.timer EXCEPT !.pc = "ready", !.todo = Ids(r.timer.members), !.done = {}]
<1>1. r \in NodeRec /\ r.timer.pc = "init"
  BY NodeType DEF InitDone
<1>2. [r EXCEPT !.timer.pc = "ready", !.timer.todo = Ids(r.timer.members), !.timer.done = {}]
        = [r EXCEPT !.timer = t]
  BY <1>1 DEF NodeRec
<1>3. Abandon(n) \/ Set(n, [r EXCEPT !.timer = t])
  BY <1>2, ZenonT(60) DEF InitDone
<1> HIDE DEF t
<1> QED
  BY <1>1, <1>3, TimerKept, AbandonKept

(* ready() lets a node serve only if it is not destroyed, and schedules a  *)
(* check.                                                                  *)
LEMMA OnReadyKept ==
    ASSUME NEW m \in Node, NEW q \in NodeRec, NEW j, NEW g, NEW max, NEW generation
    PROVE  LET k == OnReady(q, j, g, max, generation) IN
           Kept(m, q, k) /\ k.destroyed = q.destroyed /\ k.timer = q.timer
<1> DEFINE x == Max({q.max, max})
           k == [q EXCEPT !.max = x, !.generation = generation, !.state = Normal,
                          !.coordinatorProxy = j,
                          !.checkTask = IF @ = "null" THEN "scheduled" ELSE @]
<1>1. CASE ReadyAccepted(q, j, g)
  <2> HIDE DEF x
  <2>1. k.destroyed = q.destroyed /\ k.timer = q.timer /\ k.checkTask # "null"
    BY DEF NodeRec
  <2>2. ~q.destroyed
    BY <1>1 DEF ReadyAccepted
  <2>3. OnReady(q, j, g, max, generation) = k
    BY <1>1, Zenon DEF OnReady, x
  <2> HIDE DEF k
  <2>4. Kept(m, q, k)
    BY <2>1, <2>2 DEF Kept, Looks
  <2> QED
    BY <2>1, <2>3, <2>4
<1>2. CASE ~ReadyAccepted(q, j, g)
  BY <1>2 DEF OnReady, Kept
<1> QED
  BY <1>1, <1>2

(* Both nodes change: the member that ready() is called on, and then the   *)
(* coordinator that goes on or gives up.                                   *)
LEMMA ReadyKept ==
    ASSUME TypeOK, NEW n \in Node, NEW m \in Node, Ready(n, m)
    PROVE  AllKept
<1> DEFINE r == node[n]
           ran == [node EXCEPT ![m] = OnReady(node[m], n, r.timer.g, r.max, r.timer.stamp)]
           P(f) == /\ f \in [Node -> NodeRec]
                   /\ \A k \in Node : Kept(k, node[k], f[k]) /\ f[k].destroyed = node[k].destroyed
                                      /\ f[k].timer = node[k].timer
<1>1. r \in NodeRec /\ r.max \in Nat /\ r.timer.pc = "ready" /\ r.timer \in Timer
  <2>1. r \in NodeRec /\ r.timer.pc = "ready"
    BY NodeType DEF Ready
  <2> QED
    BY <2>1 DEF NodeRec
<1>2. P(node)
  BY DEF TypeOK, Kept
<1>3. P(ran)
  <2>1. node[m] \in NodeRec /\ node[m].group \in Group
    BY <1>2 DEF NodeRec
  <2>2. OnReady(node[m], n, r.timer.g, r.max, r.timer.stamp) \in NodeRec
    <3>1. CASE r.timer.g \in Group
      BY <1>1, <1>2, <3>1, OnReadyType DEF Timer
    <3>2. CASE r.timer.g \notin Group
      BY <2>1, <3>2 DEF OnReady, ReadyAccepted
    <3> QED
      BY <3>1, <3>2
  <2> DEFINE q == OnReady(node[m], n, r.timer.g, r.max, r.timer.stamp)
  <2>3. Kept(m, node[m], q) /\ q.destroyed = node[m].destroyed /\ q.timer = node[m].timer
    BY <2>1, OnReadyKept
  <2> HIDE DEF q
  <2>4. \A k \in Node : ran[k] = IF k = m THEN q ELSE node[k]
    BY <1>2 DEF q
  <2>5. ran \in [Node -> NodeRec]
    BY <1>2, <2>2, SMTT(30)
  <2> HIDE DEF ran
  <2> QED
    BY <1>2, <2>3, <2>4, <2>5
<1>4. \/ node' = [ran EXCEPT ![n].timer.todo = @ \ {m}]
      \/ \E after \in {node, ran}, g \in FreshGroups(n) :
           node' = [after EXCEPT ![n] = TimerRecover(n, after[n], g)]
  BY DEF Ready
<1> HIDE DEF ran
<1>5. ASSUME NEW after, P(after), NEW q, Kept(n, after[n], q), node' = [after EXCEPT ![n] = q]
      PROVE  AllKept
  <2>1. Kept(n, node[n], q)
    BY <1>5 DEF Kept
  <2> QED
    BY <1>5, <2>1 DEF AllKept
<1>6. CASE node' = [ran EXCEPT ![n].timer.todo = @ \ {m}]
  <2> DEFINE t == [r.timer EXCEPT !.todo = @ \ {m}]
             q == [ran[n] EXCEPT !.timer = t]
  <2>1. ran[n] \in NodeRec /\ ran[n].timer = r.timer
    BY <1>3
  <2>2. node' = [ran EXCEPT ![n] = q]
    BY <1>3, <1>6, <2>1 DEF NodeRec
  <2> HIDE DEF t
  <2>3. SameLook(ran[n], q)
    BY <1>1, <2>1 DEF SameLook, NodeRec
  <2> HIDE DEF q
  <2>4. Kept(n, ran[n], q)
    BY <2>3, SameLookKept
  <2> QED
    BY <1>3, <1>5, <2>2, <2>4
<1>7. ASSUME NEW after \in {node, ran}, NEW g \in FreshGroups(n),
             node' = [after EXCEPT ![n] = TimerRecover(n, after[n], g)]
      PROVE  AllKept
  <2>1. P(after)
    BY <1>2, <1>3
  <2>2. after[n] \in NodeRec
    BY <2>1
  <2>3. Kept(n, after[n], TimerRecover(n, after[n], g))
    BY <2>2, TimerRecoverLooks DEF Kept, Inactive, Normal
  <2> QED
    BY <1>5, <1>7, <2>1, <2>3
<1> QED
  BY <1>4, <1>6, <1>7

LEMMA ReadyDoneKept ==
    ASSUME TypeOK, NEW n \in Node, ReadyDone(n)
    PROVE  AllKept
<1> DEFINE r == node[n]
           a == [r EXCEPT !.timer = TimerIdle]
           b == [r EXCEPT !.state = Normal, !.coordinatorProxy = None,
                          !.generation = r.timer.stamp, !.checkTask = "scheduled",
                          !.timer = TimerIdle]
<1>1. r \in NodeRec
  BY NodeType
<1>2. a.state = r.state /\ a.destroyed = r.destroyed
  BY <1>1 DEF NodeRec
<1>3. b.checkTask = "scheduled" /\ b.destroyed = r.destroyed
  BY <1>1 DEF NodeRec
<1> HIDE DEF a, b
<1>4. (r.destroyed /\ Set(n, a)) \/ (~r.destroyed /\ Set(n, b))
  BY Zenon DEF ReadyDone, a, b
<1> QED
  BY <1>2, <1>3, <1>4, SettledKept

(* An invitation takes the node into an election. *)
LEMMA JoinSettled ==
    ASSUME NEW n \in Node, NEW r \in NodeRec, NEW j, NEW g
    PROVE  LET q == Join(n, r, j, g) IN
           /\ q.state = r.state /\ q.destroyed = r.destroyed
           /\ \E h \in q.invitations : h.pc \in {"wait", "forward"}
<1> DEFINE h == [pc |-> "forward", j |-> j, g |-> g, max |-> r.max,
                 forward |-> IF r.coord = n THEN Ids(r.up) ELSE {}]
           q == [r EXCEPT !.coord = j, !.group = g, !.invitations = @ \cup {h}]
<1>1. h.pc = "forward"
  OBVIOUS
<1>2. q = Join(n, r, j, g)
  BY Zenon DEF Join
<1> HIDE DEF h
<1>3. q.state = r.state /\ q.destroyed = r.destroyed /\ h \in q.invitations
  BY DEF NodeRec
<1> HIDE DEF q
<1> QED
  BY <1>1, <1>2, <1>3

LEMMA OnInvitationKept ==
    ASSUME TypeOK, NEW n \in Node, NEW msg, OnInvitation(n, msg)
    PROVE  AllKept
<1> DEFINE r == node[n]
           joining == [r EXCEPT !.state = InElection, !.mergeTask = FALSE, !.mergeSet = {}]
           h == [pc |-> "wait", j |-> msg.j, g |-> msg.g, max |-> 0, forward |-> {}]
           a == Join(n, joining, msg.j, msg.g)
           b == [joining EXCEPT !.invitations = @ \cup {h}]
<1>1. r \in NodeRec
  BY NodeType
<1>2. joining \in NodeRec /\ joining.state = InElection
  BY <1>1 DEF NodeRec, States
<1> HIDE DEF joining, h
<1>3. a.state = InElection
  BY <1>2, JoinSettled
<1>4. b.state = InElection
  BY <1>2 DEF NodeRec
<1> HIDE DEF a, b
<1>5. UNCHANGED node \/ Set(n, a) \/ Set(n, b)
  BY Zenon DEF OnInvitation, joining, h, a, b
<1>6. InElection # Normal
  BY DEF InElection, Normal
<1> QED
  BY <1>3, <1>4, <1>5, <1>6, UnchangedKept, SettledKept DEF Busy

LEMMA InvitationResumeKept ==
    ASSUME TypeOK, NEW n \in Node, NEW h \in node[n].invitations, InvitationResume(n, h)
    PROVE  AllKept
<1> DEFINE r == [node[n] EXCEPT !.invitations = @ \ {h}]
<1>1. node[n] \in NodeRec /\ r \in NodeRec
  BY NodeType, HandlerGone
<1>2. r.state = node[n].state /\ r.destroyed = node[n].destroyed
  BY <1>1 DEF NodeRec
<1> HIDE DEF r
<1>3. (r.destroyed /\ Set(n, r)) \/ Set(n, Join(n, r, h.j, h.g))
  BY DEF InvitationResume, r
<1> DEFINE q == Join(n, r, h.j, h.g)
<1>4. q.state = r.state /\ \E k \in q.invitations : k.pc \in {"wait", "forward"}
  BY <1>1, JoinSettled
<1> HIDE DEF q
<1>5. CASE r.destroyed /\ Set(n, r)
  BY <1>2, <1>5, SettledKept
<1>6. CASE Set(n, q)
  BY <1>2, <1>4, <1>6, SettledKept
<1> QED
  BY <1>3, <1>5, <1>6 DEF q

LEMMA InvitationForwardKept ==
    ASSUME TypeOK, NEW n \in Node, NEW h \in node[n].invitations, InvitationForward(n, h)
    PROVE  AllKept
<1> DEFINE r == [node[n] EXCEPT !.invitations = @ \ {h}]
           k == [h EXCEPT !.pc = "accept"]
           q == [r EXCEPT !.state = Reorganization, !.timeoutTask = TRUE, !.invitations = @ \cup {k}]
<1>1. node[n] \in NodeRec /\ r \in NodeRec
  BY NodeType, HandlerGone
<1>2. r.state = node[n].state
  BY <1>1 DEF NodeRec
<1> HIDE DEF r, k
<1>3. q.state = Reorganization
  BY <1>1 DEF NodeRec
<1>4. (r.destroyed /\ Set(n, r)) \/ Set(n, q)
  BY Zenon DEF InvitationForward, r, k
<1>5. Reorganization # Normal
  BY DEF Reorganization, Normal
<1> HIDE DEF q
<1> QED
  BY <1>2, <1>3, <1>4, <1>5, SettledKept DEF Busy

LEMMA InvitationAcceptKept ==
    ASSUME TypeOK, NEW n \in Node, NEW h \in node[n].invitations, InvitationAccept(n, h)
    PROVE  AllKept
<1> DEFINE r == [node[n] EXCEPT !.invitations = @ \ {h}]
<1>1. node[n] \in NodeRec /\ r \in NodeRec /\ h.pc = "accept"
  BY NodeType, HandlerGone DEF InvitationAccept
<1>2. /\ r.state = node[n].state /\ r.destroyed = node[n].destroyed /\ r.coord = node[n].coord
      /\ r.checkTask = node[n].checkTask /\ r.mergeTask = node[n].mergeTask /\ r.timer = node[n].timer
      /\ r.mergeContinueTask = node[n].mergeContinueTask /\ r.recovering = node[n].recovering
      /\ r.invitations = node[n].invitations \ {h}
  BY <1>1 DEF NodeRec
<1> HIDE DEF r
<1>3. Set(n, r) \/ \E g \in FreshGroups(n) : Set(n, ThreadRecover(n, r, g))
  BY Zenon DEF InvitationAccept, r
<1>4. \A k \in node[n].invitations : k.pc \in {"wait", "forward"} => k \in r.invitations
  BY <1>1, <1>2
<1>5. Kept(n, node[n], r)
  BY <1>2, <1>4 DEF Kept, Looks, Busy
<1> QED
  BY <1>1, <1>2, <1>3, <1>5, SetKept, RecoveringKept

LEMMA OnAcceptKept ==
    ASSUME TypeOK, NEW n \in Node, NEW msg, OnAccept(n, msg)
    PROVE  AllKept
<1> DEFINE r == node[n]
<1>1. r \in NodeRec
  BY NodeType
<1>2. \A up, max : SameLook(r, [r EXCEPT !.up = up, !.max = max])
  BY <1>1 DEF SameLook, NodeRec
<1>3. UNCHANGED node \/ \E up, max : Set(n, [r EXCEPT !.up = up, !.max = max])
  BY Zenon DEF OnAccept
<1>4. ASSUME NEW up, NEW max, Set(n, [r EXCEPT !.up = up, !.max = max])
      PROVE  AllKept
  <2> DEFINE q == [r EXCEPT !.up = up, !.max = max]
  <2>1. SameLook(r, q) /\ Set(n, q)
    BY <1>2, <1>4
  <2> HIDE DEF q
  <2> QED
    BY <2>1, SameLookKept, SetKept
<1> QED
  BY <1>3, <1>4, UnchangedKept

LEMMA TimeoutKept ==
    ASSUME TypeOK, NEW n \in Node, Timeout(n) \/ TimeoutCall(n) \/ TimeoutFailed(n)
    PROVE  AllKept
<1> DEFINE r == node[n]
           t == [TimerIdle EXCEPT !.pc = "timeoutCall", !.j = r.coord, !.g = r.group]
           u == [r.timer EXCEPT !.pc = "timeoutFailed"]
<1>1. r \in NodeRec /\ r.timer.pc \notin {"merge", "recover"}
  BY NodeType DEF Timeout, TimeoutCall, TimeoutFailed
<1>2. \/ \E s \in {t, u, TimerIdle} : Set(n, [r EXCEPT !.timer = s])
      \/ Abandon(n)
  <2>1. [r EXCEPT !.timer.pc = "timeoutFailed"] = [r EXCEPT !.timer = u]
    BY <1>1 DEF NodeRec
  <2>2. CASE Timeout(n)
    BY <2>2 DEF Timeout
  <2>3. CASE TimeoutCall(n)
    BY <2>1, <2>3 DEF TimeoutCall
  <2>4. CASE TimeoutFailed(n)
    BY <2>4 DEF TimeoutFailed, Abandon
  <2> QED
    BY <2>2, <2>3, <2>4
<1> HIDE DEF t, u
<1> QED
  BY <1>1, <1>2, TimerKept, AbandonKept

(* A recovery() that goes on schedules the check, unless the node has been *)
(* destroyed meanwhile.                                                    *)
LEMMA RecoverResumeKept ==
    ASSUME TypeOK, NEW n \in Node, RecoverResume(n)
    PROVE  AllKept
<1> DEFINE r == node[n]
           x == [r EXCEPT !.timer = TimerIdle]
           y == [r EXCEPT !.recovering = @ - 1]
<1>1. r \in NodeRec
  BY NodeType
<1>2. /\ x.state = r.state /\ x.destroyed = r.destroyed /\ DOMAIN x = DOMAIN r
      /\ y.state = r.state /\ y.destroyed = r.destroyed /\ DOMAIN y = DOMAIN r
  BY <1>1 DEF NodeRec
<1>3. \E z \in {x, y} :
        (r.destroyed /\ Set(n, z)) \/ \E g \in FreshGroups(n) : Set(n, RecoverEnd(n, z, g))
  BY DEF RecoverResume
<1>4. \A g : LET q == RecoverEnd(n, x, g) IN q.checkTask # "null" /\ q.state = r.state
  BY <1>1, SMTT(30) DEF RecoverEnd, NodeRec
<1>5. \A g : LET q == RecoverEnd(n, y, g) IN q.checkTask # "null" /\ q.state = r.state
  BY <1>1, SMTT(30) DEF RecoverEnd, NodeRec
<1> HIDE DEF x, y
<1>6. ASSUME NEW z \in {x, y}, r.destroyed, Set(n, z)
      PROVE  AllKept
  BY <1>2, <1>6, SettledKept
<1>7. ASSUME NEW z \in {x, y}, NEW g \in FreshGroups(n), Set(n, RecoverEnd(n, z, g))
      PROVE  AllKept
  <2> DEFINE q == RecoverEnd(n, z, g)
  <2>1. q.checkTask # "null" /\ q.state = r.state
    BY <1>4, <1>5
  <2> HIDE DEF q
  <2>2. Set(n, q)
    BY <1>7 DEF q
  <2> QED
    BY <2>1, <2>2, SettledKept
<1> QED
  BY <1>3, <1>6, <1>7

LEMMA ClientKept ==
    ASSUME TypeOK, NEW n \in Node, ClientStep(n)
    PROVE  AllKept
<1> DEFINE r == node[n]
<1>1. r \in NodeRec
  BY NodeType
<1>2. ASSUME NEW k, Set(n, [r EXCEPT !.updateCounter = k]) \/ Set(n, [r EXCEPT !.lostMajority = k])
      PROVE  AllKept
  <2> DEFINE q == [r EXCEPT !.updateCounter = k]
             p == [r EXCEPT !.lostMajority = k]
  <2>1. SameLook(r, q) /\ SameLook(r, p)
    BY <1>1 DEF SameLook, NodeRec
  <2>2. Set(n, q) \/ Set(n, p)
    BY <1>2
  <2> HIDE DEF q, p
  <2> QED
    BY <2>1, <2>2, SameLookKept, SetKept
<1>3. CASE StartUpdate(n) \/ FinishUpdate(n) \/ ObserversCheck(n)
  BY <1>2, <1>3 DEF StartUpdate, FinishUpdate, ObserversCheck
<1>4. CASE Evict(n)
  BY <1>4, UnchangedKept DEF Evict
<1>5. CASE LostMajority(n)
  <2> DEFINE q == [r EXCEPT !.lostMajority = FALSE]
  <2>1. q \in NodeRec /\ q.state = r.state /\ q.destroyed = r.destroyed
    BY <1>1 DEF NodeRec
  <2>2. Set(n, q) => AllKept
    BY <1>2
  <2> HIDE DEF q
  <2>3. Set(n, q) \/ \E g \in FreshGroups(n) : Set(n, ThreadRecover(n, q, g))
    BY <1>5 DEF LostMajority, q
  <2> QED
    BY <2>1, <2>2, <2>3, RecoveringKept
<1>6. CASE GenerationRecovery(n)
  BY <1>1, <1>6, RecoveringKept DEF GenerationRecovery
<1> QED
  BY <1>3, <1>4, <1>5, <1>6 DEF ClientStep

LEMMA DestroyKept ==
    ASSUME TypeOK, NEW n \in Node, Destroy(n)
    PROVE  AllKept
<1> DEFINE r == node[n]
           q == [r EXCEPT !.destroyed = TRUE, !.timeoutTask = FALSE, !.mergeTask = FALSE,
                          !.mergeSet = IF r.timer.pc = "merge" THEN @ ELSE {},
                          !.checkTask = "null"]
<1>1. r \in NodeRec
  BY NodeType
<1>2. q.destroyed /\ q.state = r.state
  BY <1>1 DEF NodeRec
<1>3. Set(n, q)
  BY Zenon DEF Destroy
<1> HIDE DEF q
<1> QED
  BY <1>2, <1>3, SettledKept

LEMMA CrashKept ==
    ASSUME TypeOK, NEW n \in Node, Crash(n)
    PROVE  AllKept
<1>1. PICK g \in FreshGroups(n) : Set(n, Started(n, g))
  BY DEF Crash
<1> DEFINE q == Started(n, g)
<1>2. q.checkTask = "scheduled" /\ q.state # Normal
  BY DEF Started, Inactive, Normal
<1> HIDE DEF q
<1>3. Set(n, q)
  BY <1>1 DEF q
<1> QED
  BY <1>2, <1>3, SettledKept

LEMMA NextKept == TypeOK /\ [Next]_vars => AllKept
<1> SUFFICES ASSUME TypeOK, [Next]_vars PROVE AllKept
  OBVIOUS
<1>1. ASSUME NEW n \in Node, TimerStep(n) PROVE AllKept
  BY <1>1, CheckKept, CheckCallKept, CheckDoneKept, MergeFireKept, MergeKept, MergeResumeKept,
     MergeContinueKept, SyncKept, InitMasterKept, InitObserverKept, InitDoneKept, ReadyKept,
     ReadyDoneKept, TimeoutKept, ZenonT(60) DEF TimerStep
<1>2. ASSUME NEW n \in Node, InvitationStep(n) PROVE AllKept
  BY <1>2, OnInvitationKept, OnAcceptKept, InvitationResumeKept, InvitationForwardKept,
     InvitationAcceptKept, ZenonT(60) DEF InvitationStep
<1>3. ASSUME NEW n \in Node, RecoverResume(n) \/ ClientStep(n) \/ Destroy(n) \/ Crash(n)
      PROVE  AllKept
  BY <1>3, RecoverResumeKept, ClientKept, DestroyKept, CrashKept
<1>4. ASSUME NEW m \in msgs, Lose(m) PROVE AllKept
  BY <1>4, UnchangedKept DEF Lose
<1>5. ASSUME UNCHANGED vars PROVE AllKept
  BY <1>5, UnchangedKept DEF vars
<1>6. CASE Next
  BY <1>1, <1>2, <1>3, <1>4, <1>6, Zenon DEF Next
<1> QED
  BY <1>5, <1>6

(* A node that is its own coordinator never stops looking for others, for  *)
(* every number of nodes and however the locked sections of check(),       *)
(* merge(), invitation() and recovery() interleave: no path through them   *)
(* loses the last task or thread that would schedule a check again.        *)
THEOREM KeepsLookingAlways == Spec => []KeepsLooking
<1>1. Init => KeepsLooking
  <2> SUFFICES ASSUME Init, NEW n \in Node PROVE Looks(n, node[n])
    BY DEF KeepsLooking
  <2> DEFINE q == Started(n, <<n, 1>>)
  <2>1. q.checkTask = "scheduled"
    BY DEF Started
  <2>2. node[n] = q
    BY DEF Init
  <2> HIDE DEF q
  <2> QED
    BY <2>1, <2>2 DEF Looks
<1>2. TypeOK /\ KeepsLooking /\ [Next]_vars => KeepsLooking'
  <2>1. AllKept /\ KeepsLooking => KeepsLooking'
    BY DEF AllKept, Kept, KeepsLooking
  <2> QED
    BY <2>1, NextKept
<1> QED
  BY <1>1, <1>2, TypeCorrect, PTL DEF Spec

(* Once destroyed, a node never begins to serve, for every number of nodes *)
(* and every interleaving: not in the last section of its own              *)
(* mergeContinue(), which ran its calls without the mutex, nor in ready(). *)
THEOREM DestroyedStaysOut == Spec => DestroyedNeverServes
<1>1. TypeOK /\ [Next]_vars
        => [\A n \in Node : node[n].destroyed /\ node'[n].destroyed /\ node[n].state # Normal
                               => node'[n].state # Normal]_vars
  <2>1. AllKept => \A n \in Node : node[n].destroyed /\ node'[n].destroyed /\ node[n].state # Normal
                                      => node'[n].state # Normal
    BY DEF AllKept, Kept
  <2> QED
    BY <2>1, NextKept
<1> QED
  BY <1>1, TypeCorrect, PTL DEF Spec, DestroyedNeverServes
-----------------------------------------------------------------------------
(* A coordinator that serves has a majority, and one group serves in one   *)
(* generation.  The invariant relates a node to the timer thread of its    *)
(* coordinator, and is about behaviours in which no update has been        *)
(* started and no accept() has failed: a recovery() that they let run late *)
(* takes a node out of an election it has joined meanwhile.                *)
Undisturbed == used.updates = 0 /\ used.refusals = 0

(* The timer thread is in mergeContinue(), and has computed the stamp. *)
Merging(r) == r.timer.pc \in {"sync", "initMaster", "init", "ready"}
Stamped(r) == r.timer.pc \in {"initMaster", "init", "ready"}

(* Without updates no thread waits for one to end. *)
Quiet(r) ==
    /\ r.updateCounter = 0 /\ r.recovering = 0 /\ ~r.lostMajority
    /\ r.timer.pc \notin {"recover", "mergeWait"}
    /\ \A h \in r.invitations : h.pc # "wait"

(* mergeContinue() works for a group of this node, of which the node is no *)
(* member itself.  Unless the node is destroyed, the group is still the    *)
(* node's, and has a majority; a merge that has been scheduled to continue *)
(* is in its election, which no invitation has entered; and one thread at  *)
(* most is about to forward one.                                           *)
Backed(n, r) ==
    /\ Merging(r) => /\ r.timer.g[1] = n /\ n \notin Ids(r.timer.members)
                     /\ r.timer.pc = "ready" => n \notin r.timer.todo
    /\ ~r.destroyed =>
         /\ Merging(r) => /\ r.state = Reorganization /\ r.coord = n /\ r.group = r.timer.g
                          /\ Cardinality(r.up) >= Majority
         /\ r.mergeContinueTask => /\ r.state = InElection /\ r.coord = n /\ n \notin Ids(r.up)
                                   /\ \A h \in r.invitations : h.g # r.group
         /\ \A h \in r.invitations : h.pc = "forward" => r.state = InElection /\ ~r.mergeContinueTask
         /\ \A h, k \in r.invitations : h.pc = "forward" /\ k.pc = "forward" => h = k

Led(n, r) == ~r.destroyed /\ r.state = Normal /\ r.coord = n => Cardinality(r.up) >= Majority

Sound(n, r) == Quiet(r) /\ Backed(n, r) /\ Led(n, r)

(* Nodes that serve in one group have one generation; it is the stamp of   *)
(* the mergeContinue() that made the group, if that still runs; and nobody *)
(* serves in a group that is still in its election.                        *)
Agrees(q, r) ==
    q.state = Normal =>
        /\ r.state = Normal /\ r.group = q.group => r.generation = q.generation
        /\ Merging(r) /\ r.timer.g = q.group => Stamped(r) /\ q.generation = r.timer.stamp
        /\ ~r.destroyed /\ r.mergeContinueTask => r.group # q.group
AllAgree(f) == \A k, l \in Node : Agrees(f[k], f[l])

(* No node has sent itself an accept() for a group in its election. *)
NoSelf ==
    \A n \in Node : ~node[n].destroyed /\ node[n].mergeContinueTask =>
        \A m \in msgs : m.type = "accept" /\ m.to = n /\ m.j = n => m.g # node[n].group

Held == (\A n \in Node : Sound(n, node[n])) /\ AllAgree(node) /\ NoSelf
Core == Inv /\ Held

-----------------------------------------------------------------------------
(* A step that begins no service, no merge and no continuation. *)
KeepsService(r, q) == q.state = Normal => r.state = Normal /\ q.group = r.group /\ q.generation = r.generation
KeepsMerge(r, q) ==
    Merging(q) => /\ Merging(r) /\ q.timer.g = r.timer.g
                  /\ Stamped(r) => Stamped(q) /\ q.timer.stamp = r.timer.stamp
KeepsTask(r, q) ==
    ~q.destroyed /\ q.mergeContinueTask => ~r.destroyed /\ r.mergeContinueTask /\ q.group = r.group
Passive(r, q) == KeepsService(r, q) /\ KeepsMerge(r, q) /\ KeepsTask(r, q)

(* The calls a step sends are invitations. *)
NoAccept == \A m \in msgs' : m \in msgs \/ m.type = "invitation"

LEMMA PassiveSame == \A r : Passive(r, r)
BY DEF Passive, KeepsService, KeepsMerge, KeepsTask

LEMMA PassiveTwice ==
    ASSUME NEW r, NEW q, NEW s, Passive(r, q), Passive(q, s)
    PROVE  Passive(r, s)
<1>1. KeepsService(r, s)
  BY DEF Passive, KeepsService
<1>2. KeepsMerge(r, s)
  BY DEF Passive, KeepsMerge
<1>3. KeepsTask(r, s)
  BY DEF Passive, KeepsTask
<1> QED
  BY <1>1, <1>2, <1>3 DEF Passive

LEMMA PassiveAgree ==
    ASSUME NEW f, NEW e, AllAgree(f), \A k \in Node : Passive(f[k], e[k])
    PROVE  AllAgree(e)
<1> SUFFICES ASSUME NEW k \in Node, NEW l \in Node PROVE Agrees(e[k], e[l])
  BY DEF AllAgree
<1> SUFFICES ASSUME e[k].state = Normal PROVE Agrees(e[k], e[l])
  BY DEF Agrees
<1>1. Agrees(f[k], f[l])
  BY DEF AllAgree
<1>2. f[k].state = Normal /\ e[k].group = f[k].group /\ e[k].generation = f[k].generation
  BY DEF Passive, KeepsService
<1>3. e[l].state = Normal /\ e[l].group = e[k].group => e[l].generation = e[k].generation
  BY <1>1, <1>2 DEF Agrees, Passive, KeepsService
<1>4. Merging(e[l]) /\ e[l].timer.g = e[k].group => Stamped(e[l]) /\ e[k].generation = e[l].timer.stamp
  BY <1>1, <1>2 DEF Agrees, Passive, KeepsMerge
<1>5. ~e[l].destroyed /\ e[l].mergeContinueTask => e[l].group # e[k].group
  BY <1>1, <1>2 DEF Agrees, Passive, KeepsTask
<1> QED
  BY <1>3, <1>4, <1>5 DEF Agrees

LEMMA TasksNoSelf ==
    ASSUME NoSelf, NoAccept, \A k \in Node : KeepsTask(node[k], node'[k])
    PROVE  NoSelf'
<1> SUFFICES ASSUME NEW n \in Node, ~node'[n].destroyed, node'[n].mergeContinueTask,
                    NEW m \in msgs', m.type = "accept", m.to = n, m.j = n
             PROVE  m.g # node'[n].group
  BY DEF NoSelf
<1>1. ~node[n].destroyed /\ node[n].mergeContinueTask /\ node'[n].group = node[n].group
  BY DEF KeepsTask
<1>2. m \in msgs
  BY DEF NoAccept
<1> QED
  BY <1>1, <1>2 DEF NoSelf

LEMMA UnchangedHeld ==
    ASSUME Core, NoAccept, node' = node
    PROVE  Held'
<1>1. \A k \in Node : KeepsTask(node[k], node'[k])
  BY DEF KeepsTask
<1>2. NoSelf'
  BY <1>1, TasksNoSelf DEF Core, Held
<1> QED
  BY <1>2 DEF Core, Held, AllAgree

(* A step that changes the record of one node. *)
LEMMA SetHeld ==
    ASSUME Core, NEW n \in Node, NEW q, Set(n, q), Sound(n, q), Passive(node[n], q), NoAccept
    PROVE  Held'
<1>1. \A k \in Node : node'[k] = IF k = n THEN q ELSE node[k]
  BY DEF Set, Core, Inv, TypeOK
<1>2. \A k \in Node : Passive(node[k], node'[k])
  BY <1>1, PassiveSame
<1>3. AllAgree(node')
  BY <1>2, PassiveAgree DEF Core, Held
<1>4. \A k \in Node : Sound(k, node'[k])
  BY <1>1 DEF Core, Held
<1>5. NoSelf'
  BY <1>2, TasksNoSelf DEF Core, Held, Passive
<1> QED
  BY <1>3, <1>4, <1>5 DEF Held

(* What the steps below start from. *)
LEMMA CoreFacts ==
    ASSUME Core, NEW n \in Node
    PROVE  node[n] \in NodeRec /\ node[n].timer \in Timer /\ NodeInv(node[n]) /\ TypeOK /\ Sound(n, node[n])
BY NodeFacts DEF Core, Held

(* A step that leaves alone what a node serves and merges. *)
Frame(n, r, q) ==
    /\ q.state = r.state /\ q.coord = r.coord /\ q.group = r.group /\ q.generation = r.generation
    /\ q.up = r.up /\ q.mergeContinueTask = r.mergeContinueTask
    /\ q.updateCounter = r.updateCounter /\ q.recovering = r.recovering /\ q.lostMajority = r.lostMajority
    /\ q.invitations \subseteq r.invitations
    /\ r.destroyed => q.destroyed
    /\ q.timer.pc \notin {"recover", "mergeWait"}
    /\ q.timer.pc = "ready" => n \notin q.timer.todo
    /\ Merging(q) => /\ Merging(r) /\ q.timer.g = r.timer.g /\ q.timer.members = r.timer.members
                     /\ Stamped(r) => Stamped(q) /\ q.timer.stamp = r.timer.stamp

LEMMA FrameSound ==
    ASSUME NEW n, NEW r, NEW q, Sound(n, r), Frame(n, r, q)
    PROVE  Sound(n, q) /\ Passive(r, q)
<1>1. Quiet(q)
  BY DEF Frame, Sound, Quiet
<1>2. Backed(n, q)
  BY DEF Frame, Sound, Backed
<1>3. Led(n, q)
  BY DEF Frame, Sound, Led
<1>4. KeepsService(r, q)
  BY DEF Frame, KeepsService
<1>5. KeepsMerge(r, q)
  BY DEF Frame, KeepsMerge
<1>6. KeepsTask(r, q)
  BY DEF Frame, KeepsTask
<1> QED
  BY <1>1, <1>2, <1>3, <1>4, <1>5, <1>6 DEF Sound, Passive

LEMMA SoundTimer ==
    ASSUME NEW n, NEW r, Sound(n, r)
    PROVE  r.timer.pc \notin {"recover", "mergeWait"} /\ (r.timer.pc = "ready" => n \notin r.timer.todo)
BY DEF Sound, Quiet, Backed, Merging

LEMMA FrameHeld ==
    ASSUME Core, NEW n \in Node, NEW q, Set(n, q), Frame(n, node[n], q), NoAccept
    PROVE  Held'
BY CoreFacts, FrameSound, SetHeld

(* The timer thread moves on. *)
LEMMA TimerHeld ==
    ASSUME Core, NEW n \in Node, NEW t, Set(n, [node[n] EXCEPT !.timer = t]), NoAccept,
           t.pc \notin {"recover", "mergeWait"}, t.pc = "ready" => n \notin t.todo,
           t.pc \in {"sync", "initMaster", "init", "ready"} =>
               /\ Merging(node[n]) /\ t.g = node[n].timer.g /\ t.members = node[n].timer.members
               /\ Stamped(node[n]) => t.pc \in {"initMaster", "init", "ready"} /\ t.stamp = node[n].timer.stamp
    PROVE  Held'
<1> DEFINE r == node[n]
           q == [r EXCEPT !.timer = t]
<1>1. r \in NodeRec
  BY CoreFacts
<1>2. /\ q.state = r.state /\ q.coord = r.coord /\ q.group = r.group /\ q.generation = r.generation
      /\ q.up = r.up /\ q.mergeContinueTask = r.mergeContinueTask
      /\ q.updateCounter = r.updateCounter /\ q.recovering = r.recovering /\ q.lostMajority = r.lostMajority
      /\ q.invitations = r.invitations /\ q.destroyed = r.destroyed /\ q.timer = t
  BY <1>1 DEF NodeRec
<1>3. Set(n, q)
  OBVIOUS
<1> HIDE DEF q
<1>4. Frame(n, r, q)
  BY <1>2 DEF Frame, Merging, Stamped
<1> QED
  BY <1>3, <1>4, FrameHeld

(* recovery() without updates: it is ignored in an election, otherwise the *)
(* node is inactive.                                                       *)
Recovered(r, q) ==
    /\ q.mergeContinueTask = r.mergeContinueTask /\ q.invitations = r.invitations
    /\ q.destroyed = r.destroyed /\ q.updateCounter = r.updateCounter
    /\ q.recovering = r.recovering /\ q.lostMajority = r.lostMajority
    /\ \/ /\ r.state = InElection /\ q.state = InElection
          /\ q.coord = r.coord /\ q.group = r.group /\ q.up = r.up
       \/ r.state # InElection /\ q.state = Inactive

LEMMA RecoverRecovered ==
    ASSUME NEW n \in Node, NEW r \in NodeRec, NEW g, Quiet(r)
    PROVE  Recovered(r, Recover(n, r, g)) /\ Recover(n, r, g).timer = r.timer /\ ~RecoverWaits(r)
<1> DEFINE i == [r EXCEPT !.state = Inactive]
           k == RecoverEnd(n, i, g)
           q == Recover(n, r, g)
<1>1. ~RecoverWaits(r)
  BY DEF RecoverWaits, Quiet
<1>2. /\ i.state = Inactive /\ i.mergeContinueTask = r.mergeContinueTask /\ i.invitations = r.invitations
      /\ i.destroyed = r.destroyed /\ i.updateCounter = r.updateCounter
      /\ i.recovering = r.recovering /\ i.lostMajority = r.lostMajority /\ i.timer = r.timer
      /\ i \in NodeRec
  BY DEF NodeRec, States
<1> HIDE DEF i
<1>3. /\ k.state = i.state /\ k.mergeContinueTask = i.mergeContinueTask /\ k.invitations = i.invitations
      /\ k.destroyed = i.destroyed /\ k.updateCounter = i.updateCounter
      /\ k.recovering = i.recovering /\ k.lostMajority = i.lostMajority /\ k.timer = i.timer
  BY <1>2 DEF RecoverEnd, NodeRec
<1> HIDE DEF k
<1>4. (r.state = InElection /\ q = r) \/ (r.state # InElection /\ q \in {i, k})
  BY DEF Recover, RecoverIgnored, i, k
<1> HIDE DEF q
<1>5. Recovered(r, q) /\ q.timer = r.timer
  BY <1>2, <1>3, <1>4 DEF Recovered
<1> QED
  BY <1>1, <1>5 DEF q

LEMMA RecoveredSound ==
    ASSUME NEW n \in Node, NEW r, NEW q, Quiet(r), Backed(n, r), Recovered(r, q),
           q.timer = TimerIdle \/ (q.timer = r.timer /\ (~r.destroyed => ~Merging(r)))
    PROVE  Sound(n, q) /\ Passive(r, q)
<1>0. TimerIdle.pc = "idle"
  BY DEF TimerIdle
<1>1. Quiet(q)
  BY <1>0 DEF Quiet, Recovered
<1>2. Merging(q) => q.timer = r.timer /\ Merging(r) /\ (~r.destroyed => ~Merging(r))
  BY <1>0 DEF Merging
<1>3. ~r.destroyed /\ r.state # InElection =>
        ~r.mergeContinueTask /\ \A h \in r.invitations : h.pc # "forward"
  BY DEF Backed
<1>4. Backed(n, q)
  BY <1>2, <1>3 DEF Recovered, Backed
<1>5. Inactive # Normal /\ InElection # Normal
  BY DEF Inactive, InElection, Normal
<1>6. Led(n, q) /\ KeepsService(r, q)
  BY <1>5 DEF Led, KeepsService, Recovered
<1>7. KeepsMerge(r, q)
  BY <1>2 DEF KeepsMerge, Merging, Stamped
<1>8. KeepsTask(r, q)
  BY <1>3 DEF KeepsTask, Recovered
<1> QED
  BY <1>1, <1>4, <1>6, <1>7, <1>8 DEF Sound, Passive

(* The timer thread calls recovery(). *)
LEMMA TimerRecoverSound ==
    ASSUME NEW n \in Node, NEW r \in NodeRec, NEW g \in FreshGroups(n), Quiet(r), Backed(n, r)
    PROVE  Sound(n, TimerRecover(n, r, g)) /\ Passive(r, TimerRecover(n, r, g))
<1> DEFINE i == Recover(n, r, g)
           q == [i EXCEPT !.timer = TimerIdle]
<1>1. Recovered(r, i) /\ ~RecoverWaits(r)
  BY RecoverRecovered
<1>2. i \in NodeRec
  BY FreshGroup, RecoverType
<1> HIDE DEF i
<1>3. /\ q.mergeContinueTask = i.mergeContinueTask /\ q.invitations = i.invitations
      /\ q.destroyed = i.destroyed /\ q.updateCounter = i.updateCounter
      /\ q.recovering = i.recovering /\ q.lostMajority = i.lostMajority
      /\ q.state = i.state /\ q.coord = i.coord /\ q.group = i.group /\ q.up = i.up
      /\ q.timer = TimerIdle
  BY <1>2 DEF NodeRec
<1>4. q = TimerRecover(n, r, g)
  BY <1>1 DEF TimerRecover, i
<1> HIDE DEF q
<1>5. Recovered(r, q)
  BY <1>1, <1>3 DEF Recovered
<1> QED
  BY <1>3, <1>4, <1>5, RecoveredSound

LEMMA TimerRecoverHeld ==
    ASSUME Core, NEW n \in Node, NEW r \in NodeRec, NEW g \in FreshGroups(n), Set(n, TimerRecover(n, r, g)),
           Quiet(r), Backed(n, r), Passive(node[n], r), NoAccept
    PROVE  Held'
<1> DEFINE q == TimerRecover(n, r, g)
<1>1. Sound(n, q) /\ Passive(r, q) /\ Set(n, q)
  BY TimerRecoverSound
<1> HIDE DEF q
<1> QED
  BY <1>1, PassiveTwice, SetHeld

LEMMA AbandonHeld ==
    ASSUME Core, NEW n \in Node, Abandon(n), NoAccept
    PROVE  Held'
BY CoreFacts, PassiveSame, TimerRecoverHeld DEF Abandon, Sound

(* Another thread does. *)
LEMMA GenerationRecoveryHeld ==
    ASSUME Core, NEW n \in Node, GenerationRecovery(n)
    PROVE  Held'
<1> DEFINE r == node[n]
<1>1. r \in NodeRec /\ Quiet(r) /\ Backed(n, r)
  BY CoreFacts DEF Sound
<1>2. NoAccept /\ ~Busy(r) /\ \E g \in FreshGroups(n) : Set(n, ThreadRecover(n, r, g))
  BY DEF GenerationRecovery, NoAccept
<1>3. PICK g \in FreshGroups(n) : Set(n, ThreadRecover(n, r, g))
  BY <1>2
<1> DEFINE i == Recover(n, r, g)
           q == [i EXCEPT !.recovering = i.recovering]
<1>4. Recovered(r, i) /\ i.timer = r.timer /\ ~RecoverWaits(r) /\ i \in NodeRec
  BY <1>1, RecoverRecovered, FreshGroup, RecoverType
<1>5. q = ThreadRecover(n, r, g)
  BY <1>4 DEF ThreadRecover
<1> HIDE DEF i
<1>6. q = i
  BY <1>4 DEF NodeRec
<1>7. ~r.destroyed => ~Merging(r)
  BY <1>1, <1>2 DEF Backed, Busy
<1>8. Sound(n, i) /\ Passive(r, i)
  BY <1>1, <1>4, <1>7, RecoveredSound
<1>9. Set(n, i)
  BY <1>3, <1>5, <1>6
<1> QED
  BY <1>2, <1>8, <1>9, SetHeld

-----------------------------------------------------------------------------
(* The steps. *)

(* check() lets a coordinator go on only with a majority. *)
LEMMA CheckHeld ==
    ASSUME Core, NEW n \in Node, Check(n)
    PROVE  Held'
<1> DEFINE r == node[n]
           left == {m \in r.up : m.id \notin reaped[n]}
           q == [r EXCEPT !.up = left, !.checkTask = "null"]
           t == [r.timer EXCEPT !.pc = "checkCall", !.todo = Node \ {n}]
           s == [r EXCEPT !.up = left, !.checkTask = "running", !.timer = t]
<1>1. /\ r \in NodeRec /\ r.timer \in Timer /\ Sound(n, r) /\ r.up \in Members
      /\ ~Busy(r) /\ ~r.destroyed /\ r.timer.pc = "idle"
  BY CoreFacts DEF NodeRec, Check
<1>2. left \in Members
  BY <1>1, FS_Subset DEF Members
<1>3. NoAccept
  BY DEF Check, NoAccept
<1>4. reaped[n] = {} => left = r.up
  OBVIOUS
<1>5. ~r.mergeContinueTask /\ ~Merging(r) /\ \A h \in r.invitations : h.pc # "forward"
  BY <1>1 DEF Sound, Backed, Busy, Merging
<1>6. s = [r EXCEPT !.up = left, !.checkTask = "running",
                    !.timer.pc = "checkCall", !.timer.todo = Node \ {n}]
  BY <1>1 DEF NodeRec, Timer
<1>7. \/ \E g \in FreshGroups(n) : Set(n, TimerRecover(n, q, g))
      \/ ~(reaped[n] # {} /\ Cardinality(left) < Majority) /\ Set(n, s)
  BY <1>6 DEF Check
<1>8. t.pc = "checkCall"
  BY <1>1 DEF Timer
<1> HIDE DEF t, left
<1>9. /\ q.state = r.state /\ q.coord = r.coord /\ q.group = r.group /\ q.generation = r.generation
      /\ q.mergeContinueTask = r.mergeContinueTask /\ q.updateCounter = r.updateCounter
      /\ q.recovering = r.recovering /\ q.lostMajority = r.lostMajority
      /\ q.invitations = r.invitations /\ q.timer = r.timer /\ q.destroyed = r.destroyed
      /\ q \in NodeRec
  BY <1>1, <1>2 DEF NodeRec, CheckTask
<1>10. /\ s.state = r.state /\ s.coord = r.coord /\ s.group = r.group /\ s.generation = r.generation
       /\ s.mergeContinueTask = r.mergeContinueTask /\ s.updateCounter = r.updateCounter
       /\ s.recovering = r.recovering /\ s.lostMajority = r.lostMajority /\ s.up = left
       /\ s.invitations = r.invitations /\ s.timer = t /\ s.destroyed = r.destroyed
  BY <1>1, <1>2 DEF NodeRec
<1> HIDE DEF q, s
<1>11. CASE \E g \in FreshGroups(n) : Set(n, TimerRecover(n, q, g))
  <2>1. Quiet(q) /\ Backed(n, q)
    <3>1. Quiet(q)
      BY <1>1, <1>9 DEF Sound, Quiet
    <3>2. ~Merging(q)
      BY <1>5, <1>9 DEF Merging
    <3> QED
      BY <1>5, <1>9, <3>1, <3>2 DEF Backed
  <2>2. Passive(r, q)
    BY <1>5, <1>9 DEF Passive, KeepsService, KeepsMerge, KeepsTask, Merging
  <2> QED
    BY <1>3, <1>9, <1>11, <2>1, <2>2, TimerRecoverHeld
<1>12. CASE ~(reaped[n] # {} /\ Cardinality(left) < Majority) /\ Set(n, s)
  <2>1. ~Merging(s)
    BY <1>8, <1>10 DEF Merging
  <2>2. Quiet(s)
    BY <1>1, <1>8, <1>10 DEF Sound, Quiet
  <2>3. Backed(n, s)
    BY <1>5, <1>10, <2>1 DEF Backed
  <2>4. Led(n, s)
    <3>1. Cardinality(left) \in Nat /\ Majority \in Int
      BY <1>2, FS_CardinalityType, NodeAssumption DEF Members, Majority
    <3>2. r.state = Normal /\ r.coord = n => Cardinality(r.up) >= Majority
      BY <1>1 DEF Sound, Led
    <3> QED
      BY <1>4, <1>10, <1>12, <3>1, <3>2 DEF Led
  <2>5. Passive(r, s)
    BY <1>5, <1>10, <2>1 DEF Passive, KeepsService, KeepsMerge, KeepsTask
  <2> QED
    BY <1>3, <1>12, <2>2, <2>3, <2>4, <2>5, SetHeld DEF Sound
<1> QED
  BY <1>7, <1>11, <1>12

LEMMA CheckCallHeld ==
    ASSUME Core, NEW n \in Node, NEW m \in Node, CheckCall(n, m)
    PROVE  Held'
<1> DEFINE r == node[n]
           t == [r.timer EXCEPT !.todo = @ \ {m}]
           u == [t EXCEPT !.done = @ \cup {m}]
<1>1. r \in NodeRec /\ r.timer \in Timer /\ r.timer.pc = "checkCall"
  BY CoreFacts DEF CheckCall
<1>2. Set(n, [r EXCEPT !.timer = t]) \/ Set(n, [r EXCEPT !.timer = u])
  BY <1>1, ZenonT(60) DEF CheckCall, NodeRec
<1>3. t.pc = "checkCall" /\ u.pc = "checkCall"
  BY <1>1 DEF Timer
<1>4. NoAccept
  BY DEF CheckCall, NoAccept
<1> HIDE DEF t, u
<1> QED
  BY <1>2, <1>3, <1>4, TimerHeld

LEMMA CheckDoneHeld ==
    ASSUME Core, NEW n \in Node, CheckDone(n)
    PROVE  Held'
<1> DEFINE r == node[n]
           idle == [r EXCEPT !.timer = TimerIdle]
           a == [idle EXCEPT !.checkTask = "null"]
           b == [idle EXCEPT !.checkTask = "scheduled"]
           c == [idle EXCEPT !.checkTask = "null", !.mergeTask = TRUE, !.mergeSet = r.timer.done]
           Same(q) == /\ q.state = r.state /\ q.coord = r.coord /\ q.group = r.group /\ q.generation = r.generation
                      /\ q.up = r.up /\ q.mergeContinueTask = r.mergeContinueTask
                      /\ q.updateCounter = r.updateCounter /\ q.recovering = r.recovering /\ q.lostMajority = r.lostMajority
                      /\ q.invitations = r.invitations /\ q.destroyed = r.destroyed /\ q.timer = TimerIdle
<1>1. r \in NodeRec
  BY CoreFacts
<1>2. Same(a)
  BY <1>1 DEF NodeRec
<1>3. Same(b)
  BY <1>1 DEF NodeRec
<1>4. Same(c)
  BY <1>1 DEF NodeRec
<1>5. Set(n, a) \/ Set(n, b) \/ Set(n, c)
  BY Zenon DEF CheckDone
<1>6. NoAccept
  BY DEF CheckDone, NoAccept
<1> HIDE DEF a, b, c
<1>7. PICK q : Set(n, q) /\ Same(q)
  BY <1>2, <1>3, <1>4, <1>5
<1>8. Frame(n, r, q)
  BY <1>7 DEF Frame, Merging, TimerIdle
<1> QED
  BY <1>6, <1>7, <1>8, FrameHeld

LEMMA MergeFireHeld ==
    ASSUME Core, NEW n \in Node, MergeFire(n)
    PROVE  Held'
<1> DEFINE r == node[n]
           t == [r.timer EXCEPT !.pc = "merge"]
<1>1. r \in NodeRec /\ r.timer \in Timer
  BY CoreFacts
<1>2. Set(n, [r EXCEPT !.timer = t])
  BY <1>1 DEF MergeFire, NodeRec
<1>3. t.pc = "merge"
  BY <1>1 DEF Timer
<1>4. NoAccept
  BY DEF MergeFire, NoAccept
<1> HIDE DEF t
<1> QED
  BY <1>2, <1>3, <1>4, TimerHeld

(* A new group is the group of no node, no thread and no call on its way. *)
LEMMA FreshUnused ==
    ASSUME NEW n \in Node, NEW g \in FreshGroups(n)
    PROVE  /\ \A k \in Node : node[k].group # g /\ \A h \in node[k].invitations : h.g # g
           /\ \A m \in msgs : m.g # g
<1>1. ~Referenced(g)
  BY Zenon DEF FreshGroups
<1> QED
  BY <1>1 DEF Referenced

(* merge() opens an election for a new group: nobody is in it yet. *)
LEMMA MergeOpenHeld ==
    ASSUME Core, NEW n \in Node, NEW r \in NodeRec, NEW g \in FreshGroups(n), MergeOpen(n, r, g),
           r.state = InElection, Quiet(r), r.invitations = node[n].invitations,
           \A h \in r.invitations : h.pc # "forward"
    PROVE  Held'
<1> DEFINE q == [r EXCEPT !.group = g, !.coord = n, !.up = {}, !.mergeSet = {},
                          !.mergeContinueTask = TRUE, !.timer = TimerIdle]
<1>1. /\ q.state = InElection /\ q.coord = n /\ q.group = g /\ q.up = {} /\ q.updateCounter = r.updateCounter
      /\ q.recovering = r.recovering /\ q.lostMajority = r.lostMajority
      /\ q.invitations = r.invitations /\ q.timer = TimerIdle
  BY DEF NodeRec
<1>2. Set(n, q) /\ \A m \in msgs' : m \in msgs \/ m.type = "invitation"
  BY DEF MergeOpen, Invitation
<1> HIDE DEF q
<1>3. ~Merging(q) /\ InElection # Normal /\ TimerIdle.pc = "idle"
  BY <1>1 DEF Merging, TimerIdle, InElection, Normal
<1>4. Ids(q.up) = {}
  BY <1>1 DEF Ids
<1>5. Sound(n, q)
  <2>1. Quiet(q)
    BY <1>1, <1>3 DEF Quiet
  <2>2. \A h \in q.invitations : h.g # q.group
    BY <1>1, FreshUnused
  <2>3. Backed(n, q)
    BY <1>1, <1>3, <1>4, <2>2 DEF Backed
  <2> QED
    BY <1>1, <1>3, <2>1, <2>3 DEF Sound, Led
<1>6. \A k \in Node : node'[k] = IF k = n THEN q ELSE node[k]
  BY <1>2 DEF Set, Core, Inv, TypeOK
<1>7. \A k \in Node : Sound(k, node'[k])
  BY <1>5, <1>6 DEF Core, Held
<1>8. AllAgree(node')
  <2> SUFFICES ASSUME NEW k \in Node, NEW l \in Node PROVE Agrees(node'[k], node'[l])
    BY DEF AllAgree
  <2>1. CASE k = n
    BY <1>1, <1>3, <1>6, <2>1 DEF Agrees
  <2>2. CASE k # n /\ l # n
    BY <1>6, <2>2 DEF Core, Held, AllAgree
  <2>3. CASE k # n /\ l = n
    <3>1. node[k].group # q.group
      BY <1>1, FreshUnused
    <3> QED
      BY <1>1, <1>3, <1>6, <2>3, <3>1 DEF Agrees
  <2> QED
    BY <2>1, <2>2, <2>3
<1>9. NoSelf'
  <2> SUFFICES ASSUME NEW k \in Node, ~node'[k].destroyed, node'[k].mergeContinueTask,
                      NEW m \in msgs', m.type = "accept", m.to = k, m.j = k
               PROVE  m.g # node'[k].group
    BY DEF NoSelf
  <2>1. m \in msgs
    BY <1>2
  <2>2. CASE k = n
    BY <1>1, <1>6, <2>1, <2>2, FreshUnused
  <2>3. CASE k # n
    BY <1>6, <2>1, <2>3 DEF Core, Held, NoSelf
  <2> QED
    BY <2>2, <2>3
<1> QED
  BY <1>7, <1>8, <1>9 DEF Held

LEMMA MergeHeld ==
    ASSUME Core, NEW n \in Node, Merge(n)
    PROVE  Held'
<1> DEFINE p == node[n]
           r == [p EXCEPT !.mergeTask = FALSE]
           a == [r EXCEPT !.state = IF Busy(r) THEN @ ELSE InElection,
                          !.timer = TimerIdle, !.mergeSet = {}]
           e == [r EXCEPT !.state = InElection]
<1>0. p \in NodeRec /\ p.timer \in Timer /\ Sound(n, p)
  BY CoreFacts
<1>1. /\ r.state = p.state /\ r.coord = p.coord /\ r.group = p.group /\ r.generation = p.generation
      /\ r.up = p.up /\ r.mergeContinueTask = p.mergeContinueTask
      /\ r.updateCounter = p.updateCounter /\ r.recovering = p.recovering /\ r.lostMajority = p.lostMajority
      /\ r.invitations = p.invitations /\ r.destroyed = p.destroyed /\ r.timer = p.timer
      /\ r \in NodeRec
  BY <1>0 DEF NodeRec
<1>2. /\ r.timer.pc = "merge" /\ r.updateCounter = 0
      /\ \/ (Busy(r) \/ r.destroyed) /\ Set(n, a) /\ UNCHANGED msgs
         \/ ~Busy(r) /\ ~r.destroyed /\ \E g \in FreshGroups(n) : MergeOpen(n, e, g)
  <2>1. r.updateCounter = 0
    BY <1>0, <1>1 DEF Sound, Quiet
  <2>2. ~(r.updateCounter > 0)
    BY <2>1
  <2> QED
    BY <2>1, <2>2, Zenon DEF Merge
<1> HIDE DEF r
<1>3. /\ a.coord = r.coord /\ a.group = r.group /\ a.generation = r.generation
      /\ a.up = r.up /\ a.mergeContinueTask = r.mergeContinueTask
      /\ a.updateCounter = r.updateCounter /\ a.recovering = r.recovering /\ a.lostMajority = r.lostMajority
      /\ a.invitations = r.invitations /\ a.destroyed = r.destroyed /\ a.timer = TimerIdle
      /\ a.state = IF Busy(r) THEN r.state ELSE InElection
  BY <1>1 DEF NodeRec
<1>4. /\ e.state = InElection /\ e.updateCounter = r.updateCounter /\ e.recovering = r.recovering
      /\ e.lostMajority = r.lostMajority /\ e.invitations = r.invitations /\ e.timer = r.timer
      /\ e \in NodeRec
  BY <1>1 DEF NodeRec, States
<1> HIDE DEF a, e
<1>5. TimerIdle.pc = "idle" /\ InElection # Normal
  BY DEF TimerIdle, InElection, Normal
<1>6. CASE Busy(r) /\ Set(n, a) /\ UNCHANGED msgs
  <2>1. Frame(n, p, a)
    BY <1>1, <1>3, <1>5, <1>6 DEF Frame, Merging
  <2> QED
    BY <1>6, <2>1, FrameHeld DEF NoAccept
<1>7. CASE ~Busy(r) /\ r.destroyed /\ Set(n, a) /\ UNCHANGED msgs
  <2>1. a.state # Normal /\ ~Merging(a) /\ a.destroyed
    BY <1>3, <1>5, <1>7 DEF Merging
  <2>2. Quiet(a)
    BY <1>0, <1>1, <1>3, <1>5 DEF Sound, Quiet
  <2>3. Sound(n, a)
    BY <2>1, <2>2 DEF Sound, Backed, Led
  <2>4. Passive(p, a)
    BY <2>1 DEF Passive, KeepsService, KeepsMerge, KeepsTask
  <2> QED
    BY <1>7, <2>3, <2>4, SetHeld DEF NoAccept
<1>8. CASE ~Busy(r) /\ ~r.destroyed /\ \E g \in FreshGroups(n) : MergeOpen(n, e, g)
  <2>1. \A h \in e.invitations : h.pc # "forward"
    BY <1>0, <1>1, <1>4, <1>8 DEF Sound, Backed, Busy
  <2>2. Quiet(e)
    BY <1>0, <1>1, <1>4 DEF Sound, Quiet
  <2> QED
    BY <1>1, <1>4, <1>8, <2>1, <2>2, MergeOpenHeld
<1> QED
  BY <1>2, <1>6, <1>7, <1>8

(* mergeContinue() begins to work for the group with a majority: nobody    *)
(* serves in a group that is in its election.                              *)
LEMMA MergeContinueHeld ==
    ASSUME Core, NEW n \in Node, MergeContinue(n)
    PROVE  Held'
<1> DEFINE p == node[n]
           r == [p EXCEPT !.mergeContinueTask = FALSE, !.state = Reorganization]
           t == [TimerIdle EXCEPT !.pc = "sync", !.g = r.group, !.members = r.up]
           q == [r EXCEPT !.timer = t]
<1>0. p \in NodeRec /\ Sound(n, p) /\ NodeInv(p) /\ p.timer.pc = "idle" /\ p.mergeContinueTask /\ ~p.destroyed
  BY CoreFacts DEF MergeContinue
<1>1. /\ r.state = Reorganization /\ r.coord = p.coord /\ r.group = p.group
      /\ r.up = p.up /\ ~r.mergeContinueTask
      /\ r.updateCounter = p.updateCounter /\ r.recovering = p.recovering /\ r.lostMajority = p.lostMajority
      /\ r.invitations = p.invitations /\ r.destroyed = p.destroyed /\ r.timer = p.timer
      /\ r \in NodeRec
  BY <1>0 DEF NodeRec, States
<1>2. p.coord = n /\ n \notin Ids(p.up) /\ \A h \in p.invitations : h.pc # "forward"
  BY <1>0 DEF Sound, Backed
<1>3. p.group[1] = n
  BY <1>0, <1>2 DEF NodeInv, Named
<1>4. \/ \E g \in FreshGroups(n) : Set(n, TimerRecover(n, r, g))
      \/ ~NotEnough(r) /\ Set(n, q)
  BY Zenon DEF MergeContinue
<1>5. NoAccept
  BY DEF MergeContinue, NoAccept
<1>6. t.pc = "sync" /\ t.g = r.group /\ t.members = r.up
  BY DEF TimerIdle
<1> HIDE DEF r, t
<1>7. /\ q.state = r.state /\ q.coord = r.coord /\ q.group = r.group
      /\ q.up = r.up /\ q.mergeContinueTask = r.mergeContinueTask
      /\ q.updateCounter = r.updateCounter /\ q.recovering = r.recovering /\ q.lostMajority = r.lostMajority
      /\ q.invitations = r.invitations /\ q.destroyed = r.destroyed /\ q.timer = t
  BY <1>1 DEF NodeRec
<1> HIDE DEF q
<1>8. Reorganization # Normal
  BY DEF Reorganization, Normal
<1>9. CASE \E g \in FreshGroups(n) : Set(n, TimerRecover(n, r, g))
  <2>1. Quiet(r) /\ ~Merging(r)
    BY <1>0, <1>1 DEF Sound, Quiet, Merging
  <2>2. Backed(n, r)
    BY <1>1, <1>2, <2>1 DEF Backed
  <2>3. Passive(p, r)
    BY <1>1, <1>8, <2>1 DEF Passive, KeepsService, KeepsMerge, KeepsTask
  <2> QED
    BY <1>1, <1>5, <1>9, <2>1, <2>2, <2>3, TimerRecoverHeld
<1>10. CASE ~NotEnough(r) /\ Set(n, q)
  <2>1. \A k \in Node : node'[k] = IF k = n THEN q ELSE node[k]
    BY <1>10 DEF Set, Core, Inv, TypeOK
  <2>2. Cardinality(r.up) >= Majority
    <3>1. r.up \in Members
      BY <1>1 DEF NodeRec
    <3>2. Cardinality(r.up) \in Nat /\ Majority \in Int
      BY <3>1, FS_CardinalityType, NodeAssumption DEF Members, Majority
    <3> QED
      BY <1>10, <3>2 DEF NotEnough
  <2>3. Sound(n, q)
    <3>1. Quiet(q)
      BY <1>0, <1>1, <1>6, <1>7 DEF Sound, Quiet
    <3>2. Backed(n, q)
      BY <1>1, <1>2, <1>3, <1>6, <1>7, <2>2 DEF Backed
    <3> QED
      BY <1>1, <1>7, <1>8, <3>1, <3>2 DEF Sound, Led
  <2>4. AllAgree(node')
    <3> SUFFICES ASSUME NEW k \in Node, NEW l \in Node PROVE Agrees(node'[k], node'[l])
      BY DEF AllAgree
    <3>1. Agrees(node[k], node[l])
      BY DEF Core, Held, AllAgree
    <3>2. CASE k = n
      BY <1>1, <1>7, <1>8, <2>1, <3>2 DEF Agrees
    <3>3. CASE k # n /\ l # n
      BY <2>1, <3>1, <3>3
    <3>4. CASE k # n /\ l = n
      <4>1. node[k].state = Normal => p.group # node[k].group
        BY <1>0, <3>1, <3>4 DEF Agrees
      <4> QED
        BY <1>1, <1>6, <1>7, <1>8, <2>1, <3>4, <4>1 DEF Agrees
    <3> QED
      BY <3>2, <3>3, <3>4
  <2>5. \A k \in Node : KeepsTask(node[k], node'[k])
    BY <1>1, <1>7, <2>1 DEF KeepsTask
  <2>6. NoSelf'
    BY <1>5, <2>5, TasksNoSelf DEF Core, Held
  <2>7. \A k \in Node : Sound(k, node'[k])
    BY <2>1, <2>3 DEF Core, Held
  <2> QED
    BY <2>4, <2>6, <2>7 DEF Held
<1> QED
  BY <1>4, <1>9, <1>10

LEMMA SyncHeld ==
    ASSUME Core, NEW n \in Node, Sync(n)
    PROVE  Held'
<1> DEFINE r == node[n]
           Go(x, s) == Set(n, [r EXCEPT !.max = x, !.timer.pc = "initMaster", !.timer.stamp = s])
<1>1. r \in NodeRec /\ r.timer \in Timer /\ r.timer.pc = "sync"
  BY CoreFacts DEF Sync
<1>2. Abandon(n) \/ \E x, s : Go(x, s)
  BY ZenonT(60) DEF Sync
<1>3. NoAccept
  BY DEF Sync, NoAccept
<1>4. ASSUME NEW x, NEW s, Go(x, s)
      PROVE  Held'
  <2> DEFINE t == [r.timer EXCEPT !.pc = "initMaster", !.stamp = s]
             q == [r EXCEPT !.max = x, !.timer = t]
  <2>1. [r EXCEPT !.max = x, !.timer.pc = "initMaster", !.timer.stamp = s] = q
    BY <1>1 DEF NodeRec
  <2>2. t.pc = "initMaster" /\ t.g = r.timer.g /\ t.members = r.timer.members
    BY <1>1 DEF Timer
  <2> HIDE DEF t
  <2>3. /\ q.state = r.state /\ q.coord = r.coord /\ q.group = r.group /\ q.generation = r.generation
        /\ q.up = r.up /\ q.mergeContinueTask = r.mergeContinueTask
        /\ q.updateCounter = r.updateCounter /\ q.recovering = r.recovering /\ q.lostMajority = r.lostMajority
        /\ q.invitations = r.invitations /\ q.destroyed = r.destroyed /\ q.timer = t
    BY <1>1 DEF NodeRec
  <2>4. Set(n, q)
    BY <1>4, <2>1
  <2> HIDE DEF q
  <2>5. Frame(n, r, q)
    BY <1>1, <2>2, <2>3 DEF Frame, Merging, Stamped
  <2> QED
    BY <1>3, <2>4, <2>5, FrameHeld
<1> QED
  BY <1>2, <1>3, <1>4, AbandonHeld

LEMMA InitMasterHeld ==
    ASSUME Core, NEW n \in Node, InitMaster(n)
    PROVE  Held'
<1> DEFINE r == node[n]
           t == [r.timer EXCEPT !.pc = "init", !.todo = Ids(r.timer.members)]
<1>1. r \in NodeRec /\ r.timer \in Timer /\ r.timer.pc = "initMaster"
  BY CoreFacts DEF InitMaster
<1>2. [r EXCEPT !.timer.pc = "init", !.timer.todo = Ids(r.timer.members)] = [r EXCEPT !.timer = t]
  BY <1>1 DEF NodeRec
<1>3. Abandon(n) \/ Set(n, [r EXCEPT !.timer = t])
  BY <1>2, ZenonT(60) DEF InitMaster
<1>4. NoAccept
  BY DEF InitMaster, NoAccept
<1>5. t.pc = "init" /\ t.g = r.timer.g /\ t.members = r.timer.members /\ t.stamp = r.timer.stamp
  BY <1>1 DEF Timer
<1> HIDE DEF t
<1>6. Merging(r)
  BY <1>1 DEF Merging
<1> QED
  BY <1>3, <1>4, <1>5, <1>6, TimerHeld, AbandonHeld

LEMMA InitObserverHeld ==
    ASSUME Core, NEW n \in Node, NEW m \in Node, InitObserver(n, m)
    PROVE  Held'
<1> DEFINE r == node[n]
           t == [r.timer EXCEPT !.todo = @ \ {m}]
           u == [t EXCEPT !.done = @ \cup {m}]
           called == [r EXCEPT !.timer.todo = @ \ {m}]
<1>1. r \in NodeRec /\ r.timer \in Timer /\ r.timer.pc = "init"
  BY CoreFacts DEF InitObserver
<1>2. called = [r EXCEPT !.timer = t]
  BY <1>1 DEF NodeRec
<1>3. [called EXCEPT !.timer.done = @ \cup {m}] = [r EXCEPT !.timer = u]
  BY <1>1, ZenonT(60) DEF NodeRec
<1>4. Set(n, called) \/ Set(n, [called EXCEPT !.timer.done = @ \cup {m}])
  BY ZenonT(60) DEF InitObserver
<1>5. Set(n, [r EXCEPT !.timer = t]) \/ Set(n, [r EXCEPT !.timer = u])
  BY <1>2, <1>3, <1>4
<1>6. t.pc = "init" /\ t.g = r.timer.g /\ t.members = r.timer.members /\ t.stamp = r.timer.stamp
  BY <1>1 DEF Timer
<1>7. u.pc = "init" /\ u.g = r.timer.g /\ u.members = r.timer.members /\ u.stamp = r.timer.stamp
  BY <1>1 DEF Timer
<1>8. NoAccept
  BY DEF InitObserver, NoAccept
<1> HIDE DEF t, u, called
<1>9. Merging(r)
  BY <1>1 DEF Merging
<1> QED
  BY <1>5, <1>6, <1>7, <1>8, <1>9, TimerHeld

LEMMA InitDoneHeld ==
    ASSUME Core, NEW n \in Node, InitDone(n)
    PROVE  Held'
<1> DEFINE r == node[n]
           t == [r.timer EXCEPT !.pc = "ready", !.todo = Ids(r.timer.members), !.done = {}]
<1>1. r \in NodeRec /\ r.timer \in Timer /\ r.timer.pc = "init" /\ Sound(n, r)
  BY CoreFacts DEF InitDone
<1>2. [r EXCEPT !.timer.pc = "ready", !.timer.todo = Ids(r.timer.members), !.timer.done = {}]
        = [r EXCEPT !.timer = t]
  BY <1>1 DEF NodeRec
<1>3. Abandon(n) \/ Set(n, [r EXCEPT !.timer = t])
  BY <1>2, ZenonT(60) DEF InitDone
<1>4. NoAccept
  BY DEF InitDone, NoAccept
<1>5. /\ t.pc = "ready" /\ t.g = r.timer.g /\ t.members = r.timer.members /\ t.stamp = r.timer.stamp
      /\ t.todo = Ids(r.timer.members)
  BY <1>1 DEF Timer
<1> HIDE DEF t
<1>6. Merging(r)
  BY <1>1 DEF Merging
<1>7. n \notin t.todo
  BY <1>1, <1>5, <1>6 DEF Sound, Backed
<1> QED
  BY <1>3, <1>4, <1>5, <1>6, <1>7, TimerHeld, AbandonHeld

(* A node begins to serve in the group of a mergeContinue() that is in its *)
(* last calls, with its stamp: whoever serves in that group has the stamp, *)
(* and no other mergeContinue() works for it.                              *)
LEMMA ServesAgree ==
    ASSUME Core, NEW n \in Node, NEW m \in Node, NEW q, NEW f,
           \A k \in Node : f[k] = IF k = m THEN q ELSE node[k],
           node[n].timer.pc = "ready",
           q.state = Normal, q.group = node[n].timer.g, q.generation = node[n].timer.stamp,
           KeepsMerge(node[m], q), KeepsTask(node[m], q)
    PROVE  AllAgree(f)
<1> SUFFICES ASSUME NEW k \in Node, NEW l \in Node PROVE Agrees(f[k], f[l])
  BY DEF AllAgree
<1> DEFINE G == node[n].timer.g
           stamp == node[n].timer.stamp
<1>0. Agrees(node[k], node[l]) /\ Agrees(node[k], node[n]) /\ Agrees(node[l], node[n])
  BY DEF Core, Held, AllAgree
<1>1. Merging(node[n]) /\ Stamped(node[n]) /\ G[1] = n
  <2>1. Merging(node[n]) /\ Stamped(node[n])
    BY DEF Merging, Stamped
  <2> QED
    BY <2>1, CoreFacts DEF Sound, Backed
<1>2. \A x \in Node : node[x].state = Normal /\ node[x].group = G => node[x].generation = stamp
  BY <1>1 DEF Core, Held, AllAgree, Agrees
<1>3. \A x \in Node : Merging(node[x]) /\ node[x].timer.g = G => x = n
  BY <1>1, CoreFacts DEF Sound, Backed
<1>4. \A x \in Node : ~node[x].destroyed /\ node[x].mergeContinueTask => node[x].group # G
  <2> SUFFICES ASSUME NEW x \in Node, ~node[x].destroyed, node[x].mergeContinueTask, node[x].group = G
               PROVE  FALSE
    OBVIOUS
  <2>1. node[x].state = InElection /\ node[x].coord = x
    BY CoreFacts DEF Sound, Backed
  <2>2. node[x].group[1] = x
    BY <2>1, CoreFacts DEF NodeInv, Named
  <2>3. x = n
    BY <1>1, <2>2
  <2>4. node[x].state = Reorganization
    BY <1>1, <2>3, CoreFacts DEF Sound, Backed
  <2> QED
    BY <2>1, <2>4 DEF InElection, Reorganization
<1>5. Merging(q) /\ q.timer.g = G => Stamped(q) /\ q.timer.stamp = stamp
  BY <1>1, <1>3 DEF KeepsMerge
<1>6. ~q.destroyed /\ q.mergeContinueTask => q.group # G
  BY <1>4 DEF KeepsTask
<1> HIDE DEF G, stamp
<1>7. q.group = G /\ q.generation = stamp
  BY DEF G, stamp
<1>8. CASE k = m /\ l = m
  BY <1>5, <1>6, <1>7, <1>8 DEF Agrees
<1>9. CASE k = m /\ l # m
  <2>1. Merging(node[l]) /\ node[l].timer.g = G => Stamped(node[l]) /\ node[l].timer.stamp = stamp
    BY <1>1, <1>3 DEF G, stamp
  <2> QED
    BY <1>2, <1>4, <1>7, <1>9, <2>1 DEF Agrees
<1>10. CASE k # m /\ l = m
  <2> SUFFICES ASSUME node[k].state = Normal PROVE Agrees(node[k], q)
    BY <1>10 DEF Agrees
  <2>1. q.group = node[k].group => q.generation = node[k].generation
    BY <1>2, <1>7
  <2>2. Merging(q) /\ q.timer.g = node[k].group => Stamped(q) /\ node[k].generation = q.timer.stamp
    BY <1>0, <1>10 DEF Agrees, KeepsMerge
  <2>3. ~q.destroyed /\ q.mergeContinueTask => q.group # node[k].group
    BY <1>0, <1>10 DEF Agrees, KeepsTask
  <2> QED
    BY <2>1, <2>2, <2>3 DEF Agrees
<1>11. CASE k # m /\ l # m
  BY <1>0, <1>11
<1> QED
  BY <1>8, <1>9, <1>10, <1>11

(* ready() at a member: another node than the coordinator that calls it. *)
LEMMA OnReadySound ==
    ASSUME NEW m \in Node, NEW r \in NodeRec, NEW j, j # m, NEW g, NEW max, NEW generation, Sound(m, r),
           ReadyAccepted(r, j, g)
    PROVE  LET q == OnReady(r, j, g, max, generation) IN
           /\ Sound(m, q) /\ KeepsMerge(r, q) /\ KeepsTask(r, q)
           /\ q.state = Normal /\ q.group = g /\ q.generation = generation
<1> DEFINE x == Max({r.max, max})
           q == [r EXCEPT !.max = x, !.generation = generation, !.state = Normal,
                          !.coordinatorProxy = j,
                          !.checkTask = IF @ = "null" THEN "scheduled" ELSE @]
<1>1. ~r.destroyed /\ r.state = Reorganization /\ r.group = g /\ r.coord = j
  BY DEF ReadyAccepted
<1>2. OnReady(r, j, g, max, generation) = q
  BY Zenon DEF OnReady
<1> HIDE DEF x
<1>3. /\ q.state = Normal /\ q.coord = r.coord /\ q.group = r.group /\ q.generation = generation
      /\ q.up = r.up /\ q.mergeContinueTask = r.mergeContinueTask
      /\ q.updateCounter = r.updateCounter /\ q.recovering = r.recovering /\ q.lostMajority = r.lostMajority
      /\ q.invitations = r.invitations /\ q.destroyed = r.destroyed /\ q.timer = r.timer
  BY DEF NodeRec
<1> HIDE DEF q
<1>4. ~Merging(r) /\ ~r.mergeContinueTask /\ \A h \in r.invitations : h.pc # "forward"
  BY <1>1 DEF Sound, Backed, Reorganization, InElection
<1>5. ~Merging(q)
  BY <1>3, <1>4 DEF Merging
<1>6. Quiet(q)
  BY <1>3 DEF Sound, Quiet
<1>7. Backed(m, q)
  BY <1>3, <1>4, <1>5 DEF Backed
<1>8. Led(m, q)
  BY <1>1, <1>3 DEF Led
<1>9. KeepsMerge(r, q) /\ KeepsTask(r, q)
  BY <1>3, <1>4, <1>5 DEF KeepsMerge, KeepsTask
<1> QED
  BY <1>1, <1>2, <1>3, <1>6, <1>7, <1>8, <1>9 DEF Sound

(* Both nodes change. *)
LEMMA ReadyHeld ==
    ASSUME Core, NEW n \in Node, NEW m \in Node, Ready(n, m)
    PROVE  Held'
<1> DEFINE r == node[n]
           new == OnReady(node[m], n, r.timer.g, r.max, r.timer.stamp)
           ran == [node EXCEPT ![m] = new]
           P(f) == /\ f \in [Node -> NodeRec] /\ f[n] = r /\ AllAgree(f)
                   /\ \A k \in Node : Sound(k, f[k]) /\ KeepsTask(node[k], f[k])
<1>1. r \in NodeRec /\ r.max \in Nat /\ r.timer.pc = "ready" /\ r.timer \in Timer /\ Sound(n, r)
  <2>1. r \in NodeRec /\ r.timer.pc = "ready" /\ r.timer \in Timer /\ Sound(n, r)
    BY CoreFacts DEF Ready
  <2> QED
    BY <2>1 DEF NodeRec
<1>2. m # n
  <2>1. m \in r.timer.todo
    BY DEF Ready
  <2> QED
    BY <1>1, <2>1 DEF Sound, Backed, Merging
<1>3. P(node)
  BY DEF Core, Held, Inv, TypeOK, KeepsTask
<1>4. P(ran)
  <2>1. node[m] \in NodeRec /\ node[m].group \in Group /\ Sound(m, node[m])
    <3>1. node[m] \in NodeRec /\ Sound(m, node[m])
      BY CoreFacts
    <3> QED
      BY <3>1 DEF NodeRec
  <2>2. CASE ReadyAccepted(node[m], n, r.timer.g)
    <3>1. r.timer.g \in Group
      BY <2>1, <2>2 DEF ReadyAccepted
    <3>2. new \in NodeRec
      BY <1>1, <2>1, <3>1, OnReadyType DEF Timer
    <3>3. /\ Sound(m, new) /\ KeepsMerge(node[m], new) /\ KeepsTask(node[m], new)
          /\ new.state = Normal /\ new.group = r.timer.g /\ new.generation = r.timer.stamp
      BY <1>2, <2>1, <2>2, OnReadySound
    <3> HIDE DEF new
    <3>4. \A k \in Node : ran[k] = IF k = m THEN new ELSE node[k]
      BY <1>3
    <3>5. ran \in [Node -> NodeRec]
      BY <1>3, <3>2
    <3> HIDE DEF ran
    <3>6. AllAgree(ran)
      BY <1>1, <3>3, <3>4, ServesAgree
    <3> QED
      BY <1>2, <1>3, <3>3, <3>4, <3>5, <3>6
  <2>3. CASE ~ReadyAccepted(node[m], n, r.timer.g)
    <3>1. new = node[m]
      BY <2>3 DEF OnReady
    <3> HIDE DEF new
    <3>2. ran = node
      BY <1>3, <3>1
    <3> QED
      BY <1>3, <3>2
  <2> QED
    BY <2>2, <2>3
<1>5. \/ node' = [ran EXCEPT ![n].timer.todo = @ \ {m}]
      \/ \E after \in {node, ran}, g \in FreshGroups(n) :
           node' = [after EXCEPT ![n] = TimerRecover(n, after[n], g)]
  BY DEF Ready
<1>6. NoAccept
  BY DEF Ready, NoAccept
<1> HIDE DEF ran, new
<1>7. ASSUME NEW after, P(after), NEW q, Sound(n, q), Passive(r, q), node' = [after EXCEPT ![n] = q]
      PROVE  Held'
  <2>1. \A k \in Node : node'[k] = IF k = n THEN q ELSE after[k]
    BY <1>7
  <2>2. \A k \in Node : Passive(after[k], node'[k])
    BY <1>7, <2>1, PassiveSame
  <2>3. AllAgree(node')
    BY <1>7, <2>2, PassiveAgree
  <2>4. \A k \in Node : Sound(k, node'[k])
    BY <1>7, <2>1
  <2>5. \A k \in Node : KeepsTask(node[k], node'[k])
    BY <1>7, <2>1 DEF Passive
  <2>6. NoSelf'
    BY <1>6, <2>5, TasksNoSelf DEF Core, Held
  <2> QED
    BY <2>3, <2>4, <2>6 DEF Held
<1>8. CASE node' = [ran EXCEPT ![n].timer.todo = @ \ {m}]
  <2> DEFINE t == [r.timer EXCEPT !.todo = @ \ {m}]
             q == [r EXCEPT !.timer = t]
  <2>1. node' = [ran EXCEPT ![n] = q]
    BY <1>1, <1>4, <1>8 DEF NodeRec
  <2>2. t.pc = "ready" /\ t.g = r.timer.g /\ t.members = r.timer.members /\ t.stamp = r.timer.stamp
        /\ t.todo \subseteq r.timer.todo
    BY <1>1 DEF Timer
  <2> HIDE DEF t
  <2>3. /\ q.state = r.state /\ q.coord = r.coord /\ q.group = r.group /\ q.generation = r.generation
        /\ q.up = r.up /\ q.mergeContinueTask = r.mergeContinueTask
        /\ q.updateCounter = r.updateCounter /\ q.recovering = r.recovering /\ q.lostMajority = r.lostMajority
        /\ q.invitations = r.invitations /\ q.destroyed = r.destroyed /\ q.timer = t
    BY <1>1 DEF NodeRec
  <2> HIDE DEF q
  <2>4. Merging(r) /\ n \notin r.timer.todo
    BY <1>1 DEF Sound, Backed, Merging
  <2>5. Frame(n, r, q)
    BY <1>1, <2>2, <2>3, <2>4 DEF Frame, Merging, Stamped
  <2>6. Sound(n, q) /\ Passive(r, q)
    BY <1>1, <2>5, FrameSound
  <2> QED
    BY <1>4, <1>7, <2>1, <2>6
<1>9. ASSUME NEW after \in {node, ran}, NEW g \in FreshGroups(n),
             node' = [after EXCEPT ![n] = TimerRecover(n, after[n], g)]
      PROVE  Held'
  <2>1. P(after)
    BY <1>3, <1>4
  <2> DEFINE q == TimerRecover(n, r, g)
  <2>2. Sound(n, q) /\ Passive(r, q)
    BY <1>1, TimerRecoverSound DEF Sound
  <2>3. node' = [after EXCEPT ![n] = q]
    BY <1>9, <2>1
  <2> HIDE DEF q
  <2> QED
    BY <1>7, <2>1, <2>2, <2>3
<1> QED
  BY <1>5, <1>8, <1>9

(* The coordinator begins to serve, with the majority it has kept. *)
LEMMA ReadyDoneHeld ==
    ASSUME Core, NEW n \in Node, ReadyDone(n)
    PROVE  Held'
<1> DEFINE r == node[n]
           a == [r EXCEPT !.timer = TimerIdle]
           b == [r EXCEPT !.state = Normal, !.coordinatorProxy = None,
                          !.generation = r.timer.stamp, !.checkTask = "scheduled",
                          !.timer = TimerIdle]
<1>1. r \in NodeRec /\ r.timer \in Timer /\ Sound(n, r) /\ r.timer.pc = "ready"
  BY CoreFacts DEF ReadyDone
<1>2. /\ b.state = Normal /\ b.coord = r.coord /\ b.group = r.group /\ b.generation = r.timer.stamp
      /\ b.up = r.up /\ b.mergeContinueTask = r.mergeContinueTask
      /\ b.updateCounter = r.updateCounter /\ b.recovering = r.recovering /\ b.lostMajority = r.lostMajority
      /\ b.invitations = r.invitations /\ b.destroyed = r.destroyed /\ b.timer = TimerIdle
  BY <1>1 DEF NodeRec
<1>3. (r.destroyed /\ Set(n, a)) \/ (~r.destroyed /\ Set(n, b))
  BY Zenon DEF ReadyDone
<1>4. NoAccept
  BY DEF ReadyDone, NoAccept
<1>5. TimerIdle.pc = "idle" /\ Merging(r)
  BY <1>1 DEF TimerIdle, Merging
<1> HIDE DEF b
<1>6. CASE Set(n, a)
  BY <1>4, <1>5, <1>6, TimerHeld
<1>7. CASE ~r.destroyed /\ Set(n, b)
  <2>1. r.state = Reorganization /\ r.coord = n /\ r.group = r.timer.g /\ Cardinality(r.up) >= Majority
    BY <1>1, <1>5, <1>7 DEF Sound, Backed
  <2>2. ~r.mergeContinueTask /\ \A h \in r.invitations : h.pc # "forward"
    BY <1>1, <1>7, <2>1 DEF Sound, Backed, Reorganization, InElection
  <2>3. ~Merging(b)
    BY <1>2, <1>5 DEF Merging
  <2>4. Sound(n, b)
    <3>1. Quiet(b)
      BY <1>1, <1>2, <1>5 DEF Sound, Quiet
    <3>2. Backed(n, b)
      BY <1>2, <2>2, <2>3 DEF Backed
    <3> QED
      BY <1>2, <2>1, <3>1, <3>2 DEF Sound, Led
  <2>5. \A k \in Node : node'[k] = IF k = n THEN b ELSE node[k]
    BY <1>7 DEF Set, Core, Inv, TypeOK
  <2>6. KeepsMerge(r, b) /\ KeepsTask(r, b)
    BY <1>2, <2>2, <2>3 DEF KeepsMerge, KeepsTask
  <2>8. AllAgree(node')
    BY <1>1, <1>2, <2>1, <2>5, <2>6, ServesAgree
  <2>9. \A k \in Node : KeepsTask(node[k], node'[k])
    BY <2>5, <2>6 DEF KeepsTask
  <2>10. NoSelf'
    BY <1>4, <2>9, TasksNoSelf DEF Core, Held
  <2>11. \A k \in Node : Sound(k, node'[k])
    BY <2>4, <2>5 DEF Core, Held
  <2> QED
    BY <2>8, <2>10, <2>11 DEF Held
<1> QED
  BY <1>3, <1>6, <1>7

(* An invitation takes a node that is not busy into an election. *)
LEMMA OnInvitationHeld ==
    ASSUME Core, NEW n \in Node, NEW msg, OnInvitation(n, msg)
    PROVE  Held'
<1> DEFINE r == node[n]
           joining == [r EXCEPT !.state = InElection, !.mergeTask = FALSE, !.mergeSet = {}]
           h == [pc |-> "forward", j |-> msg.j, g |-> msg.g, max |-> joining.max,
                 forward |-> IF joining.coord = n THEN Ids(joining.up) ELSE {}]
           q == [joining EXCEPT !.coord = msg.j, !.group = msg.g, !.invitations = @ \cup {h}]
<1>1. r \in NodeRec /\ Sound(n, r) /\ r.updateCounter = 0
  BY CoreFacts DEF Sound, Quiet
<1>2. UNCHANGED node \/ (~r.destroyed /\ ~Busy(r) /\ Set(n, q))
  BY <1>1, Zenon DEF OnInvitation, Join
<1>3. NoAccept
  BY DEF OnInvitation, NoAccept
<1>4. h.pc = "forward"
  OBVIOUS
<1>5. /\ joining.updateCounter = r.updateCounter /\ joining.recovering = r.recovering
      /\ joining.lostMajority = r.lostMajority /\ joining.invitations = r.invitations
      /\ joining.destroyed = r.destroyed /\ joining.timer = r.timer
      /\ joining.mergeContinueTask = r.mergeContinueTask /\ joining.state = InElection
      /\ joining \in NodeRec
  BY <1>1 DEF NodeRec, States
<1> HIDE DEF h, joining
<1>6. /\ q.updateCounter = r.updateCounter /\ q.recovering = r.recovering
      /\ q.lostMajority = r.lostMajority /\ q.invitations = r.invitations \cup {h}
      /\ q.destroyed = r.destroyed /\ q.timer = r.timer
      /\ q.mergeContinueTask = r.mergeContinueTask /\ q.state = InElection
  BY <1>5 DEF NodeRec
<1> HIDE DEF q
<1>7. CASE ~r.destroyed /\ ~Busy(r) /\ Set(n, q)
  <2>1. ~Merging(r) /\ ~r.mergeContinueTask /\ \A k \in r.invitations : k.pc # "forward"
    BY <1>1, <1>7 DEF Sound, Backed, Busy
  <2>2. ~Merging(q) /\ InElection # Normal
    BY <1>6, <2>1 DEF Merging, InElection, Normal
  <2>3. Quiet(q)
    BY <1>1, <1>4, <1>6 DEF Sound, Quiet
  <2>4. Backed(n, q)
    BY <1>4, <1>6, <2>1, <2>2 DEF Backed
  <2>5. Sound(n, q)
    BY <1>6, <2>2, <2>3, <2>4 DEF Sound, Led
  <2>6. Passive(r, q)
    BY <1>6, <2>1, <2>2 DEF Passive, KeepsService, KeepsMerge, KeepsTask
  <2> QED
    BY <1>3, <1>7, <2>5, <2>6, SetHeld
<1> QED
  BY <1>2, <1>3, <1>7, UnchangedHeld

LEMMA InvitationResumeHeld ==
    ASSUME Core, NEW n \in Node, NEW h \in node[n].invitations, InvitationResume(n, h)
    PROVE  Held'
BY CoreFacts DEF InvitationResume, Sound, Quiet

(* The thread that forwards the invitation is the only one: the node       *)
(* leaves its election for the reorganization.                             *)
LEMMA InvitationForwardHeld ==
    ASSUME Core, NEW n \in Node, NEW h \in node[n].invitations, InvitationForward(n, h)
    PROVE  Held'
<1> DEFINE p == node[n]
           r == [p EXCEPT !.invitations = @ \ {h}]
           k == [h EXCEPT !.pc = "accept"]
           q == [r EXCEPT !.state = Reorganization, !.timeoutTask = TRUE, !.invitations = @ \cup {k}]
<1>1. p \in NodeRec /\ r \in NodeRec /\ Sound(n, p) /\ h.pc = "forward"
  BY CoreFacts, HandlerGone DEF InvitationForward
<1>2. NoAccept
  BY DEF InvitationForward, NoAccept, Invitation
<1>3. k.pc = "accept"
  <2>1. h \in Handler
    BY <1>1 DEF NodeRec
  <2> QED
    BY <2>1 DEF Handler
<1>4. (r.destroyed /\ Set(n, r)) \/ (~r.destroyed /\ Set(n, q))
  BY Zenon DEF InvitationForward
<1>5. /\ r.state = p.state /\ r.coord = p.coord /\ r.group = p.group /\ r.generation = p.generation
      /\ r.up = p.up /\ r.mergeContinueTask = p.mergeContinueTask
      /\ r.updateCounter = p.updateCounter /\ r.recovering = p.recovering /\ r.lostMajority = p.lostMajority
      /\ r.invitations = p.invitations \ {h} /\ r.destroyed = p.destroyed /\ r.timer = p.timer
  BY <1>1 DEF NodeRec
<1> HIDE DEF r, k
<1>6. /\ q.state = Reorganization /\ q.mergeContinueTask = r.mergeContinueTask
      /\ q.updateCounter = r.updateCounter /\ q.recovering = r.recovering /\ q.lostMajority = r.lostMajority
      /\ q.invitations = r.invitations \cup {k} /\ q.destroyed = r.destroyed /\ q.timer = r.timer
  BY <1>1 DEF NodeRec
<1> HIDE DEF q
<1>7. CASE r.destroyed /\ Set(n, r)
  <2>1. Frame(n, p, r)
    BY <1>1, <1>5, SoundTimer DEF Frame, Merging, Stamped
  <2> QED
    BY <1>2, <1>7, <2>1, FrameHeld
<1>8. CASE ~r.destroyed /\ Set(n, q)
  <2>1. p.state = InElection /\ ~p.mergeContinueTask /\ \A x \in p.invitations : x.pc = "forward" => x = h
    BY <1>1, <1>5, <1>8 DEF Sound, Backed
  <2>2. ~Merging(p)
    BY <1>1, <1>5, <1>8, <2>1 DEF Sound, Backed, InElection, Reorganization
  <2>3. ~Merging(q) /\ Reorganization # Normal
    BY <1>5, <1>6, <2>2 DEF Merging, Reorganization, Normal
  <2>4. \A x \in q.invitations : x.pc # "forward"
    BY <1>3, <1>5, <1>6, <2>1
  <2>5. Quiet(q)
    BY <1>1, <1>3, <1>5, <1>6 DEF Sound, Quiet
  <2>6. Sound(n, q)
    BY <1>5, <1>6, <2>1, <2>3, <2>4, <2>5 DEF Sound, Backed, Led
  <2>7. Passive(p, q)
    BY <1>5, <1>6, <2>1, <2>3 DEF Passive, KeepsService, KeepsMerge, KeepsTask
  <2> QED
    BY <1>2, <1>8, <2>6, <2>7, SetHeld
<1> QED
  BY <1>4, <1>7, <1>8

(* No node accepts its own invitation to a group in its election. *)
LEMMA InvitationAcceptHeld ==
    ASSUME Core, NEW n \in Node, NEW h \in node[n].invitations, InvitationAccept(n, h), used'.refusals = 0
    PROVE  Held'
<1> DEFINE p == node[n]
           r == [p EXCEPT !.invitations = @ \ {h}]
           call == [type |-> "accept", to |-> h.j, j |-> n, g |-> h.g, llu |-> llu[n], max |-> h.max]
<1>1. p \in NodeRec /\ Sound(n, p) /\ TypeOK
  BY CoreFacts
<1>2. Set(n, r) /\ msgs' = msgs \cup {call}
  <2>1. used.refusals \in Nat
    BY <1>1 DEF TypeOK, Used
  <2>2. used' # [used EXCEPT !.refusals = @ + 1]
    BY <1>1, <2>1 DEF TypeOK, Used
  <2> QED
    BY <2>2, Zenon DEF InvitationAccept
<1>3. /\ r.state = p.state /\ r.coord = p.coord /\ r.group = p.group /\ r.generation = p.generation
      /\ r.up = p.up /\ r.mergeContinueTask = p.mergeContinueTask
      /\ r.updateCounter = p.updateCounter /\ r.recovering = p.recovering /\ r.lostMajority = p.lostMajority
      /\ r.invitations = p.invitations \ {h} /\ r.destroyed = p.destroyed /\ r.timer = p.timer
  BY <1>1 DEF NodeRec
<1>4. call.g = h.g /\ call.j = n
  OBVIOUS
<1> HIDE DEF r, call
<1>5. Frame(n, p, r)
  BY <1>1, <1>3, SoundTimer DEF Frame, Merging, Stamped
<1>6. Sound(n, r) /\ Passive(p, r)
  BY <1>1, <1>5, FrameSound
<1>7. \A k \in Node : node'[k] = IF k = n THEN r ELSE node[k]
  BY <1>1, <1>2 DEF Set, TypeOK
<1>8. \A k \in Node : Sound(k, node'[k])
  BY <1>6, <1>7 DEF Core, Held
<1>9. AllAgree(node')
  <2>1. \A k \in Node : Passive(node[k], node'[k])
    BY <1>6, <1>7, PassiveSame
  <2> QED
    BY <2>1, PassiveAgree DEF Core, Held
<1>10. NoSelf'
  <2> SUFFICES ASSUME NEW k \in Node, ~node'[k].destroyed, node'[k].mergeContinueTask,
                      NEW m \in msgs', m.type = "accept", m.to = k, m.j = k
               PROVE  m.g # node'[k].group
    BY DEF NoSelf
  <2>1. ~node[k].destroyed /\ node[k].mergeContinueTask /\ node'[k].group = node[k].group
    BY <1>3, <1>7
  <2>2. CASE m \in msgs
    BY <2>1, <2>2 DEF Core, Held, NoSelf
  <2>3. CASE m = call
    <3>1. k = n /\ m.g = h.g
      BY <1>4, <2>3
    <3> QED
      BY <1>1, <2>1, <3>1 DEF Sound, Backed
  <2> QED
    BY <1>2, <2>2, <2>3
<1> QED
  BY <1>8, <1>9, <1>10 DEF Held

(* accept() adds a member other than the coordinator. *)
LEMMA OnAcceptHeld ==
    ASSUME Core, NEW n \in Node, NEW msg \in msgs, OnAccept(n, msg)
    PROVE  Held'
<1> DEFINE r == node[n]
           up == IF msg.j \in Ids(r.up) THEN r.up ELSE r.up \cup {[id |-> msg.j, llu |-> msg.llu]}
           Q(x) == [r EXCEPT !.up = up, !.max = x]
<1>1. r \in NodeRec /\ Sound(n, r)
  BY CoreFacts
<1>2. \/ UNCHANGED node
      \/ /\ ~r.destroyed /\ r.state = InElection /\ r.group = msg.g /\ r.coord = n
         /\ \E x : Set(n, Q(x))
  BY Zenon DEF OnAccept
<1>3. NoAccept
  BY DEF OnAccept, NoAccept
<1>4. ASSUME NEW x, ~r.destroyed, r.state = InElection, r.group = msg.g, r.coord = n, Set(n, Q(x))
      PROVE  Held'
  <2> DEFINE q == Q(x)
  <2>1. r.mergeContinueTask => n \notin Ids(up)
    <3> SUFFICES ASSUME r.mergeContinueTask PROVE n \notin Ids(up)
      OBVIOUS
    <3>1. n \notin Ids(r.up)
      BY <1>1, <1>4 DEF Sound, Backed
    <3>2. msg.j # n
      BY <1>4 DEF Core, Held, NoSelf, OnAccept
    <3> QED
      BY <3>1, <3>2 DEF Ids
  <2> HIDE DEF up
  <2>2. /\ q.state = r.state /\ q.coord = r.coord /\ q.group = r.group /\ q.generation = r.generation
        /\ q.up = up /\ q.mergeContinueTask = r.mergeContinueTask
        /\ q.updateCounter = r.updateCounter /\ q.recovering = r.recovering /\ q.lostMajority = r.lostMajority
        /\ q.invitations = r.invitations /\ q.destroyed = r.destroyed /\ q.timer = r.timer
    BY <1>1 DEF NodeRec
  <2>3. Set(n, q)
    BY <1>4
  <2> HIDE DEF q
  <2>4. ~Merging(r) /\ ~Merging(q)
    BY <1>1, <1>4, <2>2 DEF Sound, Backed, InElection, Reorganization, Merging
  <2>5. Quiet(q)
    BY <1>1, <2>2 DEF Sound, Quiet
  <2>6. Backed(n, q)
    BY <1>1, <1>4, <2>1, <2>2, <2>4 DEF Sound, Backed
  <2>7. Sound(n, q)
    BY <1>4, <2>2, <2>5, <2>6 DEF Sound, Led, InElection, Normal
  <2>8. Passive(r, q)
    BY <2>2, <2>4 DEF Passive, KeepsService, KeepsMerge, KeepsTask
  <2> QED
    BY <1>3, <2>3, <2>7, <2>8, SetHeld
<1> QED
  BY <1>2, <1>3, <1>4, UnchangedHeld

LEMMA TimeoutHeld ==
    ASSUME Core, NEW n \in Node, Timeout(n) \/ TimeoutCall(n) \/ TimeoutFailed(n)
    PROVE  Held'
<1> DEFINE r == node[n]
           t == [TimerIdle EXCEPT !.pc = "timeoutCall", !.j = r.coord, !.g = r.group]
           u == [r.timer EXCEPT !.pc = "timeoutFailed"]
<1>1. r \in NodeRec /\ r.timer \in Timer
  BY CoreFacts
<1>2. \/ \E s \in {t, u, TimerIdle} : Set(n, [r EXCEPT !.timer = s])
      \/ Abandon(n)
  <2>1. [r EXCEPT !.timer.pc = "timeoutFailed"] = [r EXCEPT !.timer = u]
    BY <1>1 DEF NodeRec
  <2>2. CASE Timeout(n)
    BY <2>2 DEF Timeout
  <2>3. CASE TimeoutCall(n)
    BY <2>1, <2>3 DEF TimeoutCall
  <2>4. CASE TimeoutFailed(n)
    BY <2>4 DEF TimeoutFailed, Abandon
  <2> QED
    BY <2>2, <2>3, <2>4
<1>3. \A s \in {t, u, TimerIdle} : s.pc \in {"timeoutCall", "timeoutFailed", "idle"}
  <2>1. t.pc = "timeoutCall" /\ TimerIdle.pc = "idle"
    BY DEF TimerIdle
  <2>2. u.pc = "timeoutFailed"
    BY <1>1 DEF Timer
  <2> QED
    BY <2>1, <2>2
<1>4. NoAccept
  BY DEF Timeout, TimeoutCall, TimeoutFailed, NoAccept
<1> HIDE DEF t, u
<1> QED
  BY <1>2, <1>3, <1>4, TimerHeld, AbandonHeld

LEMMA RecoverResumeHeld ==
    ASSUME Core, NEW n \in Node, RecoverResume(n)
    PROVE  Held'
BY CoreFacts DEF RecoverResume, Sound, Quiet

(* No client thread is there, and recovery() is what a failure leads to. *)
LEMMA ClientHeld ==
    ASSUME Core, NEW n \in Node, ClientStep(n), used'.updates = 0
    PROVE  Held'
<1>1. Quiet(node[n]) /\ TypeOK
  BY CoreFacts DEF Sound
<1>2. ~Client
  <2>1. used.updates \in Nat
    BY <1>1 DEF TypeOK, Used
  <2> QED
    BY <1>1, <2>1 DEF Client, TypeOK, Used
<1>3. ~StartUpdate(n) /\ ~ObserversCheck(n)
  BY <1>2 DEF StartUpdate, ObserversCheck
<1>4. ~FinishUpdate(n) /\ ~LostMajority(n)
  BY <1>1 DEF FinishUpdate, LostMajority, Quiet
<1>5. Evict(n) => Held'
  BY UnchangedHeld DEF Evict, NoAccept
<1> QED
  BY <1>3, <1>4, <1>5, GenerationRecoveryHeld DEF ClientStep

LEMMA DestroyHeld ==
    ASSUME Core, NEW n \in Node, Destroy(n)
    PROVE  Held'
<1> DEFINE r == node[n]
           q == [r EXCEPT !.destroyed = TRUE, !.timeoutTask = FALSE, !.mergeTask = FALSE,
                          !.mergeSet = IF r.timer.pc = "merge" THEN @ ELSE {},
                          !.checkTask = "null"]
<1>1. r \in NodeRec /\ Sound(n, r)
  BY CoreFacts
<1>2. /\ q.state = r.state /\ q.coord = r.coord /\ q.group = r.group /\ q.generation = r.generation
      /\ q.up = r.up /\ q.mergeContinueTask = r.mergeContinueTask
      /\ q.updateCounter = r.updateCounter /\ q.recovering = r.recovering /\ q.lostMajority = r.lostMajority
      /\ q.invitations = r.invitations /\ q.destroyed /\ q.timer = r.timer
  BY <1>1 DEF NodeRec
<1>3. Set(n, q) /\ NoAccept
  BY Zenon DEF Destroy, NoAccept
<1> HIDE DEF q
<1>4. Frame(n, r, q)
  BY <1>1, <1>2, SoundTimer DEF Frame, Merging, Stamped
<1> QED
  BY <1>3, <1>4, FrameHeld

LEMMA StartedSound ==
    ASSUME NEW n \in Node, NEW g
    PROVE  LET q == Started(n, g) IN
           Sound(n, q) /\ q.state = Inactive /\ ~q.mergeContinueTask /\ ~Merging(q)
<1> DEFINE q == Started(n, g)
<1>1. /\ q.state = Inactive /\ ~q.mergeContinueTask /\ q.invitations = {} /\ q.timer = TimerIdle
      /\ q.updateCounter = 0 /\ q.recovering = 0 /\ ~q.lostMajority
  BY DEF Started
<1> HIDE DEF q
<1>2. q.timer.pc = "idle" /\ Inactive # Normal
  BY <1>1 DEF TimerIdle, Inactive, Normal
<1>3. Quiet(q) /\ ~Merging(q)
  BY <1>1, <1>2 DEF Quiet, Merging
<1>4. Backed(n, q) /\ Led(n, q)
  BY <1>1, <1>2, <1>3 DEF Backed, Led
<1> QED
  BY <1>1, <1>3, <1>4 DEF q, Sound

LEMMA CrashHeld ==
    ASSUME Core, NEW n \in Node, Crash(n)
    PROVE  Held'
<1>1. PICK g \in FreshGroups(n) : Set(n, Started(n, g))
  BY DEF Crash
<1> DEFINE q == Started(n, g)
<1>2. Sound(n, q) /\ q.state = Inactive /\ ~q.mergeContinueTask /\ ~Merging(q)
  BY StartedSound
<1> HIDE DEF q
<1>3. Passive(node[n], q)
  BY <1>2 DEF Passive, KeepsService, KeepsMerge, KeepsTask, Inactive, Normal
<1>4. Set(n, q) /\ NoAccept
  BY <1>1 DEF q, Crash, NoAccept
<1> QED
  BY <1>2, <1>3, <1>4, SetHeld

(* The bounds are only used up. *)
LEMMA UsedGrows ==
    ASSUME TypeOK, [Next]_vars, Undisturbed'
    PROVE  Undisturbed
<1> DEFINE Steps == {used, [used EXCEPT !.updates = @ + 1], [used EXCEPT !.checks = @ + 1],
                     [used EXCEPT !.failures = @ + 1], [used EXCEPT !.refusals = @ + 1],
                     [used EXCEPT !.crashes = @ + 1], [used EXCEPT !.destroys = @ + 1]}
<1>1. ASSUME used' \in Steps PROVE Undisturbed
  <2>1. used \in Used /\ used.updates \in Nat /\ used.refusals \in Nat
    BY DEF TypeOK, Used
  <2>2. used'.updates \in {used.updates, used.updates + 1} /\ used'.refusals \in {used.refusals, used.refusals + 1}
    BY <1>1, <2>1 DEF Used
  <2> QED
    BY <2>1, <2>2 DEF Undisturbed
<1>2. ASSUME NEW n \in Node, TimerStep(n) PROVE used' \in Steps
  <2>1. CASE Check(n) \/ CheckDone(n) \/ MergeFire(n) \/ Merge(n) \/ MergeResume(n) \/ MergeContinue(n)
    BY <2>1, Zenon DEF Check, CheckDone, MergeFire, Merge, MergeResume, MergeContinue
  <2>2. CASE Sync(n) \/ InitMaster(n) \/ InitDone(n) \/ ReadyDone(n)
    BY <2>2, Zenon DEF Sync, InitMaster, InitDone, ReadyDone, Failure
  <2>3. ASSUME NEW m \in Node, CheckCall(n, m) \/ InitObserver(n, m) \/ Ready(n, m) PROVE used' \in Steps
    BY <2>3, Zenon DEF CheckCall, InitObserver, Ready, Failure
  <2>4. CASE Timeout(n) \/ TimeoutCall(n) \/ TimeoutFailed(n)
    BY <2>4, Zenon DEF Timeout, TimeoutCall, TimeoutFailed, Failure
  <2> QED
    BY <1>2, <2>1, <2>2, <2>3, <2>4, Zenon DEF TimerStep
<1>3. ASSUME NEW n \in Node, InvitationStep(n) PROVE used' \in Steps
  BY <1>3, Zenon DEF InvitationStep, OnInvitation, OnAccept, InvitationResume, InvitationForward, InvitationAccept
<1>4. ASSUME NEW n \in Node, RecoverResume(n) \/ ClientStep(n) \/ Destroy(n) \/ Crash(n)
      PROVE  used' \in Steps
  BY <1>4, Zenon DEF RecoverResume, ClientStep, StartUpdate, FinishUpdate, Evict, ObserversCheck,
     LostMajority, GenerationRecovery, Destroy, Crash, Failure, Client
<1>5. ASSUME NEW m \in msgs, Lose(m) PROVE used' \in Steps
  BY <1>5, Zenon DEF Lose, Failure
<1>6. CASE UNCHANGED vars
  BY <1>1, <1>6 DEF vars
<1>7. CASE Next
  <2> HIDE DEF Steps
  <2> QED
    BY <1>1, <1>2, <1>3, <1>4, <1>5, <1>7, Zenon DEF Next
<1> QED
  BY <1>6, <1>7

LEMMA NextHeld == Core /\ Undisturbed' /\ [Next]_vars => Held'
<1> SUFFICES ASSUME Core, Undisturbed', [Next]_vars PROVE Held'
  OBVIOUS
<1>0. used'.updates = 0 /\ used'.refusals = 0
  BY DEF Undisturbed
<1>1. ASSUME NEW n \in Node, MergeResume(n) PROVE Held'
  BY <1>1, CoreFacts DEF MergeResume, Sound, Quiet
<1>2. ASSUME NEW n \in Node, TimerStep(n) PROVE Held'
  BY <1>1, <1>2, CheckHeld, CheckCallHeld, CheckDoneHeld, MergeFireHeld, MergeHeld,
     MergeContinueHeld, SyncHeld, InitMasterHeld, InitObserverHeld, InitDoneHeld, ReadyHeld,
     ReadyDoneHeld, TimeoutHeld, ZenonT(60) DEF TimerStep
<1>3. ASSUME NEW n \in Node, InvitationStep(n) PROVE Held'
  BY <1>0, <1>3, OnInvitationHeld, OnAcceptHeld, InvitationResumeHeld, InvitationForwardHeld,
     InvitationAcceptHeld, ZenonT(60) DEF InvitationStep
<1>4. ASSUME NEW n \in Node, RecoverResume(n) \/ ClientStep(n) \/ Destroy(n) \/ Crash(n)
      PROVE  Held'
  BY <1>0, <1>4, RecoverResumeHeld, ClientHeld, DestroyHeld, CrashHeld
<1>5. ASSUME NEW m \in msgs, Lose(m) PROVE Held'
  BY <1>5, UnchangedHeld DEF Lose, NoAccept
<1>6. ASSUME UNCHANGED vars PROVE Held'
  BY <1>6, UnchangedHeld DEF vars, NoAccept
<1>7. CASE Next
  BY <1>2, <1>3, <1>4, <1>5, <1>7, Zenon DEF Next
<1> QED
  BY <1>6, <1>7

LEMMA InitHeld == Init => Held
<1> SUFFICES ASSUME Init PROVE Held
  OBVIOUS
<1>1. \A n \in Node : node[n] = Started(n, <<n, 1>>)
  BY DEF Init
<1>2. \A n \in Node : Sound(n, node[n]) /\ node[n].state = Inactive /\ ~node[n].mergeContinueTask
  BY <1>1, StartedSound
<1>3. AllAgree(node)
  BY <1>2 DEF AllAgree, Agrees, Inactive, Normal
<1> QED
  BY <1>2, <1>3 DEF Held, NoSelf

(* As long as no update has been started and no accept() has failed, a     *)
(* coordinator that serves has a majority behind it, and the nodes that    *)
(* serve in one group serve in one generation: for every number of nodes,  *)
(* every bound, and whichever remote calls are lost and nodes crash,       *)
(* restart or are shut down.  The calls of mergeContinue() are made with   *)
(* the mutex free; what it finds when it takes the mutex again is what it  *)
(* left, because no recovery() enters an election that has begun.          *)
THEOREM MajorityAlwaysServes == Spec => []MajorityServes
<1> DEFINE IInv == Inv /\ (Undisturbed => Held)
<1>1. Init => IInv
  BY InitInv, InitHeld
<1>2. IInv /\ [Next]_vars => IInv'
  <2> SUFFICES ASSUME IInv, [Next]_vars PROVE IInv'
    OBVIOUS
  <2>1. Inv'
    BY NextInv
  <2>2. Undisturbed' => Undisturbed
    BY UsedGrows DEF Inv
  <2>3. Undisturbed' => Held'
    BY <2>2, NextHeld DEF Core
  <2> QED
    BY <2>1, <2>3
<1>3. IInv => MajorityServes
  <2> SUFFICES ASSUME Held PROVE MasterHasMajority /\ OneGenerationPerGroup
    BY DEF MajorityServes, Undisturbed
  <2>1. MasterHasMajority
    BY DEF Held, Sound, Led, MasterHasMajority
  <2>2. OneGenerationPerGroup
    BY DEF Held, AllAgree, Agrees, OneGenerationPerGroup
  <2> QED
    BY <2>1, <2>2
<1> HIDE DEF IInv
<1> QED
  BY <1>1, <1>2, <1>3, PTL DEF Spec
=============================================================================
