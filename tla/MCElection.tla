----------------------------- MODULE MCElection -----------------------------
(* Small instances of Election for TLC. *)
EXTENDS Election, TLC

VARIABLE scenario  \* where a behaviour starts, and what may happen in it

(* The priority of a node only sets the delay of its checks and merges, so *)
(* nodes are interchangeable.                                              *)
Symmetry == Permutations(Node)

(* A group of all nodes right after the first election, with coordinator   *)
(* c; the replicas in late failed in Observers::init() and are still in    *)
(* the state before it.                                                    *)
Serving(c, n) ==
    [Started(n, <<c, 1>>) EXCEPT
        !.state = Normal, !.coord = c, !.max = Cardinality(Node), !.generation = 1,
        !.coordinatorProxy = IF n = c THEN None ELSE c,
        !.up = IF n = c THEN [id : Node \ {c}, llu : {0}] ELSE {},
        !.timeoutTask = (n # c)]

GroupInit(c, late) ==
    /\ node = [n \in Node |-> Serving(c, n)]
    /\ observers = [n \in Node |-> IF n = c THEN Node \ (late \cup {c}) ELSE {}]
    /\ reaped = [n \in Node |-> IF n = c THEN late ELSE {}]
    /\ llu = [n \in Node |-> IF n \in late THEN 0 ELSE 1]
    /\ msgs = {}

(* The bounds, less what a scenario leaves of each.  Updates and accept()  *)
(* calls that fail are counted from 0, and are steps of ScenarioNext only  *)
(* in the scenarios that have them.                                        *)
Leaving(checks, failures, crashes, destroys) ==
    used = [updates |-> 0, checks |-> MaxChecks - checks, failures |-> MaxFailures - failures,
            refusals |-> 0, crashes |-> MaxCrashes - crashes, destroys |-> MaxDestroys - destroys]

StartInit ==
    /\ node = [n \in Node |-> Started(n, <<n, 1>>)]
    /\ llu = [n \in Node |-> 0] /\ observers = [n \in Node |-> {}] /\ reaped = [n \in Node |-> {}]
    /\ msgs = {}

(* The first election, with two nodes that look for coordinators; a        *)
(* serving group that meets two failures; one that is updated while it     *)
(* breaks up; and one in which a node restarts and another is shut down.   *)
ScenarioInit ==
    \/ scenario = "startup" /\ StartInit /\ Leaving(2, 0, 0, 0)
    \/ \E c \in Node :
         \/ scenario = "failures" /\ GroupInit(c, {}) /\ Leaving(1, 2, 0, 0)
         \/ scenario = "failures" /\ (\E l \in Node \ {c} : GroupInit(c, {l})) /\ Leaving(1, 1, 0, 0)
         \/ scenario = "updates" /\ GroupInit(c, {}) /\ Leaving(1, 1, 0, 0)
         \/ scenario = "restarts" /\ GroupInit(c, {}) /\ Leaving(1, 0, 1, 1)

(* A serving group with all the bounds before it. *)
AllInit(c) ==
    /\ scenario = "group" /\ GroupInit(c, {})
    /\ Leaving(MaxChecks, MaxFailures, MaxCrashes, MaxDestroys)

ScenarioNext ==
    /\ Next /\ UNCHANGED scenario
    /\ scenario \notin {"updates", "group"} => used'.updates = 0 /\ used'.refusals = 0
ScenarioSpec == ScenarioInit /\ [][ScenarioNext]_<<vars, scenario>>
GroupSpec == (\E c \in Node : AllInit(c)) /\ [][ScenarioNext]_<<vars, scenario>>

(* The same for liveness, where symmetry is not used: one coordinator, and *)
(* updates in progress at the coordinator or at a member.                  *)
UpdatingInit(c, m) ==
    /\ scenario = "group" /\ msgs = {}
    /\ node = [n \in Node |-> [Serving(c, n) EXCEPT !.updateCounter = IF n = m THEN MaxUpdates ELSE 0]]
    /\ observers = [n \in Node |-> IF n = c THEN Node \ {c} ELSE {}]
    /\ reaped = [n \in Node |-> {}] /\ llu = [n \in Node |-> 1]
    /\ used = [updates |-> MaxUpdates, checks |-> 0, failures |-> 0, refusals |-> 0, crashes |-> 0, destroys |-> 0]

First == CHOOSE c \in Node : TRUE
Second == CHOOSE m \in Node \ {First} : TRUE
FairGroupSpec ==
    /\ UpdatingInit(First, First) \/ UpdatingInit(First, Second)
    /\ [][ScenarioNext]_<<vars, scenario>> /\ Fairness
=============================================================================
