------------------------------ MODULE MCServices ------------------------------
(***************************************************************************)
(* The services and plug-ins: the objects and servers that sessions        *)
(* allocate from an IceGrid registry (Allocatable), a server on an IceGrid *)
(* node (Server), the sessions of a Glacier2 router (SessionRouter), and   *)
(* the lookups of the IceDiscovery plug-in (Discovery).  They share no     *)
(* state.  A behaviour explores the instance that part names.              *)
(***************************************************************************)
EXTENDS Naturals

VARIABLES
    part,
    alloc, ses, req, cache, thread, asserted,             \* Allocatable
    server, adapter, proc, sent, listener, visit, since, config,  \* Server
    router, create, session, control, conn,                       \* SessionRouter
    table, request, alarm, outgoing, asker, closed                \* Discovery

registryVars == <<alloc, ses, req, cache, thread, asserted>>
nodeVars == <<server, adapter, proc, sent, listener, visit, since, config>>
gatewayVars == <<router, create, session, control, conn>>
lookupVars == <<table, request, alarm, outgoing, asker, closed>>
vars == <<part, registryVars, nodeVars, gatewayVars, lookupVars>>

O(op, s, x) == [op |-> op, s |-> s, x |-> x]
Together == [t \in {"t1", "t2", "t3", "t4", "t5"} |-> {}]

(* One object, wanted by identity and by type. *)
Single == INSTANCE Allocatable WITH
    Thread <- {"t1", "t2", "t3", "t4", "t5"}, Session <- {"s1", "s2"}, Object <- {"x1"},
    Server <- "server", HasParent <- FALSE, After <- Together, Untimed <- {"t1"}, Impatient <- {},
    Op <- [t1 |-> O("allocateById", "s1", "x1"), t2 |-> O("allocateById", "s2", "x1"),
           t3 |-> O("allocateByType", "s2", "none"), t4 |-> O("release", "s1", "x1"),
           t5 |-> O("destroy", "s2", "none")]

(* Two objects of a type, one of which is removed. *)
ByType == INSTANCE Allocatable WITH
    Thread <- {"t1", "t2", "t3", "t4", "t5"}, Session <- {"s1", "s2"}, Object <- {"x1", "x2"},
    Server <- "server", HasParent <- FALSE, After <- Together, Untimed <- {"t1"}, Impatient <- {"t3"},
    Op <- [t1 |-> O("allocateByType", "s1", "none"), t2 |-> O("allocateByType", "s2", "none"),
           t3 |-> O("allocateByType", "s2", "none"), t4 |-> O("destroy", "s1", "none"),
           t5 |-> O("remove", "none", "x1")]

(* Two objects of a server, which goes from session to session. *)
OfServer == INSTANCE Allocatable WITH
    Thread <- {"t1", "t2", "t3", "t4", "t5"}, Session <- {"s1", "s2"}, Object <- {"x1", "x2"},
    Server <- "server", HasParent <- TRUE, After <- Together, Untimed <- {"t1"}, Impatient <- {},
    Op <- [t1 |-> O("allocateById", "s1", "x1"), t2 |-> O("allocateById", "s2", "x1"),
           t3 |-> O("allocateById", "s2", "x2"), t4 |-> O("release", "s1", "x1"),
           t5 |-> O("destroy", "s2", "none")]

(* Objects of a server by type, each session asking once. *)
OfServerByType == INSTANCE Allocatable WITH
    Thread <- {"t1", "t2", "t3", "t4", "t5"}, Session <- {"s1", "s2"}, Object <- {"x1", "x2"},
    Server <- "server", HasParent <- TRUE, After <- Together, Untimed <- {"t1"}, Impatient <- {},
    Op <- [t1 |-> O("allocateByType", "s1", "none"), t2 |-> O("allocateByType", "s2", "none"),
           t3 |-> O("destroy", "s1", "none"), t4 |-> O("allocateById", "s2", "x2"),
           t5 |-> O("remove", "none", "x2")]

(* An object is released by a session that waits for one of the type,      *)
(* taken by another session that has two then, and removed while that      *)
(* session is destroyed.                                                   *)
Removed == INSTANCE Allocatable WITH
    Thread <- {"t1", "t2", "t3", "t4", "t5", "t6", "t7"}, Session <- {"s1", "s2"}, Object <- {"x1", "x2"},
    Server <- "server", HasParent <- FALSE, Untimed <- {"t1", "t2", "t4", "t5"}, Impatient <- {},
    Op <- [t1 |-> O("allocateById", "s2", "x1"), t2 |-> O("allocateByType", "s2", "none"),
           t3 |-> O("release", "s2", "x1"), t4 |-> O("allocateById", "s1", "x2"),
           t5 |-> O("allocateById", "s1", "x1"), t6 |-> O("destroy", "s1", "none"), t7 |-> O("remove", "none", "x1")],
    After <- [t1 |-> {}, t2 |-> {"t1", "t4"}, t3 |-> {"t2"}, t4 |-> {}, t5 |-> {"t4"}, t6 |-> {"t5"}, t7 |-> {}]

(* The only object of a type is removed, and another one is added. *)
Replaced == INSTANCE Allocatable WITH
    Thread <- {"t1", "t2", "t3", "t4", "t5", "t6"}, Session <- {"s1", "s2"}, Object <- {"x1", "x2"},
    Server <- "server", HasParent <- FALSE, Untimed <- {"t1", "t2"}, Impatient <- {},
    Op <- [t1 |-> O("allocateById", "s1", "x1"), t2 |-> O("allocateByType", "s2", "none"),
           t3 |-> O("release", "s1", "x1"), t4 |-> O("remove", "none", "x1"), t5 |-> O("add", "none", "x2"),
           t6 |-> O("destroy", "s2", "none")],
    After <- [t1 |-> {}, t2 |-> {}, t3 |-> {"t1"}, t4 |-> {}, t5 |-> {}, t6 |-> {}]

-----------------------------------------------------------------------------
Calls == {"start1", "stop1", "load1", "destroy1", "enable1", "disable1", "get1", "get2"}

(* A server is loaded, started, stopped and destroyed by four calls. *)
Commands ==
    [calls |-> {"start1", "stop1", "load1", "destroy1"}, noRestart |-> {}, loaded |-> "d0", lifetime |-> {"a1"},
     mode |-> "OnDemand", registers |-> FALSE, disableOnFailure |-> FALSE, replicates |-> FALSE,
     failures |-> {"crash", "fork", "load"}]

(* A server is destroyed while its process registers itself, and           *)
(* deactivates an adapter by itself.                                       *)
Destroyed ==
    [calls |-> {"start1", "stop1", "destroy1"}, noRestart |-> {}, loaded |-> "d0", lifetime |-> {"a1"},
     mode |-> "OnDemand", registers |-> TRUE, disableOnFailure |-> FALSE, replicates |-> FALSE,
     failures |-> {"crash", "leave"}]

(* The properties of a server are updated while it runs. *)
Updates ==
    [calls |-> {"start1", "stop1", "load1"}, noRestart |-> {"load1"}, loaded |-> "d0", lifetime |-> {"a1"},
     mode |-> "OnDemand", registers |-> TRUE, disableOnFailure |-> FALSE, replicates |-> FALSE,
     failures |-> {"crash", "push"}]

(* A server that is always active fails, is disabled and enabled, or is    *)
(* loaded.                                                                 *)
Always ==
    [calls |-> {"enable1", "disable1"}, noRestart |-> {}, loaded |-> "d0", lifetime |-> {},
     mode |-> "Always", registers |-> FALSE, disableOnFailure |-> TRUE, replicates |-> TRUE, failures |-> {"crash"}]

AlwaysLoaded == [Always EXCEPT !.calls = {"enable1", "load1"}]

(* Two callers ask for an adapter of a server that is stopped. *)
OnDemand ==
    [calls |-> {"get1", "get2", "stop1"}, noRestart |-> {}, loaded |-> "d0", lifetime |-> {"a1"},
     mode |-> "OnDemand", registers |-> FALSE, disableOnFailure |-> FALSE, replicates |-> FALSE, failures |-> {}]

(* A server that is always active cannot be killed, and is started again. *)
Unkillable ==
    [calls |-> {"stop1"}, noRestart |-> {}, loaded |-> "d0", lifetime |-> {"a1"}, mode |-> "Always",
     registers |-> FALSE, disableOnFailure |-> FALSE, replicates |-> FALSE, failures |-> {"kill"}]

(* A server that cannot be killed is loaded and destroyed. *)
Surviving ==
    [calls |-> {"start1", "stop1", "load1", "destroy1"}, noRestart |-> {}, loaded |-> "d0", lifetime |-> {"a1"},
     mode |-> "OnDemand", registers |-> FALSE, disableOnFailure |-> FALSE, replicates |-> FALSE, failures |-> {"kill"}]

Node == INSTANCE Server WITH
    Call <- Calls, Adapter <- {"a1"}, On <- [c \in Calls |-> "a1"], MaxForks <- 2,
    Kind <- [start1 |-> "start", stop1 |-> "stop", load1 |-> "load", destroy1 |-> "destroy",
             enable1 |-> "enable", disable1 |-> "disable", get1 |-> "activate", get2 |-> "activate"],
    Props <- [d \in Calls \cup {"d0"} |-> IF d = "d0" THEN "p0" ELSE "p1"],
    Shape <- [d \in Calls \cup {"d0"} |-> "s"],
    Configurations <- {Commands, Destroyed, Updates, Always, AlwaysLoaded, OnDemand, Unkillable, Surviving}

-----------------------------------------------------------------------------
(* Two clients, or one that calls twice, of a router with a session        *)
(* manager, whose sessions are application objects.                        *)
Gateway == INSTANCE SessionRouter WITH Create <- {"c1", "c2"}, Conn <- {"k1", "k2"}, Managed <- TRUE

(* Three calls on one connection of a router without a session manager. *)
Unmanaged == INSTANCE SessionRouter WITH Create <- {"c1", "c2", "c3"}, Conn <- {"k1"}, Managed <- FALSE

-----------------------------------------------------------------------------
(* Two callers look for the same adapter. *)
Adapters == INSTANCE Discovery WITH
    req <- request, Caller <- {"c1", "c2"}, Wants <- [c1 |-> "a1", c2 |-> "a1"], Object <- {}, Proxy <- {"p1", "p2"},
    Interface <- {"i1"}, RetryCount <- 1, Throws <- FALSE, MaxRequests <- 2

(* One looks for an adapter and one for an object, on two interfaces. *)
Objects == INSTANCE Discovery WITH
    req <- request, Caller <- {"c1", "c2"}, Wants <- [c1 |-> "a1", c2 |-> "o1"], Object <- {"o1"}, Proxy <- {"p1"},
    Interface <- {"i1", "i2"}, RetryCount <- 0, Throws <- TRUE, MaxRequests <- 2

(* Three rounds on two interfaces. *)
Rounds == INSTANCE Discovery WITH
    req <- request, Caller <- {"c1"}, Wants <- [c1 |-> "a1"], Object <- {}, Proxy <- {"p1", "p2"},
    Interface <- {"i1", "i2"}, RetryCount <- 2, Throws <- TRUE, MaxRequests <- 1

ASSUME /\ Single!AllocatableAssumption /\ ByType!AllocatableAssumption
       /\ OfServer!AllocatableAssumption /\ OfServerByType!AllocatableAssumption
       /\ Removed!AllocatableAssumption /\ Replaced!AllocatableAssumption
       /\ Node!ServerAssumption
       /\ Gateway!SessionRouterAssumption /\ Unmanaged!SessionRouterAssumption
       /\ Adapters!DiscoveryAssumption /\ Objects!DiscoveryAssumption /\ Rounds!DiscoveryAssumption

-----------------------------------------------------------------------------
Registry ==
    \/ part = "single" /\ Single!Init
    \/ part = "byType" /\ ByType!Init
    \/ part = "ofServer" /\ OfServer!Init
    \/ part = "ofServerByType" /\ OfServerByType!Init
    \/ part = "removed" /\ Removed!Init
    \/ part = "replaced" /\ Replaced!Init

Init ==
    /\ Node!Init
    /\ \/ part = "node" /\ Single!Init /\ Unmanaged!Init /\ Adapters!Init
       \/ config = Updates /\ Registry /\ Unmanaged!Init /\ Adapters!Init
       \/ config = Updates /\ Single!Init /\ part = "gateway" /\ Gateway!Init /\ Adapters!Init
       \/ config = Updates /\ Single!Init /\ part = "unmanaged" /\ Unmanaged!Init /\ Adapters!Init
       \/ config = Updates /\ Single!Init /\ Unmanaged!Init /\ part = "adapters" /\ Adapters!Init
       \/ config = Updates /\ Single!Init /\ Unmanaged!Init /\ part = "objects" /\ Objects!Init
       \/ config = Updates /\ Single!Init /\ Unmanaged!Init /\ part = "rounds" /\ Rounds!Init

RegistryNext ==
    /\ \/ part = "single" /\ Single!Next
       \/ part = "byType" /\ ByType!Next
       \/ part = "ofServer" /\ OfServer!Next
       \/ part = "ofServerByType" /\ OfServerByType!Next
       \/ part = "removed" /\ Removed!Next
       \/ part = "replaced" /\ Replaced!Next
    /\ UNCHANGED <<part, nodeVars, gatewayVars, lookupVars>>

NodeNext == part = "node" /\ Node!Next /\ UNCHANGED <<part, registryVars, gatewayVars, lookupVars>>

GatewayNext ==
    /\ \/ part = "gateway" /\ Gateway!Next
       \/ part = "unmanaged" /\ Unmanaged!Next
    /\ UNCHANGED <<part, registryVars, nodeVars, lookupVars>>

LookupNext ==
    /\ \/ part = "adapters" /\ Adapters!Next
       \/ part = "objects" /\ Objects!Next
       \/ part = "rounds" /\ Rounds!Next
    /\ UNCHANGED <<part, registryVars, nodeVars, gatewayVars>>

Next == RegistryNext \/ NodeNext \/ GatewayNext \/ LookupNext
Spec == Init /\ [][Next]_vars

-----------------------------------------------------------------------------
(* A request to allocate is answered once, although a timeout, the end of  *)
(* its session or of the object and the release that serves it meet; so is *)
(* a call to a server, although commands are merged, fail and time out,    *)
(* a call to create a session, one at a time on each connection, and a     *)
(* lookup, although replies come late and twice.                           *)
AnsweredOnce ==
    /\ part = "single" => Single!AnsweredOnce
    /\ part = "ofServerByType" => OfServerByType!AnsweredOnce
    /\ part = "removed" => Removed!AnsweredOnce
    /\ part = "replaced" => Replaced!AnsweredOnce
    /\ part = "node" => Node!AnsweredOnce
    /\ part = "gateway" => Gateway!OneSession /\ Gateway!CallsAnswered
    /\ part = "unmanaged" => Unmanaged!OneSession /\ Unmanaged!CallsAnswered
    /\ part = "adapters" => Adapters!TypeOK /\ Adapters!AnsweredOnce
    /\ part = "objects" => Objects!TypeOK /\ Objects!AnsweredOnce

(* Nobody waits for what is free: an allocatable that nobody has has no    *)
(* request left; who waits for an object of a type waits because all of    *)
(* them are taken, and no thread waits for the mutex of the cache that it  *)
(* has itself, where no session waits by type for the only object, which   *)
(* it has; a server whose process does not fail, and that has nothing left *)
(* to do, keeps nobody waiting for one of its adapters; and a lookup has   *)
(* its timer, and is not given up for the failures of an earlier round.    *)
NoneForgotten ==
    /\ part = "single" => Single!NoneForgotten
    /\ part = "byType" => ByType!TypeServed /\ ByType!NoSelfDeadlock
    /\ part = "ofServerByType" =>
         OfServerByType!NoneForgotten /\ OfServerByType!TypeServed /\ OfServerByType!NoSelfDeadlock
    /\ part = "replaced" => Replaced!NoneForgotten /\ Replaced!TypeServed /\ Replaced!NoSelfDeadlock
    /\ part = "node" /\ config = OnDemand => Node!NoneStranded
    /\ part = "adapters" => Adapters!Armed /\ Adapters!RoundsCount
    /\ part = "objects" => Objects!Armed /\ Objects!RoundsCount
    /\ part = "rounds" => Rounds!TypeOK /\ Rounds!Armed /\ Rounds!RoundsCount

(* A session that has been destroyed keeps nothing, unless the release of  *)
(* an object that was being removed threw and destroyImpl() did not come   *)
(* to the others; a server belongs to the session that has one of its      *)
(* objects, and is counted once for each, and the assertions of pending(), *)
(* allocate() and release() hold; no session of a router outlives its      *)
(* connection and the router, whose maps and iterators have the sessions   *)
(* that are alive.                                                         *)
NothingKept ==
    /\ part = "single" => Single!TypeOK /\ Single!AssertsHold /\ Single!NothingKept
    /\ part = "byType" => ByType!AssertsHold /\ ByType!NothingKept
    /\ part = "removed" => Removed!TypeOK /\ Removed!AssertsHold /\ Removed!NothingKept
    /\ part = "replaced" => Replaced!TypeOK /\ Replaced!AssertsHold /\ Replaced!NothingKept
    /\ part = "ofServer" => OfServer!TypeOK /\ OfServer!AssertsHold /\ OfServer!ServerHeld /\ OfServer!NothingKept
    /\ part = "ofServerByType" => OfServerByType!AssertsHold /\ OfServerByType!NothingKept
    /\ part = "gateway" => Gateway!TypeOK /\ Gateway!NoSessionLeft /\ Gateway!MapsAgree
    /\ part = "unmanaged" => Unmanaged!TypeOK /\ Unmanaged!NoSessionLeft /\ Unmanaged!MapsAgree

(* The commands that write or remove the directory of a server wait for    *)
(* its process to end, and the assertions of the server hold, unless the   *)
(* process could not be killed; a server that was destroyed is not loaded, *)
(* and no thread locks the mutex of the server twice.                      *)
QuietWhenStopped ==
    part = "node" => Node!TypeOK /\ Node!AssertsHold /\ Node!QuietWhenStopped /\ Node!DestroyedGone /\ Node!NoSelfDeadlock

=============================================================================
