----------------------------- MODULE MCProgress -----------------------------
(***************************************************************************)
(* What must happen in the end, in small instances of the models of the    *)
(* Ice run time and of IceGrid.  A behaviour explores the instance that    *)
(* part names, under the fairness that its code justifies.                 *)
(***************************************************************************)
EXTENDS Naturals

CONSTANT NoRequest

VARIABLES
    part,
    inv, hs, timer, cancels, destroyed, faults,                                         \* Invocation
    factory, request, link,                                                             \* ConnectionFactory
    place, moves, table, pending, lookup, refresh, resolver,                            \* Locator
    thread, pool, sel, net,                                                             \* ThreadPool
    adapter, acceptor, incoming, registry, caller, call, asserted,                      \* ObjectAdapter, Collocated...
    alloc, ses, req, cache, session, failed,                                            \* Allocatable
    server, endpoints, proc, reports, listener, visit, since, config                    \* Server

invocationVars == <<inv, hs, timer, cancels, destroyed, faults>>
factoryVars == <<factory, request, link>>
locatorVars == <<place, moves, table, pending, lookup, refresh, resolver>>
poolVars == <<thread, pool, sel, net>>
adapterVars == <<adapter, acceptor, incoming, registry, caller>>
callVars == <<call, asserted>>
registryVars == <<alloc, ses, req, cache, session, failed>>
nodeVars == <<server, endpoints, proc, reports, listener, visit, since>>
vars == <<part, invocationVars, factoryVars, locatorVars, poolVars, adapterVars,
          callVars, registryVars, nodeVars, config>>

-----------------------------------------------------------------------------
Calling == INSTANCE Invocation WITH
    Request <- {"r1"}, None <- NoRequest, RetryIntervals <- <<0, 1>>, Calls <- {"timeout", "destroy"},
    MaxHandlers <- 4, MaxFaults <- 1

Outgoing == INSTANCE ConnectionFactory WITH
    Request <- {"r1", "r2"}, Endpoint <- {"e1", "e2"}, Connector <- {"c1", "c2", "c3"},
    Endpoints <- [r1 |-> <<"e1">>, r2 |-> <<"e1", "e2">>],
    Connectors <- [e1 |-> <<"c1", "c2">>, e2 |-> <<"c2", "c3">>], Failures <- {"other", "timeout"}

Cache == INSTANCE Locator WITH
    request <- lookup, caller <- resolver, Caller <- {"c1", "c2"}, Adapter <- {"a1"}, WellKnown <- {"o1"},
    Endpoint <- {"e1", "e2"}, Wants <- [c1 |-> "a1", c2 |-> "o1"], Warm <- [o1 |-> "a1", a1 |-> "e1"],
    Background <- FALSE, Ttl <- "infinite", MaxMoves <- 1, MaxRequests <- 6, LocatorFails <- FALSE

(* Dispatches may never return. *)
Blocking == INSTANCE ThreadPool WITH
    Thread <- {"t1", "t2", "t3"}, Handler <- {"h1"}, Size <- 2, SizeMax <- 3, SizeIO <- 2, Serialize <- FALSE,
    ThreadIdleTime <- TRUE, ServerIdleTime <- FALSE, Arrivals <- 2, Executes <- 0

(* Dispatches return, threads leave, the pool is destroyed. *)
Leaving == INSTANCE ThreadPool WITH
    Thread <- {"t1", "t2", "t3"}, Handler <- {"h1"}, Size <- 1, SizeMax <- 2, SizeIO <- 2, Serialize <- FALSE,
    ThreadIdleTime <- TRUE, ServerIdleTime <- TRUE, Arrivals <- 1, Executes <- 1

Holding == INSTANCE ObjectAdapter WITH
    factory <- acceptor, conn <- incoming, Caller <- {"c1", "c2"}, Conn <- {"k1", "k2"}, MaxConnections <- 1,
    RegistryFails <- TRUE,
    Program <- [c1 |-> <<"activate", "hold", "waitForHold", "activate">>, c2 |-> <<"destroy">>]

Collocated == INSTANCE CollocatedRequestHandler WITH
    factory <- acceptor, conn <- incoming, request <- call, Caller <- {"c1"}, Conn <- {}, MaxConnections <- 0,
    RegistryFails <- FALSE, Program <- [c1 |-> <<"activate", "deactivate", "waitForDeactivate">>],
    Twoway <- {"r1"}, Batch <- {"b1"}, BatchCount <- 2

O(op, s, x) == [op |-> op, s |-> s, x |-> x]
Registry == INSTANCE Allocatable WITH
    thread <- session, asserted <- failed, Thread <- {"t1", "t2", "t3", "t4"}, Session <- {"s1", "s2"},
    Object <- {"x1", "x2"}, Server <- "server", HasParent <- TRUE, Untimed <- {"t1"}, Impatient <- {},
    After <- [t \in {"t1", "t2", "t3", "t4"} |-> {}],
    Op <- [t1 |-> O("allocateByType", "s1", "none"), t2 |-> O("allocateByType", "s2", "none"),
           t3 |-> O("destroy", "s1", "none"), t4 |-> O("remove", "none", "x2")]

Node == INSTANCE Server WITH
    adapter <- endpoints, sent <- reports, Call <- {"get1", "stop1", "load1"}, Adapter <- {"a1"},
    Kind <- [get1 |-> "activate", stop1 |-> "stop", load1 |-> "load"],
    On <- [get1 |-> "a1", stop1 |-> "a1", load1 |-> "a1"], MaxForks <- 2,
    Props <- [d0 |-> "p0", get1 |-> "p1", stop1 |-> "p1", load1 |-> "p1"],
    Shape <- [d0 |-> "s", get1 |-> "s", stop1 |-> "s", load1 |-> "s"],
    Configurations <- {[calls |-> {"get1", "stop1", "load1"}, noRestart |-> {}, loaded |-> "d0",
                        lifetime |-> {"a1"}, mode |-> "OnDemand", registers |-> TRUE,
                        disableOnFailure |-> FALSE, replicates |-> FALSE, failures |-> {"fork"}]}

ASSUME /\ Calling!InvocationAssumption
       /\ Outgoing!FactoryAssumption /\ Cache!LocatorAssumption /\ Blocking!ThreadPoolAssumption
       /\ Leaving!ThreadPoolAssumption /\ Holding!AdapterAssumption /\ Collocated!AdapterAssumption
       /\ Collocated!CollocatedAssumption /\ Registry!AllocatableAssumption /\ Node!ServerAssumption

-----------------------------------------------------------------------------
Init ==
    /\ part \in {"invocation", "factory", "locator", "blocking", "leaving", "adapter", "collocated",
                 "registry", "node"}
    /\ Calling!Init /\ Outgoing!Init /\ Registry!Init /\ Node!Init
    /\ Cache!Init /\ (part # "locator" => place["a1"] = "e1")
    /\ IF part = "blocking" THEN Blocking!Init ELSE Leaving!Init
    /\ pool.threads \in {{"t1"}, {"t1", "t2"}}  \* the threads are alike
    /\ IF part = "collocated" THEN Collocated!AInit ELSE Holding!AInit
    /\ Collocated!CallsInit

InvocationNext ==
    /\ part = "invocation" /\ Calling!Next
    /\ UNCHANGED <<part, config, factoryVars, locatorVars, poolVars, adapterVars, callVars, registryVars, nodeVars>>

FactoryNext ==
    /\ part = "factory" /\ Outgoing!Next
    /\ UNCHANGED <<part, config, invocationVars, locatorVars, poolVars, adapterVars, callVars, registryVars, nodeVars>>

LocatorNext ==
    /\ part = "locator" /\ Cache!Next
    /\ UNCHANGED <<part, config, invocationVars, factoryVars, poolVars, adapterVars, callVars, registryVars, nodeVars>>

PoolNext ==
    /\ (part = "blocking" /\ Blocking!Next) \/ (part = "leaving" /\ Leaving!Next)
    /\ UNCHANGED <<part, config, invocationVars, factoryVars, locatorVars, adapterVars, callVars, registryVars, nodeVars>>

AdapterNext ==
    /\ part = "adapter" /\ Holding!ANext
    /\ UNCHANGED <<part, config, invocationVars, factoryVars, locatorVars, poolVars, callVars, registryVars, nodeVars>>

CollocatedNext ==
    /\ part = "collocated" /\ Collocated!CNext
    /\ UNCHANGED <<part, config, invocationVars, factoryVars, locatorVars, poolVars, registryVars, nodeVars>>

RegistryNext ==
    /\ part = "registry" /\ Registry!Next
    /\ UNCHANGED <<part, config, invocationVars, factoryVars, locatorVars, poolVars, adapterVars, callVars, nodeVars>>

NodeNext ==
    /\ part = "node" /\ Node!Step
    /\ UNCHANGED <<part, config, invocationVars, factoryVars, locatorVars, poolVars, adapterVars, callVars, registryVars>>

Next ==
    \/ InvocationNext \/ FactoryNext \/ LocatorNext \/ PoolNext
    \/ AdapterNext \/ CollocatedNext \/ RegistryNext \/ NodeNext

-----------------------------------------------------------------------------
(* The fairness of each part: its threads and timers run; a peer answers   *)
(* what is sent to it, or the call fails; attempts to connect end, with a  *)
(* connection, a failure or the connect timeout; a connection that is      *)
(* destroyed closes.  Nobody has to cancel, and a dispatch of the pool     *)
(* that blocks need not return.                                            *)
InvocationFair ==
    /\ WF_invocationVars(part = "invocation" /\ Calling!Thread("r1"))
    /\ WF_invocationVars(/\ part = "invocation"
                         /\ \E h \in Calling!Handler :
                              Calling!Sent(h, "r1") \/ Calling!Response(h, "r1") \/ Calling!Finish(h, "r1"))
    /\ \A h \in Calling!Handler : WF_invocationVars(part = "invocation" /\ Calling!HandlerStep(h))
    /\ WF_invocationVars(part = "invocation" /\ Calling!TimerThread)
    /\ WF_invocationVars(part = "invocation" /\ Calling!Destroyer)

FactoryFair ==
    /\ \A r \in {"r1", "r2"} : WF_factoryVars(part = "factory" /\ Outgoing!Progress(r))
    /\ WF_factoryVars(part = "factory" /\ Outgoing!WaitUntilFinished)

LocatorFair ==
    /\ \A c \in {"c1", "c2"} : WF_locatorVars(part = "locator" /\ Cache!Resolve(c))
    /\ \A i \in 1 .. 6 : WF_locatorVars(part = "locator" /\ i \in DOMAIN lookup /\ Cache!Reply(i))

PoolFair ==
    \A t \in {"t1", "t2", "t3"} :
      /\ WF_poolVars(\/ part = "blocking" /\ Blocking!Run(t)
                     \/ part = "leaving" /\ Leaving!Run(t))
      /\ WF_poolVars(part = "leaving" /\ Leaving!Return(t))

AdapterFair ==
    /\ \A c \in {"c1", "c2"} :
         WF_adapterVars(\/ part = "adapter" /\ Holding!Call(c)
                        \/ part = "collocated" /\ c = "c1" /\ Collocated!Call(c))
    /\ WF_adapterVars(part \in {"adapter", "collocated"} /\ Holding!FactoryFinished)
    /\ \A k \in {"k1", "k2"} :
         /\ WF_adapterVars(part = "adapter" /\ incoming[k].state = "closing" /\ Holding!ConnectionClosed(k))
         /\ WF_adapterVars(/\ part = "adapter"
                           /\ \/ Holding!Validate(k)
                              \/ incoming[k].state = "starting" /\ Holding!ConnectionClosed(k))
    /\ \A r \in {"r1", "b1"} : WF_callVars(part = "collocated" /\ Collocated!Invocation(r))

RegistryFair ==
    \A t \in {"t1", "t2", "t3", "t4"} : WF_registryVars(part = "registry" /\ Registry!Step(t))

NodeFair ==
    /\ WF_nodeVars(part = "node" /\ Node!Threads) /\ WF_nodeVars(part = "node" /\ Node!Visits)
    /\ WF_nodeVars(part = "node" /\ Node!Dispatch) /\ WF_nodeVars(part = "node" /\ Node!Listener)
    /\ WF_nodeVars(part = "node" /\ Node!Fire) /\ WF_nodeVars(part = "node" /\ Node!Process)
    /\ WF_nodeVars(part = "node" /\ Node!Ends)

Spec ==
    /\ Init /\ [][Next]_vars
    /\ InvocationFair /\ FactoryFair /\ LocatorFair /\ PoolFair /\ AdapterFair /\ RegistryFair /\ NodeFair

-----------------------------------------------------------------------------
(* What is asked of each part, the first and the second, and its answer. *)
Asked(i) ==
    CASE part = "invocation" -> i = 1 /\ inv.req["r1"].pc # "new"
      [] part = "factory" -> request[<<"r1", "r2">>[i]].pc # "none"
      [] part \in {"locator", "collocated", "registry"} -> i = 1
      [] part = "node" -> server.answer[<<"get1", "load1">>[i]] = "waiting"
      [] part = "blocking" -> i = 1 /\ net.data["h1"] > 0 /\ "h1" \in sel.registered
      [] part = "leaving" -> i = 1 /\ net.life["h1"] = "closing"
      [] OTHER -> FALSE

Answered(i) ==
    CASE part = "invocation" -> inv.req["r1"].completions > 0
      [] part = "factory" -> request[<<"r1", "r2">>[i]].answers = 1
      [] part = "locator" -> \A c \in {"c1", "c2"} : Cache!Ended(c)
      [] part = "collocated" -> \A r \in {"r1", "b1"} : call[r].answers = 1 /\ call[r].pc = "end"
      [] part = "registry" -> Registry!Quiet
      [] part = "node" -> server.answer[<<"get1", "load1">>[i]] # "waiting"
      [] part = "blocking" -> net.data["h1"] = 0 \/ "h1" \notin sel.registered \/ pool.inUse = 3
      [] part = "leaving" -> net.life["h1"] = "finished"
      [] OTHER -> TRUE

(* Whoever asks is answered: an invocation completes, a request for a      *)
(* connection, for endpoints, for an object or to a server is answered, a  *)
(* collocated call ends, finish() is followed by finished(), and, while    *)
(* fewer than SizeMax threads of a pool are blocked in a dispatch, a       *)
(* message that has arrived is read.                                       *)
Responsive == \A i \in 1 .. 2 : Asked(i) ~> Answered(i)

(* Destruction ends: of the retry queue with the communicator, of the      *)
(* connection factory, of the thread pool, and of an adapter, whose        *)
(* operations all return.                                                  *)
Destroying ==
    \/ part = "invocation" /\ destroyed > 0
    \/ part = "factory" /\ factory.destroyed
    \/ part = "leaving" /\ pool.destroyed
    \/ part \in {"adapter", "collocated"}

Destroyed ==
    CASE part = "invocation" -> destroyed = 3
      [] part = "factory" -> factory.finished
      [] part = "leaving" -> \A t \in pool.threads : thread[t].pc = "gone"
      [] part \in {"adapter", "collocated"} -> \A c \in DOMAIN caller : caller[c].todo = <<>>
      [] OTHER -> TRUE

DestroyEnds == Destroying ~> Destroyed
=============================================================================
