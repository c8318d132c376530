------------------------------ MODULE MCClient ------------------------------
(***************************************************************************)
(* What a client does between a call on a proxy and a connection: the      *)
(* invocations with their retries (Invocation), the batches                *)
(* (BatchRequestQueue), the connections that requests share                *)
(* (ConnectionFactory) and the locator cache (Locator).  These models      *)
(* share no state: a behaviour explores the one that part names.  The      *)
(* constants of ConnectionFactory are given here by name.                  *)
(***************************************************************************)
EXTENDS ConnectionFactory, TLC

CONSTANTS Invoker, NoRequest  \* the threads that invoke, interchangeable

VARIABLES
    part,
    inv, hs, timer, cancels, destroyed, faults,                                   \* Invocation
    stream, inUse, owner, num, marker, exception, os, pc, calls, sent, accepted,  \* BatchRequestQueue
    place, moves, table, pending, lookup, refresh, caller                         \* Locator

invocationVars == <<inv, hs, timer, cancels, destroyed, faults>>
batchVars == <<stream, inUse, owner, num, marker, exception, os, pc, calls, sent, accepted>>
locatorVars == <<place, moves, table, pending, lookup, refresh, caller>>
allVars == <<part, vars, invocationVars, batchVars, locatorVars>>

Symmetry == Permutations(Invoker)

(* One retry at once (the default of Ice.RetryIntervals), a cancellation   *)
(* and the destruction of the communicator, while a connection fails.      *)
Invocations == INSTANCE Invocation WITH
    Request <- Invoker, None <- NoRequest, RetryIntervals <- <<0>>, Calls <- {"cancel", "destroy"},
    MaxHandlers <- 2, MaxFaults <- 1

(* Three threads, a stream that is full at two requests, failures of the   *)
(* marshalling.                                                            *)
Batch == INSTANCE BatchRequestQueue WITH
    Thread <- {"t1", "t2", "t3"}, None <- "none", MaxSize <- 2, Events <- {"write"}, MaxCalls <- 2

(* One thread, every failure and the end of the connection.                *)
Alone == INSTANCE BatchRequestQueue WITH
    Thread <- {"t1"}, None <- "none", MaxSize <- 2, MaxCalls <- 4,
    Events <- {"write", "flush", "interceptor", "destroy"}

(* Requests whose endpoints and connectors overlap. *)
RequestEndpoints == [r1 |-> <<"e1">>, r2 |-> <<"e1", "e2">>, r3 |-> <<"e3">>]
EndpointConnectors == [e1 |-> <<"c1", "c2">>, e2 |-> <<"c2", "c3">>, e3 |-> <<"c3">>]

(* A caller of an adapter and one of a well-known object share requests    *)
(* and a cache that expires, while the server moves and the locator fails. *)
Cache == INSTANCE Locator WITH
    request <- lookup, Caller <- {"c1", "c2"}, Adapter <- {"a1"}, WellKnown <- {"o1"},
    Endpoint <- {"e1", "e2"}, Wants <- [c1 |-> "a1", c2 |-> "o1"],
    Warm <- [o1 |-> "a1", a1 |-> "e1"], Background <- FALSE, Ttl <- "some",
    MaxMoves <- 1, MaxRequests <- 4, LocatorFails <- TRUE

(* The object may also move to another adapter. *)
Moving == INSTANCE Locator WITH
    request <- lookup, Caller <- {"c1", "c2"}, Adapter <- {"a1", "a2"}, WellKnown <- {"o1"},
    Endpoint <- {"e1", "e2"}, Wants <- [c1 |-> "a1", c2 |-> "o1"],
    Warm <- [o1 |-> "a1", a1 |-> "e1", a2 |-> "e1"], Background <- FALSE, Ttl <- "infinite",
    MaxMoves <- 1, MaxRequests <- 3, LocatorFails <- TRUE

(* The cache is updated in the background. *)
Background == INSTANCE Locator WITH
    request <- lookup, Caller <- {"c2"}, Adapter <- {"a1"}, WellKnown <- {"o1"},
    Endpoint <- {"e1", "e2"}, Wants <- [c2 |-> "o1"],
    Warm <- [o1 |-> "a1", a1 |-> "e1"], Background <- TRUE, Ttl <- "some",
    MaxMoves <- 1, MaxRequests <- 3, LocatorFails <- FALSE

ASSUME /\ Invocations!InvocationAssumption /\ Batch!BatchAssumption /\ Alone!BatchAssumption
       /\ Cache!LocatorAssumption /\ Moving!LocatorAssumption /\ Background!LocatorAssumption

SuiteInit ==
    /\ Init /\ Invocations!Init
    /\ \/ part = "cache" /\ Cache!Init
       \/ part = "moving" /\ Moving!Init
       \/ part = "background" /\ Background!Init
       \/ part \in {"invocation", "batch", "alone", "factory"} /\ Background!Init /\ place["a1"] = "e1"
    /\ IF part = "alone" THEN Alone!Init ELSE Batch!Init

InvocationNext ==
    part = "invocation" /\ Invocations!Next /\ UNCHANGED <<part, batchVars, vars, locatorVars>>
BatchNext ==
    /\ (part = "batch" /\ Batch!Next) \/ (part = "alone" /\ Alone!Next)
    /\ UNCHANGED <<part, invocationVars, vars, locatorVars>>
FactoryNext ==
    part = "factory" /\ Next /\ UNCHANGED <<part, invocationVars, batchVars, locatorVars>>
LocatorNext ==
    /\ \/ part = "cache" /\ Cache!Next
       \/ part = "moving" /\ Moving!Next
       \/ part = "background" /\ Background!Next
    /\ UNCHANGED <<part, invocationVars, batchVars, vars>>

SuiteNext == InvocationNext \/ BatchNext \/ FactoryNext \/ LocatorNext
Suite == SuiteInit /\ [][SuiteNext]_allVars

-----------------------------------------------------------------------------
(* Whatever fails, is retried or cancelled, an invocation completes at     *)
(* most once, and is held by one thread, queue or connection until then,   *)
(* by none afterwards.                                                     *)
HeldOnce == part = "invocation" => Invocations!TypeOK /\ Invocations!HeldOnce

(* The destruction of the communicator: once RetryQueue::destroy() has     *)
(* returned no invocation is waiting to be retried and none will be, and   *)
(* the task that the timer thread runs stays in the queue until then       *)
(* (asserted by RetryQueue::remove()); when waitUntilFinished() of the     *)
(* connection factory returns, every request has been answered and the     *)
(* assertions of its destructor hold.                                      *)
DestroyedQuiet ==
    /\ part = "invocation" => Invocations!DestroyedQuiet /\ Invocations!RunningTaskQueued
    /\ FinishedQuiet

(* BatchRequestQueue restores the queue "to a usable state on any          *)
(* exception": the batches that were flushed and the one that is filled    *)
(* hold the requests that were finished, each once and in order, and the   *)
(* number of requests that a batch announces is the number it holds.       *)
BatchesExact ==
    /\ part = "batch" => Batch!TypeOK /\ Batch!StreamOwned /\ Batch!BatchesExact
    /\ part = "alone" => Alone!TypeOK /\ Alone!StreamOwned /\ Alone!BatchesExact

(* Stale endpoints fail nobody: a caller that cannot connect was given     *)
(* endpoints by the locator, which have changed since it was asked.        *)
(* Cached endpoints, old as they may be, are tried again.                  *)
FailsOnlyMoved ==
    /\ part = "cache" => Cache!TypeOK /\ Cache!OneRequest /\ Cache!FailsOnlyMoved
    /\ part = "moving" => Moving!TypeOK /\ Moving!OneRequest /\ Moving!FailsOnlyMoved
    /\ part = "background" => Background!TypeOK /\ Background!OneRequest /\ Background!FailsOnlyMoved
=============================================================================
