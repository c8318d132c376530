# A TLA+ model of Ice

Ice is a remote procedure call run time in C++ (`cpp/src/Ice`), with services and
plug-ins built on it: IceStorm (publish and subscribe, replicated), IceGrid
(deployment and activation), Glacier2 (sessions through a firewall), IceDiscovery,
IceBox, IceBridge and DataStorm. This directory models the parts of that code whose
correctness depends on the order in which threads, timers, callbacks and remote
calls happen to run, because an error there is serious and nearly impossible to
provoke with a test:

* the run time of a client: invocations with retry, cancellation and timeout, batches,
  connection establishment, the locator cache;
* connections: both ends of the protocol, closure, idle timeout;
* the run time of a server: the thread pool, object adapters, collocated calls;
* the timer under all of these;
* IceStorm: the election of the replicas, replicated updates, the queue of a
  subscriber;
* the allocation of an IceGrid registry, the servers of an IceGrid node, the sessions
  of a Glacier2 router, and the lookups of IceDiscovery.

All paths below are relative to `src/cpp/src`. `PROJECT.json` lists the components,
the runs, the mutant of each property, the source lines of each definition, the
hazards and the findings.

## Files

| module | models | used by |
|---|---|---|
| `Election` | `IceStorm/NodeI.cpp`, with the part of the replica and of its observers that an election drives | `MCElection`, `ElectionProofs` |
| `Replication` | `IceStorm/TopicManagerI.cpp`, `TopicI.cpp`, `Observers.cpp`: the updates of replicated topics | `MCReplication`, `ReplicationProofs` |
| `EventChannel` | abstract: what a topic promises a subscriber | `Subscriber` |
| `Subscriber` | `IceStorm/Subscriber.cpp`: the event queue of one subscriber of any class | itself, `SubscriberProofs` |
| `Timer` | `Ice/Timer.h`, `Timer.cpp` | itself, `TimerProofs` |
| `Connection` | `Ice/ConnectionI.cpp`: both ends, from validation to the end | `MCConnections`, `ConnectionProofs` |
| `IdleTimeout` | `Ice/IdleTimeoutTransceiverDecorator.cpp` and the checks of `ConnectionI.cpp` | `MCConnections` |
| `Invocation` | `Ice/OutgoingAsync.cpp`, `RequestHandlerCache.cpp`, `ConnectRequestHandler.cpp`, `RetryQueue.cpp` | itself, `MCClient`, `MCProgress` |
| `BatchRequestQueue` | `Ice/BatchRequestQueue.cpp` | `MCClient`, `BatchProofs` |
| `ConnectionFactory` | `OutgoingConnectionFactory` of `Ice/ConnectionFactory.cpp` | `MCClient`, `MCProgress`, `ConnectionFactoryProofs` |
| `Locator` | `Ice/LocatorInfo.cpp`, with the connection of `Reference.cpp` | `MCClient`, `MCProgress` |
| `ThreadPool` | `Ice/ThreadPool.cpp`, `Selector.cpp` | `MCDispatch`, `MCProgress`, `ThreadPoolProofs` |
| `ObjectAdapter` | `Ice/ObjectAdapterI.cpp`, `IncomingConnectionFactory` | `MCDispatch`, `MCProgress` |
| `CollocatedRequestHandler` | `Ice/CollocatedRequestHandler.cpp`, over `ObjectAdapter` | `MCDispatch`, `MCProgress` |
| `Allocatable` | `IceGrid/Allocatable.cpp`, `AllocatableObjectCache.cpp`, `SessionI.cpp` | `MCServices`, `MCProgress` |
| `Server` | `IceGrid/ServerI.cpp`, `ServerAdapterI.cpp` | `MCServer`, `MCServices`, `MCProgress` |
| `SessionRouter` | `Glacier2/SessionRouterI.cpp`, `RouterI.cpp` | `MCServices` |
| `Discovery` | `IceDiscovery/LookupI.cpp` | `MCServices` |
| `ElectionProofs`, `TimerProofs`, `SubscriberProofs`, `ReplicationProofs`, `ThreadPoolProofs`, `ConnectionProofs`, `ConnectionFactoryProofs`, `BatchProofs` | the theorems | |

An `MC` module holds instances for TLC. Four of them gather the small instances of
several components: `MCConnections`, `MCClient`, `MCDispatch`, `MCServices` (safety) and
`MCProgress` (liveness). The components in them share no state; a behaviour explores
the one instance that the variable `part` names, the variables of the others keep their
initial values, and a property of such a module is the conjunction, over the parts, of
the properties of the components that ask the same question. The properties are stated
in the modules of the components. `MCDispatch` extends `ThreadPool`, `MCConnections` extends
`Connection` and `MCClient` extends `ConnectionFactory` rather than naming one more
instance, so that their runs check the very formulas that the theorems state and evaluate
the assumptions of the modules.

## Inventory

What each component keeps, what is hard about it, and what makes it correct.

**Invocations** (`Invocation`). An invocation is held by exactly one of: its thread, the
queue of a connect request handler, a connection, the retry queue. Each of these has a
mutex of its own, and cancellation, timeout, failure and the destruction of the
communicator look for the invocation in the one where it was. Correct: it completes at
most once, it completes in the end, it is never in two places, `destroy()` of the retry
queue returns with nothing left in it.

**Batches** (`BatchRequestQueue`). One stream, lent to one thread at a time, which
writes to it without the mutex, and re-enters `swap()` when the stream is full. Correct:
a batch holds the requests that were finished, each once and in order, and announces as
many as it holds.

**Connection establishment** (`ConnectionFactory`). Requests share established
connections and pending attempts, through lists that several threads change between two
steps of one request. Correct: one connection per connector, one attempt at a time, each
request answered once, nothing left when the factory is destroyed.

**Locator cache** (`Locator`). Cached endpoints may be stale, the same lookup is shared,
and what is cached is dropped when a connection fails. Correct: stale entries fail
nobody, they are looked up again.

**Connections** (`Connection`, `IdleTimeout`). A state, the queue of messages to send,
the outstanding requests, the dispatches in progress, the operations the selector waits
for, and three timers. Everything ends in one function, `setState`, which may be called
from any thread. Correct: requests complete once; one that ends with
`CloseConnectionException` was not dispatched, so that it can be retried; a graceful
closure happens when it was asked for, and ends; the selector waits for whatever the
connection has to do; the idle check does not abort a connection whose peer is alive,
and finds one whose peer is not.

**Thread pool** (`ThreadPool`). Leader and followers over one selector, a list of ready
handlers (plain pointers), counters that decide who selects and when to grow, and a work
queue. Correct: one leader, exact counters, no two threads read one connection, no
pointer to a handler that is gone, arrivals are read while fewer than `SizeMax` threads
block.

**Object adapters and collocated calls** (`ObjectAdapter`, `CollocatedRequestHandler`).
Operations of several threads that wait for each other's states and call the locator
registry with the mutex free; connections that come while the adapter holds; a direct
count that keeps an adapter alive. Correct: connections follow the adapter, a
deactivated adapter is not registered, the count is what the calls hold, destruction
returns.

**Timer** (`Timer`). Two views of one thing, the ordered set of tokens the thread takes
tasks from and the map that `cancel` looks in, with the time at which the thread wakes
up. Correct: no lost wakeup, tasks start when due and in order, and not after `cancel`.

**IceStorm election** (`Election`). State, coordinator, group, members, the largest
group ever seen, the generation, and four timer tasks. Almost every operation releases
the mutex in the middle, to call another node or to wait for updates, and goes on with
what it read before; calls arrive late; a node that restarts has only its database.
Correct: a group is named by its coordinator, who serves has a majority, nobody serves
before all nodes have met, elections end, a lone node goes on looking.

**IceStorm updates** (`Replication`). Each replica has a database, its copy in memory,
and the stamp (generation, iteration) of its last update. Correct: what a caller was
told is done survives, what a group was elected without does not return, the stamp
tells how recent a replica is.

**IceStorm subscribers** (`Subscriber`). Queue, state, invocations in progress, retries.
Correct: it implements `EventChannel`, the queue never stops with events in it, and
`shutdown()` returns.

**IceGrid allocation** (`Allocatable`). Requests wait at an object, at its server and at
its type; releasing one serves another, on the same stack, with three kinds of mutexes.
Objects are added and removed meanwhile. Correct: one answer per request, nobody waits for
what is free, a destroyed session keeps nothing (the code does not always get there, see the
findings).

**IceGrid servers** (`Server`). Four commands that replace, delay and merge with each
other, a process that dies by itself or cannot be killed, adapters that wait for it.
Correct: one answer per call, nobody stranded, the directory is not touched while the
process runs.

**Glacier2 sessions** (`SessionRouter`). Pending creations and sessions in two maps with
hints (iterators) into them, destroyed by the client, the application, the connection
and the router. Correct: one session per connection, every waiting call answered, no
session outlives its connection.

**IceDiscovery lookups** (`Discovery`). Requests shared by callers, sent on every
interface in rounds, with datagrams that are lost, late or doubled, and a timer that may
have begun its task. Correct: one answer per caller, a pending lookup has its timer, a
round is only given up for its own failures.

**Interactions.** Timer runs under the election, heartbeats, idle checks, timeouts,
retries and lookups: the models of these let a task that is scheduled run at any time,
and let the timer thread take a task before it gets the component's mutex; `Timer`
shows that this is what a timer does. `Invocation` reduces a connection to the requests
it holds and to its end, which `Connection` details; `Replication` has the outcome of
an election as one step, which `Election` details; `CollocatedRequestHandler` is built
on `ObjectAdapter`, whose state it shares. Everything else meets through remote calls
and callbacks, which are steps of the environment.

## How the models correspond to the code

Common to all. A step is one section of the code between two points at which another
thread can run: a section under the component's mutex with everything it calls, or a
call made with the mutex free. Where a thread is between two sections is in a field
`pc`, or in a set of things left to do. A condition variable's waiter goes on when the
condition holds; only `Timer` and `Subscriber`, whose wakeups are a property, model the
notification. An assertion of the code is recorded when it fails, and `AssertsHold` says
it never does. Data is abstracted to identities: a request is its name, a message its
kind and request, a batch the sequence of requests in it, a database the set of updates.

**Election.** `check()` is `Check` (the first locked section), `CheckCall` (one call of
`areYouCoordinator`), `CheckDone`; `merge()` is `MergeFire`, `Merge` and, if updates were
in progress, `MergeResume`; `mergeContinue()` is `MergeContinue`, `Sync`, `InitMaster`,
`InitObserver` for each member, `InitDone`, `Ready` for each member, `ReadyDone`;
`invitation()` is `OnInvitation`, `InvitationResume`, `InvitationForward`,
`InvitationAccept`. Each node has one timer thread, any number of dispatch threads in
`invitation()`, threads that wait in `recovery()`, and updates in progress. A twoway call
runs at its target in the step of the caller and may fail before or after it has run; a
oneway call is a message, delivered in any order or lost. `Crash` returns a node to the
state after `start()` with the database it has. A group name is the node and a number
that stands for the UUID, the least that nothing refers to. Delays and priorities only
choose when a timer fires, and are left out.

**Replication.** `Commit` is the transaction of the master, under the mutex of the topic
or of the manager (a member of `Locks`), `Send` the call of the observers under
`Observers::_mutex`, `Deliver` the update at an observer, `CallFails` its failure and the
eviction, `Finish` the answer to the caller. `Elect` is an election as `Election` details
it, abandoned half-way if `Abandon`.

**Subscriber.** One module for the four classes (batch, oneway, twoway, link). `Queue`
with its `flush()`, `Reply` and `Exception` for the callbacks, `DoFlush` for the timer of
batches, `Reap`, `ResetIfReaped`, `Remove` and `ShutdownBegin`/`ShutdownWake`. Its
refinement mapping to `EventChannel` maps the events given to the transport, and an
errored state to the closed channel.

**Timer.** `tokens` and `tasks` are `_tokens` and `_tasks`; `pc` is where the thread is;
`Schedule`, `Reschedule`, `Cancel`, `Destroy` and `Join` are the calls, which may come
from the running task; `Loop`, `Wake`, `SpuriousWake` and `Return` are the thread.
`Reuse = FALSE` is the way the repository uses the timer: a repeated task is not
scheduled again during an execution in which it was cancelled. `Reuse = TRUE` is what
the interface allows.

**Connection.** An end is a record, a function of the code an operator from record to
record, so that `SetState` appears where the code calls it. `message()` is one step, or
two when it writes, since the other end can act between its write and its read.
`Capacity` is what the transport buffers. Client and server are the same operators with
the differences the code makes.

**IdleTimeout.** Discrete time with a timer per task; a thread takes less than a tick and
a message at most `Delay` ticks. `Freezes` says which host may stop.

**Invocation.** The thread of an invocation, the callbacks of handlers and connections,
the timer thread with retry and timeout tasks, the two cancellers (user and timeout) and
the thread that destroys the communicator.

**BatchRequestQueue.** The stream is a sequence of the header, requests and junk; `Swap`,
`FinishBatchRequest` with the automatic flush, `AbortBatchRequest`, `PrepareBatchRequest`.

**ConnectionFactory, Locator.** One action per callback; the resolution of endpoints, the
connectors and the locator are the environment and answer or fail at any time.

**ThreadPool.** `Run(t)` is what a thread does between two messages; the selector is the
epoll variant, in which a handler that was read is disabled until it is re-enabled.

**ObjectAdapter, CollocatedRequestHandler.** Callers run the programs that the instance
gives them; a wait is a guard.

**Allocatable.** Operations call each other through callbacks, so that a thread has a
stack of frames; a step runs the top frame to its next lock. An exception is the result that
a frame returns: `destroyImpl()` goes on after an `AllocationException` and is left by
`ObjectNotRegisteredException`, with the rest of its allocations. `After` says which threads
have returned before one begins, for the instances that are about a certain order.

**Server.** What a thread does after unlocking is in `todo`; `visit` is where a call is
that goes to an adapter, `sent` what the process has sent to the node, `listener` the
thread of the activator that sees a process end. `Deactivate` and `Kill` look at the state;
`ShutDown`, `Signal` and `GiveUp` are what the activator is asked for after the unlock, and
the `Inactive` that follows a signal which could not be sent (`proc.survived`). A call of
`setDirectProxy()` reads the state of the server (`AskState`) before it locks the adapter
(`SetDirectProxy`).

**SessionRouter.** One creation is one `CreateSession` object; verifier and manager are
external. An erased iterator that the code still holds as a hint is a set of keys it may
denote.

**Discovery.** A request is its position in the table of requests, which is its id in the
replies.

## Runs

All the passing runs together take every action and every disjunct of their next-state
relations. Deadlock is not checked anywhere: programs end, bounds stop an election, a
destroyed timer or a closed connection stops for good; that nobody stops too early is
what the liveness properties, `NoStall`, `KeepsLooking`, `QueueMoves` and
`NoneForgotten` say.

| run | module, bounds | properties | shows |
|---|---|---|---|
| `election` | `MCElection`; 3 nodes, four scenarios, one of them with updates and failed `accept()` calls | `GroupNamesCoordinator`, `FullStartup`, `MajorityServes`, `KeepsLooking`, `DestroyedNeverServes` | start-up with two nodes that elect at once; two failures in every place of an election, with a member initialised late; updates in progress and refusals; a crash and a shutdown |
| `election_liveness` | `MCElection`; 3 nodes, 1 check, 1 failure, 1 update in progress at the coordinator or at a member | `ElectionEnds`, `MemberSettles` | progress after a failure, with elections that wait for the update to end |
| `timer` | `Timer`; 2 tasks, delays 0 to 2, clock 3 | `NoLostWakeup`, `StartsScheduled`, `StartsInOrder`, `Served` | every interleaving of calls and thread |
| `closure` | `MCConnections`; 2 requests, 1 dispatch at a time, 1 message in the transport; close and destroy | `ClosureEnds` | a closure from both ends ends without the close timeout |
| `progress` | `MCProgress`; nine instances | `Responsive`, `DestroyEnds` | whoever asks is answered, and destruction ends |
| `subscriber` | `Subscriber`; 5 events, queue of 2, 2 publishers | `QueueMoves`, `OfflineDiscards`, `ImplementsChannel`, `ShutdownReturns` | the four classes, both policies for a full queue, retries and discard intervals; the refinement of `EventChannel` |
| `replication` | `MCReplication`; 3 nodes, 1 topic, 3 updates, 3 generations, 2 failures, 1 crash | `DurableUpdates`, `NoResurrection`, `StampsTell` | updates through elections, evictions and a restart |
| `connections` | `MCConnections`; 2 requests, 1 dispatch, 1 message in the transport, 1 call; a timeout of 4 ticks, messages of at most 1 | `CloseConnectionSafe`, `CloseHonoured`, `CompletedOnce`, `NoStall`, `IdleDetected` | `closure`: close, abort, timeouts, cancellation; `handling`: destroy, hold, every cancellation, fatal errors; `idle`: idle ends, held, blocked or frozen |
| `client` | `MCClient`; 2 invocations, 3 batching threads, or one with every failure, 3 requests for overlapping connectors, 2 resolvers | `HeldOnce`, `DestroyedQuiet`, `BatchesExact`, `OneConnection`, `FailsOnlyMoved` | the races of invocations, retries, batches, connection sharing and the locator cache |
| `dispatch` | `MCDispatch`; 2 to 3 threads, 2 handlers; up to 4 callers and 3 connections; 3 collocated calls | `PoolSafe`, `ReadersApart`, `ConnectionsFollow`, `AdapterLife`, `CallsCounted` | the pool grows and shrinks, with and without `Serialize`; adapters live and die under several threads |
| `services` | `MCServices`; 5 to 7 threads of 2 sessions in six instances; 8 configurations of a server; 2 or 3 creations; 2 lookups | `AnsweredOnce`, `NoneForgotten`, `NothingKept`, `QuietWhenStopped` | allocation with objects removed and added, a server's commands with a process that crashes, leaves or cannot be killed, sessions, lookups |
| `connection_cancel` | `Connection`; expected to fail | `CloseHonoured` | a cancellation that forgets the closure (finding) |

**Why the bounds are enough.** Three nodes is the smallest group the IceStorm service
accepts; it has room for two rival coordinators and a member between them. Failures,
checks, crashes and updates are bounded by constants whose names begin with `Max`, each
a guard of the action it names; the scenarios spend them on different things. Two
requests on a connection with one dispatch and one message in the transport give a
blocked write, a message that is read while another is dispatched, and a last request
whose end triggers a closure. Two tasks with delays of 0 to 2 ticks give tasks due
together, one rescheduled before the other and a repetition that collides. Three requests
whose endpoints share connectors pairwise give every order of sharing and waiting. Three
threads of a pool of two give growth, a leader that leaves and a follower that times out.
Two sessions and five operations give a holder, a waiter, a second waiter of another
kind, a release and a destruction; the seven of `Removed`, in a given order, the release
that throws in the middle of a destruction. Three rounds on two interfaces give a failure of one
round that is reported in the next.

Symmetry is used for nodes, invocations, threads and handlers, which the models do not
tell apart, and in no run that checks liveness.

## Findings

Each configuration below shows a disagreement between the code and a comment, an
assertion or a document of the repository; TLC ends it with a violation
(`tlc -config X.cfg M`). `PROJECT.json` tells each story with the lines.

| configuration | module | property | |
|---|---|---|---|
| `ElectionSelfInvitation` | `MCElection` | `ReorganizationEnds` | an invitation forwarded to the node that issued it strands that node in the reorganization |
| `ElectionStaleInit` | `MCElection` | `StampDominates` | `checkObserverInit()` accepts a coordinator that is not the node's |
| `ElectionInterrupted` | `MCElection` | `ElectionUninterrupted` | `recovery()` does not look at the state again after its wait |
| `ElectionLateRefusal` | `MCElection` | `AssertsHold` | the recovery after a failed `accept()` is not limited to its own group |
| `ReplicationAbandoned` | `MCReplication` | `LatestState` | an abandoned election leaves its stamp in the database of the coordinator |
| `ReplicationTopics` | `MCReplication` | `LatestState` | updates of two topics reach the observers out of order |
| `ReplicationCreate` | `MCReplication` | `NoResurrection` | a topic whose creation failed stays in the database |
| `ConnectionCancel` | `Connection` | `CloseHonoured` | one branch of `asyncRequestCanceled()` does not start the closure |
| `InvocationDoubleCancel` | `Invocation` | `ConnectionNotNull` | two cancellations of a queued invocation dereference a null connection |
| `BatchAbort` | `BatchRequestQueue` | `StreamOwned` | `abortBatchRequest()` takes the stream of another thread |
| `ServerStranded` | `MCServer` | `NoneStranded` | a callback outlives the deactivation it was queued in |
| `ServerReverted` | `MCServer` | `NoSelfDeadlock` | an update that takes back the one before it deadlocks |
| `ServerDestroyLoading` | `MCServer` | `DestroyedGone` | a server destroyed while it is first loaded is loaded |

The passing runs keep away from these on purpose, and say how far the property does
hold: without updates and failed `accept()` calls a coordinator that serves has its majority
(`MajorityServes`), with one topic and no abandoned election updates are durable, every closure is honoured unless a request
that was sent before the last one is cancelled (`LateCancel`), a destroyed session keeps
nothing unless its destruction was left by the exception of an object that is being removed
(`NothingKept`), the commands of a server wait for its process unless it could not be killed
(`QuietWhenStopped`), and so on. Three hazards of `PROJECT.json` are not covered for this
reason; each says so. Two comparisons of an election are not told apart by any property: without
that of the group in `timeout()` (`NodeI.cpp:347`) a node leaves a group it has just joined, and
without that in `accept()` (`:868`) a node is counted that looks like one which left right after
its `accept()`; the protocol must survive both anyway, and TLC finds nothing violated.

### Other disagreements met while modelling

The code does not keep these properties in the instances named here; the passing runs
check some of them in others.

* `Timer.StartsScheduled` with `Reuse = TRUE` (`Timer.cpp:72`): a repeated task that is
  cancelled and scheduled again during its execution is put back by the thread as well.
* `Connection.AtMostOnce` (`ConnectionI.cpp:1444`): when `message()` writes a request and
  then fails to read, `sent()` is not called, and the request is retried although the
  server may have dispatched it.
* `Connection.HoldHolds` (`ConnectionI.cpp:1187`): a thread that has already picked the
  connection dispatches a request after `waitForHold()` has returned.
* `Invocation.CancelEnds` (`OutgoingAsync.cpp:285`): a cancellation between two handlers
  finds nothing to cancel, and an invocation whose server never answers goes on.
* `IdleTimeout.AbortedIdle` (`ConnectionI.cpp:2315`): `idleCheck()` does not look again
  whether bytes came between its firing and its mutex, as `inactivityCheck()` does.
* `ObjectAdapter.ActiveRegistered` (`ObjectAdapterI.cpp:93`): `activate()` after a
  `hold()` that preceded any activation never registers the adapter.
* `ObjectAdapter.ActivatesAlone` (`ObjectAdapterI.cpp:153`): an `activate()` or `hold()`
  while another thread registers the adapter changes the state that thread asserts.
* `ObjectAdapter.Unregistered` (`ObjectAdapterI.cpp:676`): `setPublishedEndpoints()`
  racing with `deactivate()` registers a deactivated adapter.
* `CollocatedRequestHandler.CountedAlive` with a caller that calls `destroy()`
  (`ObjectAdapterI.cpp:302`): a call is counted after the count was seen at zero.
* `Allocatable.TypeServed` (`Allocatable.cpp:241`): a release whose queued requests have all
  ended meanwhile returns without a look at the waiters of the type. It takes a session that
  releases an object, a request for that object which times out, and one for its type.
* `Allocatable.NoSelfDeadlock` (`Allocatable.cpp:480`): `allocateByType()` lets go of a
  candidate with the mutex of the cache locked, and the release that this can cause locks it
  again. It takes a session that allocates an object of a server by its identity, allocates
  by type and releases the object, in three threads.
* `Allocatable.ReleasedOnceDestroyed` in the instance `Removed` of `MCServices`
  (`SessionI.cpp:262`): the release of an object that is being removed throws
  `ObjectNotRegisteredException` when a request waits by type, and the destroyed session
  keeps its other objects for ever.
* `Allocatable.AssertsHold` (`Allocatable.cpp:13`): a release that found nothing queued
  notifies the requests by type after the object has been taken and released again by
  another session; it allocates the object in the middle of the other release, whose
  `allocate()` queues a pending request a second time. It takes one object and three
  sessions: the first allocates it, asks for it by type and releases it, the second allocates
  and releases it, the third asks for it.
* `Server.QuietAfterKill` with the configurations `Unkillable` and `Surviving` of `MCServices`
  (`ServerI.cpp:1618`, `:1673`, "TODO: Is this really correct?"): when the signal cannot be
  sent the server is inactive with its process running; it is loaded, destroyed or started
  again, and the second process is not watched, since `_processes` has an entry of its name
  (`Activator.cpp:968`).
* `Locator.WellKnownForgotten` (`LocatorInfo.cpp:369`): a caller that joins a lookup
  which has just been answered leaves the entry of its well-known object in the cache.
* `Server.TimeoutArmed`, `LoadNotHeld`, `EnabledFollows` with the configurations
  `EarlyTimeout`, `LoadHeld`, `EnabledDisabled` of `MCServer` (`ServerI.cpp:1404`, `:1129`,
  `ServerAdapterI.cpp:219`): an activation timeout that expires before the fork is lost; a
  second load of one descriptor waits although the server is being activated; an adapter
  keeps the wrong enabled flag when `enable` and `disable` race.
* Glacier2: a `SessionControl::destroy()` whose servant was located before its session
  ended destroys the next session of the same connection (`slice/Glacier2/Session.ice:100`,
  "Destroys the associated session"). `SessionRouter.ControlDestroys` takes that step, and
  the properties hold with it.

## Fairness

Weak fairness of threads that have something to do, never of callers: starting an
operation, cancelling, failing, crashing and destroying are never fair.

* Election: each node's timer thread (one action, as one thread runs all its tasks), its
  dispatch threads, a waiting recovery, and the end of an update. The thread pool of the
  node adapter has one thread more than there are nodes, and `finishUpdate()` is called
  from a destructor.
* Timer: the thread, the clock up to its bound, the return of a task, and the thread that
  joins.
* Connection: the selector at each end; strong fairness of reading a message to its end,
  and of the return of dispatches and upcalls, because they need the mutex that other
  steps take over and over and a thread that waits for it gets it.
* Subscriber: callbacks of invocations (every invocation completes, which `progress`
  shows), the timer of the batches, and the thread in `shutdown()`.
* Progress: in each part its threads, its timer and the replies of its environment. A
  reply may be a failure. A dispatch in the pool that is said to block need not return:
  there `Responsive` says that a message is read as long as one more thread can be had.

## Proofs

The theorems hold for every finite set of nodes or threads, every value of the bounds, and
every set of tasks, delays, classes of subscribers and sizes of queues and pools. They use
only the assumptions that the modules name, which TLC evaluates on the runs:

* `Election`, `Replication`: the nodes are finitely many and at least one, `None` is none
  of them and none of the locks, bounds are natural numbers;
* `Timer`: delays and times are natural numbers;
* `Subscriber`: the classes are the four of the code; `_maxOutstanding` is positive
  (`OutstandingAssumption`: the constructors give 1 or 5) and the retry count an
  integer, of which -1 means for ever (`RetryAssumption`); the limit of the queue is not
  zero;
* `ThreadPool`: `1 <= Size <= SizeMax`, `1 <= SizeIO <= SizeMax`, there are as many
  identities of threads as the pool may have threads, and the work queue is not one of the
  connections (`PoolAssumption`). `initialize()` adjusts its properties to this;
* `Connection`: the requests are finitely many, the transport takes at least one message
  (`ConnectionAssumption`);
* `ConnectionFactory`: requests, endpoints and connectors are finitely many, a request has at
  least one endpoint and an endpoint at least one connector (`FactoryAssumption`). The code
  asserts that neither list is empty (`ConnectionFactory.cpp:327`, `:817`);
* `BatchRequestQueue`: `BatchAssumption` (natural numbers, `None` is no thread), a hypothesis
  of the theorem because the module is only used through instances; TLC evaluates it on both
  instances of `MCClient`.

| theorem | states | under |
|---|---|---|
| `ElectionProofs.TypeCorrect` | `TypeOK` | |
| `ElectionProofs.GroupsNamed`, `StartupIsFull` | `GroupNamesCoordinator`, `FullStartup` | |
| `ElectionProofs.KeepsLookingAlways` | `KeepsLooking` | |
| `ElectionProofs.DestroyedStaysOut` | `DestroyedNeverServes` (action property) | |
| `ElectionProofs.MajorityAlwaysServes` | `MajorityServes` | `Undisturbed`, part of the property |
| `TimerProofs.TimerTypeCorrect`, `NoWakeupLost` | `TypeOK`, `NoLostWakeup` | |
| `TimerProofs.TokensAgree`, `OnlyScheduledStart`, `OrderOfStarts` | `OneToken`, `StartsScheduled`, `StartsInOrder` | `~Reuse` |
| `SubscriberProofs.QueueAlwaysMoves` | `QueueMoves` | |
| `SubscriberProofs.OfflineDiscarded` | `OfflineDiscards` (action property) | |
| `SubscriberProofs.ChannelImplemented` | `ImplementsChannel` (refinement) | |
| `ReplicationProofs.UpdatesDurable`, `NothingResurrected`, `StampsTellContent` | `DurableUpdates`, `NoResurrection`, `StampsTell` | `OneTopic` |
| `ThreadPoolProofs.PoolAlwaysSafe`, `OneReaderAlways` | `PoolSafe`, `OneReader` | |
| `ConnectionProofs.RequestsCompletedOnce`, `RetriesSafe`, `NeverStalls` | `CompletedOnce`, `CloseConnectionSafe`, `NoStall` | |
| `ConnectionProofs.CloseAlwaysHonoured` | `CloseHonoured` | `~LateCancel` |
| `ConnectionFactoryProofs.ConnectionsShared`, `FinishedAlwaysQuiet` | `OneConnection`, `FinishedQuiet` (part of `DestroyedQuiet`) | |
| `BatchProofs.BatchesAlwaysExact` | `TypeOK`, `StreamOwned`, `BatchesExact` of `BatchRequestQueue` | `OneOwner` |

**Election.** In `TypeCorrect`, with one lemma per action, what is not immediate is that
the members of a group stay a finite set, so that its size is a number, and that a counter
is only decreased when it is positive. `GroupsNamed` and `StartupIsFull` rest on one
inductive invariant, `Inv`. `GroupNamesCoordinator` is not inductive by itself: an
invitation on its way, or a thread that waits in `invitation()`, can turn into the group of
a node later, and so can the group that `mergeContinue()` copied. `Inv` says the same of
all of them. `FullStartup` needs more: that a coordinator that has passed the test of
`mergeContinue()` has, or is about to have, `_max` equal to the number of nodes for as long
as it initialises and calls `ready()`, because it is this value that the members store.
`KeepsLooking` is inductive together with `TypeOK`, once it lists everything that will
schedule a check, a scheduled `mergeContinue()` included. Each action is shown to be a step
of `Kept`, a relation between a node before and after it, which also gives
`DestroyedNeverServes`.

`MajorityAlwaysServes` has the largest invariant: `Inv`, and as long as nothing has disturbed
the election (`Undisturbed`: no update was started, no `accept()` failed) also `Held`.
`mergeContinue()` makes its calls with the mutex free, and when it takes the mutex again it
sets the state to normal without a test; so the invariant has to say that nothing has touched
the node meanwhile. `Backed` says it: while the timer thread is in `mergeContinue()`, the node
is in the reorganization of the group the thread works for and counts a majority, and while the
continuation is scheduled the node is in that group's election, which no invitation has
entered. For the generations the invariant relates each node that serves to each node that
merges (`Agrees`): who serves in a group whose coordinator is still in `mergeContinue()` has
its stamp, and nobody serves in a group whose stamp has not been computed. Since a group is
named by its coordinator, at most one thread works for a group. A coordinator must not call
`ready()` on itself, so it must not be among its own members; this needs that no `accept()` of
a node to itself is on its way for a group in its election (`NoSelf`). Each action but four is
`Passive`: it begins no service, no merge and no continuation, which keeps `Agrees` for every
pair of nodes. The condition is needed: a `recovery()` that waits for updates, or that
follows a failed `accept()`, ends an election that the node has entered meanwhile, which are the
findings `ElectionInterrupted` and `ElectionLateRefusal`.

**Timer.** `NoWakeupLost`, for both values of `Reuse`: a call that inserts a token either
finds it due no earlier than the wakeup, or notifies. The other three rest on `TokenInv`:
tokens and map agree, a destroyed timer has neither, and a repeated task in execution has a
time that has passed. The last part is what `OnlyScheduledStart` needs for a repeated task
with no delay, which starts again in the very step that puts it back. `~Reuse` is needed;
see the first of the other disagreements.

**Subscriber.** One inductive invariant, `Params /\ Counters /\ Sound(s, queued) /\
Moves(s) /\ s.notify = FALSE /\ NoLostNotify`. `Sound` numbers the events: what was sent,
what is in the batch and what is queued are ascending, in that order, and every invocation
in progress carries events that were sent; it also has `_outstanding` equal to the number
of invocations and of scheduled flushes. `Moves` is the promise of `flush()`: a queue with
events has an invocation or a flush whose end calls `flush()` again. A function of the code
is an operator on the record of the subscriber, so it has one lemma, saying that from a
sound record it makes an `Outcome`: sound, moving, and with nothing taken back from what
was sent. The lemmas follow the calls (`flush` of the four classes, `error`, `completed`,
`queue`, `reap`), the actions cite them, and the refinement of `EventChannel` follows from
`Grows`, their common conclusion.

**Replication.** The invariant is `TypeOK /\ \E log : Good(log)`. No variable remembers
what a log update stands for, although this is what the replicas agree about; so the
invariant says that there is a `log` from the log updates given out to the content that
each stands for. `Good(log)` then says that a replica has the content of its log update,
on disk and in memory; that the entries of one generation have one author and each adds its
update to the one before; that who serves is in the generation of its log update; that an
observer lacks at most the update in progress, and that when a later generation is without
this update, too many nodes have left for it to succeed (`Missing`); that an update
acknowledged is in every entry from one on that more than half of the nodes have come to
(`Acked`), and one that a group was elected without in none from then on (`Gone`). Each step extends the log
by at most one entry. The arguments are about majorities: the members of an election meet
every majority that has an acknowledged update, and the coordinator takes the latest log
update among them. `OneTopic` says that the updates are those of one topic and that no
election is abandoned half-way. It is needed: `ReplicationAbandoned`, `ReplicationTopics`
and `ReplicationCreate` (see the findings) show violations without it.

**Thread pool.** The invariant is `Whole(thread, pool, sel, net)`. A thread that holds the
mutex runs through several functions of the code, and between them it is neither a
follower nor at work, so that the counters are not those of all the threads. The parts of
the invariant are therefore stated for a set `U` of threads, all between two actions and
all but one inside a locked section (`Body`), and every operator of `ThreadPool` has a
lemma from `Body` without the thread to `Body` with it or without it. The parts: where a
thread is in `run()` tells whether it leads and what it holds (`Locals`), the counters are
exact (`Counts`), a handler in the list has no reader and is listed once (`Readers`),
with `Serialize` a handler is disabled or closed as long as someone dispatches for it
(`Serial`), the work queue is ready exactly while it has items (`Work`), and `Alive`, on
which `HandlersAlive` rests: the item that releases a handler can only run when the
handler is not in the list, because `finish()` has unregistered it before the item is
queued, and `select()` is not called while a thread reads. All this is for
`SizeMax > 1`. A pool with one thread, which a communicator gets by default, runs other
branches of the same code: it keeps the leadership while it dispatches, does not use the
counters, and leaves a destroyed pool with nobody to promote. It has an invariant of its own,
`Single`: where the thread is (`Place`), what holds of the list of handlers whatever the
thread does (`Listed`), and what the thread has taken from it (`Taken`). The argument for
`HandlersAlive` is another one there, since this thread runs a work item while handlers are
still listed: when the item at the head of the work queue releases a handler, that handler is
not behind the work queue in the list.

**Connection.** The invariant is `IInv`: `Local` of each end and `Cross` between them.
`Local` has the phases of the closure and of `message()` (`Phases`), what the selector waits
for (`Waits`), the account of the requests (`Tally`: a request that is pending is in
`_asyncRequests`, one that is not has completed once), that every queued message of a request
has its request waited for (`Owned`), that the connection leaves its factory exactly when it
has finished and no upcall is left (`Removal`), and that a closure that was requested has
started when the last request is gone (`Settled`). The part of it that also holds inside
`message()`, between what it writes and what it reads, is `Mid`. `CloseConnectionSafe` is what
needs `Cross`, which is about the stream of an end: the messages in the transport followed by
those of its queue that will still be written. `sendMessage()` appends to it, the other end
reads its head, and a write leaves it as it is. A `CloseConnection` message is the last of the
server's stream; a request is in the client's stream at most once, and then was not
dispatched; and a request that was dispatched and is still waited for is being dispatched, or
has its reply in the stream, or the server has closed without a `CloseConnection` (`Answered`).
So when the client reads `CloseConnection` nothing it waits for was dispatched, and the server,
which has initiated its shutdown, dispatches nothing more. `~LateCancel` is needed for
`CloseHonoured` alone: it is the finding `ConnectionCancel`.

**Connection factory.** The invariant is `Whole(factory, request, link)`. `OneUsable` is not
inductive: a request establishes its connection long after it has looked for one to share.
What makes it safe is that in between its connectors are reserved: no other request tries them
(`Attempts`), and no usable connection leads to one of them (`Reserved`). A request that waits
is listed only under connectors of its own that someone tries, and under at least one of them
(`Waits`), so that the attempt that ends finds it; and `_pendingConnectCount` is the number of
requests that are neither new nor done, on which `FinishedQuiet` rests. Requests have lists of
connectors, and a failure removes those that were tried from the lists of the waiters; that the
shorter list has exactly the connectors that are left needs that the places that are kept can
be listed in order, which `Enumerated` shows for every finite set of places, by a least
counterexample.

**Batches.** The invariant follows the stream. Wherever it is, with the queue or in the
`OutputStream` of the thread that took it, it begins with the batch, as far as the marker:
the header and the requests finished since the last flush. What follows the batch is exactly
the request of the thread that has the stream, from the end of its marshalling to its
acceptance (`Adds`), and nothing before and after (`Place`). The log of the batches (`Log`)
says where each begins and ends in the sequence of the requests that were finished, so that
the requests in a batch are a part of that sequence and no induction over batches is needed.
`OneOwner` says that only marshalling fails, or that there is one thread. It is needed: after a
flush, an interceptor or a closed connection has made an invocation fail,
`abortBatchRequest()` takes the stream of whoever has it, which is the finding `BatchAbort`.

**Only model-checked.** Liveness, fairness and `ENABLED` are out of the prover's reach:
`ElectionEnds`, `MemberSettles`, `Served`, `ClosureEnds`, `Responsive`, `DestroyEnds`,
`ShutdownReturns`. `IdleDetected` is about discrete time in
which each host is scheduled within a tick. `HeldOnce`, `FailsOnlyMoved` and the parts of
`DestroyedQuiet` other than the factory, the properties of `MCServices`, and those of
`MCDispatch` about adapters and collocated calls are conjunctions over instances that say what
several components do; a theorem would be about the module of one component, and these have
not been attempted. Of these the invariants of `Discovery` (`AnsweredOnce`, `Armed`) and
`SessionRouter` (`OneSession`) are closest to inductive.

## Mutants

Every property of a passing run has a mutant next to the definition it replaces: a guard
that is dropped (`ReadyAlwaysAccepted`, `FinishAnyway`), a reset that is missed
(`RecoverEndNoCheck`), a comparison the wrong way round, a stamp that is not advanced
(`CommitSameStamp`), a follower that is not notified (`PromoteQuiet`), a retry that is
cancelled without a look at the queue (`CancelRetryTwice`). TLC finds the property
violated with each.

## Not modelled

`PROJECT.json` gives the reason for each component. In short:

* Slice compilers and their generated parsers, the language mappings, the encoding,
  endpoints, references and properties: sequential code over strings and bytes, without
  interleavings, whose input spaces are out of TLC's reach. They are most of the lines of
  the repository.
* Transports, TLS, Bluetooth, LMDB: operating system I/O. Their effects (blocking writes,
  failures, atomic commits) are in the models of their users.
* Metrics, logging, tracing and command-line tools: they observe, and change nothing.
* IceGrid descriptors, the database of the registry, the replication of registries, the
  sessions of nodes and administrators; DataStorm: protocols of a size of their own, not
  modelled.
* IceBox, IceBridge, IceLocatorDiscovery, transient topics: little concurrent state, or
  the same scheme as a component that is modelled.
* Inside the models: an election of `Replication` is one step in which only the members that
  were initialised serve (the calls in between are those of `Election`), and `startUpdate()`'s
  look at the majority is one step with the transaction; the branches of
  `asyncRequestCanceled()` that close the connection for a `ConnectionAbortedException`, which
  no caller gives it (`OutgoingAsync.cpp:179` and `:536` cancel with
  `InvocationCanceledException` and `InvocationTimeoutException`); the re-entry of `swap()` from
  the flush of its own thread, which is a guard of `Swap`; the failure to create a thread of
  the pool; well-known objects that resolve to endpoints without an adapter.
* Within the components: datagram and IOCP variants, routers, compression, servant maps
  and locators, filters and routing tables of Glacier2, the registry of the local adapters
  in IceDiscovery.
