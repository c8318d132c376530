----------------------- MODULE CollocatedRequestHandler -----------------------
(***************************************************************************)
(* Collocated calls: Ice/CollocatedRequestHandler.cpp, with the object     *)
(* adapter that they are made on (module ObjectAdapter).                   *)
(*                                                                         *)
(* The direct count of the adapter keeps it from being destroyed while a   *)
(* call is queued or a dispatch has not sent its response; a response may  *)
(* be sent by any thread at any time (asynchronous dispatch).  The adapter *)
(* uses the thread pool of the communicator.                               *)
(***************************************************************************)
EXTENDS ObjectAdapter, FiniteSetsExt

CONSTANTS
    Twoway,     \* the twoway requests
    Batch,      \* the batches, oneway
    BatchCount  \* the requests in a batch

(* What the constants have to be. *)
CollocatedAssumption == Twoway \cap Batch = {} /\ BatchCount \in Nat \ {0}

VARIABLES
    request,  \* the requests, with their entries in the maps of the handler
    asserted  \* an assertion of decDirectCount() has failed

cvars == <<avars, request, asserted>>

Request == Twoway \cup Batch

CTypeOK ==
    /\ ATypeOK
    /\ request \in [Request ->
         [pc : {"idle", "started", "queued", "dispatching", "end"},
          cancelled : BOOLEAN,  \* cancelled before it had a handler
          send : BOOLEAN,       \* in _sendAsyncRequests
          async : BOOLEAN,      \* in _asyncRequests
          left : 0..BatchCount, \* requests to dispatch
          dispatched : 0..BatchCount, \* dispatches without a response
          answers : Nat]]
    /\ asserted \in BOOLEAN

-----------------------------------------------------------------------------
(* ObjectAdapterI: checkForDestruction() and the count. *)
Destroyed == AtLeast("destroying")

IncDirectCount == adapter' = [adapter EXCEPT !.directCount = @ + 1] /\ UNCHANGED asserted

DecDirectCount ==
    IF adapter.state = "destroyed" \/ adapter.directCount = 0
    THEN asserted' = TRUE /\ UNCHANGED adapter
    ELSE adapter' = [adapter EXCEPT !.directCount = @ - 1] /\ UNCHANGED asserted

Update(r, q) == request' = [request EXCEPT ![r] = q]
Others == UNCHANGED <<factory, conn, registry, caller>>

(* invokeAsyncRequest() throws when the adapter is destroyed. *)
InvokeAsyncRequest(r) ==
    /\ request[r].pc = "idle"
    /\ IF Destroyed
       THEN Update(r, [request[r] EXCEPT !.pc = "end", !.answers = @ + 1]) /\ UNCHANGED <<adapter, asserted>>
       ELSE Update(r, [request[r] EXCEPT !.pc = "started"]) /\ IncDirectCount
    /\ Others

(* The entries are made, unless the request has been cancelled. *)
Cancelable(r) ==
    /\ request[r].pc = "started"
    /\ IF request[r].cancelled
       THEN Update(r, [request[r] EXCEPT !.pc = "end", !.answers = @ + 1]) /\ DecDirectCount
       ELSE /\ Update(r, [request[r] EXCEPT !.pc = "queued", !.send = TRUE, !.async = r \in Twoway])
            /\ UNCHANGED <<adapter, asserted>>
    /\ Others

(* sentAsync(), by the thread pool or by the caller; a oneway call is over *)
(* when it is sent, and a call that has been cancelled is not dispatched.  *)
SentAsync(r) ==
    /\ request[r].pc = "queued"
    /\ IF ~request[r].send THEN Update(r, [request[r] EXCEPT !.pc = "end"])
       ELSE Update(r, [request[r] EXCEPT !.pc = "dispatching", !.send = FALSE,
                                         !.left = IF r \in Twoway THEN 1 ELSE BatchCount,
                                         !.answers = IF r \in Twoway THEN @ ELSE @ + 1])
    /\ UNCHANGED <<adapter, asserted>> /\ Others

(* handleException(), response() and exception(): what is no longer        *)
(* expected is dropped.                                                    *)
Answered(q) == [q EXCEPT !.async = FALSE, !.answers = IF q.async THEN @ + 1 ELSE @]

(* dispatchAll(): one request, or the exception when the adapter is        *)
(* destroyed.                                                              *)
DispatchAll(r) ==
    /\ request[r].pc = "dispatching" /\ request[r].left > 0
    /\ IF Destroyed THEN Update(r, [Answered(request[r]) EXCEPT !.left = 0]) /\ UNCHANGED <<adapter, asserted>>
       ELSE Update(r, [request[r] EXCEPT !.left = @ - 1, !.dispatched = @ + 1]) /\ IncDirectCount
    /\ Others

DispatchedAll(r) ==
    /\ request[r].pc = "dispatching" /\ request[r].left = 0
    /\ Update(r, [request[r] EXCEPT !.pc = "end"]) /\ DecDirectCount
    /\ Others

(* sendResponse(), or dispatchException() when that fails. *)
SendResponse(r) ==
    /\ request[r].dispatched > 0
    /\ Update(r, [Answered(request[r]) EXCEPT !.dispatched = @ - 1]) /\ DecDirectCount
    /\ Others

(* Mutant of AsyncRequestCanceled: the entry for the response stays. *)
AsyncRequestCanceledKept(r) ==
    /\ request[r].pc # "idle" /\ ~request[r].cancelled
    /\ LET q == [request[r] EXCEPT !.cancelled = TRUE]
       IN  \/ request[r].pc = "started" /\ Update(r, q) /\ UNCHANGED <<adapter, asserted>>
           \/ request[r].send /\ Update(r, [q EXCEPT !.send = FALSE, !.answers = @ + 1]) /\ DecDirectCount
           \/ ~request[r].send /\ request[r].async
                /\ Update(r, [q EXCEPT !.answers = @ + 1]) /\ UNCHANGED <<adapter, asserted>>
    /\ Others

(* asyncRequestCanceled(), by cancel() or by the invocation timeout: the   *)
(* request is not dispatched, or its response is not expected any more.    *)
AsyncRequestCanceled(r) ==
    /\ request[r].pc # "idle" /\ ~request[r].cancelled
    /\ LET q == [request[r] EXCEPT !.cancelled = TRUE]
       IN  \/ request[r].pc = "started" /\ Update(r, q) /\ UNCHANGED <<adapter, asserted>>
           \/ /\ request[r].send
              /\ Update(r, [q EXCEPT !.send = FALSE, !.async = FALSE, !.answers = @ + 1])
              /\ DecDirectCount
           \/ ~request[r].send /\ request[r].async /\ Update(r, Answered(q)) /\ UNCHANGED <<adapter, asserted>>
    /\ Others

-----------------------------------------------------------------------------
CallsInit ==
    /\ request = [r \in Request |-> [pc |-> "idle", cancelled |-> FALSE, send |-> FALSE, async |-> FALSE,
                                     left |-> 0, dispatched |-> 0, answers |-> 0]]
    /\ asserted = FALSE

CInit == AInit /\ CallsInit

Invocation(r) ==
    \/ InvokeAsyncRequest(r) \/ Cancelable(r) \/ SentAsync(r) \/ DispatchAll(r) \/ DispatchedAll(r) \/ SendResponse(r)

CNext ==
    \/ ANext /\ UNCHANGED <<request, asserted>>
    \/ \E r \in Request : Invocation(r) \/ AsyncRequestCanceled(r)

CSpec == CInit /\ [][CNext]_cvars

-----------------------------------------------------------------------------
(* The direct count is what the calls hold of it, one while a call is      *)
(* queued or dispatched and one for each dispatch without a response, on   *)
(* every path: cancelled at any time, dispatched or refused.               *)
Held(r) ==
    request[r].dispatched
      + (IF request[r].pc \in {"started", "dispatching"} \/ (request[r].pc = "queued" /\ request[r].send) THEN 1 ELSE 0)

CountExact == adapter.directCount = MapThenSumSet(Held, Request)

(* No request is answered twice, whatever a cancellation, a refused        *)
(* dispatch and a response do at once.                                     *)
AnsweredOnce == \A r \in Request : request[r].answers <= 1

(* "Increase the direct count to prevent the thread pool from being        *)
(* destroyed before dispatchAll is called": no call is still counted when  *)
(* the adapter has been destroyed.                                         *)
CountedAlive == ~asserted

=============================================================================
