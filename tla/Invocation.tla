----------------------------- MODULE Invocation -----------------------------
(***************************************************************************)
(* Two-way invocations on one proxy: ProxyOutgoingAsyncBase of             *)
(* Ice/OutgoingAsync.cpp, the cache of the request handler, the connect    *)
(* request handlers, the retry queue and the timer thread, with the        *)
(* cancellation, the invocation timeout and the destruction of the         *)
(* communicator.  The connections are reduced to the requests that they    *)
(* hold and to their end (module Connection has the rest).  A step is a    *)
(* section under one of the mutexes, with the calls that it makes.         *)
(***************************************************************************)
EXTENDS Integers, Sequences, FiniteSets, SequencesExt

CONSTANTS
    Request,
    None,
    RetryIntervals,  \* Ice.RetryIntervals
    Calls,           \* what happens in an instance besides invocations
    MaxHandlers,     \* bound: request handlers, each with its connection
    MaxFaults        \* bound: failures of connections and of their establishment

AllCalls == {"cancel", "timeout", "destroy"}

(* Ice.RetryIntervals when the property is empty: one retry, at once. *)
DefaultIntervals == <<0>>

InvocationAssumption ==
    /\ IsFiniteSet(Request) /\ None \notin Request
    /\ RetryIntervals \in Seq(Nat) /\ Calls \subseteq AllCalls
    /\ MaxHandlers \in Nat \ {0} /\ MaxFaults \in Nat

VARIABLES
    inv,        \* the invocations, the cached handler and the retry queue
    hs,         \* the connect request handlers and their connections
    timer,      \* what the timer thread runs
    cancels,    \* the calls of cancel(), by the application and by the timer
    destroyed,  \* Instance::destroy(): 0, 1 connections destroyed, 2 retry queue, 3 returned
    faults      \* failures, for their bound

vars == <<inv, hs, timer, cancels, destroyed, faults>>

Handler == 1 .. MaxHandlers
Task == Request \X (1 .. 2 * MaxHandlers + Len(RetryIntervals) + 1)

(* _cancellationHandler. *)
Nobody == <<"none", 0>>
Cancellation == {Nobody} \cup ({"connect", "connection"} \X Handler) \cup ({"retry"} \X Task)

Failure == {"lost", "close", "notexist", "canceled", "timeout", "destroyed"}

TypeOK ==
    /\ inv.cache \in 0 .. MaxHandlers
    /\ inv.queue \subseteq Task /\ inv.scheduled \subseteq inv.queue
    /\ inv.timeouts \subseteq Request
    /\ \A r \in Request : LET q == inv.req[r] IN
         /\ q.pc \in {"new", "get", "send", "wait", "remote", "idle"}
         /\ q.handler \in 0 .. MaxHandlers /\ q.cancel \in Cancellation
         /\ q.cancelEx \in {"none", "canceled", "timeout"} /\ q.sent \in BOOLEAN
         /\ q.cnt \in 0 .. Len(RetryIntervals) + 2 /\ q.tasks \in Nat
         /\ q.completions \in 0 .. 2 /\ q.result \in Failure \cup {"none", "ok"}
    /\ \A h \in Handler : LET c == hs[h] IN
         /\ c.pc \in {"unused", "connecting", "connected", "flush", "fail", "ready"}
         /\ c.initialized \in BOOLEAN /\ c.exception \in Failure \cup {"none"}
         /\ c.connection \in {"none", "open"} \cup Failure
         /\ c.requests \in Seq(Request) /\ c.flushEx \in Failure \cup {"none"}
         /\ c.asyncRequests \subseteq Request
    /\ timer.task \in Task \cup {None} /\ timer.phase \in {"idle", "retry", "remove", "timeout"}
    /\ \A w \in {"user", "timer"} : LET c == cancels[w] IN
         /\ c.pc \in {"idle", "call", "wait", "connection"} /\ c.r \in Request \cup {None}
         /\ c.on \in Cancellation
    /\ cancels.done \subseteq Request /\ cancels.null \in BOOLEAN
    /\ destroyed \in 0 .. 3 /\ faults \in 0 .. MaxFaults

-----------------------------------------------------------------------------
(* The end of an invocation: exceptionImpl() and responseImpl(), which     *)
(* cancel the invocation timeout.                                          *)
Complete(s, r, how) ==
    [s EXCEPT !.req[r].completions = IF @ < 2 THEN @ + 1 ELSE @, !.req[r].result = how,
              !.req[r].pc = "idle", !.req[r].cancel = Nobody, !.timeouts = @ \ {r}]

(* cancelable(), unless a cancellation is pending, when it throws. *)
Cancelable(s, r, on) == [s EXCEPT !.req[r].cancel = on]
Pending(s, r) == s.req[r].cancelEx # "none"
Taken(s, r) == [s EXCEPT !.req[r].cancelEx = "none"]

(* RetryQueue::add(); what it throws ends the invocation. *)
Add(s, r) ==
    LET task == <<r, s.req[r].tasks + 1>> IN
    IF destroyed >= 2 THEN Complete(s, r, "destroyed")
    ELSE IF Pending(s, r) THEN Complete(Taken(s, r), r, s.req[r].cancelEx)
    ELSE [Cancelable(s, r, <<"retry", task>>)
             EXCEPT !.queue = @ \cup {task}, !.scheduled = @ \cup {task},
                    !.req[r].tasks = @ + 1, !.req[r].pc = "idle"]

ClearCachedRequestHandler(s, r) == [s EXCEPT !.cache = IF @ = s.req[r].handler THEN 0 ELSE @]

(* handleRetryAfterException() and checkRetryAfterException() of an        *)
(* operation that is not idempotent: the interval before the retry, or -1. *)
RetryInterval(q, ex) ==
    LET n == q.cnt + 1 IN
    IF ~(ex \in {"close", "notexist"} \/ (ex = "lost" /\ ~q.sent)) THEN -1
    ELSE IF n = Len(RetryIntervals) + 1 /\ ex = "close" THEN 0
    ELSE IF n > Len(RetryIntervals) THEN -1
    ELSE RetryIntervals[n]

Counted(s, r, ex) ==
    [ClearCachedRequestHandler(s, r)
        EXCEPT !.req[r].cnt = IF ex \in {"close", "notexist"} \/ (ex = "lost" /\ ~s.req[r].sent)
                              THEN @ + 1 ELSE @]

(* exception(): a retry goes through the queue whatever its interval. *)
Exception(s, r, ex) ==
    LET i == RetryInterval(s.req[r], ex)
        t == Counted(s, r, ex)
    IN IF i >= 0 THEN Add(t, r) ELSE Complete(t, r, ex)

(* An exception that invokeImpl() catches: at once, a retry is a new turn  *)
(* of its loop.                                                            *)
Caught(s, r, ex) ==
    LET i == RetryInterval(s.req[r], ex)
        t == Counted(s, r, ex)
    IN IF i > 0 THEN Add(t, r)
       ELSE IF i = 0 THEN [t EXCEPT !.req[r].pc = "get"]
       ELSE Complete(t, r, ex)

(* retryException(), called by the flush. *)
RetryException(s, r) == Add(ClearCachedRequestHandler(s, r), r)

-----------------------------------------------------------------------------
(* The timer thread leaves retry() when the invocation has no step left    *)
(* for it to take.                                                         *)
Becomes(r, s) ==
    /\ inv' = s
    /\ timer' = IF timer.phase = "retry" /\ timer.task[1] = r /\ inv.req[r].pc # "idle" /\ s.req[r].pc = "idle"
                THEN [timer EXCEPT !.phase = "remove"] ELSE timer

Fault(n) == faults + n <= MaxFaults /\ faults' = faults + n

(* invoke(): the timeout is scheduled. *)
Invoke(r) ==
    /\ inv.req[r].pc = "new"
    /\ inv' = [inv EXCEPT !.req[r].pc = "get", !.timeouts = IF "timeout" \in Calls THEN @ \cup {r} ELSE @]
    /\ UNCHANGED <<hs, timer, cancels, destroyed, faults>>

(* getRequestHandler(), of the cache or a new one that starts to connect. *)
GetRequestHandler(r) ==
    LET free == {h \in Handler : hs[h].pc = "unused"}
        h == IF inv.cache # 0 THEN inv.cache ELSE CHOOSE x \in free : \A y \in free : x <= y
    IN
    /\ inv.req[r].pc = "get" /\ (inv.cache = 0 => free # {})
    /\ inv' = [inv EXCEPT !.cache = h, !.req[r].handler = h, !.req[r].sent = FALSE, !.req[r].pc = "send"]
    /\ hs' = [hs EXCEPT ![h].pc = IF @ = "unused" THEN "connecting" ELSE @]
    /\ UNCHANGED <<timer, cancels, destroyed, faults>>

Flushing(h) == hs[h].pc \in {"flush", "fail"}

(* What sendAsyncRequest() does once the handler does not flush:           *)
(* initialized() returns true, throws the failure of the establishment, or *)
(* the request is queued.                                                  *)
Queue(s, r, h) ==
    LET remote == hs[h].initialized \/ (hs[h].exception # "none" /\ hs[h].connection # "none")
        queued == ~remote /\ hs[h].exception = "none"
    IN
    /\ Becomes(r, IF remote THEN [s EXCEPT !.req[r].pc = "remote"]
                  ELSE IF queued THEN [s EXCEPT !.req[r].pc = "idle"]
                  ELSE Caught(s, r, hs[h].exception))
    /\ hs' = [hs EXCEPT ![h].requests = IF queued THEN Append(@, r) ELSE @]

(* sendAsyncRequest() of the connect request handler. *)
SendAsyncRequest(r) ==
    LET h == inv.req[r].handler
        s == IF hs[h].initialized THEN inv ELSE Cancelable(inv, r, <<"connect", h>>)
    IN
    /\ inv.req[r].pc = "send"
    /\ IF ~hs[h].initialized /\ Pending(inv, r)
       THEN Becomes(r, Caught(Taken(inv, r), r, inv.req[r].cancelEx)) /\ UNCHANGED hs
       ELSE IF Flushing(h)
       THEN Becomes(r, [s EXCEPT !.req[r].pc = "wait"]) /\ UNCHANGED hs
       ELSE Queue(s, r, h)
    /\ UNCHANGED <<cancels, destroyed, faults>>

(* The wait of initialized() ends. *)
Flushed(r) ==
    LET h == inv.req[r].handler IN
    /\ inv.req[r].pc = "wait" /\ ~Flushing(h)
    /\ Queue(inv, r, h)
    /\ UNCHANGED <<cancels, destroyed, faults>>

(* The ways ConnectionI::sendAsyncRequest() ends: sent or queued, a        *)
(* RetryException from a connection that is closed, the exception of a     *)
(* cancellation, the failure of the write.                                 *)
Accept(s, r, h, now) ==
    [Cancelable(s, r, <<"connection", h>>) EXCEPT !.req[r].sent = now, !.req[r].pc = "idle"]

(* invokeRemote(), by the thread of the invocation. *)
InvokeRemote(r) ==
    LET h == inv.req[r].handler
        open == hs[h].connection = "open"
    IN
    /\ inv.req[r].pc = "remote"
    /\ \/ /\ ~open
          /\ Becomes(r, [ClearCachedRequestHandler(inv, r) EXCEPT !.req[r].pc = "get"])
          /\ UNCHANGED <<hs, faults>>
       \/ /\ open /\ Pending(inv, r)
          /\ Becomes(r, Caught(Taken(inv, r), r, inv.req[r].cancelEx))
          /\ UNCHANGED <<hs, faults>>
       \/ /\ open /\ ~Pending(inv, r)
          /\ \E now \in BOOLEAN : Becomes(r, Accept(inv, r, h, now))
          /\ hs' = [hs EXCEPT ![h].asyncRequests = @ \cup {r}]
          /\ UNCHANGED faults
       \/ /\ open /\ ~Pending(inv, r) /\ Fault(1)
          /\ Becomes(r, Caught(Cancelable(inv, r, <<"connection", h>>), r, "lost"))
          /\ hs' = [hs EXCEPT ![h].connection = "lost"]
    /\ UNCHANGED <<cancels, destroyed>>

-----------------------------------------------------------------------------
(* The thread that establishes the connection: setConnection(), and        *)
(* setException(), which flushes too.                                      *)
SetConnection(h) ==
    /\ hs[h].pc = "connecting" /\ destroyed = 0
    /\ hs' = [hs EXCEPT ![h].pc = "connected", ![h].connection = "open"]
    /\ UNCHANGED <<inv, timer, cancels, destroyed, faults>>

SetException(h) ==
    /\ hs[h].pc = "connecting"
    /\ \E ex \in IF destroyed = 0 THEN {"lost"} ELSE {"destroyed"} :
         hs' = [hs EXCEPT ![h].pc = "fail", ![h].exception = ex, ![h].flushEx = ex]
    /\ Fault(IF destroyed = 0 THEN 1 ELSE 0)
    /\ UNCHANGED <<inv, timer, cancels, destroyed>>

SetExceptionOne(h) ==
    /\ hs[h].pc = "fail" /\ hs[h].requests # <<>>
    /\ inv' = Exception(inv, Head(hs[h].requests), hs[h].exception)
    /\ hs' = [hs EXCEPT ![h].requests = Tail(@)]
    /\ UNCHANGED <<timer, cancels, destroyed, faults>>

(* flushRequests(), without the mutex between its first and last sections. *)
FlushRequests(h) ==
    /\ hs[h].pc = "connected"
    /\ hs' = [hs EXCEPT ![h].pc = "flush"]
    /\ UNCHANGED <<inv, timer, cancels, destroyed, faults>>

FlushOne(h) ==
    LET r == Head(hs[h].requests)
        ex == hs[h].connection
    IN
    /\ hs[h].pc = "flush" /\ hs[h].requests # <<>>
    /\ \/ /\ ex # "open"
          /\ inv' = RetryException(inv, r)
          /\ hs' = [hs EXCEPT ![h].requests = Tail(@), ![h].flushEx = ex]
          /\ UNCHANGED faults
       \/ /\ ex = "open"
          /\ \E now \in BOOLEAN : inv' = Accept(inv, r, h, now)
          /\ hs' = [hs EXCEPT ![h].requests = Tail(@), ![h].asyncRequests = @ \cup {r}]
          /\ UNCHANGED faults
       \/ /\ ex = "open" /\ Fault(1)
          /\ inv' = Exception(inv, r, "lost")
          /\ hs' = [hs EXCEPT ![h].requests = Tail(@), ![h].connection = "lost", ![h].flushEx = "lost"]
    /\ UNCHANGED <<timer, cancels, destroyed>>

FlushEnd(h) ==
    /\ Flushing(h) /\ hs[h].requests = <<>>
    /\ hs' = [hs EXCEPT ![h].pc = "ready", ![h].exception = hs[h].flushEx,
                        ![h].initialized = (hs[h].flushEx = "none")]
    /\ UNCHANGED <<inv, timer, cancels, destroyed, faults>>

-----------------------------------------------------------------------------
(* The connection: a queued request is written, *)
Sent(h, r) ==
    /\ hs[h].connection = "open" /\ r \in hs[h].asyncRequests /\ ~inv.req[r].sent
    /\ inv' = [inv EXCEPT !.req[r].sent = TRUE]
    /\ UNCHANGED <<hs, timer, cancels, destroyed, faults>>

(* a reply comes, which may be an ObjectNotExistException of an object     *)
(* that has moved,                                                         *)
Response(h, r) ==
    /\ hs[h].connection = "open" /\ r \in hs[h].asyncRequests /\ inv.req[r].sent
    /\ hs' = [hs EXCEPT ![h].asyncRequests = @ \ {r}]
    /\ \/ inv' = Complete(inv, r, "ok") /\ UNCHANGED faults
       \/ inv' = Exception(inv, r, "notexist") /\ Fault(1)
    /\ UNCHANGED <<timer, cancels, destroyed>>

(* it is lost, or closed by the peer, and its requests are told.           *)
Closed(h) ==
    /\ hs[h].connection = "open" /\ Fault(1)
    /\ \E ex \in {"lost", "close"} : hs' = [hs EXCEPT ![h].connection = ex]
    /\ UNCHANGED <<inv, timer, cancels, destroyed>>

Finish(h, r) ==
    /\ hs[h].connection \in Failure /\ r \in hs[h].asyncRequests
    /\ inv' = Exception(inv, r, hs[h].connection)
    /\ hs' = [hs EXCEPT ![h].asyncRequests = @ \ {r}]
    /\ UNCHANGED <<timer, cancels, destroyed, faults>>

-----------------------------------------------------------------------------
(* cancel(): without a handler the exception is kept; otherwise the        *)
(* handler is called after the mutex of the invocation is released.        *)
Cancel(w, r, ex) ==
    /\ cancels[w].pc = "idle"
    /\ \/ /\ inv.req[r].cancel = Nobody
          /\ inv' = [inv EXCEPT !.req[r].cancelEx = ex, !.timeouts = IF ex = "timeout" THEN @ \ {r} ELSE @]
          /\ cancels' = [cancels EXCEPT !.done = @ \cup {r}]
       \/ /\ inv.req[r].cancel # Nobody
          /\ inv' = [inv EXCEPT !.timeouts = IF ex = "timeout" THEN @ \ {r} ELSE @]
          /\ cancels' = [cancels EXCEPT ![w] = [pc |-> "call", r |-> r, on |-> inv.req[r].cancel]]

(* The application has the function that cancels once invoke() returns. *)
UserCancel(r) ==
    /\ "cancel" \in Calls /\ r \notin cancels.done
    /\ inv.req[r].pc = "idle" \/ (timer.phase = "retry" /\ timer.task[1] = r)
    /\ Cancel("user", r, "canceled")
    /\ UNCHANGED <<hs, timer, destroyed, faults>>

(* runTimerTask() of the invocation. *)
Timeout(r) ==
    /\ r \in inv.timeouts /\ timer.phase = "idle"
    /\ Cancel("timer", r, "timeout")
    /\ timer' = [timer EXCEPT !.phase = IF cancels'["timer"].pc = "call" THEN "timeout" ELSE "idle"]
    /\ UNCHANGED <<hs, destroyed, faults>>

(* cancel() returns. *)
Returns(w) ==
    /\ cancels' = [cancels EXCEPT ![w] = [pc |-> "idle", r |-> None, on |-> Nobody],
                                  !.done = @ \cup {cancels[w].r}]
    /\ timer' = IF w = "timer" THEN [timer EXCEPT !.phase = "idle"] ELSE timer

Reason(w) == IF w = "user" THEN "canceled" ELSE "timeout"

(* Mutant of CancelRetry: the timer has no part in it. *)
CancelRetryTwice(w) ==
    LET c == cancels[w]
        task == c.on[2]
    IN
    /\ c.pc = "call" /\ c.on[1] = "retry"
    /\ inv' = IF destroyed < 2 /\ task \in inv.queue
              THEN Exception([inv EXCEPT !.scheduled = @ \ {task}, !.queue = @ \ {task}], c.r, Reason(w)) ELSE inv
    /\ Returns(w)
    /\ UNCHANGED <<hs, destroyed, faults>>

(* RetryTask::asyncRequestCanceled(), with RetryQueue::cancel(): a task    *)
(* that runs is left to the timer thread.                                  *)
CancelRetry(w) ==
    LET c == cancels[w]
        task == c.on[2]
    IN
    /\ c.pc = "call" /\ c.on[1] = "retry"
    /\ inv' = IF destroyed < 2 /\ task \in inv.scheduled
              THEN Exception([inv EXCEPT !.scheduled = @ \ {task}, !.queue = @ \ {task}], c.r, Reason(w))
              ELSE inv
    /\ Returns(w)
    /\ UNCHANGED <<hs, destroyed, faults>>

(* ConnectRequestHandler::asyncRequestCanceled(). *)
CancelConnect(w) ==
    LET c == cancels[w]
        h == c.on[2]
        stop == c.pc = "call" /\ hs[h].exception # "none"
        queued == ~hs[h].initialized /\ hs[h].exception = "none" /\ Contains(hs[h].requests, c.r)
    IN
    /\ c.pc \in {"call", "wait"} /\ c.on[1] = "connect"
    /\ \/ /\ stop
          /\ Returns(w) /\ UNCHANGED <<inv, hs>>
       \/ /\ ~stop /\ Flushing(h) /\ c.pc = "call"
          /\ cancels' = [cancels EXCEPT ![w].pc = "wait"] /\ UNCHANGED <<inv, hs, timer>>
       \/ /\ ~stop /\ ~Flushing(h) /\ queued
          /\ inv' = Exception(inv, c.r, Reason(w))
          /\ hs' = [hs EXCEPT ![h].requests = SelectSeq(@, LAMBDA r : r # c.r)]
          /\ Returns(w)
       \/ /\ ~stop /\ ~Flushing(h) /\ ~queued
          /\ cancels' = [cancels EXCEPT ![w].pc = "connection", !.null = @ \/ hs[h].connection = "none"]
          /\ UNCHANGED <<inv, hs, timer>>
    /\ UNCHANGED <<destroyed, faults>>

(* ConnectionI::asyncRequestCanceled(). *)
CancelConnection(w) ==
    LET c == cancels[w]
        h == c.on[2]
        found == hs[h].connection = "open" /\ c.r \in hs[h].asyncRequests
    IN
    /\ c.pc = "connection" \/ (c.pc = "call" /\ c.on[1] = "connection")
    /\ inv' = IF found THEN Exception(inv, c.r, Reason(w)) ELSE inv
    /\ hs' = IF found THEN [hs EXCEPT ![h].asyncRequests = @ \ {c.r}] ELSE hs
    /\ Returns(w)
    /\ UNCHANGED <<destroyed, faults>>

-----------------------------------------------------------------------------
(* RetryTask::runTimerTask(): the timer thread retries the invocation, and *)
(* then removes the task from the queue.                                   *)
RunRetry(task) ==
    /\ timer.phase = "idle" /\ task \in inv.scheduled
    /\ timer' = [task |-> task, phase |-> "retry"]
    /\ inv' = [inv EXCEPT !.scheduled = @ \ {task}, !.req[task[1]].pc = "get"]
    /\ UNCHANGED <<hs, cancels, destroyed, faults>>

RemoveTask ==
    /\ timer.phase = "remove"
    /\ inv' = [inv EXCEPT !.queue = @ \ {timer.task}]
    /\ timer' = [task |-> None, phase |-> "idle"]
    /\ UNCHANGED <<hs, cancels, destroyed, faults>>

-----------------------------------------------------------------------------
(* Instance::destroy(): the connections are closed and finish,             *)
DestroyConnections ==
    /\ "destroy" \in Calls /\ destroyed = 0
    /\ destroyed' = 1
    /\ hs' = [h \in Handler |-> [hs[h] EXCEPT !.connection = IF @ = "open" THEN "destroyed" ELSE @]]
    /\ UNCHANGED <<inv, timer, cancels, faults>>

(* then RetryQueue::destroy() aborts the tasks that do not run,            *)
DestroyQueue ==
    LET aborted == {t[1] : t \in inv.scheduled} IN
    /\ destroyed = 1 /\ \A h \in Handler : hs[h].asyncRequests = {} /\ hs[h].pc # "connecting"
    /\ destroyed' = 2
    /\ inv' = [inv EXCEPT !.queue = @ \ inv.scheduled, !.scheduled = {}, !.timeouts = @ \ aborted,
                          !.req = [r \in Request |-> IF r \in aborted THEN Complete(inv, r, "destroyed").req[r]
                                                     ELSE @[r]]]
    /\ UNCHANGED <<hs, timer, cancels, faults>>

(* and waits for the others.                                               *)
DestroyReturns ==
    /\ destroyed = 2 /\ inv.queue = {}
    /\ destroyed' = 3
    /\ UNCHANGED <<inv, hs, timer, cancels, faults>>

Init ==
    /\ inv = [req |-> [r \in Request |-> [pc |-> "new", handler |-> 0, cancel |-> Nobody, cancelEx |-> "none",
                                           sent |-> FALSE, cnt |-> 0, tasks |-> 0, completions |-> 0, result |-> "none"]],
              cache |-> 0, queue |-> {}, scheduled |-> {}, timeouts |-> {}]
    /\ hs = [h \in Handler |-> [pc |-> "unused", initialized |-> FALSE, exception |-> "none", connection |-> "none",
                                 requests |-> <<>>, flushEx |-> "none", asyncRequests |-> {}]]
    /\ timer = [task |-> None, phase |-> "idle"]
    /\ cancels = [user |-> [pc |-> "idle", r |-> None, on |-> Nobody],
                  timer |-> [pc |-> "idle", r |-> None, on |-> Nobody], done |-> {}, null |-> FALSE]
    /\ destroyed = 0 /\ faults = 0

Thread(r) == Invoke(r) \/ GetRequestHandler(r) \/ SendAsyncRequest(r) \/ Flushed(r) \/ InvokeRemote(r)
HandlerStep(h) == SetConnection(h) \/ SetException(h) \/ SetExceptionOne(h) \/ FlushRequests(h) \/ FlushOne(h) \/ FlushEnd(h)
Canceller(w) == CancelRetry(w) \/ CancelConnect(w) \/ CancelConnection(w)
TimerThread == (\E task \in inv.scheduled : RunRetry(task)) \/ RemoveTask \/ Canceller("timer")
Destroyer == DestroyQueue \/ DestroyReturns

Next ==
    \/ \E r \in Request : Thread(r) \/ UserCancel(r) \/ Timeout(r)
    \/ \E h \in Handler :
         \/ HandlerStep(h) \/ Closed(h)
         \/ \E r \in Request : Sent(h, r) \/ Response(h, r) \/ Finish(h, r)
    \/ Canceller("user") \/ TimerThread
    \/ DestroyConnections \/ Destroyer

Spec == Init /\ [][Next]_vars

-----------------------------------------------------------------------------
(* The places an invocation can be in. *)
Places(r) ==
    (IF inv.req[r].pc \in {"get", "send", "wait", "remote"} THEN {<<"thread", 0>>} ELSE {})
    \cup {<<"handler", h>> : h \in {g \in Handler : Contains(hs[g].requests, r)}}
    \cup {<<"connection", h>> : h \in {g \in Handler : r \in hs[g].asyncRequests}}
    \cup {<<"retry", t>> : t \in {u \in inv.scheduled : u[1] = r}}

(* Whatever fails, is retried or cancelled, an invocation completes at     *)
(* most once, and is held by one thread, queue or connection until then,   *)
(* by none afterwards.                                                     *)
HeldOnce ==
    \A r \in Request : LET q == inv.req[r] IN
        /\ q.completions <= 1
        /\ Cardinality(Places(r)) = IF q.pc = "new" \/ q.completions > 0 THEN 0 ELSE 1

(* The assertion of RetryQueue::remove(): the task that the timer thread   *)
(* runs stays in the queue, whatever cancel() and destroy() do.            *)
RunningTaskQueued == timer.phase \in {"retry", "remove"} => timer.task \in inv.queue

(* Once RetryQueue::destroy() has returned no invocation is waiting to be  *)
(* retried and none will be: the thread pool can be destroyed.             *)
DestroyedQuiet == destroyed = 3 => inv.queue = {} /\ inv.scheduled = {} /\ timer.phase # "remove"

(* The same threads, with peers that may not answer. *)
Silent ==
    /\ \A r \in Request : WF_vars(Thread(r)) /\ WF_vars(\E h \in Handler : Finish(h, r))
    /\ \A h \in Handler : WF_vars(HandlerStep(h))
    /\ WF_vars(Canceller("user")) /\ WF_vars(TimerThread)

SilentSpec == Spec /\ Silent

(* "A function that can be called to cancel the invocation locally"        *)
(* (Proxy.h): a cancelled invocation completes, even if nobody answers.    *)
(* The code does not keep it: a cancellation is lost between two attempts. *)
CancelEnds == \A r \in Request : r \in cancels.done ~> inv.req[r].completions > 0

(* ConnectRequestHandler::asyncRequestCanceled(), called by the application *)
(* and by the invocation timeout, has a connection to pass a cancellation  *)
(* to.                                                                     *)
ConnectionNotNull == ~cancels.null

=============================================================================
