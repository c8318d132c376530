------------------------------ MODULE Subscriber ------------------------------
(***************************************************************************)
(* The event queue of one subscriber (IceStorm/Subscriber.cpp) and the     *)
(* part of TopicImpl::publish, reap, update and shutdown that drives it.   *)
(*                                                                         *)
(* A step is one section under Subscriber::_mutex, which is recursive:     *)
(* queue() with the flush() it calls, a callback of an invocation with the *)
(* flush() or error() in it.  The events are numbered in the order of      *)
(* queue(); metrics and traces are left out.                               *)
(***************************************************************************)
EXTENDS Naturals, Integers, Sequences, FiniteSets

CONSTANTS
    Kinds,            \* the classes derived from Subscriber that are explored
    MaxOutstandings,  \* the values of _maxOutstanding for a oneway or twoway subscriber
    RetryCounts,      \* the values of _retryCount besides -1, forever
    QueueSizeMax,     \* IceStorm.Send.QueueSizeMax, never 0 (Instance.cpp)
    Drops,            \* whether IceStorm.Send.QueueSizeMaxPolicy is DropEvents: the values explored
    Costly,           \* the events whose cost is above the cost of a link
    MaxEvents,        \* bound: events that are queued
    MaxPublishers,    \* bound: threads in publish()
    MaxResets         \* bound: elections that end in TopicImpl::update

ASSUME KindsAssumption == Kinds \subseteq {"batch", "oneway", "twoway", "link"}
ASSUME SizeAssumption == QueueSizeMax \in Int \ {0} /\ Drops \subseteq BOOLEAN
(* 1 or 5 in the constructors of the subscribers. *)
ASSUME OutstandingAssumption == MaxOutstandings \subseteq Nat \ {0}
ASSUME RetryAssumption == RetryCounts \subseteq Int
ASSUME BoundAssumption == MaxEvents \in Nat /\ MaxPublishers \in Nat /\ MaxResets \in Nat

VARIABLES
    kind, maxOutstanding, retryCount, dropEvents,  \* immutable
    s,          \* the fields of the subscriber, and what it has handed over
    queued,     \* number of events queue() has been called with
    publishers, \* threads in publish() with a copy of the list of subscribers
    reapers,    \* those that have to call reap()
    member,     \* TopicImpl::_subscribers has the subscriber
    resets,     \* number of resets
    waiter,     \* shutdown(): "none", "waiting" or "done"
    notified    \* notify_one() has been called since it waits

vars == <<kind, maxOutstanding, retryCount, dropEvents, s, queued, publishers, reapers, member,
          resets, waiter, notified>>

States == {"online", "offline", "error", "reaped"}
Errored(state) == state \in {"error", "reaped"}

Sub == [state : States, events : Seq(Nat), outstanding : Nat, currentRetry : Nat,
        due : BOOLEAN,       \* now >= _next
        flusher : BOOLEAN,   \* doFlush() is scheduled on the timer
        batched : Seq(Nat),  \* the requests in the queue of the batch proxy
        calls : SUBSET Seq(Nat),  \* invocations in progress, by their events
        sent : Seq(Nat),     \* events handed to the transport
        notify : BOOLEAN]    \* the step has called notify_one()

TypeOK ==
    /\ kind \in Kinds /\ maxOutstanding \in Nat /\ retryCount \in Int /\ dropEvents \in Drops
    /\ s \in Sub
    /\ queued \in Nat /\ publishers \in Nat /\ reapers \in Nat /\ resets \in Nat
    /\ member \in BOOLEAN /\ notified \in BOOLEAN
    /\ waiter \in {"none", "waiting", "done"}

Shutdown == waiter # "none"
Idle(t) == t.outstanding = 0 /\ t.events = <<>>

-----------------------------------------------------------------------------
(* error(), after the decrement. *)

(* Mutant of Retry: the queue is kept when the subscriber goes offline. *)
RetryKeepsEvents(t) ==
    [t EXCEPT !.due = FALSE, !.currentRetry = @ + 1, !.state = "offline"]

Retry(t) ==
    [t EXCEPT !.due = FALSE, !.currentRetry = @ + 1, !.events = <<>>, !.state = "offline"]

(* Mutant of Failed: no notification while it waits to be retried. *)
FailedSilently(t, hard) ==
    IF Errored(t.state) THEN [t EXCEPT !.notify = @ \/ Shutdown]
    ELSE IF ~hard /\ t.state = "offline" /\ ~t.due THEN t
    ELSE LET u == IF ~hard /\ (retryCount = -1 \/ t.currentRetry < retryCount)
                  THEN Retry(t) ELSE [t EXCEPT !.events = <<>>, !.state = "error"]
         IN [u EXCEPT !.notify = @ \/ (Shutdown /\ u.events = <<>>)]

(* A hard error is that the object does not exist or the queue is full. *)
Failed(t, hard) ==
    IF Errored(t.state) \/ (~hard /\ t.state = "offline" /\ ~t.due)
    THEN [t EXCEPT !.notify = @ \/ Shutdown]
    ELSE LET u == IF ~hard /\ (retryCount = -1 \/ t.currentRetry < retryCount)
                  THEN Retry(t) ELSE [t EXCEPT !.events = <<>>, !.state = "error"]
         IN [u EXCEPT !.notify = @ \/ (Shutdown /\ u.events = <<>>)]

Dec(t) == [t EXCEPT !.outstanding = @ - 1]
NotifyIdle(t) == [t EXCEPT !.notify = @ \/ (Shutdown /\ Idle(t))]

-----------------------------------------------------------------------------
(* flush() of the four classes: the set of its outcomes. *)

Prefix(q, n) == SubSeq(q, 1, n)
Suffix(q, n) == SubSeq(q, n + 1, Len(q))

FlushBatch(t) ==
    IF t.state # "online" \/ t.events = <<>> \/ t.outstanding # 0 THEN {t}
    ELSE {[t EXCEPT !.outstanding = 1, !.flusher = TRUE]}

(* The first n events are invoked; those of async are not sent at once. *)
Invoked(t, n, async) ==
    [t EXCEPT !.events = Suffix(@, n), !.sent = @ \o Prefix(t.events, n),
              !.outstanding = @ + Cardinality(async),
              !.calls = @ \cup {<<t.events[i]>> : i \in async}]

(* The event of the invocation that throws has left the queue. *)
Dropped(t) == [t EXCEPT !.events = Tail(@)]

(* An invocation that is sent at once ends the retries. *)
Round(t, n, async) ==
    LET u == Invoked(t, n, async)
    IN IF async # 1 .. n THEN [u EXCEPT !.currentRetry = 0] ELSE u

Reached(t, async) == t.outstanding + Cardinality(async) >= maxOutstanding

(* The loop ends when nothing is left or as many are outstanding as may    *)
(* be; ...                                                                 *)
Whole(t, n) ==
    {NotifyIdle(Round(t, n, async)) : async \in
       {a \in SUBSET (1 .. n) : ~Reached(t, a \ {n}) /\ (n = Len(t.events) \/ Reached(t, a))}}

(* ... the (n+1)st invocation may throw. *)
Short(t, n) ==
    {Failed(Dropped(Round(t, n, async)), hard) :
       async \in {a \in SUBSET (1 .. n) : ~Reached(t, a)}, hard \in BOOLEAN}

FlushOneway(t) ==
    IF t.state # "online" \/ t.events = <<>> \/ Reached(t, {}) THEN {t}
    ELSE (UNION {Whole(t, k) : k \in 0 .. Len(t.events)})
         \cup (UNION {Short(t, k) : k \in 0 .. Len(t.events) - 1})

FlushTwoway(t) ==
    LET n == IF Len(t.events) < maxOutstanding - t.outstanding
             THEN Len(t.events) ELSE maxOutstanding - t.outstanding
    IN
    IF t.state # "online" \/ t.events = <<>> \/ n <= 0 THEN {t}
    ELSE {Invoked(t, n, 1 .. n)}
         \cup {Failed(Dropped(Invoked(t, k, 1 .. k)), hard) : k \in 0 .. n - 1, hard \in BOOLEAN}

(* What a link forwards of a queue: the events of a cost above its own are *)
(* erased, the others stay in order.                                       *)
Forwarded(q) ==
    LET kept == {i \in 1 .. Len(q) : q[i] \notin Costly}
        rank(i) == Cardinality({j \in kept : j <= i})
    IN [k \in 1 .. Cardinality(kept) |-> q[CHOOSE i \in kept : rank(i) = k]]

(* Mutant of FlushLink: the queue is copied instead of swapped. *)
FlushLinkCopies(t) ==
    LET v == Forwarded(t.events)
        u == t
    IN
    IF t.state # "online" \/ t.outstanding > 0 THEN {t}
    ELSE IF v = <<>> THEN {NotifyIdle(u)}
    ELSE {[u EXCEPT !.outstanding = 1, !.calls = @ \cup {v}, !.sent = @ \o v]}
         \cup {NotifyIdle(Failed(u, hard)) : hard \in BOOLEAN}

FlushLink(t) ==
    LET v == Forwarded(t.events)
        u == [t EXCEPT !.events = <<>>]
    IN
    IF t.state # "online" \/ t.outstanding > 0 THEN {t}
    ELSE IF v = <<>> THEN {NotifyIdle(u)}
    ELSE {[u EXCEPT !.outstanding = 1, !.calls = @ \cup {v}, !.sent = @ \o v]}
         \cup {NotifyIdle(Failed(u, hard)) : hard \in BOOLEAN}

Flush(t) ==
    CASE kind = "batch"  -> FlushBatch(t)
      [] kind = "oneway" -> FlushOneway(t)
      [] kind = "twoway" -> FlushTwoway(t)
      [] kind = "link"   -> FlushLink(t)

-----------------------------------------------------------------------------
(* A step leaves t; a waiting shutdown() is notified. *)
Becomes(t) ==
    /\ s' = [t EXCEPT !.notify = FALSE]
    /\ notified' = (notified \/ (t.notify /\ waiter = "waiting"))

(* publish(): a copy of the list of subscribers is made under the mutex of *)
(* the topic, which TopicImpl::shutdown() holds while it waits.            *)
PublishCopy ==
    /\ member /\ waiter # "waiting"
    /\ publishers + reapers < MaxPublishers /\ queued < MaxEvents
    /\ publishers' = publishers + 1
    /\ UNCHANGED <<kind, maxOutstanding, retryCount, dropEvents, s, queued, reapers, member, resets,
                   waiter, notified>>

(* The queue with n more events. *)
Extended(q, n) == q \o [i \in 1 .. n |-> queued + i]
Full(q) == QueueSizeMax > 0 /\ Len(q) > QueueSizeMax

(* Mutant of Queue: an offline subscriber goes online before its time. *)
QueueEarly(n) ==
    LET t == IF s.state = "offline" THEN [s EXCEPT !.state = "online"] ELSE s
        q == Extended(t.events, n)
    IN
    /\ publishers > 0 /\ queued + n <= MaxEvents
    /\ publishers' = publishers - 1 /\ queued' = queued + n
    /\ \/ Errored(s.state) /\ Becomes(s) /\ reapers' = reapers + 1
       \/ ~Errored(s.state) /\ Full(q) /\ ~dropEvents /\ Becomes(Failed(t, TRUE)) /\ reapers' = reapers + 1
       \/ /\ ~Errored(s.state) /\ (Full(q) => dropEvents)
          /\ \E u \in Flush([t EXCEPT !.events = q]) : Becomes(u)
          /\ UNCHANGED reapers
    /\ UNCHANGED <<kind, maxOutstanding, retryCount, dropEvents, member, resets, waiter>>

(* queue() for n events: they are discarded while the subscriber is        *)
(* offline; the oldest are dropped, or the subscriber fails, when the      *)
(* queue is full; false when the subscriber is to be reaped.               *)
Queue(n) ==
    LET t == [s EXCEPT !.state = "online"]
        q == Extended(t.events, n)
    IN
    /\ publishers > 0 /\ queued + n <= MaxEvents
    /\ publishers' = publishers - 1 /\ queued' = queued + n
    /\ \/ Errored(s.state) /\ Becomes(s) /\ reapers' = reapers + 1
       \/ s.state = "offline" /\ ~s.due /\ Becomes(s) /\ UNCHANGED reapers
       \/ /\ s.state = "online" \/ (s.state = "offline" /\ s.due)
          /\ \/ Full(q) /\ ~dropEvents /\ Becomes(Failed(t, TRUE)) /\ reapers' = reapers + 1
             \/ /\ Full(q) => dropEvents
                /\ LET kept == IF Full(q) THEN Suffix(q, Len(q) - QueueSizeMax) ELSE q
                   IN \E u \in Flush([t EXCEPT !.events = kept]) : Becomes(u)
                /\ UNCHANGED reapers
    /\ UNCHANGED <<kind, maxOutstanding, retryCount, dropEvents, member, resets, waiter>>

(* queue() of events that another IceStorm forwarded, at a link. *)
QueueForwarded ==
    /\ publishers > 0 /\ kind = "link"
    /\ publishers' = publishers - 1
    /\ UNCHANGED <<kind, maxOutstanding, retryCount, dropEvents, s, queued, reapers, member, resets,
                   waiter, notified>>

(* reap() in publish(), then removeSubscribers() here or at the master. *)
Reap ==
    /\ reapers > 0
    /\ reapers' = reapers - 1
    /\ s' = IF s.state = "error" THEN [s EXCEPT !.state = "reaped"] ELSE s
    /\ UNCHANGED <<kind, maxOutstanding, retryCount, dropEvents, queued, publishers, member, resets,
                   waiter, notified>>

(* removeSubscribers() of a reaped subscriber, or of one that unsubscribes. *)
Remove ==
    /\ member /\ waiter # "waiting"
    /\ member' = FALSE
    /\ UNCHANGED <<kind, maxOutstanding, retryCount, dropEvents, s, queued, publishers, reapers, resets,
                   waiter, notified>>

(* TopicImpl::update() after an election. *)
ResetIfReaped ==
    /\ member /\ waiter # "waiting" /\ s.state = "reaped" /\ resets < MaxResets
    /\ s' = [s EXCEPT !.state = "error"] /\ resets' = resets + 1
    /\ UNCHANGED <<kind, maxOutstanding, retryCount, dropEvents, queued, publishers, reapers, member,
                   waiter, notified>>

-----------------------------------------------------------------------------
(* completed(), sentAsynchronously() and batchSent(), after the decrement. *)
Completed(t) ==
    LET u == [t EXCEPT !.currentRetry = 0]
        goesOn == CASE kind = "oneway" -> u.outstanding <= 0 /\ u.events # <<>>
                    [] kind = "batch"  -> u.events # <<>>
                    [] OTHER           -> TRUE
    IN IF Idle(u) /\ Shutdown THEN {NotifyIdle(u)} ELSE IF goesOn THEN Flush(u) ELSE {u}

(* A callback of an invocation: it has been sent or replied to ... *)
Reply(c) ==
    /\ \E u \in Completed(Dec([s EXCEPT !.calls = @ \ {c}])) : Becomes(u)
    /\ UNCHANGED <<kind, maxOutstanding, retryCount, dropEvents, queued, publishers, reapers, member,
                   resets, waiter>>

(* ... or it has failed. *)
Exception(c) ==
    /\ \E hard \in BOOLEAN : Becomes(Failed(Dec([s EXCEPT !.calls = @ \ {c}]), hard))
    /\ UNCHANGED <<kind, maxOutstanding, retryCount, dropEvents, queued, publishers, reapers, member,
                   resets, waiter>>

(* doFlush(): the first n events are added to the batch of the proxy and   *)
(* the next invocation throws, or all are and the batch is flushed; the    *)
(* flush may throw before it has taken the batch.                          *)
DoFlush ==
    LET v == s.events
        t == [s EXCEPT !.flusher = FALSE, !.events = <<>>]
    IN
    /\ s.flusher
    /\ IF s.state # "online"
       THEN Becomes([Dec([s EXCEPT !.flusher = FALSE]) EXCEPT !.notify = Shutdown /\ v = <<>>])
       ELSE \/ Becomes([t EXCEPT !.batched = <<>>, !.calls = {s.batched \o v},
                                 !.sent = @ \o s.batched \o v])
            \/ \E n \in 0 .. Len(v), hard \in BOOLEAN :
                 Becomes(Failed(Dec([t EXCEPT !.batched = @ \o Prefix(v, n)]), hard))
    /\ UNCHANGED <<kind, maxOutstanding, retryCount, dropEvents, queued, publishers, reapers, member,
                   resets, waiter>>

(* The discard interval of an offline subscriber passes. *)
Elapse ==
    /\ s.state = "offline" /\ ~s.due
    /\ s' = [s EXCEPT !.due = TRUE]
    /\ UNCHANGED <<kind, maxOutstanding, retryCount, dropEvents, queued, publishers, reapers, member,
                   resets, waiter, notified>>

(* shutdown(), until it waits ... *)
ShutdownBegin ==
    /\ member /\ waiter = "none"
    /\ waiter' = IF Idle(s) THEN "done" ELSE "waiting"
    /\ UNCHANGED <<kind, maxOutstanding, retryCount, dropEvents, s, queued, publishers, reapers, member,
                   resets, notified>>

(* ... and when it wakes up. *)
ShutdownWake ==
    /\ waiter = "waiting" /\ notified
    /\ waiter' = IF Idle(s) THEN "done" ELSE "waiting"
    /\ notified' = FALSE
    /\ UNCHANGED <<kind, maxOutstanding, retryCount, dropEvents, s, queued, publishers, reapers, member, resets>>

Init ==
    /\ kind \in Kinds
    /\ maxOutstanding \in (IF kind \in {"oneway", "twoway"} THEN MaxOutstandings ELSE {1})
    /\ retryCount \in {-1} \cup (IF kind = "link" THEN {} ELSE RetryCounts)
    /\ dropEvents \in Drops
    /\ s = [state |-> "online", events |-> <<>>, outstanding |-> 0, currentRetry |-> 0,
            due |-> FALSE, flusher |-> FALSE, batched |-> <<>>, calls |-> {}, sent |-> <<>>,
            notify |-> FALSE]
    /\ queued = 0 /\ publishers = 0 /\ reapers = 0 /\ member = TRUE /\ resets = 0
    /\ waiter = "none" /\ notified = FALSE

Callback == \E c \in s.calls : Reply(c) \/ Exception(c)

Next ==
    \/ PublishCopy \/ (\E n \in 1 .. 2 : Queue(n)) \/ QueueForwarded
    \/ Reap \/ Remove \/ ResetIfReaped
    \/ Callback \/ DoFlush \/ Elapse \/ ShutdownBegin \/ ShutdownWake

Spec == Init /\ [][Next]_vars

-----------------------------------------------------------------------------
(* _outstanding counts the invocations in progress and the scheduled       *)
(* flush, and never more than _maxOutstanding: the assertions of error(),  *)
(* completed() and the other callbacks, on every path of errors.           *)
OutstandingExact ==
    /\ s.outstanding = Cardinality(s.calls) + (IF s.flusher THEN 1 ELSE 0)
    /\ s.outstanding <= maxOutstanding

(* shutdown() does not wait for nothing: whoever takes the last event out, *)
(* or ends the last invocation, has notified it.                           *)
NoLostNotify == waiter = "waiting" /\ ~notified => ~Idle(s)

(* A queue that has events is on its way: the subscriber is online and an  *)
(* invocation or a scheduled flush will come back to it.  doFlush()        *)
(* asserts that it finds events.  The queue is never above its limit, the  *)
(* invocations in progress are those that _outstanding counts, and who     *)
(* waits for the last of them has been notified.                           *)
QueueMoves ==
    /\ TypeOK /\ OutstandingExact /\ NoLostNotify
    /\ QueueSizeMax > 0 => Len(s.events) <= QueueSizeMax
    /\ s.events # <<>> => s.state = "online" /\ s.outstanding > 0
    /\ s.flusher /\ s.state = "online" => s.events # <<>>

(* Events queued while the subscriber is offline and its discard interval  *)
(* has not passed are never sent.                                          *)
OfflineDiscards ==
    [][s.state = "offline" /\ ~s.due =>
         /\ s'.state # "online" /\ s'.events = <<>>
         /\ s'.sent = s.sent]_vars

(* Events are sent once, in order, and not after an error. *)
Channel == INSTANCE EventChannel WITH queued <- queued, sent <- s.sent, closed <- Errored(s.state)
ImplementsChannel == Channel!Spec

(* Callbacks come, the timer of the batches runs, threads go on. *)
Fairness == WF_vars(Callback) /\ WF_vars(DoFlush) /\ WF_vars(ShutdownWake)
FairSpec == Spec /\ Fairness

(* shutdown() "waits for the event queues to drain" (TopicImpl::shutdown), *)
(* and returns, whatever fails.                                            *)
ShutdownReturns == waiter = "waiting" ~> waiter = "done"
=============================================================================
