----------------------------- MODULE ThreadPool -----------------------------
(***************************************************************************)
(* The leader/follower thread pool and the epoll selector:                 *)
(* Ice/ThreadPool.cpp and Ice/Selector.cpp.                                *)
(*                                                                         *)
(* A thread takes the mutex of the pool between two messages: one action.  *)
(* Event handlers have one operation, the read; what message() of a        *)
(* connection does is reduced to one read, after which it either returns   *)
(* or calls ioCompleted() and dispatches.                                  *)
(***************************************************************************)
EXTENDS Integers, Sequences, FiniteSets, SequencesExt

CONSTANTS
    Thread,          \* identities of threads
    Handler,         \* connections and acceptors
    Size, SizeMax, SizeIO,
    Serialize,
    ThreadIdleTime,  \* whether followers time out
    ServerIdleTime,  \* whether select() times out
    Arrivals,        \* bound: messages that arrive for a handler
    Executes         \* bound: calls to execute()

(* What the constants have to be. *)
ThreadPoolAssumption ==
    /\ IsFiniteSet(Thread) /\ IsFiniteSet(Handler)
    /\ Size \in 1 .. SizeMax /\ SizeMax \in 1 .. Cardinality(Thread) /\ SizeIO \in 1 .. SizeMax
    /\ {Serialize, ThreadIdleTime, ServerIdleTime} \subseteq BOOLEAN
    /\ Arrivals \in Nat /\ Executes \in Nat
    /\ Handler \cap {"workQueue", "none"} = {}

ASSUME PoolAssumption == ThreadPoolAssumption

VARIABLES
    thread,  \* the threads: what is local to run(), and where it is
    pool,    \* the members of ThreadPool
    sel,     \* the members of Selector and of the event handlers
    net      \* what has arrived and the calls made so far

vars == <<thread, pool, sel, net>>

WorkQueue == "workQueue"
EventHandler == Handler \cup {WorkQueue}
NoHandler == "none"

(* finished() of a handler, the end of a thread that left, or a call. *)
Item == [kind : {"execute", "shutdown"}] \cup [kind : {"finished"}, handler : Handler]
        \cup [kind : {"join"}, thread : Thread]
NoItem == [kind |-> "none"]

ThreadRec ==
    [pc : {"none", "follower", "wait", "woken", "select", "selected", "message", "io",
           "user", "turn", "leaving", "gone"},
     handler : EventHandler \cup {NoHandler}, item : Item \cup {NoItem},
     leader : BOOLEAN, ioCompleted : BOOLEAN]

PoolRec ==
    [threads : SUBSET Thread, promote : BOOLEAN, destroyed : BOOLEAN, workItems : Seq(Item),
     handlers : Seq(EventHandler), inUse : -1 .. SizeMax, inUseIO : 0 .. SizeIO]

SelectorRec ==
    [registered : SUBSET EventHandler, ready : SUBSET EventHandler, disabled : SUBSET Handler,
     selecting : BOOLEAN, interrupted : BOOLEAN, selectNow : BOOLEAN, events : SUBSET Handler]

NetRec ==
    [data : [Handler -> 0 .. Arrivals], buffer : [Handler -> 0 .. 1],
     arrived : [Handler -> 0 .. Arrivals], life : [Handler -> {"open", "closing", "finished"}],
     executed : 0 .. Executes]

TypeOK ==
    /\ thread \in [Thread -> ThreadRec] /\ pool \in PoolRec
    /\ sel \in SelectorRec /\ net \in NetRec

NewThread(pc) ==
    [pc |-> pc, handler |-> NoHandler, item |-> NoItem, leader |-> FALSE, ioCompleted |-> FALSE]

-----------------------------------------------------------------------------
(* Selector.cpp *)

(* What _readyHandlers holds: checkReady() follows every change. *)
ReadyHandlers(s) == (s.ready \cap s.registered) \ s.disabled

Wakeup(s) == IF s.selecting THEN [s EXCEPT !.interrupted = TRUE] ELSE s
CheckReady(s, h) == IF h \in ReadyHandlers(s) THEN Wakeup(s) ELSE s

SelectorUpdate(s, h, add) ==
    IF (h \in s.registered) = add THEN s
    ELSE CheckReady([s EXCEPT !.registered = IF add THEN @ \cup {h} ELSE @ \ {h}], h)

SelectorReady(s, h, value) ==
    IF (h \in s.ready) = value THEN s
    ELSE CheckReady([s EXCEPT !.ready = IF value THEN @ \cup {h} ELSE @ \ {h}], h)

Enable(s, h) == IF h \in s.disabled THEN CheckReady([s EXCEPT !.disabled = @ \ {h}], h) ELSE s
Disable(s, h) == IF h \in s.disabled THEN s ELSE CheckReady([s EXCEPT !.disabled = @ \cup {h}], h)

StartSelect(s) ==
    [s EXCEPT !.interrupted = FALSE, !.selecting = TRUE, !.selectNow = ReadyHandlers(s) # {}]

(* finishSelect(): what epoll returned, then the handlers that are ready.  *)
(* The order within each part is the kernel's and the map's.               *)
FinishSelect(s) ==
    LET orders(S) == {q \in [1 .. Cardinality(S) -> S] : IsInjective(q)} IN
    {q[1] \o q[2] : q \in orders(s.events \ ReadyHandlers(s)) \X orders(ReadyHandlers(s))}

(* What epoll has: the descriptors registered and not disabled. *)
Epoll == {h \in Handler : net.data[h] > 0 /\ h \in sel.registered \ sel.disabled}

(* select(), which returns at once when there are ready handlers. *)
Select(th) ==
    /\ thread[th].pc = "select"
    /\ Epoll # {} \/ sel.interrupted \/ sel.selectNow
    /\ sel' = [sel EXCEPT !.events = Epoll]
    /\ thread' = [thread EXCEPT ![th].pc = "selected"]
    /\ UNCHANGED <<pool, net>>

-----------------------------------------------------------------------------
(* ThreadPool.cpp *)

(* ThreadPoolWorkQueue::queue(). *)
Queue(s, items) ==
    IF items = <<>> THEN SelectorReady(s, WorkQueue, TRUE) ELSE s

(* notify_one() of the condition variable of the pool. *)
NotifyOne(threads, notify) ==
    LET waiting == {th \in Thread : threads[th].pc = "wait"} IN
    IF notify /\ waiting # {} THEN {[threads EXCEPT ![th].pc = "woken"] : th \in waiting} ELSE {threads}

(* The state that a thread has under the mutex, and whether it notifies. *)
Locked(p, s, me, notify) == [pool |-> p, sel |-> s, me |-> me, notify |-> notify]

(* Mutant of PromoteFollower: notifies only when handlers are left. *)
PromoteQuiet(l) ==
    [l EXCEPT !.pool.promote = TRUE, !.me.leader = FALSE,
              !.notify = l.pool.inUseIO < SizeIO /\ l.pool.handlers # <<>>]

PromoteFollower(l) ==
    [l EXCEPT !.pool.promote = TRUE, !.me.leader = FALSE,
              !.notify = l.pool.inUseIO < SizeIO /\ (l.pool.handlers # <<>> \/ l.pool.inUseIO = 0)]

(* The rest of the ready handlers, from the first that can still be used. *)
NextHandlers(p, s) ==
    LET usable == {i \in DOMAIN p.handlers : p.handlers[i] \in s.registered \ s.disabled}
        first == CHOOSE i \in usable : \A j \in usable : i <= j
    IN
    IF usable = {} THEN <<>> ELSE SubSeq(p.handlers, first, Len(p.handlers))

(* Mutant of Lead: selects while other threads do IO. *)
LeadSelects(l) ==
    LET next == NextHandlers(l.pool, l.sel)
        taken == [l EXCEPT !.pool.handlers = Tail(next), !.me.pc = "message",
                           !.me.handler = Head(next), !.me.ioCompleted = FALSE]
        reading == [taken EXCEPT !.pool.inUseIO = @ + 1]
    IN
    IF next = <<>>
    THEN [l EXCEPT !.sel = StartSelect(l.sel), !.me.pc = "select", !.me.handler = NoHandler,
                   !.pool.handlers = <<>>]
    ELSE IF reading.pool.inUseIO < SizeIO THEN PromoteFollower(reading)
    ELSE reading

(* The last part of run(): the leader takes the next ready handler, or     *)
(* gives leadership up while other threads do IO, or selects.              *)
Lead(l) ==
    LET next == NextHandlers(l.pool, l.sel)
        rest == [l EXCEPT !.pool.handlers = next]
        taken == [l EXCEPT !.pool.handlers = Tail(next), !.me.pc = "message",
                           !.me.handler = Head(next), !.me.ioCompleted = FALSE]
        reading == [taken EXCEPT !.pool.inUseIO = @ + 1]
    IN
    IF next = <<>>
    THEN IF l.pool.inUseIO > 0
         THEN PromoteFollower([rest EXCEPT !.me.pc = "follower", !.me.handler = NoHandler])
         ELSE [rest EXCEPT !.sel = StartSelect(l.sel), !.me.pc = "select", !.me.handler = NoHandler]
    ELSE IF SizeMax = 1 THEN taken
    ELSE IF Tail(next) # <<>> /\ reading.pool.inUseIO < SizeIO THEN PromoteFollower(reading)
    ELSE reading

MustWait(p) == ~p.promote \/ p.inUseIO = SizeIO \/ (p.handlers = <<>> /\ p.inUseIO > 0)

(* Mutant of FollowerWait: _promote stays set. *)
FollowerWaitPromote(l) ==
    IF MustWait(l.pool) THEN [l EXCEPT !.me.pc = "wait", !.me.handler = NoHandler]
    ELSE Lead([l EXCEPT !.me.leader = TRUE, !.me.handler = NoHandler])

(* followerWait(), which goes on as the leader. *)
FollowerWait(l) ==
    IF MustWait(l.pool) THEN [l EXCEPT !.me.pc = "wait", !.me.handler = NoHandler]
    ELSE Lead([l EXCEPT !.pool.promote = FALSE, !.me.leader = TRUE, !.me.handler = NoHandler])

(* What a thread does under the mutex: the state l and the calls made are  *)
(* those that it leaves behind.                                            *)
Unlock(th, l) ==
    /\ pool' = l.pool /\ sel' = l.sel
    /\ thread' \in NotifyOne([thread EXCEPT ![th] = l.me], l.notify)

Here(th) == Locked(pool, sel, thread[th], FALSE)

(* A thread without a handler waits to be promoted. *)
Follow(th) ==
    /\ thread[th].pc \in {"follower", "woken"}
    /\ Unlock(th, FollowerWait(Here(th)))
    /\ UNCHANGED net

(* select() has returned. *)
Selected(th) ==
    /\ thread[th].pc = "selected"
    /\ \E order \in FinishSelect(sel) :
         Unlock(th, Lead([Here(th) EXCEPT !.pool.handlers = order, !.sel.selecting = FALSE, !.sel.events = {}]))
    /\ UNCHANGED net

(* message() of a handler has returned. *)
Turn(th) ==
    LET l == Here(th)
        done == IF ~l.me.ioCompleted THEN [l EXCEPT !.pool.inUseIO = @ - 1]
                ELSE [l EXCEPT !.pool.inUse = @ - 1,
                               !.sel = IF Serialize /\ l.me.handler # WorkQueue
                                       THEN Enable(@, l.me.handler) ELSE @]
    IN
    /\ thread[th].pc = "turn"
    /\ Unlock(th, IF SizeMax = 1 THEN Lead(l)
                  ELSE IF done.me.leader THEN Lead(done) ELSE FollowerWait(done))
    /\ UNCHANGED net

(* ioCompleted(): the thread gives leadership up, and a thread is started  *)
(* when all of them are in use.                                            *)
IoCompleted(l, pc) ==
    LET me == [l.me EXCEPT !.ioCompleted = TRUE, !.pc = pc]
        counted == [l EXCEPT !.me = me, !.pool.inUseIO = @ - 1,
                             !.sel = IF Serialize /\ me.handler # WorkQueue /\ ~l.pool.destroyed
                                     THEN Disable(@, me.handler) ELSE @]
        promoted == IF me.leader THEN PromoteFollower(counted)
                    ELSE [counted EXCEPT !.notify =
                            @ \/ /\ counted.pool.promote
                                 /\ counted.pool.handlers # <<>> \/ counted.pool.inUseIO = 0]
    IN
    IF SizeMax = 1 THEN [l EXCEPT !.me = me] ELSE [promoted EXCEPT !.pool.inUse = @ + 1]

Grows(l) ==
    ~l.pool.destroyed /\ l.pool.inUse < SizeMax /\ l.pool.inUse = Cardinality(l.pool.threads)

(* A thread that has ended leaves its identity to a new one. *)
IoCompletedUnlock(th, l) ==
    /\ sel' = l.sel
    /\ IF SizeMax > 1 /\ Grows(l)
       THEN \E new \in {t \in Thread : thread[t].pc \in {"none", "gone"}} :
              /\ pool' = [l.pool EXCEPT !.threads = @ \cup {new}]
              /\ thread' \in NotifyOne([thread EXCEPT ![th] = l.me, ![new] = NewThread("follower")], l.notify)
       ELSE /\ pool' = l.pool
            /\ thread' \in NotifyOne([thread EXCEPT ![th] = l.me], l.notify)

-----------------------------------------------------------------------------
(* message() of a connection: one message is read, and the next one may be *)
(* buffered by the transport, which says so with ready().  A connection    *)
(* that is closed returns at once.                                         *)
Message(th) ==
    LET h == thread[th].handler
        n == net.data[h] + net.buffer[h]
    IN
    /\ thread[th].pc = "message" /\ h \in Handler
    /\ IF net.life[h] # "open" \/ n = 0
       THEN /\ thread' = [thread EXCEPT ![th].pc = "turn"]
            /\ UNCHANGED <<sel, net>>
       ELSE \E buffered \in 0 .. 1, pc \in {"turn", "io"} :
              /\ buffered < n
              /\ net' = [net EXCEPT !.buffer[h] = buffered, !.data[h] = n - 1 - buffered]
              /\ sel' = SelectorReady(sel, h, buffered = 1)
              /\ thread' = [thread EXCEPT ![th].pc = pc]
    /\ UNCHANGED pool

(* The message is dispatched: ioCompleted() first. *)
Dispatch(th) ==
    /\ thread[th].pc = "io" /\ thread[th].handler # WorkQueue
    /\ IoCompletedUnlock(th, IoCompleted(Here(th), "user"))
    /\ UNCHANGED net

(* The dispatch or the call ends. *)
Return(th) ==
    /\ thread[th].pc = "user"
    /\ thread' = [thread EXCEPT ![th].pc = "turn", ![th].item = NoItem]
    /\ UNCHANGED <<pool, sel, net>>

(* ThreadPoolWorkQueue::message(), up to the item. *)
TakeItem(th) ==
    /\ thread[th].pc = "message" /\ thread[th].handler = WorkQueue
    /\ LET items == IF pool.workItems = <<>> THEN <<>> ELSE Tail(pool.workItems) IN
       /\ thread' = [thread EXCEPT ![th].pc = "io",
                       ![th].item = IF pool.workItems = <<>> THEN NoItem ELSE Head(pool.workItems)]
       /\ pool' = [pool EXCEPT !.workItems = items]
       /\ sel' = IF items = <<>> /\ ~pool.destroyed THEN SelectorReady(sel, WorkQueue, FALSE) ELSE sel
    /\ UNCHANGED net

(* execute() and shutdown(): the call follows ioCompleted(). *)
RunCall(th) ==
    /\ thread[th].pc = "io" /\ thread[th].item.kind \in {"execute", "shutdown"}
    /\ IoCompletedUnlock(th, IoCompleted(Here(th), "user"))
    /\ UNCHANGED net

(* finished() of a handler. *)
RunFinished(th) ==
    /\ thread[th].pc = "io" /\ thread[th].item.kind = "finished"
    /\ net' = [net EXCEPT !.life[thread[th].item.handler] = "finished"]
    /\ thread' = [thread EXCEPT ![th].pc = "turn", ![th].item = NoItem]
    /\ UNCHANGED <<pool, sel>>

(* joinThread() *)
RunJoin(th) ==
    /\ thread[th].pc = "io" /\ thread[th].item.kind = "join"
    /\ thread[thread[th].item.thread].pc # "leaving"
    /\ thread' = [thread EXCEPT ![th].pc = "turn", ![th].item = NoItem]
    /\ UNCHANGED <<pool, sel, net>>

(* Mutant of RunDestroyed: the thread ends without ioCompleted(). *)
RunDestroyedLeader(th) ==
    /\ thread[th].pc = "io" /\ thread[th].handler = WorkQueue /\ thread[th].item = NoItem
    /\ Unlock(th, [Here(th) EXCEPT !.me.pc = "leaving"])
    /\ UNCHANGED net

(* No item is left, and the pool is destroyed: ThreadPoolDestroyedException. *)
RunDestroyed(th) ==
    LET l == IoCompleted(Here(th), "leaving") IN
    /\ thread[th].pc = "io" /\ thread[th].handler = WorkQueue /\ thread[th].item = NoItem
    /\ Unlock(th, [l EXCEPT !.pool.inUse = @ - 1])
    /\ UNCHANGED net

(* The thread ends. *)
Leave(th) ==
    /\ thread[th].pc = "leaving"
    /\ thread' = [thread EXCEPT ![th] = NewThread("gone")]
    /\ UNCHANGED <<pool, sel, net>>

-----------------------------------------------------------------------------
(* A follower has waited for the thread idle time. *)
FollowerTimeout(th) ==
    LET join == [kind |-> "join", thread |-> th] IN
    /\ ThreadIdleTime /\ thread[th].pc = "wait"
    /\ IF MustWait(pool)
       THEN /\ ~pool.destroyed
            /\ pool' = [pool EXCEPT !.threads = @ \ {th}, !.workItems = Append(@, join)]
            /\ sel' = Queue(sel, pool.workItems)
            /\ thread' = [thread EXCEPT ![th].pc = "leaving"]
       ELSE Unlock(th, FollowerWait(Here(th)))
    /\ UNCHANGED net

(* select() has waited for the server idle time; the pool is shut down     *)
(* once in the model.                                                      *)
ServerTimeout(th) ==
    LET item == [kind |-> "shutdown"] IN
    /\ ServerIdleTime /\ thread[th].pc = "select" /\ ~sel.interrupted /\ ~sel.selectNow /\ Epoll = {}
    /\ ~pool.destroyed /\ pool.inUse = 0 /\ net.executed < Executes
    /\ net' = [net EXCEPT !.executed = @ + 1]
    /\ pool' = [pool EXCEPT !.workItems = Append(@, item)]
    /\ sel' = Queue(sel, pool.workItems)
    /\ UNCHANGED thread

(* update(): a connection is held or activated. *)
Update(h) ==
    /\ ~pool.destroyed /\ net.life[h] = "open"
    /\ sel' = SelectorUpdate(sel, h, h \notin sel.registered)
    /\ UNCHANGED <<thread, pool, net>>

(* finish(): a connection is closed. *)
Finish(h) ==
    LET item == [kind |-> "finished", handler |-> h] IN
    /\ ~pool.destroyed /\ net.life[h] = "open"
    /\ net' = [net EXCEPT !.life[h] = "closing"]
    /\ pool' = [pool EXCEPT !.workItems = Append(@, item)]
    /\ sel' = Queue(SelectorUpdate(sel, h, FALSE), pool.workItems)
    /\ UNCHANGED thread

(* execute() *)
Execute ==
    LET item == [kind |-> "execute"] IN
    /\ ~pool.destroyed /\ net.executed < Executes
    /\ net' = [net EXCEPT !.executed = @ + 1]
    /\ pool' = [pool EXCEPT !.workItems = Append(@, item)]
    /\ sel' = Queue(sel, pool.workItems)
    /\ UNCHANGED thread

(* destroy(), called when the connections have finished. *)
Destroy ==
    /\ ~pool.destroyed /\ \A h \in Handler : net.life[h] = "finished"
    /\ pool' = [pool EXCEPT !.destroyed = TRUE]
    /\ sel' = SelectorReady(sel, WorkQueue, TRUE)
    /\ UNCHANGED <<thread, net>>

(* A message arrives. *)
Arrive(h) ==
    /\ net.arrived[h] < Arrivals
    /\ net' = [net EXCEPT !.arrived[h] = @ + 1, !.data[h] = @ + 1]
    /\ UNCHANGED <<thread, pool, sel>>

-----------------------------------------------------------------------------
Init ==
    \E started \in SUBSET Thread :
      /\ Cardinality(started) = Size
      /\ thread = [th \in Thread |-> NewThread(IF th \in started THEN "follower" ELSE "none")]
      /\ pool = [threads |-> started, promote |-> TRUE, destroyed |-> FALSE, workItems |-> <<>>,
                 handlers |-> <<>>, inUse |-> 0, inUseIO |-> 0]
      /\ sel = [registered |-> EventHandler, ready |-> {}, disabled |-> {}, selecting |-> FALSE,
                interrupted |-> FALSE, selectNow |-> FALSE, events |-> {}]
      /\ net = [data |-> [h \in Handler |-> 0], buffer |-> [h \in Handler |-> 0],
                arrived |-> [h \in Handler |-> 0], life |-> [h \in Handler |-> "open"], executed |-> 0]

(* What a thread of the pool does by itself. *)
Run(th) ==
    \/ Select(th) \/ Follow(th) \/ Selected(th) \/ Turn(th) \/ Message(th) \/ Dispatch(th)
    \/ TakeItem(th) \/ RunCall(th) \/ RunFinished(th) \/ RunJoin(th) \/ RunDestroyed(th) \/ Leave(th)

Next ==
    \/ \E th \in Thread : Run(th) \/ Return(th) \/ FollowerTimeout(th) \/ ServerTimeout(th)
    \/ \E h \in Handler : Update(h) \/ Finish(h) \/ Arrive(h)
    \/ Execute \/ Destroy

Spec == Init /\ [][Next]_vars

-----------------------------------------------------------------------------
Performing(r) == r.pc \in {"message", "io"} \/ (r.pc = "turn" /\ ~r.ioCompleted)
Dispatching(r) == r.pc = "user" \/ (r.pc = "turn" /\ r.ioCompleted)
Leaders == {th \in Thread : thread[th].leader}

(* Leadership is neither lost nor duplicated: one thread has it, or the    *)
(* next follower takes it.  The only thread of a pool keeps it to its end. *)
OneLeader ==
    LET ended == SizeMax = 1 /\ \A th \in Thread : thread[th].pc \in {"none", "gone"} IN
    Cardinality(Leaders) = IF pool.promote \/ ended THEN 0 ELSE 1

(* The counters that decide when to select, to promote and to grow are the *)
(* numbers of threads that read and that dispatch, whatever returned, left *)
(* or was destroyed on the way.                                            *)
Counted ==
    SizeMax > 1 =>
      /\ pool.inUseIO = Cardinality({th \in Thread : Performing(thread[th])})
      /\ pool.inUse = Cardinality({th \in Thread : Dispatching(thread[th])})

(* Two threads never read from one handler at once, since nobody selects   *)
(* while a thread does IO; with Serialize, nor do they dispatch at once.   *)
OneReader ==
    \A th, other \in Thread :
      th # other /\ thread[th].handler = thread[other].handler /\ thread[th].handler \in EventHandler =>
        /\ ~(Performing(thread[th]) /\ Performing(thread[other]))
        /\ Serialize /\ thread[th].handler \in Handler =>
             ~(thread[th].pc \in {"io", "user"} /\ thread[other].pc \in {"message", "io", "user"})

(* _handlers and what epoll returned are plain pointers: what they point   *)
(* to has not been finished and released while it was waiting in the list. *)
HandlersAlive ==
    \A h \in Handler : h \in sel.events \cup Range(pool.handlers) => net.life[h] # "finished"

(* The assertions of message(), ioCompleted(), followerWait() and of       *)
(* finishSelect() hold.                                                    *)
AssertsHold ==
    /\ \A th \in Thread :
         /\ thread[th].pc = "message" /\ thread[th].handler = WorkQueue =>
              pool.workItems # <<>> \/ pool.destroyed
         /\ thread[th].pc = "wait" /\ MustWait(pool) /\ ~pool.destroyed => Cardinality(pool.threads) > 1
         /\ thread[th].pc = "selected" => pool.handlers = <<>>
    /\ ~pool.destroyed => pool.inUse <= Cardinality(pool.threads)

(* What a pool is safe from, whatever its threads and its clients do: none *)
(* of the above is lost.                                                   *)
PoolSafe == TypeOK /\ OneLeader /\ Counted /\ HandlersAlive /\ AssertsHold

=============================================================================
