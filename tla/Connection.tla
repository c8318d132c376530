----------------------------- MODULE Connection -----------------------------
(***************************************************************************)
(* The two ends of an Ice connection (Ice/ConnectionI.cpp, selectors other *)
(* than IOCP, a TCP endpoint): validation, requests and replies, hold and  *)
(* activate, graceful closure, abort, timeouts and cancellation.           *)
(*                                                                         *)
(* The client sends two-way requests, the server dispatches them.  An end  *)
(* is a record; a function of the code is an operator from one record to   *)
(* another.  A step is a section under ConnectionI::_mutex, except that    *)
(* message() is two steps when it writes, since the other end can act      *)
(* between its write and its read; it holds the mutex meanwhile.           *)
(***************************************************************************)
EXTENDS Integers, Sequences, FiniteSets, SequencesExt

CONSTANTS
    Request,
    None,
    MaxDispatches,  \* Ice.Connection.MaxDispatches, 0 when unlimited
    Capacity,       \* messages that the transport takes before a write blocks
    Calls,          \* what applications and the runtime do in an instance
    LateCancel,     \* whether sent requests older than the last one are cancelled
    MaxCalls        \* bound: calls of hold() and activate()

AllCalls == {"close", "destroy", "abort", "hold", "cancel", "timeout", "fatal"}

ConnectionAssumption ==
    /\ IsFiniteSet(Request) /\ None \notin Request
    /\ MaxDispatches \in Nat /\ Capacity \in Nat \ {0} /\ MaxCalls \in Nat
    /\ Calls \subseteq AllCalls /\ LateCancel \in BOOLEAN

ASSUME Instance == ConnectionAssumption

VARIABLES
    conn,        \* the two ends
    dispatched,  \* requests whose dispatch the server has started
    held,        \* waitUntilHolding() has returned at the server since it was held
    calls        \* calls, for their bound

vars == <<conn, dispatched, held, calls>>

End == {"client", "server"}
Peer(e) == CHOOSE p \in End : p # e

(* ConnectionI::State; initialize() of the transport is left out. *)
NotValidated == 0
Active == 1
Holding == 2
Closing == 3
ClosingPending == 4
Closed == 5
Finished == 6

(* The exceptions that a connection is closed with. *)
Exception == {"none", "CloseConnection", "ConnectionClosed", "CommunicatorDestroyed", "ConnectionLost",
              "ConnectionAborted", "CloseTimeout", "ConnectTimeout", "Fatal"}

(* A message; of is null in a request that was cancelled while it was      *)
(* being written.                                                          *)
Message == [type : {"validate", "close"}, r : {None}, of : {None}]
           \cup [type : {"request"}, r : Request, of : Request \cup {None}]
           \cup [type : {"reply"}, r : Request, of : {None}]

(* The state of an end, after the members of ConnectionI; out is what the  *)
(* transport has taken and the other end has not read.                     *)
Endpoint ==
    [state : NotValidated .. Finished, exception : Exception, sendStreams : Seq(Message), out : Seq(Message),
     registered : SUBSET {"read", "write"}, operation : SUBSET {"read", "write"},
     pc : {"idle", "picked", "locked"}, written : BOOLEAN,
     closeRequested : BOOLEAN, shutdownInitiated : BOOLEAN, closeTimer : BOOLEAN, finishing : BOOLEAN,
     callbacks : Nat, dispatches : SUBSET Request, asyncRequests : SUBSET Request,
     hint : Request \cup {None}, sent : SUBSET Request,
     done : [Request -> {"new", "pending", "ok", "canceled"} \cup Exception],
     completions : [Request -> 0 .. 2], removed : Nat]

TypeOK ==
    /\ conn \in [End -> Endpoint]
    /\ \A e \in End : Len(conn[e].out) <= Capacity /\ conn[e].hint \in conn[e].asyncRequests \cup {None}
    /\ dispatched \subseteq Request /\ held \in BOOLEAN /\ calls \in 0 .. MaxCalls

-----------------------------------------------------------------------------
Control(t) == [type |-> t, r |-> None, of |-> None]
Upcalls(c) == c.callbacks + Cardinality(c.dispatches)
Reads(c) == MaxDispatches = 0 \/ Cardinality(c.dispatches) < MaxDispatches

(* OutgoingMessage::sent() of requests that are written. *)
Sent(c, ms) == [c EXCEPT !.sent = @ \cup {m.of : m \in {x \in ms : x.of # None}}]

(* OutgoingAsync::exception() or response(): a request is completed. *)
Complete(c, rs, how) ==
    [c EXCEPT !.done = [r \in Request |-> IF r \in rs THEN how ELSE @[r]],
              !.completions = [r \in Request |-> IF r \in rs /\ @[r] < 2 THEN @[r] + 1 ELSE @[r]]]

(* A request that is found in the map is taken from it and completed. *)
Take(c, r, how) ==
    Complete([c EXCEPT !.asyncRequests = @ \ {r}, !.hint = IF @ = r THEN None ELSE @], {r}, how)

(* setState(StateClosed): the thread pool will call finished(). *)
SetClosed(c, ex) ==
    IF c.state >= Closed THEN c
    ELSE [c EXCEPT !.state = Closed, !.exception = IF @ = "none" THEN ex ELSE @,
                   !.registered = {}, !.finishing = TRUE]

(* sendMessage(), when the write does not fail. *)
SendMessage(c, m) ==
    IF c.sendStreams # <<>> THEN [c EXCEPT !.sendStreams = Append(@, m)]
    ELSE IF Len(c.out) < Capacity THEN Sent([c EXCEPT !.out = Append(@, m)], {m})
    ELSE [c EXCEPT !.sendStreams = <<m>>, !.registered = @ \cup {"write"}]

(* A write that fails is one of a message that is not queued. *)
Fails(c, fail) == fail /\ c.sendStreams = <<>>

(* Mutant of InitiateShutdown: it does not wait for the dispatches. *)
InitiateShutdownAtOnce(c, fail) ==
    IF c.shutdownInitiated THEN c
    ELSE IF Fails(c, fail) THEN SetClosed([c EXCEPT !.shutdownInitiated = TRUE], "ConnectionLost")
    ELSE LET d == SendMessage([c EXCEPT !.shutdownInitiated = TRUE, !.closeTimer = TRUE], Control("close"))
         IN IF d.sendStreams = <<>>
            THEN [d EXCEPT !.state = ClosingPending, !.registered = @ \cup {"read"}]
            ELSE d

(* initiateShutdown(), which is called in state Closing when there is no   *)
(* upcall left: the CloseConnection message, and once it is written the    *)
(* wait for the other end to close.                                        *)
InitiateShutdown(c, fail) ==
    IF c.shutdownInitiated \/ Upcalls(c) > 0 THEN c
    ELSE IF Fails(c, fail) THEN SetClosed([c EXCEPT !.shutdownInitiated = TRUE], "ConnectionLost")
    ELSE LET d == SendMessage([c EXCEPT !.shutdownInitiated = TRUE, !.closeTimer = TRUE], Control("close"))
         IN IF d.sendStreams = <<>>
            THEN [d EXCEPT !.state = ClosingPending, !.registered = @ \cup {"read"}]
            ELSE d

(* setState(StateClosing). *)
SetClosing(c, ex, fail) ==
    IF c.state = NotValidated THEN SetClosed(c, ex)
    ELSE IF c.state >= Closing THEN c
    ELSE InitiateShutdown([c EXCEPT !.state = Closing, !.exception = ex], fail)

(* setState(StateHolding) and setState(StateActive): reading is            *)
(* unregistered and registered, unless the limit of dispatches has done it.*)
SetHolding(c) ==
    IF c.state \notin {Active, NotValidated} THEN c
    ELSE [c EXCEPT !.state = Holding,
                   !.registered = IF c.state = Active /\ Reads(c) THEN @ \ {"read"} ELSE @]

(* Mutant of SetActive: reading is left to the upcalls that end. *)
SetActiveUnread(c) ==
    IF c.state \notin {Holding, NotValidated} THEN c
    ELSE [c EXCEPT !.state = Active,
                   !.registered = IF Upcalls(c) = 0 THEN @ \cup {"read"} ELSE @]

SetActive(c) ==
    IF c.state \notin {Holding, NotValidated} THEN c
    ELSE [c EXCEPT !.state = Active, !.registered = IF Reads(c) THEN @ \cup {"read"} ELSE @]

(* Mutant of CloseIfRequested: only the reply is taken. *)
CloseNever(c, fail) == c

(* The last reply of a connection whose closure was requested: the part of *)
(* parseMessage() and asyncRequestCanceled() that calls                    *)
(* doApplicationClose().                                                   *)
CloseIfRequested(c, fail) ==
    IF c.closeRequested /\ c.state < Closing /\ c.asyncRequests = {}
    THEN SetClosing(c, "ConnectionClosed", fail)
    ELSE c

-----------------------------------------------------------------------------
(* An end whose transceiver is closed: the other end gets an error or the  *)
(* end of the stream when it reads, and may get an error when it writes.   *)
Gone(e) == conn[e].state = Finished

Locked(e) == conn[e].pc = "locked"
WriteFails(e) == IF Gone(Peer(e)) THEN BOOLEAN ELSE {FALSE}

Step(e, c) == conn' = [conn EXCEPT ![e] = c]
Other == UNCHANGED <<dispatched, held, calls>>

(* validate() of the server, which writes the first message. *)
Validate ==
    /\ ~Locked("server") /\ conn["server"].state = NotValidated
    /\ Step("server", SetHolding(SendMessage(conn["server"], Control("validate"))))
    /\ Other

(* activate(), called by the factory, and by the application after a hold. *)
Activate(e) ==
    /\ ~Locked(e) /\ conn[e].state = Holding
    /\ Step(e, SetActive(conn[e]))
    /\ held' = (held /\ e # "server")
    /\ UNCHANGED <<dispatched, calls>>

(* hold(), called by the object adapter of the server. *)
Hold ==
    /\ "hold" \in Calls /\ calls < MaxCalls
    /\ ~Locked("server") /\ conn["server"].state = Active
    /\ Step("server", SetHolding(conn["server"]))
    /\ calls' = calls + 1
    /\ UNCHANGED <<dispatched, held>>

(* waitUntilHolding() returns. *)
WaitUntilHolding ==
    /\ ~Locked("server") /\ conn["server"].state = Holding /\ Upcalls(conn["server"]) = 0
    /\ calls > 0 /\ ~held
    /\ held' = TRUE
    /\ UNCHANGED <<conn, dispatched, calls>>

(* sendAsyncRequest() at the client, which has the connection from the     *)
(* factory after its activation.  A connection that is closing throws      *)
(* RetryException, and the request goes elsewhere.                         *)
SendAsyncRequest(r) ==
    LET c == conn["client"]
        d == [c EXCEPT !.done[r] = "pending", !.asyncRequests = @ \cup {r}, !.hint = r]
    IN
    /\ ~Locked("client") /\ c.state = Active /\ c.done[r] = "new"
    /\ \E fail \in WriteFails("client") :
         Step("client",
              IF Fails(c, fail) THEN Complete(SetClosed(c, "ConnectionLost"), {r}, "ConnectionLost")
              ELSE SendMessage(d, [type |-> "request", r |-> r, of |-> r]))
    /\ Other

(* close(), destroy() and abort(). *)
Close(e) ==
    LET c == conn[e] IN
    /\ "close" \in Calls /\ ~Locked(e) /\ c.state \in NotValidated .. Holding /\ ~c.closeRequested
    /\ \E fail \in WriteFails(e) :
         Step(e, IF c.asyncRequests = {} THEN SetClosing(c, "ConnectionClosed", fail)
                 ELSE [c EXCEPT !.closeRequested = TRUE, !.closeTimer = TRUE])
    /\ Other

Destroy(e) ==
    /\ "destroy" \in Calls /\ ~Locked(e) /\ conn[e].state < Closing
    /\ \E fail \in WriteFails(e) : Step(e, SetClosing(conn[e], "CommunicatorDestroyed", fail))
    /\ Other

Abort(e) ==
    /\ "abort" \in Calls /\ ~Locked(e) /\ conn[e].state < Closed
    /\ Step(e, SetClosed(conn[e], "ConnectionAborted"))
    /\ Other

(* connectTimedOut() and closeTimedOut(), which replaces the exception. *)
ConnectTimedOut(e) ==
    /\ "timeout" \in Calls /\ ~Locked(e) /\ conn[e].state < Active
    /\ Step(e, SetClosed(conn[e], "ConnectTimeout"))
    /\ Other

CloseTimedOut(e) ==
    LET c == conn[e] IN
    /\ "timeout" \in Calls /\ ~Locked(e) /\ c.closeTimer
    /\ Step(e, [(IF c.state < Closed THEN SetClosed([c EXCEPT !.exception = "CloseTimeout"], "CloseTimeout") ELSE c)
                   EXCEPT !.closeTimer = FALSE])
    /\ Other

(* The message of a request in the send queue, if it is there. *)
Queued(c, r) == {i \in DOMAIN c.sendStreams : c.sendStreams[i].of = r}

(* A message that is being written stays in the queue, without its         *)
(* request.                                                                *)
Erase(q, i) == IF i = 1 THEN [q EXCEPT ![1].of = None] ELSE RemoveAt(q, i)

(* asyncRequestCanceled(): a request is found in the queue or, when it was *)
(* sent, through the hint or in the map.  cancel() gives it no             *)
(* ConnectionAbortedException, which would close the connection.           *)
AsyncRequestCanceled(r) ==
    LET c == conn["client"]
        d == Take(c, r, "canceled")
    IN
    /\ "cancel" \in Calls /\ ~Locked("client") /\ c.state < Closed /\ c.done[r] = "pending"
    /\ \E fail \in WriteFails("client") :
         \/ \E i \in Queued(c, r) : Step("client", CloseIfRequested([d EXCEPT !.sendStreams = Erase(@, i)], fail))
         \/ Queued(c, r) = {} /\ c.hint = r /\ Step("client", CloseIfRequested(d, fail))
         \/ Queued(c, r) = {} /\ c.hint # r /\ LateCancel /\ Step("client", d)
    /\ Other

-----------------------------------------------------------------------------
(* A thread of the pool takes the connection from the handlers that select *)
(* found ready, and calls message() without the mutex of the pool.         *)
Pick(e) ==
    LET c == conn[e]
        ready == {op \in c.registered :
                    \/ op = "read" /\ (conn[Peer(e)].out # <<>> \/ Gone(Peer(e)))
                    \/ op = "write" /\ (Len(c.out) < Capacity \/ Gone(Peer(e)))}
    IN
    /\ c.pc = "idle"
    /\ \E ops \in SUBSET ready \ {{}} :
         Step(e, [c EXCEPT !.pc = "picked", !.operation = ops])
    /\ Other

Idle(c) == [c EXCEPT !.pc = "idle", !.operation = {}, !.written = FALSE]

(* message(), until it has written: the front of the queue is written, or  *)
(* the write blocks, or fails.                                             *)
MessageWrite(e) ==
    LET c == conn[e]
        d == [c EXCEPT !.pc = "locked"]
    IN
    /\ c.pc = "picked"
    /\ Gone(Peer(e)) => Len(c.out) < Capacity \/ "write" \notin c.operation \/ c.state >= Closed
    /\ Step(e, IF c.state >= Closed THEN Idle(c)
               ELSE IF "write" \notin c.operation \/ c.sendStreams = <<>> THEN d
               ELSE IF Len(c.out) < Capacity
                 THEN [d EXCEPT !.out = Append(@, Head(c.sendStreams)), !.written = TRUE]
                 ELSE d)
    /\ Other

MessageWriteFails(e) ==
    LET c == conn[e] IN
    /\ c.pc = "picked" /\ c.state < Closed /\ "write" \in c.operation /\ c.sendStreams # <<>> /\ Gone(Peer(e))
    /\ Step(e, Idle(SetClosed(c, "ConnectionLost")))
    /\ Other

(* Mutant of SendNextMessages: the end of the closure is not noticed. *)
SendNextMessagesOnly(c) ==
    LET rest == Tail(c.sendStreams)
        room == Capacity - Len(c.out)
        k == IF c.state >= ClosingPending THEN 0 ELSE IF Len(rest) < room THEN Len(rest) ELSE room
        now == SubSeq(rest, 1, k)
    IN Sent([c EXCEPT !.out = @ \o now, !.sendStreams = SubSeq(rest, k + 1, Len(rest))],
            {Head(c.sendStreams)} \cup ToSet(now))

(* sendNextMessages() after the front of the queue was written: as many    *)
(* others as the transport takes, none if the closure is pending.          *)
SendNextMessages(c) ==
    LET front == Head(c.sendStreams)
        rest == Tail(c.sendStreams)
        room == Capacity - Len(c.out)
        k == IF c.state >= ClosingPending THEN 0 ELSE IF Len(rest) < room THEN Len(rest) ELSE room
        now == SubSeq(rest, 1, k)
        d == Sent([c EXCEPT !.out = @ \o now, !.sendStreams = SubSeq(rest, k + 1, Len(rest))],
                  {front} \cup ToSet(now))
    IN
    IF d.sendStreams = <<>> /\ d.state = Closing /\ d.shutdownInitiated
    THEN [d EXCEPT !.state = ClosingPending, !.registered = @ \cup {"read"}]
    ELSE d

(* The last part of message(): the operations that the selector is to wait *)
(* for.                                                                    *)
Update(c, readOp) ==
    LET after == IF c.written THEN SendNextMessages(c) ELSE c
        writeOp == after.sendStreams # <<>> /\ after.state < ClosingPending
        new == (IF readOp THEN {"read"} ELSE {}) \cup (IF writeOp THEN {"write"} ELSE {})
                 \cup (IF c.state # ClosingPending /\ after.state = ClosingPending THEN {"read"} ELSE {})
    IN
    Idle(IF after.state >= Closed THEN after
         ELSE [after EXCEPT !.registered = (@ \ c.operation) \cup new])

(* parseMessage() of a message that was read.  The upcall counts only     *)
(* after the closure has looked at the count.                              *)
Parse(c, m, fail) ==
    CASE m.type = "close" -> SetClosed([c EXCEPT !.exception = IF @ = "none" THEN "CloseConnection" ELSE @], "none")
      [] m.type = "request" -> IF c.state >= Closing THEN c ELSE [c EXCEPT !.dispatches = @ \cup {m.r}]
      [] m.type = "reply" ->
           IF m.r \notin c.asyncRequests THEN c
           ELSE [CloseIfRequested(Take(c, m.r, "ok"), fail) EXCEPT !.callbacks = @ + 1]
      [] OTHER -> c

(* The rest of message(): a message is read and parsed, *)
MessageRead(e) ==
    LET c == conn[e]
        in == conn[Peer(e)].out
        m == Head(in)
    IN
    /\ c.pc = "locked" /\ "read" \in c.operation /\ in # <<>>
    /\ \E fail \in WriteFails(e) :
         LET p == Parse(c, m, fail)
             d == IF c.state = NotValidated
                  THEN Idle([SetHolding(c) EXCEPT !.registered = @ \ {"read"}, !.callbacks = @ + 1])
                  ELSE Update(p, p.state # Holding /\ Reads(p))
         IN conn' = [conn EXCEPT ![e] = d, ![Peer(e)].out = Tail(in)]
    /\ dispatched' = dispatched \cup conn'["server"].dispatches
    /\ UNCHANGED <<held, calls>>

(* or less than a message, or there is nothing to read, *)
MessageReadPart(e) ==
    LET c == conn[e] IN
    /\ c.pc = "locked"
    /\ "read" \in c.operation => conn[Peer(e)].out # <<>>
    /\ Step(e, Update(c, "read" \in c.operation))
    /\ Other

(* or the connection is lost, and the method returns.                      *)
MessageReadFails(e) ==
    LET c == conn[e] IN
    /\ c.pc = "locked" /\ "read" \in c.operation /\ Gone(Peer(e))
    /\ Step(e, Idle(SetClosed(c, "ConnectionLost")))
    /\ Other

-----------------------------------------------------------------------------
(* The last upcall of a finished connection removes it from the factory. *)
RemoveFromFactory(c) == IF c.state = Finished /\ Upcalls(c) = 0 THEN [c EXCEPT !.removed = @ + 1] ELSE c

(* upcall() returns from a callback. *)
UpcallDone(e) ==
    LET c == conn[e]
        d == [c EXCEPT !.callbacks = @ - 1]
    IN
    /\ ~Locked(e) /\ c.callbacks > 0
    /\ \E fail \in WriteFails(e) :
         Step(e, IF Upcalls(d) = 0 /\ d.state = Closing THEN InitiateShutdown(d, fail) ELSE RemoveFromFactory(d))
    /\ Other

(* sendResponse() of the server. *)
SendResponse(r) ==
    LET c == conn["server"]
        d == [c EXCEPT !.dispatches = @ \ {r}]
        s == SendMessage(d, [type |-> "reply", r |-> r, of |-> None])
        resumes == c.state = Active /\ MaxDispatches > 0 /\ Cardinality(c.dispatches) = MaxDispatches
    IN
    /\ ~Locked("server") /\ r \in c.dispatches
    /\ \E fail \in WriteFails("server") :
         Step("server",
              IF c.state >= Closed THEN RemoveFromFactory(d)
              ELSE IF Fails(d, fail) THEN SetClosed(d, "ConnectionLost")
              ELSE IF resumes THEN [s EXCEPT !.registered = @ \cup {"read"}]
              ELSE IF s.state = Closing THEN InitiateShutdown(s, fail) ELSE s)
    /\ Other

(* dispatchException(): a fatal error in a dispatch. *)
DispatchException(r) ==
    LET c == conn["server"] IN
    /\ "fatal" \in Calls /\ ~Locked("server") /\ r \in c.dispatches
    /\ Step("server", RemoveFromFactory([SetClosed(c, "Fatal") EXCEPT !.dispatches = @ \ {r}]))
    /\ Other

(* Mutant of Finish: the requests of the queue stay in the map. *)
FinishTwice(e) ==
    LET c == conn[e]
        queued == {m.of : m \in ToSet(c.sendStreams)} \ {None}
        d == Complete(Complete(c, queued, c.exception), c.asyncRequests, c.exception)
    IN
    /\ c.finishing /\ ~Locked(e)
    /\ Step(e, RemoveFromFactory([d EXCEPT !.state = Finished, !.finishing = FALSE, !.sendStreams = <<>>,
                                !.asyncRequests = {}, !.hint = None]))
    /\ Other

(* finish(), called by the thread pool: the requests in the queue and then *)
(* the others are completed with the exception of the connection.          *)
Finish(e) ==
    LET c == conn[e]
        queued == {m.of : m \in ToSet(c.sendStreams)} \ {None}
        d == Complete(Complete(c, queued, c.exception), c.asyncRequests \ queued, c.exception)
    IN
    /\ c.finishing /\ ~Locked(e)
    /\ Step(e, RemoveFromFactory([d EXCEPT !.state = Finished, !.finishing = FALSE, !.sendStreams = <<>>,
                                !.asyncRequests = {}, !.hint = None]))
    /\ Other

-----------------------------------------------------------------------------
(* The client waits for the first message; the server has its own to send. *)
NewEnd(ops) ==
    [state |-> NotValidated, exception |-> "none", sendStreams |-> <<>>, out |-> <<>>,
     registered |-> ops, operation |-> {}, pc |-> "idle", written |-> FALSE,
     closeRequested |-> FALSE, shutdownInitiated |-> FALSE, closeTimer |-> FALSE, finishing |-> FALSE,
     callbacks |-> 0, dispatches |-> {}, asyncRequests |-> {}, hint |-> None, sent |-> {},
     done |-> [r \in Request |-> "new"], completions |-> [r \in Request |-> 0], removed |-> 0]

Init ==
    /\ conn = [e \in End |-> NewEnd(IF e = "client" THEN {"read"} ELSE {})]
    /\ dispatched = {} /\ held = FALSE /\ calls = 0

Io(e) == Pick(e) \/ MessageWrite(e) \/ MessageWriteFails(e) \/ MessageRead(e) \/ MessageReadPart(e)
         \/ MessageReadFails(e) \/ Finish(e)

Next ==
    \/ Validate \/ Hold \/ WaitUntilHolding
    \/ \E e \in End :
         \/ Io(e) \/ Activate(e) \/ UpcallDone(e)
         \/ Close(e) \/ Destroy(e) \/ Abort(e) \/ ConnectTimedOut(e) \/ CloseTimedOut(e)
    \/ \E r \in Request :
         SendAsyncRequest(r) \/ AsyncRequestCanceled(r) \/ SendResponse(r) \/ DispatchException(r)

Spec == Init /\ [][Next]_vars

-----------------------------------------------------------------------------
(* "The server guarantees that all outstanding requests can safely be      *)
(* repeated" (handleRetryAfterException): a request that ends with         *)
(* CloseConnectionException was not dispatched.                            *)
CloseConnectionSafe ==
    \A r \in Request : conn["client"].done[r] = "CloseConnection" => r \notin dispatched

(* "If the request didn't get sent ... it can also always be retried":     *)
(* what is retried after the connection is lost was not dispatched.  The   *)
(* code does not keep it: when message() writes a request and then fails   *)
(* to read, sent() is not called.                                          *)
AtMostOnce ==
    \A r \in Request :
        conn["client"].done[r] = "ConnectionLost" /\ r \notin conn["client"].sent => r \notin dispatched

(* A finished connection is removed from its factory once, by finish() or  *)
(* by the last upcall.                                                     *)
RemovedOnce ==
    \A e \in End : conn[e].removed = IF conn[e].state = Finished /\ Upcalls(conn[e]) = 0 THEN 1 ELSE 0

(* A request is completed once, by its reply, its cancellation, or the end *)
(* of the connection; a connection that has finished has none left, and is *)
(* removed from its factory once.                                          *)
CompletedOnce ==
    LET c == conn["client"] IN
    /\ TypeOK /\ RemovedOnce
    /\ \A r \in Request :
         /\ c.completions[r] <= 1
         /\ (c.completions[r] = 0 /\ c.done[r] # "new") <=> r \in c.asyncRequests
         /\ c.state = Finished => c.done[r] # "pending"

(* "Starts a graceful closure of this connection once all outstanding      *)
(* invocations have completed" (Connection::close).                        *)
CloseHonoured ==
    \A e \in End : conn[e].closeRequested /\ conn[e].asyncRequests = {} => conn[e].state >= Closing

(* After waitForHold() has returned no request is dispatched until the     *)
(* adapter is activated: hold() "stops reading requests".  The code does   *)
(* not keep it: a thread that has picked the connection still dispatches.  *)
HoldHolds == held => conn["server"].dispatches = {}

(* The selector waits for what the connection has to do: it reads when it  *)
(* may dispatch, and writes when messages are queued.                      *)
NoStall ==
    \A e \in End : LET c == conn[e] IN
        /\ c.state = Active /\ Reads(c) => "read" \in c.registered
        /\ c.state = ClosingPending => "read" \in c.registered
        /\ c.state < ClosingPending /\ c.sendStreams # <<>> => "write" \in c.registered

(* The threads of the pool run, a dispatch or a callback ends, a message   *)
(* that comes is read to its end, and the factory activates a connection.  *)
Fairness ==
    /\ \A e \in End : WF_vars(Io(e)) /\ SF_vars(MessageRead(e))
    /\ SF_vars(Validate \/ (\E e \in End : UpcallDone(e) \/ Activate(e)) \/ \E r \in Request : SendResponse(r))

FairSpec == Spec /\ Fairness

(* A closure ends, without the help of the close timeout. *)
ClosureEnds ==
    \A e \in End : conn[e].state >= Closing ~> conn[e].state = Finished /\ Upcalls(conn[e]) = 0

=============================================================================
