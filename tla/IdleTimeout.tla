---------------------------- MODULE IdleTimeout ----------------------------
(***************************************************************************)
(* The idle check, the heartbeats and the inactivity timeout of a          *)
(* connection: Ice/IdleTimeoutTransceiverDecorator.cpp and the functions   *)
(* of Ice/ConnectionI.cpp that its timer tasks call.                       *)
(*                                                                         *)
(* The client invokes, the server dispatches one request at a time, stops  *)
(* reading while it does, and may be held.  Time is counted in ticks; a    *)
(* timer is the number of ticks left, Off when it is not scheduled.  A     *)
(* timer thread takes a task that is due, and runs it under the mutex of   *)
(* the connection later in the same tick; the other threads take less than *)
(* a tick too, and a message at most Delay ticks.                          *)
(***************************************************************************)
EXTENDS Integers, Sequences, FiniteSets

CONSTANTS
    Timeout,     \* the idle timeout
    Inactivity,  \* the inactivity timeout
    Delay,       \* bound: ticks that a message takes
    Capacity,    \* messages that the transport takes before a write blocks
    Freezes,     \* the ends that may stop without closing their socket
    Holds        \* whether the server is held

IdleAssumption ==
    /\ Timeout \in Nat /\ Timeout >= 2 /\ Inactivity \in Nat \ {0}
    /\ Delay \in Nat /\ Capacity \in Nat \ {0}
    /\ Freezes \subseteq {"client", "server"} /\ Holds \in BOOLEAN

VARIABLE conn  \* the two ends

End == {"client", "server"}
Peer(e) == CHOOSE p \in End : p # e
Off == -1
Task == {"heartbeat", "idle", "inactivity"}
Period == [heartbeat |-> Timeout \div 2, idle |-> Timeout, inactivity |-> Inactivity]

TypeOK ==
    conn \in [End ->
      [state : {"active", "holding", "closed"}, reason : {"none", "idle", "inactivity", "peer"},
       timer : [Task -> Off .. Timeout + Inactivity], running : Task \cup {"none"},
       idleCheckEnabled : BOOLEAN, inactivityScheduled : BOOLEAN,
       sendStreams : Seq({"heartbeat", "request", "reply", "close"}),
       out : Seq([type : {"heartbeat", "request", "reply", "close"}, age : 0 .. Delay + Timeout]),
       pending : BOOLEAN, frozen : BOOLEAN, unread : Nat, inactive : Nat]]

Reading(c) == c.state = "active" /\ ~c.frozen

(* Timer::schedule(), reschedule() and cancel() of a task. *)
Schedule(c, task) == [c EXCEPT !.timer[task] = Period[task]]
Cancel(c, task) == [c EXCEPT !.timer[task] = Off]

(* Mutant of EnableIdleCheck: the flag is set and the task not scheduled. *)
EnableFlag(c) == [c EXCEPT !.idleCheckEnabled = TRUE]

(* enableIdleCheck(), disableIdleCheck(). *)
EnableIdleCheck(c) ==
    IF c.idleCheckEnabled THEN c ELSE Schedule([c EXCEPT !.idleCheckEnabled = TRUE, !.unread = 0], "idle")
DisableIdleCheck(c) ==
    IF c.idleCheckEnabled THEN Cancel([c EXCEPT !.idleCheckEnabled = FALSE], "idle") ELSE c

CancelInactivityTimerTask(c) ==
    IF c.inactivityScheduled THEN Cancel([c EXCEPT !.inactivityScheduled = FALSE], "inactivity") ELSE c

(* close() of the decorator, when the connection is closed. *)
Closed(c, reason) ==
    [DisableIdleCheck(CancelInactivityTimerTask(Cancel(c, "heartbeat")))
        EXCEPT !.state = "closed", !.reason = reason, !.sendStreams = <<>>]

(* write() of the decorator: the heartbeat is scheduled again once the     *)
(* write has completed.                                                    *)
Write(c, m) ==
    LET d == Cancel(c, "heartbeat") IN
    IF Len(d.out) < Capacity
    THEN <<TRUE, Schedule([d EXCEPT !.out = Append(@, [type |-> m, age |-> 0])], "heartbeat")>>
    ELSE <<FALSE, d>>

(* ConnectionI::sendMessage(). *)
SendMessage(c, m) ==
    IF c.sendStreams # <<>> THEN [c EXCEPT !.sendStreams = Append(@, m)]
    ELSE LET w == Write(c, m) IN IF w[1] THEN w[2] ELSE [w[2] EXCEPT !.sendStreams = <<m>>]

Step(e, c) == conn' = [conn EXCEPT ![e] = c]
Runs(e) == conn[e].state # "closed" /\ ~conn[e].frozen

-----------------------------------------------------------------------------
(* sendAsyncRequest(): the connection is not inactive any more. *)
SendAsyncRequest ==
    LET c == conn["client"] IN
    /\ Runs("client") /\ c.state = "active" /\ ~c.pending
    /\ Step("client", SendMessage([CancelInactivityTimerTask(c) EXCEPT !.pending = TRUE, !.inactive = 0], "request"))

(* sendResponse(): reading resumes. *)
SendResponse ==
    LET c == conn["server"]
        d == SendMessage([c EXCEPT !.pending = FALSE, !.inactive = 0], "reply")
    IN
    /\ Runs("server") /\ c.pending
    /\ Step("server", IF c.state = "active" THEN EnableIdleCheck(d) ELSE d)

(* hold() and activate() of the server. *)
Hold ==
    LET c == conn["server"] IN
    /\ Holds /\ Runs("server") /\ c.state = "active"
    /\ Step("server", [(IF c.pending THEN CancelInactivityTimerTask(c)
                        ELSE DisableIdleCheck(CancelInactivityTimerTask(c))) EXCEPT !.state = "holding"])

Activate ==
    LET c == conn["server"] IN
    /\ Runs("server") /\ c.state = "holding"
    /\ Step("server", [(IF c.pending THEN c ELSE EnableIdleCheck(c)) EXCEPT !.state = "active"])

(* The write of a queued message: sendNextMessages(). *)
SendNextMessages(e) ==
    LET c == conn[e]
        w == Write(c, Head(c.sendStreams))
    IN
    /\ Runs(e) /\ c.sendStreams # <<>> /\ w[1]
    /\ Step(e, [w[2] EXCEPT !.sendStreams = Tail(@)])

(* read() of the decorator. *)
Read(c) == IF c.idleCheckEnabled THEN Schedule([c EXCEPT !.unread = 0], "idle") ELSE c

(* message(): a message is read and parsed.  A request stops the reading   *)
(* until its response.                                                     *)
Message(e) ==
    LET c == conn[e]
        in == conn[Peer(e)].out
        d == Read(c)
        p == CASE Head(in).type = "request" ->
                    DisableIdleCheck([CancelInactivityTimerTask(d) EXCEPT !.pending = TRUE, !.inactive = 0])
               [] Head(in).type = "reply" -> [d EXCEPT !.pending = FALSE, !.inactive = 0]
               [] Head(in).type = "close" -> Closed(d, "peer")
               [] OTHER -> d
    IN
    /\ Reading(c) /\ (e = "server" => ~c.pending) /\ in # <<>>
    /\ conn' = [conn EXCEPT ![e] = p, ![Peer(e)].out = Tail(in)]

(* The end of the stream is read. *)
ConnectionLost(e) ==
    /\ Reading(conn[e]) /\ (e = "server" => ~conn[e].pending)
    /\ conn[Peer(e)].state = "closed" /\ conn[Peer(e)].out = <<>>
    /\ Step(e, Closed(conn[e], "peer"))

-----------------------------------------------------------------------------
(* The timer thread takes a task that is due. *)
RunTimerTask(e) ==
    LET c == conn[e] IN
    /\ Runs(e) /\ c.running = "none"
    /\ \E task \in Task : c.timer[task] = 0 /\ Step(e, [Cancel(c, task) EXCEPT !.running = task])

(* sendHeartbeat(), which also finds out that the connection is inactive. *)
SendHeartbeat(e) ==
    LET c == [conn[e] EXCEPT !.running = "none"]
        inactive == /\ ~c.inactivityScheduled /\ c.state = "active" /\ ~c.pending
                    /\ c.sendStreams \in {<<>>, <<"heartbeat">>}
        d == IF inactive THEN Schedule([c EXCEPT !.inactivityScheduled = TRUE], "inactivity") ELSE c
    IN
    /\ Runs(e) /\ conn[e].running = "heartbeat"
    /\ Step(e, IF d.sendStreams = <<>> THEN SendMessage(d, "heartbeat") ELSE d)

(* idleCheck(). *)
IdleCheck(e) ==
    LET c == [conn[e] EXCEPT !.running = "none"] IN
    /\ Runs(e) /\ conn[e].running = "idle"
    /\ Step(e, IF c.state = "active" /\ c.idleCheckEnabled THEN Closed(c, "idle") ELSE c)

(* inactivityCheck(); the closure is reduced to its message. *)
InactivityCheck(e) ==
    LET c == [conn[e] EXCEPT !.running = "none"]
        d == [c EXCEPT !.inactivityScheduled = FALSE]
    IN
    /\ Runs(e) /\ conn[e].running = "inactivity"
    /\ Step(e, IF ~c.inactivityScheduled \/ c.timer["inactivity"] # Off THEN c
               ELSE IF d.state = "active" THEN Cancel(SendMessage(Closed(d, "inactivity"), "close"), "heartbeat")
               ELSE d)

-----------------------------------------------------------------------------
(* The host of an end stops. *)
Freeze(e) ==
    /\ e \in Freezes /\ Runs(e)
    /\ Step(e, [conn[e] EXCEPT !.frozen = TRUE])

(* Nothing is late: no task that is due, no write or read that can happen. *)
Late(e) ==
    LET c == conn[e] IN
    /\ Runs(e)
    /\ \/ c.running # "none" \/ \E task \in Task : c.timer[task] = 0
       \/ c.sendStreams # <<>> /\ Len(c.out) < Capacity
       \/ /\ Reading(c) /\ (e = "server" => ~c.pending)
          /\ \/ conn[Peer(e)].out # <<>> /\ Head(conn[Peer(e)].out).age >= Delay
             \/ conn[Peer(e)].state = "closed" /\ conn[Peer(e)].out = <<>>

Cap(n) == IF n > Timeout + Inactivity THEN n ELSE n + 1

Tick ==
    /\ \A e \in End : ~Late(e)
    /\ conn' = [e \in End |->
         IF conn[e].state = "closed" \/ conn[e].frozen
         THEN [conn[e] EXCEPT !.out = [i \in DOMAIN @ |-> [@[i] EXCEPT !.age = IF @ < Delay THEN @ + 1 ELSE @]]]
         ELSE [conn[e] EXCEPT
                 !.timer = [task \in Task |-> IF @[task] > 0 THEN @[task] - 1 ELSE @[task]],
                 !.out = [i \in DOMAIN @ |-> [@[i] EXCEPT !.age = IF @ < Delay THEN @ + 1 ELSE @]],
                 !.unread = IF conn[e].idleCheckEnabled THEN Cap(@) ELSE @,
                 !.inactive = Cap(@)]]

NewEnd ==
    EnableIdleCheck(Schedule(
      [state |-> "active", reason |-> "none", timer |-> [task \in Task |-> Off], running |-> "none",
       idleCheckEnabled |-> FALSE, inactivityScheduled |-> FALSE, sendStreams |-> <<>>, out |-> <<>>,
       pending |-> FALSE, frozen |-> FALSE, unread |-> 0, inactive |-> 0], "heartbeat"))

Init == conn = [e \in End |-> NewEnd]

Next ==
    \/ SendAsyncRequest \/ SendResponse \/ Hold \/ Activate \/ Tick
    \/ \E e \in End :
         \/ SendNextMessages(e) \/ Message(e) \/ ConnectionLost(e)
         \/ RunTimerTask(e) \/ SendHeartbeat(e) \/ IdleCheck(e) \/ InactivityCheck(e) \/ Freeze(e)

Spec == Init /\ [][Next]_conn

-----------------------------------------------------------------------------
(* The heartbeats do their work: while both hosts run, whatever is held,   *)
(* blocked or dispatched for long, the idle check aborts no connection.    *)
HealthyNotAborted ==
    (\A e \in End : ~conn[e].frozen) => \A e \in End : conn[e].reason # "idle"

(* A peer that has stopped is detected: an end that reads has received     *)
(* bytes within the idle timeout, or is closed.                            *)
DeadPeerDetected ==
    \A e \in End : Runs(e) /\ conn[e].idleCheckEnabled => conn[e].unread <= Timeout

(* The inactivity timeout closes a connection that has no invocation and   *)
(* no dispatch, and has had none for as long as the timeout.               *)
InactiveClosed ==
    \A e \in End : conn[e].reason = "inactivity" => ~conn[e].pending /\ conn[e].inactive >= Inactivity

(* "connection aborted by the idle check because it did not receive any    *)
(* bytes for" the idle timeout: what idleCheck() says of the connections   *)
(* that it closes.  The code does not keep it: bytes that are read while   *)
(* the check waits for the mutex do not stop it.                           *)
AbortedIdle == \A e \in End : conn[e].reason = "idle" => conn[e].unread >= Timeout

=============================================================================
