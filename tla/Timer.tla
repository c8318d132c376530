-------------------------------- MODULE Timer --------------------------------
(***************************************************************************)
(* IceInternal::Timer (Ice/Timer.h, Ice/Timer.cpp): one thread that runs   *)
(* tasks once or repeatedly after a delay, and the calls that other        *)
(* threads, or a task, make on it.  Heartbeats, idle checks, invocation    *)
(* timeouts, retries and the elections of IceStorm run on it.              *)
(*                                                                         *)
(* A step is one section of the code under Timer::_mutex: a call, or what  *)
(* the thread does between two waits, or the execution of a task.          *)
(* A call that throws changes nothing and is left out.  The times are      *)
(* ticks of the clock; _wakeUpTime is NoTime when it is the epoch.         *)
(***************************************************************************)
EXTENDS Integers

CONSTANTS
    Task,       \* the TimerTask objects
    None,       \* the null TimerTaskPtr
    Delays,     \* the delays that callers use
    MaxTime,    \* bound: the clock stops there
    Reuse       \* whether callers schedule a repeated task again during an
                \* execution that they have cancelled

ASSUME TaskAssumption == None \notin Task
ASSUME TimeAssumption == Delays \subseteq Nat /\ MaxTime \in Nat
ASSUME ReuseAssumption == Reuse \in BOOLEAN

VARIABLES
    now,         \* steady_clock::now()
    tokens,      \* _tokens
    tasks,       \* _tasks, NoTime for a task that is not in the map
    wakeUpTime,  \* _wakeUpTime
    destroyed,   \* _destroyed
    pc,          \* where the thread is
    token,       \* its local variable token
    notified,    \* the thread waits and has been notified
    joined       \* destroy() has returned to its first caller

vars == <<now, tokens, tasks, wakeUpTime, destroyed, pc, token, notified, joined>>

NoTime  == -1
NoDelay == -1

(* Timer::Token; a delay means that the task is repeated. *)
Token == [time : Nat, delay : Nat \cup {NoDelay}, task : Task]
NoToken == [time |-> 0, delay |-> NoDelay, task |-> None]

TypeOK ==
    /\ now \in Nat
    /\ tokens \in SUBSET Token
    /\ tasks \in [Task -> Nat \cup {NoTime}]
    /\ wakeUpTime \in Nat \cup {NoTime}
    /\ destroyed \in BOOLEAN /\ notified \in BOOLEAN /\ joined \in BOOLEAN
    /\ pc \in {"loop", "wait", "waitFor", "run", "ended"}
    /\ token \in Token \cup {NoToken}
    /\ pc = "run" => token \in Token

-----------------------------------------------------------------------------
Scheduled(t) == tasks[t] # NoTime

(* The tokens are ordered by time and task: one that is already there, up  *)
(* to its delay, is not inserted.                                          *)
Insert(toks, tok) ==
    IF \E x \in toks : x.time = tok.time /\ x.task = tok.task THEN toks ELSE toks \cup {tok}

Remove(toks, t, time) == {x \in toks : ~(x.task = t /\ x.time = time)}

(* The execution in progress is one of a repeated task. *)
Repeating(t) == token.task = t /\ token.delay # NoDelay

Waiting == pc \in {"wait", "waitFor"}

(* Mutant of Notify: the comparison is the wrong way round. *)
NotifyLater(time) ==
    notified' = (notified \/ (Waiting /\ (wakeUpTime = NoTime \/ time > wakeUpTime)))

(* Mutant of Notify: a thread that waits for any task is not notified. *)
NotifyTimed(time) ==
    notified' = (notified \/ (Waiting /\ time < wakeUpTime))

(* notify_one() when the task is due before the thread wakes up. *)
Notify(time) ==
    notified' = (notified \/ (Waiting /\ (wakeUpTime = NoTime \/ time < wakeUpTime)))

(* schedule() for NoDelay, and scheduleRepeated(). *)
Schedule(t, delay, time) ==
    /\ ~destroyed /\ ~Scheduled(t)
    /\ Reuse \/ ~Repeating(t)
    /\ tasks' = [tasks EXCEPT ![t] = time]
    /\ tokens' = Insert(tokens, [time |-> time, delay |-> delay, task |-> t])
    /\ Notify(time)
    /\ UNCHANGED <<now, wakeUpTime, destroyed, pc, token, joined>>

(* reschedule(): cancelNoSync(), then schedule(). *)
Reschedule(t, time) ==
    /\ ~destroyed
    /\ Reuse \/ ~Repeating(t)
    /\ tasks' = [tasks EXCEPT ![t] = time]
    /\ tokens' = Insert(Remove(tokens, t, tasks[t]), [time |-> time, delay |-> NoDelay, task |-> t])
    /\ Notify(time)
    /\ UNCHANGED <<now, wakeUpTime, destroyed, pc, token, joined>>

(* Mutant of Cancel: the token is not found. *)
CancelKeepsToken(t) ==
    /\ ~destroyed /\ Scheduled(t)
    /\ tasks' = [tasks EXCEPT ![t] = NoTime]
    /\ UNCHANGED <<now, tokens, wakeUpTime, destroyed, pc, token, notified, joined>>

(* cancel() of a task that is scheduled; it is false for another. *)
Cancel(t) ==
    /\ ~destroyed /\ Scheduled(t)
    /\ tasks' = [tasks EXCEPT ![t] = NoTime]
    /\ tokens' = Remove(tokens, t, tasks[t])
    /\ UNCHANGED <<now, wakeUpTime, destroyed, pc, token, notified, joined>>

(* destroy(), until it joins the thread ... *)
Destroy ==
    /\ ~destroyed
    /\ destroyed' = TRUE
    /\ tokens' = {} /\ tasks' = [t \in Task |-> NoTime]
    /\ notified' = (notified \/ Waiting)
    /\ UNCHANGED <<now, wakeUpTime, pc, token, joined>>

(* ... and when the thread has ended. *)
Join ==
    /\ destroyed /\ pc = "ended" /\ ~joined
    /\ joined' = TRUE
    /\ UNCHANGED <<now, tokens, tasks, wakeUpTime, destroyed, pc, token, notified>>

-----------------------------------------------------------------------------
(* Mutant of First: the order of the tokens is reversed. *)
Last(toks) == {f \in toks : \A x \in toks : f.time >= x.time}

(* The token that is due first; the order of equal ones is arbitrary. *)
First(toks) == {f \in toks : \A x \in toks : f.time <= x.time}

(* The first token is due: its task is run, and is no longer scheduled     *)
(* unless it is repeated.                                                  *)
Take(toks, tks, f) ==
    /\ tokens' = toks \ {f}
    /\ tasks' = IF f.delay = NoDelay THEN [tks EXCEPT ![f.task] = NoTime] ELSE tks
    /\ token' = f /\ pc' = "run"
    /\ UNCHANGED wakeUpTime

(* The inner loop of run(): take the first token or wait for it. *)
Scan(toks, tks) ==
    \/ \E f \in First(toks) : f.time <= now /\ Take(toks, tks, f)
    \/ /\ tokens' = toks /\ tasks' = tks /\ token' = NoToken
       /\ \/ \E f \in First(toks) : f.time > now /\ wakeUpTime' = f.time /\ pc' = "waitFor"
          \/ toks = {} /\ pc' = "loop" /\ UNCHANGED wakeUpTime

End == pc' = "ended" /\ UNCHANGED <<tokens, tasks, wakeUpTime, token>>

(* The top of run(): a repeated task that has just run, and is still       *)
(* scheduled, is scheduled again; with nothing to do the thread waits.     *)
Loop ==
    LET again == token.task # None /\ token.delay # NoDelay /\ Scheduled(token.task)
        next == now + token.delay
        toks == IF again THEN Insert(tokens, [token EXCEPT !.time = next]) ELSE tokens
        tks == IF again THEN [tasks EXCEPT ![token.task] = next] ELSE tasks
    IN
    /\ pc = "loop"
    /\ IF destroyed THEN End
       ELSE IF toks = {}
         THEN /\ pc' = "wait" /\ wakeUpTime' = NoTime /\ token' = NoToken
              /\ UNCHANGED <<tokens, tasks>>
         ELSE Scan(toks, tks)
    /\ UNCHANGED <<now, destroyed, notified, joined>>

(* The thread returns from a wait: notified, at the end of the delay, or   *)
(* for no reason.                                                          *)
Woken == notified \/ (pc = "waitFor" /\ now >= wakeUpTime)
Resume ==
    /\ Waiting
    /\ IF destroyed THEN End ELSE Scan(tokens, tasks)
    /\ notified' = FALSE
    /\ UNCHANGED <<now, destroyed, joined>>
Wake == Woken /\ Resume
SpuriousWake == ~Woken /\ Resume

(* The task returns, or throws. *)
Return ==
    /\ pc = "run"
    /\ pc' = "loop"
    /\ token' = IF token.delay = NoDelay THEN NoToken ELSE token
    /\ UNCHANGED <<now, tokens, tasks, wakeUpTime, destroyed, notified, joined>>

Tick ==
    /\ now < MaxTime
    /\ now' = now + 1
    /\ UNCHANGED <<tokens, tasks, wakeUpTime, destroyed, pc, token, notified, joined>>

Init ==
    /\ now = 0 /\ tokens = {} /\ tasks = [t \in Task |-> NoTime]
    /\ wakeUpTime = NoTime /\ destroyed = FALSE
    /\ pc = "loop" /\ token = NoToken /\ notified = FALSE /\ joined = FALSE

Call ==
    \/ \E t \in Task, d \in Delays :
         Schedule(t, NoDelay, now + d) \/ Schedule(t, d, now + d) \/ Reschedule(t, now + d)
    \/ \E t \in Task : Cancel(t)

Next == Call \/ Destroy \/ Join \/ Loop \/ Wake \/ SpuriousWake \/ Return \/ Tick

Spec == Init /\ [][Next]_vars

-----------------------------------------------------------------------------
(* A waiting thread that nobody has notified has nothing to do before it   *)
(* wakes up: run() goes to wait with the mutex, and schedule() notifies it *)
(* when the new task is due earlier.                                       *)
NoLostWakeup ==
    Waiting /\ ~notified =>
        /\ ~destroyed
        /\ pc = "wait" => tokens = {}
        /\ pc = "waitFor" => \A x \in tokens : x.time >= wakeUpTime

(* The thread is in an execution of a repeated task. *)
Held(t) == Repeating(t) /\ pc \in {"run", "loop"}

(* What the thread will run is what cancel() finds: a task is scheduled if *)
(* and only if it has a token, one, with the time of the map, or if it is  *)
(* a repeated task in an execution that has not been cancelled.            *)
OneToken ==
    /\ \A x \in tokens : tasks[x.task] = x.time /\ ~Held(x.task)
    /\ \A t \in Task : Scheduled(t) => Held(t) \/ \E x \in tokens : x.task = t
    /\ \A x, y \in tokens : x.task = y.task => x = y

(* The thread starts an execution. *)
Starts == pc' = "run" /\ pc # "run"

(* A task that starts is scheduled, and due: a task that was cancelled     *)
(* does not run, and "schedule it again for execution if it wasn't         *)
(* canceled" (run()).                                                      *)
StartsScheduled ==
    [][Starts => LET t == token'.task IN Scheduled(t) /\ tasks[t] <= now /\ ~destroyed]_vars

(* Tasks start in the order in which they are due. *)
StartsInOrder ==
    [][Starts => \A t \in Task \ {token'.task} :
                    Scheduled(t) /\ ~Held(t) => tasks[t] >= token'.time]_vars

(* The thread runs, the clock advances, and an execution ends. *)
Fairness ==
    WF_vars(Loop) /\ WF_vars(Wake) /\ WF_vars(Return) /\ WF_vars(Tick) /\ WF_vars(Join)

FairSpec == Spec /\ Fairness

(* A task that is scheduled starts, unless it is cancelled, rescheduled or *)
(* the timer is destroyed; and destroy() returns: the thread notices it,   *)
(* whatever it waits for.                                                  *)
Served ==
    /\ \A t \in Task : \A x \in 0 .. MaxTime - 1 :
         tasks[t] = x ~> tasks[t] # x \/ Held(t) \/ destroyed
    /\ destroyed ~> joined
=============================================================================
