----------------------------- MODULE TimerProofs -----------------------------
(* What Timer guarantees for every set of tasks, every delay and every     *)
(* sequence of calls.                                                      *)
EXTENDS Timer, TLAPS

-----------------------------------------------------------------------------
(* The helpers. *)

(* Insert() puts the token in, or an equivalent one is there. *)
LEMMA InsertFacts ==
    ASSUME NEW toks \in SUBSET Token, NEW tok \in Token
    PROVE  /\ Insert(toks, tok) \in SUBSET Token
           /\ toks \subseteq Insert(toks, tok)
           /\ Insert(toks, tok) \subseteq toks \cup {tok}
           /\ (\A x \in toks : x.task # tok.task) => tok \in Insert(toks, tok)
BY DEF Insert

LEMMA RemoveFacts ==
    ASSUME NEW toks \in SUBSET Token, NEW t, NEW time
    PROVE  Remove(toks, t, time) \in SUBSET Token /\ Remove(toks, t, time) \subseteq toks
BY DEF Remove

LEMMA NowType ==
    ASSUME TypeOK, NEW d \in Delays
    PROVE  now + d \in Nat /\ d \in Nat
BY TimeAssumption DEF TypeOK

(* A token that a call makes. *)
LEMMA NewToken ==
    ASSUME NEW t \in Task, NEW d \in Nat \cup {NoDelay}, NEW time \in Nat
    PROVE  [time |-> time, delay |-> d, task |-> t] \in Token
BY DEF Token

(* The top of run() and a wake-up hand a well-formed state to the scan. *)
LEMMA ScanType ==
    ASSUME TypeOK, NEW toks \in SUBSET Token, NEW tks \in [Task -> Nat \cup {NoTime}],
           Scan(toks, tks)
    PROVE  /\ tokens' \in SUBSET Token /\ tasks' \in [Task -> Nat \cup {NoTime}]
           /\ wakeUpTime' \in Nat \cup {NoTime}
           /\ token' \in Token \cup {NoToken} /\ pc' \in {"loop", "waitFor", "run"}
           /\ pc' = "run" => token' \in Token
<1>1. ASSUME NEW f \in First(toks), Take(toks, tks, f)
      PROVE  /\ tokens' \in SUBSET Token /\ tasks' \in [Task -> Nat \cup {NoTime}]
             /\ wakeUpTime' \in Nat \cup {NoTime} /\ token' \in Token /\ pc' = "run"
  BY <1>1 DEF Take, First, Token, TypeOK
<1>2. ASSUME tokens' = toks, tasks' = tks, token' = NoToken,
             \/ \E f \in First(toks) : f.time > now /\ wakeUpTime' = f.time /\ pc' = "waitFor"
             \/ toks = {} /\ pc' = "loop" /\ UNCHANGED wakeUpTime
      PROVE  /\ tokens' \in SUBSET Token /\ tasks' \in [Task -> Nat \cup {NoTime}]
             /\ wakeUpTime' \in Nat \cup {NoTime} /\ token' = NoToken
             /\ pc' \in {"loop", "waitFor"}
  BY <1>2 DEF First, Token, TypeOK
<1> QED
  BY <1>1, <1>2 DEF Scan

(* The state at the top of run() after a repeated task is put back. *)
Again == token.task # None /\ token.delay # NoDelay /\ Scheduled(token.task)
Back == [token EXCEPT !.time = now + token.delay]
LoopTokens == IF Again THEN Insert(tokens, Back) ELSE tokens
LoopTasks == IF Again THEN [tasks EXCEPT ![token.task] = now + token.delay] ELSE tasks

LEMMA LoopFacts ==
    ASSUME TypeOK
    PROVE  /\ Again => /\ token \in Token /\ Back \in Token /\ Back.task = token.task
                       /\ Back.time = now + token.delay /\ now + token.delay \in Nat
                       /\ token.task \in Task
           /\ LoopTokens \in SUBSET Token
           /\ LoopTasks \in [Task -> Nat \cup {NoTime}]
<1>1. ASSUME Again
      PROVE  /\ token \in Token /\ Back \in Token /\ Back.task = token.task
             /\ Back.time = now + token.delay /\ now + token.delay \in Nat
             /\ token.task \in Task
  <2>1. token \in Token
    BY <1>1 DEF TypeOK, Again, NoToken
  <2>2. token.delay \in Nat /\ now + token.delay \in Nat /\ token.task \in Task
    BY <1>1, <2>1 DEF Token, Again, TypeOK, NoDelay
  <2> QED
    BY <2>1, <2>2 DEF Back, Token
<1> HIDE DEF Again, Back
<1>2. LoopTokens \in SUBSET Token
  BY <1>1, InsertFacts DEF LoopTokens, TypeOK
<1>3. LoopTasks \in [Task -> Nat \cup {NoTime}]
  BY <1>1 DEF LoopTasks, TypeOK
<1> QED
  BY <1>1, <1>2, <1>3

(* The three outcomes of the top of run(). *)
LEMMA LoopCases ==
    ASSUME Loop
    PROVE  /\ pc = "loop" /\ UNCHANGED <<now, destroyed, notified, joined>>
           /\ \/ destroyed /\ End
              \/ /\ ~destroyed /\ LoopTokens = {} /\ pc' = "wait" /\ wakeUpTime' = NoTime
                 /\ token' = NoToken /\ UNCHANGED <<tokens, tasks>>
              \/ ~destroyed /\ LoopTokens # {} /\ Scan(LoopTokens, LoopTasks)
BY DEF Loop, LoopTokens, LoopTasks, Again, Back

-----------------------------------------------------------------------------
(* Type correctness. *)

LEMMA CallType ==
    ASSUME TypeOK, Call
    PROVE  TypeOK'
<1>1. ASSUME NEW t \in Task, NEW d \in Delays,
             Schedule(t, NoDelay, now + d) \/ Schedule(t, d, now + d)
      PROVE  TypeOK'
  <2>1. PICK e \in Nat \cup {NoDelay} : Schedule(t, e, now + d)
    BY <1>1, NowType
  <2> DEFINE x == [time |-> now + d, delay |-> e, task |-> t]
  <2>2. x \in Token /\ now + d \in Nat
    BY NowType, NewToken
  <2> HIDE DEF x
  <2>3. tokens' \in SUBSET Token
    BY <2>1, <2>2, InsertFacts DEF Schedule, TypeOK, x
  <2> QED
    BY <2>1, <2>2, <2>3 DEF Schedule, Notify, TypeOK
<1>2. ASSUME NEW t \in Task, NEW d \in Delays, Reschedule(t, now + d)
      PROVE  TypeOK'
  <2> DEFINE x == [time |-> now + d, delay |-> NoDelay, task |-> t]
  <2>1. x \in Token /\ now + d \in Nat
    BY NowType, NewToken
  <2> HIDE DEF x
  <2>2. Remove(tokens, t, tasks[t]) \in SUBSET Token
    BY RemoveFacts DEF TypeOK
  <2>3. tokens' \in SUBSET Token
    BY <1>2, <2>1, <2>2, InsertFacts DEF Reschedule, x
  <2> QED
    BY <1>2, <2>1, <2>3 DEF Reschedule, Notify, TypeOK
<1>3. ASSUME NEW t \in Task, Cancel(t)
      PROVE  TypeOK'
  <2>1. tokens' \in SUBSET Token
    BY <1>3, RemoveFacts DEF Cancel, TypeOK
  <2> QED
    BY <1>3, <2>1 DEF Cancel, TypeOK, NoTime
<1> QED
  BY <1>1, <1>2, <1>3 DEF Call

LEMMA ThreadType ==
    ASSUME TypeOK, Loop \/ Resume \/ Return
    PROVE  TypeOK'
<1>1. CASE Loop
  <2>1. CASE End
    BY <1>1, <2>1, LoopCases DEF End, TypeOK
  <2>2. CASE pc' = "wait" /\ wakeUpTime' = NoTime /\ token' = NoToken /\ UNCHANGED <<tokens, tasks>>
    BY <1>1, <2>2, LoopCases DEF TypeOK
  <2>3. CASE Scan(LoopTokens, LoopTasks)
    BY <1>1, <2>3, LoopCases, LoopFacts, ScanType DEF TypeOK
  <2> QED
    BY <1>1, <2>1, <2>2, <2>3, LoopCases
<1>2. CASE Resume
  <2>1. CASE End
    BY <1>2, <2>1 DEF Resume, End, TypeOK
  <2>2. CASE Scan(tokens, tasks)
    BY <1>2, <2>2, ScanType DEF Resume, TypeOK
  <2> QED
    BY <1>2, <2>1, <2>2 DEF Resume
<1>3. CASE Return
  BY <1>3 DEF Return, TypeOK
<1> QED
  BY <1>1, <1>2, <1>3

LEMMA TypeStep == TypeOK /\ [Next]_vars => TypeOK'
<1> SUFFICES ASSUME TypeOK, [Next]_vars PROVE TypeOK'
  OBVIOUS
<1>1. CASE Destroy
  <2>1. tasks' \in [Task -> Nat \cup {NoTime}] /\ tokens' \in SUBSET Token
    BY <1>1 DEF Destroy
  <2>2. destroyed' \in BOOLEAN /\ notified' \in BOOLEAN
    BY <1>1, Zenon DEF Destroy, TypeOK
  <2> QED
    BY <1>1, <2>1, <2>2 DEF Destroy, TypeOK
<1>3. CASE Join
  BY <1>3, Zenon DEF Join, TypeOK
<1>4. CASE Tick
  BY <1>4 DEF Tick, TypeOK
<1>2. CASE UNCHANGED vars
  BY <1>2 DEF vars, TypeOK
<1> QED
  BY <1>1, <1>2, <1>3, <1>4, CallType, ThreadType DEF Next, Wake, SpuriousWake

LEMMA TypeInit == Init => TypeOK
<1> SUFFICES ASSUME Init PROVE TypeOK
  OBVIOUS
<1>1. tasks \in [Task -> Nat \cup {NoTime}] /\ now \in Nat
  BY DEF Init
<1>2. destroyed \in BOOLEAN /\ notified \in BOOLEAN /\ joined \in BOOLEAN
  BY Zenon DEF Init
<1> QED
  BY <1>1, <1>2 DEF Init, TypeOK

(* The timer thread is never in a run without a task, and every field has  *)
(* its type, for every set of tasks and delays.                            *)
THEOREM TimerTypeCorrect == Spec => []TypeOK
BY TypeInit, TypeStep, PTL DEF Spec

-----------------------------------------------------------------------------
(* No wake-up is lost.  A call compares with _wakeUpTime, so the invariant *)
(* needs that _wakeUpTime is the epoch when the thread waits for any task. *)
WakeInv == TypeOK /\ NoLostWakeup /\ (pc = "wait" => wakeUpTime = NoTime)

(* A call that adds at most a token for that time, and notifies. *)
LEMMA NotifyInv ==
    ASSUME WakeInv, NEW x \in Token, tokens' \subseteq tokens \cup {x}, Notify(x.time),
           UNCHANGED <<pc, wakeUpTime, destroyed>>
    PROVE  NoLostWakeup' /\ (pc' = "wait" => wakeUpTime' = NoTime)
<1>1. x.time \in Nat /\ \A y \in tokens : y.time \in Nat
  BY DEF Token, WakeInv, TypeOK
<1>2. wakeUpTime \in Nat \cup {NoTime}
  BY DEF WakeInv, TypeOK
<1>3. ASSUME Waiting', ~notified'
      PROVE  ~notified /\ Waiting /\ wakeUpTime # NoTime /\ ~(x.time < wakeUpTime)
  <2>1. Waiting
    BY <1>3 DEF Waiting
  <2> QED
    BY <1>3, <2>1, Zenon DEF Notify
<1>4. ASSUME Waiting', ~notified'
      PROVE  /\ ~destroyed' /\ pc' # "wait"
             /\ pc' = "waitFor" => \A y \in tokens' : y.time >= wakeUpTime'
  BY <1>1, <1>2, <1>3, <1>4 DEF WakeInv, NoLostWakeup, NoTime
<1> QED
  BY <1>4 DEF NoLostWakeup, WakeInv

(* A scan waits until the first token is due. *)
LEMMA ScanWakes ==
    ASSUME NEW toks \in SUBSET Token, NEW tks, Scan(toks, tks), ~destroyed, UNCHANGED destroyed
    PROVE  NoLostWakeup' /\ pc' # "wait"
<1>1. CASE \E f \in First(toks) : f.time <= now /\ Take(toks, tks, f)
  BY <1>1 DEF Take, NoLostWakeup, Waiting
<1>2. ASSUME NEW f \in First(toks), tokens' = toks, wakeUpTime' = f.time, pc' = "waitFor"
      PROVE  NoLostWakeup' /\ pc' # "wait"
  <2>1. f \in Token /\ \A x \in toks : x.time >= f.time
    BY <1>2 DEF First, Token
  <2> QED
    BY <1>2, <2>1 DEF NoLostWakeup
<1>3. CASE pc' = "loop"
  BY <1>3 DEF NoLostWakeup, Waiting
<1> QED
  BY <1>1, <1>2, <1>3 DEF Scan

LEMMA WakeStep == WakeInv /\ [Next]_vars => WakeInv'
<1> SUFFICES ASSUME WakeInv, [Next]_vars PROVE WakeInv'
  OBVIOUS
<1> DEFINE Goal == NoLostWakeup' /\ (pc' = "wait" => wakeUpTime' = NoTime)
<1>0. TypeOK /\ TypeOK'
  BY TypeStep DEF WakeInv
<1> SUFFICES Goal
  BY <1>0 DEF WakeInv
<1>1. ASSUME NEW t \in Task, NEW d \in Delays, NEW e \in Nat \cup {NoDelay},
             Schedule(t, e, now + d) \/ (Reschedule(t, now + d) /\ e = NoDelay)
      PROVE  Goal
  <2> DEFINE x == [time |-> now + d, delay |-> e, task |-> t]
  <2>1. x \in Token /\ x.time = now + d
    BY <1>0, NowType, NewToken
  <2> HIDE DEF x
  <2>2. \E toks \in SUBSET Token : toks \subseteq tokens /\ tokens' = Insert(toks, x)
    <3>1. CASE Schedule(t, e, now + d)
      BY <3>1, <1>0 DEF Schedule, TypeOK, x
    <3>2. CASE Reschedule(t, now + d) /\ e = NoDelay
      BY <3>2, <1>0, RemoveFacts DEF Reschedule, TypeOK, x
    <3> QED
      BY <1>1, <3>1, <3>2
  <2>3. tokens' \subseteq tokens \cup {x}
    BY <2>1, <2>2, InsertFacts
  <2>4. Notify(now + d) /\ UNCHANGED <<pc, wakeUpTime, destroyed>>
    BY <1>1 DEF Schedule, Reschedule
  <2> QED
    BY <2>1, <2>3, <2>4, NotifyInv
<1>2. ASSUME NEW t \in Task, Cancel(t) PROVE Goal
  <2>1. tokens' \subseteq tokens /\ UNCHANGED <<pc, wakeUpTime, destroyed, notified>>
    BY <1>0, <1>2, RemoveFacts DEF Cancel, TypeOK
  <2> QED
    BY <2>1 DEF WakeInv, NoLostWakeup, Waiting
<1>3. CASE Destroy
  BY <1>3, Zenon DEF Destroy, WakeInv, NoLostWakeup, Waiting
<1>4. CASE Join \/ Tick
  BY <1>4 DEF Join, Tick, WakeInv, NoLostWakeup, Waiting
<1>5. CASE Loop
  <2>1. CASE End
    BY <2>1 DEF End, NoLostWakeup, Waiting
  <2>2. CASE ~destroyed /\ LoopTokens = {} /\ pc' = "wait" /\ wakeUpTime' = NoTime
             /\ UNCHANGED tokens
    <3>1. tokens = {}
      BY <1>0, <2>2, LoopFacts, InsertFacts DEF LoopTokens, TypeOK
    <3> QED
      BY <1>5, <2>2, <3>1, LoopCases DEF NoLostWakeup
  <2>3. CASE ~destroyed /\ Scan(LoopTokens, LoopTasks)
    BY <1>0, <1>5, <2>3, LoopCases, LoopFacts, ScanWakes
  <2> QED
    BY <1>5, <2>1, <2>2, <2>3, LoopCases
<1>6. CASE Resume
  <2>1. CASE End
    BY <2>1 DEF End, NoLostWakeup, Waiting
  <2>2. CASE ~destroyed /\ Scan(tokens, tasks)
    BY <1>0, <1>6, <2>2, ScanWakes DEF Resume, TypeOK
  <2> QED
    BY <1>6, <2>1, <2>2 DEF Resume
<1>7. CASE Return
  BY <1>7 DEF Return, NoLostWakeup, Waiting
<1>8. CASE UNCHANGED vars
  BY <1>8 DEF vars, WakeInv, NoLostWakeup, Waiting
<1> QED
  BY <1>0, <1>1, <1>2, <1>3, <1>4, <1>5, <1>6, <1>7, <1>8, NowType
     DEF Next, Call, Wake, SpuriousWake

(* The thread of the timer never sleeps past the time of a task nor past   *)
(* destroy(), however calls interleave with its loop, and even when        *)
(* repeated tasks are used again while they run.                           *)
THEOREM NoWakeupLost == Spec => []NoLostWakeup
<1>1. Init => WakeInv
  BY TypeInit DEF Init, WakeInv, NoLostWakeup, Waiting
<1>2. WakeInv => NoLostWakeup
  BY DEF WakeInv
<1> QED
  BY <1>1, <1>2, WakeStep, PTL DEF Spec

-----------------------------------------------------------------------------
(* What runs is what cancel() finds, when a repeated task is not used      *)
(* again during an execution that was cancelled.                           *)
TokenInv ==
    /\ TypeOK /\ OneToken
    /\ destroyed => tokens = {} /\ \A t \in Task : ~Scheduled(t)
    /\ \A t \in Task : Held(t) /\ Scheduled(t) => tasks[t] <= now

(* The tokens and the map agree, with no execution in progress. *)
Agree(toks, tks) ==
    /\ \A x \in toks : tks[x.task] = x.time
    /\ \A t \in Task : tks[t] # NoTime => \E x \in toks : x.task = t
    /\ \A x, y \in toks : x.task = y.task => x = y

Executions ==
    /\ OneToken /\ \A t \in Task : Held(t) /\ Scheduled(t) => tasks[t] <= now

(* A scan of tokens that agree with the map. *)
LEMMA ScanAgrees ==
    ASSUME NEW toks \in SUBSET Token, NEW tks \in [Task -> Nat \cup {NoTime}], Agree(toks, tks),
           Scan(toks, tks), UNCHANGED now
    PROVE  Executions'
<1>1. ASSUME NEW f \in First(toks), f.time <= now, Take(toks, tks, f)
      PROVE  Executions'
  <2>1. /\ f \in toks /\ f \in Token /\ f.task \in Task
        /\ tokens' = toks \ {f} /\ token' = f /\ pc' = "run"
        /\ tasks' = IF f.delay = NoDelay THEN [tks EXCEPT ![f.task] = NoTime] ELSE tks
    BY <1>1 DEF First, Take, Token
  <2>2. \A x \in tokens' : x.task \in Task /\ x.task # f.task /\ tks[x.task] = x.time
    BY <2>1 DEF Agree, Token
  <2>3. \A x \in tokens' : tasks'[x.task] = x.time /\ ~Held(x.task)'
    BY <2>1, <2>2 DEF Held, Repeating
  <2>4. \A t \in Task : Scheduled(t)' => Held(t)' \/ \E x \in tokens' : x.task = t
    <3> SUFFICES ASSUME NEW t \in Task, tasks'[t] # NoTime
                 PROVE  Held(t)' \/ \E x \in tokens' : x.task = t
      BY DEF Scheduled
    <3>1. CASE t = f.task
      BY <2>1, <3>1 DEF Held, Repeating
    <3>2. CASE t # f.task
      BY <2>1, <3>2 DEF Agree
    <3> QED
      BY <3>1, <3>2
  <2>5. \A t \in Task : Held(t)' /\ Scheduled(t)' => tasks'[t] <= now'
    BY <1>1, <2>1 DEF Held, Repeating, Scheduled, Agree, NoTime
  <2>6. \A x, y \in tokens' : x.task = y.task => x = y
    BY <2>1 DEF Agree
  <2> QED
    BY <2>3, <2>4, <2>5, <2>6 DEF Executions, OneToken
<1>2. CASE tokens' = toks /\ tasks' = tks /\ token' = NoToken
  <2>1. \A t : ~Held(t)'
    BY <1>2 DEF Held, Repeating, NoToken
  <2> QED
    BY <1>2, <2>1 DEF Executions, OneToken, Agree, Scheduled
<1> QED
  BY <1>1, <1>2 DEF Scan

(* With nothing held, the state itself agrees. *)
LEMMA WaitAgrees ==
    ASSUME TokenInv, pc \notin {"run", "loop"}
    PROVE  Agree(tokens, tasks)
BY DEF TokenInv, OneToken, Held, Scheduled, Agree

(* A repeated task that is put back has no other token. *)
LEMMA LoopAgrees ==
    ASSUME TokenInv, pc = "loop"
    PROVE  Agree(LoopTokens, LoopTasks)
<1>1. TypeOK /\ OneToken /\ tasks \in [Task -> Nat \cup {NoTime}] /\ tokens \in SUBSET Token
  BY DEF TokenInv, TypeOK
<1>2. CASE Again
  <2>1. /\ token.task \in Task /\ Held(token.task) /\ Back \in Token /\ Back.task = token.task
        /\ Back.time = now + token.delay
    BY <1>1, <1>2, LoopFacts DEF Again, Held, Repeating
  <2>2. \A x \in tokens : x.task # token.task /\ x.task \in Task
    BY <1>1, <2>1 DEF OneToken, Token
  <2>3. LoopTokens = tokens \cup {Back}
    BY <1>1, <1>2, <2>1, <2>2, InsertFacts DEF LoopTokens
  <2>4. LoopTasks = [tasks EXCEPT ![token.task] = now + token.delay]
    BY <1>2 DEF LoopTasks
  <2>5. \A t \in Task \ {token.task} : ~Held(t)
    BY DEF Held, Repeating
  <2> HIDE DEF Back
  <2> QED
    BY <1>1, <2>1, <2>2, <2>3, <2>4, <2>5 DEF Agree, OneToken, Scheduled
<1>3. CASE ~Again
  <2>1. \A t \in Task : Scheduled(t) => ~Held(t)
    BY <1>3, TaskAssumption DEF Again, Held, Repeating
  <2>2. LoopTokens = tokens /\ LoopTasks = tasks
    BY <1>3 DEF LoopTokens, LoopTasks
  <2> QED
    BY <1>1, <2>1, <2>2 DEF Agree, OneToken, Scheduled
<1> QED
  BY <1>2, <1>3

(* A call that gives task t one token, for the time that it stores. *)
LEMMA AddAgrees ==
    ASSUME TokenInv, NEW t \in Task, NEW x \in Token, x.task = t, ~Repeating(t),
           tasks' = [tasks EXCEPT ![t] = x.time],
           tokens' = {y \in tokens : y.task # t} \cup {x}, UNCHANGED <<pc, token, now>>
    PROVE  Executions'
<1>1. \A u : /\ Held(u)' <=> Held(u)
             /\ ~Held(t)
  BY DEF Held, Repeating
<1>2. /\ tasks \in [Task -> Nat \cup {NoTime}] /\ tokens \in SUBSET Token
      /\ \A y \in tokens : y.task \in Task
  BY DEF TokenInv, TypeOK, Token
<1> QED
  BY <1>1, <1>2 DEF TokenInv, OneToken, Executions, Scheduled

LEMMA CallAgrees ==
    ASSUME TokenInv, ~Reuse, Call
    PROVE  Executions'
<1>1. /\ TypeOK /\ tasks \in [Task -> Nat \cup {NoTime}] /\ tokens \in SUBSET Token
      /\ \A y \in tokens : y.task \in Task /\ y.time \in Nat /\ tasks[y.task] = y.time
  BY DEF TokenInv, TypeOK, Token, OneToken
<1>2. ASSUME NEW t \in Task, NEW d \in Delays, NEW e \in Nat \cup {NoDelay},
             Schedule(t, e, now + d) \/ (Reschedule(t, now + d) /\ e = NoDelay)
      PROVE  Executions'
  <2> DEFINE x == [time |-> now + d, delay |-> e, task |-> t]
             others == {y \in tokens : y.task # t}
  <2>1. x \in Token /\ x.time = now + d /\ x.task = t
    BY <1>1, NowType, NewToken
  <2>2. ~Repeating(t) /\ tasks' = [tasks EXCEPT ![t] = now + d] /\ UNCHANGED <<pc, token, now>>
    BY <1>2 DEF Schedule, Reschedule
  <2>3. tokens' = Insert(others, x)
    <3>1. CASE Schedule(t, e, now + d)
      <4>1. others = tokens
        BY <1>1, <3>1 DEF Schedule, Scheduled, NoTime
      <4> QED
        BY <3>1, <4>1 DEF Schedule
    <3>2. CASE Reschedule(t, now + d) /\ e = NoDelay
      <4>1. Remove(tokens, t, tasks[t]) = others
        BY <1>1 DEF Remove
      <4> QED
        BY <3>2, <4>1 DEF Reschedule
    <3> QED
      BY <1>2, <3>1, <3>2
  <2> HIDE DEF x
  <2>4. others \in SUBSET Token /\ \A y \in others : y.task # t
    BY <1>1
  <2> HIDE DEF others
  <2>5. tokens' = others \cup {x}
    BY <2>1, <2>3, <2>4, InsertFacts
  <2> QED
    BY <2>1, <2>2, <2>5, AddAgrees DEF others
<1>3. ASSUME NEW t \in Task, Cancel(t)
      PROVE  Executions'
  <2>1. tokens' = {y \in tokens : y.task # t} /\ tasks' = [tasks EXCEPT ![t] = NoTime]
    BY <1>1, <1>3 DEF Cancel, Remove
  <2>2. \A u : Held(u)' <=> Held(u)
    BY <1>3 DEF Cancel, Held, Repeating
  <2>3. now' = now
    BY <1>3 DEF Cancel
  <2> QED
    BY <1>1, <2>1, <2>2, <2>3 DEF TokenInv, OneToken, Executions, Scheduled
<1> QED
  BY <1>1, <1>2, <1>3, NowType DEF Call

LEMMA TokenStep == TokenInv /\ ~Reuse /\ [Next]_vars => TokenInv'
<1> SUFFICES ASSUME TokenInv, ~Reuse, [Next]_vars PROVE TokenInv'
  OBVIOUS
<1>0. TypeOK /\ TypeOK'
  BY TypeStep DEF TokenInv
<1>1. destroyed' => tokens' = {} /\ \A t \in Task : ~Scheduled(t)'
  <2>1. CASE destroyed
    <3>1. UNCHANGED <<tokens, tasks>>
      <4>1. CASE Loop
        BY <2>1, <4>1, LoopCases DEF End
      <4> QED
        BY <2>1, <4>1 DEF Next, Call, Schedule, Reschedule, Cancel, Destroy, Join, Wake,
           SpuriousWake, Resume, End, Return, Tick, vars
    <3> QED
      BY <2>1, <3>1 DEF TokenInv, Scheduled
  <2>2. CASE Destroy
    BY <2>2 DEF Destroy, Scheduled
  <2>3. CASE ~destroyed /\ ~Destroy
    BY <2>3 DEF Next, Call, Schedule, Reschedule, Cancel, Join, Loop, Wake, SpuriousWake, Resume,
       Return, Tick, vars
  <2> QED
    BY <2>1, <2>2, <2>3
<1> SUFFICES Executions'
  BY <1>0, <1>1 DEF TokenInv, Executions
<1>2. CASE Call
  BY <1>2, CallAgrees
<1>3. CASE Destroy
  BY <1>3 DEF Destroy, Executions, OneToken, Scheduled
<1>4. CASE (Loop \/ Resume) /\ destroyed
  <2>1. End
    BY <1>4, LoopCases DEF Resume
  <2>2. \A t : ~Held(t)'
    BY <2>1 DEF End, Held
  <2> QED
    BY <1>4, <2>1, <2>2 DEF End, TokenInv, Executions, OneToken, Scheduled
<1>5. CASE Loop /\ ~destroyed
  <2>1. Agree(LoopTokens, LoopTasks) /\ pc = "loop" /\ UNCHANGED now
    BY <1>5, LoopAgrees, LoopCases
  <2>2. CASE LoopTokens = {} /\ pc' = "wait" /\ UNCHANGED <<tokens, tasks>>
    <3>1. ~Again
      BY <1>0, <2>2, LoopFacts, InsertFacts DEF LoopTokens, Insert, TypeOK
    <3>2. LoopTokens = tokens /\ LoopTasks = tasks
      BY <3>1 DEF LoopTokens, LoopTasks
    <3>3. \A t : ~Held(t)'
      BY <2>2 DEF Held
    <3> QED
      BY <2>1, <2>2, <3>2, <3>3 DEF Agree, Executions, OneToken, Scheduled
  <2>3. CASE Scan(LoopTokens, LoopTasks)
    BY <1>0, <2>1, <2>3, LoopFacts, ScanAgrees
  <2> QED
    BY <1>5, <2>2, <2>3, LoopCases
<1>6. CASE Resume /\ ~destroyed
  <2>1. Agree(tokens, tasks)
    BY <1>6, WaitAgrees DEF Resume, Waiting
  <2>2. tokens \in SUBSET Token /\ tasks \in [Task -> Nat \cup {NoTime}]
    BY <1>0 DEF TypeOK
  <2> QED
    BY <1>6, <2>1, <2>2, ScanAgrees DEF Resume
<1>7. CASE Return
  <2>1. \A t : Held(t)' <=> Held(t)
    BY <1>7 DEF Return, Held, Repeating, NoToken
  <2>2. UNCHANGED <<tokens, tasks, now>>
    BY <1>7 DEF Return
  <2> QED
    BY <2>1, <2>2 DEF TokenInv, Executions, OneToken, Scheduled
<1>8. CASE Join \/ Tick \/ UNCHANGED vars
  <2>1. UNCHANGED <<tokens, tasks, pc, token>> /\ (now' = now \/ now' = now + 1)
    BY <1>8 DEF Join, Tick, vars
  <2>2. \A t : Held(t)' <=> Held(t)
    BY <2>1 DEF Held, Repeating
  <2>3. \A t \in Task : tasks[t] <= now => tasks'[t] <= now'
    BY <1>0, <2>1 DEF TypeOK, NoTime
  <2> QED
    BY <2>1, <2>2, <2>3 DEF TokenInv, Executions, OneToken, Scheduled
<1> QED
  BY <1>2, <1>3, <1>4, <1>5, <1>6, <1>7, <1>8 DEF Next, Wake, SpuriousWake

LEMMA TokenInit == Init => TokenInv
<1> SUFFICES ASSUME Init PROVE TokenInv
  OBVIOUS
<1>1. TypeOK
  BY TypeInit
<1>2. \A t : ~Held(t)
  BY DEF Init, Held, Repeating, NoToken
<1> QED
  BY <1>1, <1>2 DEF Init, TokenInv, OneToken, Scheduled

(* A task that is scheduled has one token, with the time of the map, for   *)
(* every set of tasks and every sequence of calls that does not use a      *)
(* repeated task again while it runs: cancel() misses nothing.             *)
THEOREM TokensAgree == ~Reuse => (Spec => []OneToken)
<1> SUFFICES ASSUME ~Reuse PROVE Spec => []OneToken
  OBVIOUS
<1>1. TokenInv => OneToken
  BY DEF TokenInv
<1>2. TokenInv /\ [Next]_vars => TokenInv'
  BY TokenStep
<1> QED
  BY <1>1, <1>2, TokenInit, PTL DEF Spec

-----------------------------------------------------------------------------
(* An execution starts with the first of the tokens that the thread sees,  *)
(* which agree with the map.                                               *)
LEMMA StartCases ==
    ASSUME TokenInv, [Next]_vars, Starts
    PROVE  /\ ~destroyed
           /\ \E toks \in SUBSET Token, tks \in [Task -> Nat \cup {NoTime}] :
                 /\ Agree(toks, tks) /\ token' \in First(toks) /\ token'.time <= now
                 /\ \/ pc = "loop" /\ toks = LoopTokens /\ tks = LoopTasks
                    \/ Waiting /\ toks = tokens /\ tks = tasks
<1>0. TypeOK
  BY DEF TokenInv
<1>1. ASSUME NEW toks, NEW tks, Scan(toks, tks)
      PROVE  token' \in First(toks) /\ token'.time <= now
  BY <1>1 DEF Scan, Take, Starts
<1>2. CASE Loop
  <2>1. /\ pc = "loop" /\ ~destroyed /\ Scan(LoopTokens, LoopTasks)
    BY <1>2, LoopCases DEF Starts, End
  <2>2. /\ LoopTokens \in SUBSET Token /\ LoopTasks \in [Task -> Nat \cup {NoTime}]
        /\ Agree(LoopTokens, LoopTasks)
    BY <1>0, <2>1, LoopFacts, LoopAgrees
  <2> QED
    BY <1>1, <2>1, <2>2
<1>3. CASE Resume
  <2>1. Waiting /\ ~destroyed /\ Scan(tokens, tasks)
    BY <1>3 DEF Resume, Starts, End
  <2>2. /\ tokens \in SUBSET Token /\ tasks \in [Task -> Nat \cup {NoTime}]
        /\ Agree(tokens, tasks)
    BY <1>0, <2>1, WaitAgrees DEF TypeOK, Waiting
  <2> QED
    BY <1>1, <2>1, <2>2
<1>4. Loop \/ Resume
  BY DEF Starts, Next, Call, Schedule, Reschedule, Cancel, Destroy, Join, Wake, SpuriousWake,
     Return, Tick, vars
<1> QED
  BY <1>2, <1>3, <1>4

(* What the map says of a task that starts, before it starts. *)
LEMMA StartIsScheduled ==
    ASSUME TokenInv, [Next]_vars, Starts
    PROVE  LET t == token'.task IN Scheduled(t) /\ tasks[t] <= now /\ ~destroyed
<1>0. TypeOK /\ now \in Nat /\ tasks \in [Task -> Nat \cup {NoTime}]
  BY DEF TokenInv, TypeOK
<1>1. PICK toks \in SUBSET Token, tks \in [Task -> Nat \cup {NoTime}] :
        /\ Agree(toks, tks) /\ token' \in First(toks) /\ token'.time <= now
        /\ \/ pc = "loop" /\ toks = LoopTokens /\ tks = LoopTasks
           \/ Waiting /\ toks = tokens /\ tks = tasks
  BY StartCases
<1>2. /\ token' \in toks /\ token'.task \in Task /\ token'.time \in Nat
      /\ tks[token'.task] = token'.time
  BY <1>1 DEF First, Agree, Token
<1>3. CASE tks = tasks
  BY <1>0, <1>1, <1>2, <1>3, StartCases DEF Scheduled, NoTime
<1>4. CASE pc = "loop" /\ tks = LoopTasks /\ Again
  <2>1. /\ token.task \in Task /\ Held(token.task) /\ Scheduled(token.task)
        /\ LoopTasks = [tasks EXCEPT ![token.task] = now + token.delay]
    BY <1>0, <1>4, LoopFacts DEF Again, Held, Repeating, LoopTasks
  <2>2. CASE token'.task = token.task
    BY <2>1, <2>2, StartCases DEF TokenInv
  <2>3. CASE token'.task # token.task
    BY <1>0, <1>1, <1>2, <1>4, <2>1, <2>3, StartCases DEF Scheduled, NoTime
  <2> QED
    BY <2>2, <2>3
<1> QED
  BY <1>1, <1>3, <1>4 DEF LoopTasks

(* A task that starts is scheduled and due, for every set of tasks, as     *)
(* long as callers do not use a repeated task again while it runs.         *)
THEOREM OnlyScheduledStart == ~Reuse => (Spec => StartsScheduled)
<1> SUFFICES ASSUME ~Reuse PROVE Spec => StartsScheduled
  OBVIOUS
<1>1. TokenInv /\ [Next]_vars => TokenInv'
  BY TokenStep
<1>2. TokenInv /\ [Next]_vars =>
        [Starts => LET t == token'.task IN Scheduled(t) /\ tasks[t] <= now /\ ~destroyed]_vars
  BY StartIsScheduled
<1> QED
  BY <1>1, <1>2, TokenInit, PTL DEF Spec, StartsScheduled

(* Every other task that could start is due no earlier. *)
LEMMA StartIsFirst ==
    ASSUME TokenInv, [Next]_vars, Starts, NEW t \in Task \ {token'.task}, Scheduled(t), ~Held(t)
    PROVE  tasks[t] >= token'.time
<1>0. TypeOK /\ tasks \in [Task -> Nat \cup {NoTime}] /\ tokens \in SUBSET Token
  BY DEF TokenInv, TypeOK
<1>1. PICK x \in tokens : x.task = t /\ x.time = tasks[t]
  BY DEF TokenInv, OneToken
<1>2. PICK toks \in SUBSET Token : token' \in First(toks) /\ tokens \subseteq toks
  <2>1. pc = "loop" => tokens \subseteq LoopTokens
    BY <1>0, LoopFacts, InsertFacts DEF LoopTokens
  <2> QED
    BY <2>1, StartCases
<1>3. token'.time <= x.time
  BY <1>1, <1>2 DEF First
<1> QED
  BY <1>0, <1>1, <1>2, <1>3 DEF First, Token

(* Tasks start in the order in which they are due, for every set of tasks, *)
(* as long as callers do not use a repeated task again while it runs.      *)
THEOREM OrderOfStarts == ~Reuse => (Spec => StartsInOrder)
<1> SUFFICES ASSUME ~Reuse PROVE Spec => StartsInOrder
  OBVIOUS
<1>1. TokenInv /\ [Next]_vars => TokenInv'
  BY TokenStep
<1>2. TokenInv /\ [Next]_vars =>
        [Starts => \A t \in Task \ {token'.task} :
                     Scheduled(t) /\ ~Held(t) => tasks[t] >= token'.time]_vars
  BY StartIsFirst
<1> QED
  BY <1>1, <1>2, TokenInit, PTL DEF Spec, StartsInOrder
=============================================================================
