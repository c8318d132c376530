------------------------------ MODULE Discovery ------------------------------
(***************************************************************************)
(* The lookups of the IceDiscovery plug-in (IceDiscovery/LookupI.cpp): one *)
(* request for those that look for the same adapter or object, sent on     *)
(* every interface, again when it times out, and answered by the servers   *)
(* that have the adapter or the object, if any.                            *)
(*                                                                         *)
(* A request is the position of its Request object in req, which is also   *)
(* its id in the replies.  Replies come by UDP: they are lost, duplicated  *)
(* or late, so that one may come whenever a request has been sent.  The    *)
(* timer is external; its thread has taken a task before the task gets the *)
(* mutex of LookupI.                                                       *)
(***************************************************************************)
EXTENDS Naturals, Sequences, FiniteSets

CONSTANTS
    Caller,       \* those that ask the locator, each once
    Wants,        \* what a caller looks for
    Object,       \* those of Wants that are objects; the others are adapters
    Proxy,        \* the proxies that servers reply with
    Interface,    \* the lookup proxies, one for each interface
    RetryCount,   \* IceDiscovery.RetryCount
    Throws,       \* an invocation may throw
    MaxRequests   \* bound: the requests that are created

DiscoveryAssumption ==
    /\ Interface # {} /\ IsFiniteSet(Interface) /\ RetryCount \in Nat /\ Throws \in BOOLEAN
    /\ MaxRequests \in Nat /\ DOMAIN Wants = Caller

Key == {Wants[c] : c \in Caller}
Request == 1 .. MaxRequests

VARIABLES
    table,      \* _adapterRequests and _objectRequests: the request of each key, 0 for none
    req,        \* the Request objects
    alarm,      \* the tasks that are scheduled, the one that the timer thread has taken, and
                \* whether a task was scheduled twice
    outgoing,   \* the invocations that have not completed: request, generation and interface
    asker,      \* the callers: how often they were answered, by which request, and why
    closed      \* destroy() was called

vars == <<table, req, alarm, outgoing, asker, closed>>

TypeOK ==
    /\ table \in [Key -> 0 .. MaxRequests]
    /\ Len(req) <= MaxRequests
    /\ \A r \in DOMAIN req :
         req[r] \in [key : Key, retries : 0 .. RetryCount, generation : 0 .. RetryCount + 1,
                     failures : 0 .. Cardinality(Interface), callbacks : SUBSET Caller, proxies : SUBSET Proxy,
                     latency : {"zero", "set"}]
    /\ alarm \in [scheduled : SUBSET Request, taken : 0 .. MaxRequests, twice : BOOLEAN]
    /\ outgoing \subseteq Request \X (1 .. RetryCount + 1) \X Interface
    /\ asker \in [Caller -> [pc : {"new", "waiting", "answered", "twice"}, by : 0 .. MaxRequests,
                             why : {"none", "found", "timeout", "failed", "threw", "destroyed"}]]
    /\ closed \in BOOLEAN

-----------------------------------------------------------------------------
(* Timer::schedule() throws if the task is scheduled already. *)
Schedule(a, r) == [a EXCEPT !.scheduled = @ \cup {r}, !.twice = @ \/ r \in a.scheduled]
CancelTask(a, r) == [a EXCEPT !.scheduled = @ \ {r}]

(* Request::invoke() of request r, which is q. *)
Invoke(q) == [q EXCEPT !.generation = @ + 1, !.failures = 0]
Sent(r, q) == outgoing \cup {<<r, q.generation + 1, i>> : i \in Interface}

(* finished(): the callbacks of q are called, and cleared. *)
Answer(as, r, q, why) ==
    [c \in Caller |-> IF c \notin q.callbacks THEN as[c]
                      ELSE [pc |-> IF as[c].pc = "waiting" THEN "answered" ELSE "twice", by |-> r, why |-> why]]
Finished(q) == [q EXCEPT !.callbacks = {}]

(* Request r, now q, is finished and leaves the table and the timer. *)
Finish(r, q, why) ==
    /\ asker' = Answer(asker, r, q, why)
    /\ req' = [req EXCEPT ![r] = Finished(q)]
    /\ table' = [table EXCEPT ![q.key] = 0]
    /\ alarm' = CancelTask(alarm, r)
    /\ UNCHANGED <<outgoing, closed>>

-----------------------------------------------------------------------------
(* findAdapter() and findObject(): the first to ask sends the request. *)
Find(c) ==
    LET k == Wants[c]
        new == table[k] = 0
        r == IF new THEN Len(req) + 1 ELSE table[k]
        old == IF new THEN [key |-> k, retries |-> RetryCount, generation |-> 0, failures |-> 0,
                            callbacks |-> {}, proxies |-> {}, latency |-> "zero"]
               ELSE req[r]
        q == [old EXCEPT !.callbacks = @ \cup {c}]
        Put(x) == IF new THEN Append(req, x) ELSE [req EXCEPT ![r] = x]
        waiting == [asker EXCEPT ![c].pc = "waiting"]
    IN  /\ asker[c].pc = "new" /\ ~closed /\ r <= MaxRequests
        /\ \/ /\ old.callbacks # {}
              /\ req' = Put(q) /\ asker' = waiting
              /\ UNCHANGED <<table, alarm, outgoing>>
           \/ /\ old.callbacks = {}
              /\ req' = Put(Invoke(q)) /\ outgoing' = Sent(r, q)
              /\ table' = [table EXCEPT ![k] = r]
              /\ alarm' = Schedule(alarm, r)
              /\ asker' = waiting
           \/ /\ old.callbacks = {} /\ Throws
              /\ req' = Put(Finished(Invoke(q)))
              /\ asker' = Answer(waiting, r, q, "threw")
              /\ table' = [table EXCEPT ![k] = 0]
              /\ UNCHANGED <<alarm, outgoing>>
        /\ UNCHANGED closed

(* foundObject(), and foundAdapter() for an adapter that is not a replica  *)
(* group.                                                                  *)
Found(r, p) ==
    /\ ~closed /\ req[r].generation > 0 /\ table[req[r].key] = r
    /\ Finish(r, req[r], "found")

(* Mutant of FoundReplicas: the timeout stays. *)
FoundReplicasOnly(r, p) ==
    LET q == req[r]
    IN  /\ ~closed /\ q.generation > 0 /\ table[q.key] = r /\ q.key \notin Object
        /\ req' = [req EXCEPT ![r].proxies = @ \cup {p}, ![r].latency = "set"]
        /\ alarm' = IF q.latency = "zero" THEN Schedule(alarm, r) ELSE alarm
        /\ UNCHANGED <<table, outgoing, asker, closed>>

(* foundAdapter() for a replica group: the replies that come while the     *)
(* latency of the first one, times a factor, goes by are put together.     *)
(* That latency may be zero.                                               *)
FoundReplicas(r, p) ==
    LET q == req[r]
    IN  /\ ~closed /\ q.generation > 0 /\ table[q.key] = r /\ q.key \notin Object
        /\ \E l \in IF q.latency = "zero" THEN {"zero", "set"} ELSE {"set"} :
             req' = [req EXCEPT ![r].proxies = @ \cup {p}, ![r].latency = l]
        /\ alarm' = IF q.latency = "zero" THEN Schedule(CancelTask(alarm, r), r) ELSE alarm
        /\ UNCHANGED <<table, outgoing, asker, closed>>

(* Timer: its thread takes a task. *)
TakeTask(r) ==
    /\ r \in alarm.scheduled /\ alarm.taken = 0
    /\ alarm' = [alarm EXCEPT !.scheduled = @ \ {r}, !.taken = r]
    /\ UNCHANGED <<table, req, outgoing, asker, closed>>

(* retry(), of an AdapterRequest; an ObjectRequest has no proxies. *)
Retry(q) == q.proxies = {} /\ q.retries > 0

(* adapterRequestTimedOut() and objectRequestTimedOut(). *)
RequestTimedOut ==
    LET r == alarm.taken
        q == req[r]
        again == Retry(q)
        over == [q EXCEPT !.retries = IF again THEN @ - 1 ELSE @, !.generation = IF again THEN @ + 1 ELSE @]
        done == [alarm EXCEPT !.taken = 0]
    IN  /\ r # 0
        /\ \/ /\ table[q.key] # r
              /\ alarm' = done /\ UNCHANGED <<table, req, outgoing, asker>>
           \/ /\ table[q.key] = r /\ again
              /\ req' = [req EXCEPT ![r] = Invoke([q EXCEPT !.retries = @ - 1])]
              /\ outgoing' = Sent(r, q)
              /\ alarm' = Schedule(done, r)
              /\ UNCHANGED <<table, asker>>
           \/ /\ table[q.key] = r /\ (again => Throws)
              /\ asker' = Answer(asker, r, q, IF again THEN "threw" ELSE "timeout")
              /\ req' = [req EXCEPT ![r] = Finished(over)]
              /\ table' = [table EXCEPT ![q.key] = 0]
              /\ alarm' = CancelTask(done, r)
              /\ UNCHANGED outgoing
        /\ UNCHANGED closed

(* An invocation fails: adapterRequestException(),                         *)
(* objectRequestException() and Request::exception().                      *)
RequestException(r, g, i) ==
    LET q == req[r]
        failing == [q EXCEPT !.failures = @ + 1]
    IN  /\ <<r, g, i>> \in outgoing
        /\ outgoing' = outgoing \ {<<r, g, i>>}
        /\ \/ /\ table[q.key] # r \/ q.generation # g
              /\ UNCHANGED <<table, req, alarm, asker>>
           \/ /\ table[q.key] = r /\ q.generation = g /\ failing.failures < Cardinality(Interface)
              /\ req' = [req EXCEPT ![r] = failing] /\ UNCHANGED <<table, alarm, asker>>
           \/ /\ table[q.key] = r /\ q.generation = g /\ failing.failures = Cardinality(Interface)
              /\ asker' = Answer(asker, r, q, "failed")
              /\ req' = [req EXCEPT ![r] = Finished(failing)]
              /\ table' = [table EXCEPT ![q.key] = 0]
              /\ alarm' = CancelTask(alarm, r)
        /\ UNCHANGED closed

(* LookupI::destroy(), after the adapters of the plug-in. *)
Destroy ==
    LET open == {table[k] : k \in Key} \ {0}
    IN  /\ ~closed
        /\ closed' = TRUE
        /\ asker' = [c \in Caller |->
                       LET rs == {r \in open : c \in req[r].callbacks}
                       IN  IF rs = {} THEN asker[c]
                           ELSE Answer(asker, CHOOSE r \in rs : TRUE, req[CHOOSE r \in rs : TRUE], "destroyed")[c]]
        /\ req' = [r \in DOMAIN req |-> IF r \in open THEN Finished(req[r]) ELSE req[r]]
        /\ alarm' = [alarm EXCEPT !.scheduled = @ \ open]
        /\ table' = [k \in Key |-> 0]
        /\ UNCHANGED outgoing

-----------------------------------------------------------------------------
Init ==
    /\ table = [k \in Key |-> 0] /\ req = <<>> /\ outgoing = {} /\ closed = FALSE
    /\ alarm = [scheduled |-> {}, taken |-> 0, twice |-> FALSE]
    /\ asker = [c \in Caller |-> [pc |-> "new", by |-> 0, why |-> "none"]]

Next ==
    \/ \E c \in Caller : Find(c)
    \/ \E r \in DOMAIN req :
         \/ TakeTask(r)
         \/ \E p \in Proxy : Found(r, p) \/ FoundReplicas(r, p)
    \/ \E o \in outgoing : RequestException(o[1], o[2], o[3])
    \/ RequestTimedOut \/ Destroy

Spec == Init /\ [][Next]_vars

-----------------------------------------------------------------------------
(* A caller is answered once; one that waits is known to the request for   *)
(* what it looks for, and none waits once destroy() has returned.          *)
AnsweredOnce ==
    \A c \in Caller :
      /\ asker[c].pc # "twice"
      /\ asker[c].pc = "waiting" => table[Wants[c]] # 0 /\ c \in req[table[Wants[c]]].callbacks

(* A request that somebody waits for has its timer, although replies,      *)
(* failures and retries cancel and schedule it again; no task is scheduled *)
(* twice, and none for a request that is over.                             *)
Armed ==
    /\ ~alarm.twice
    /\ \A k \in Key : table[k] # 0 =>
         req[table[k]].callbacks # {} /\ (table[k] \in alarm.scheduled \/ alarm.taken = table[k])
    /\ \A r \in alarm.scheduled : table[req[r].key] = r

(* "Ignore a delayed failure from an earlier invocation round: it must not *)
(* count against the current round": who is told that the invocations have *)
(* failed is told so when those of the last round have, on every           *)
(* interface; who is told that time is up was given all the rounds, or the *)
(* replicas that have replied.                                             *)
RoundsCount ==
    \A c \in Caller :
      LET r == asker[c].by
      IN  /\ asker[c].why = "failed" => \A i \in Interface : <<r, req[r].generation, i>> \notin outgoing
          /\ asker[c].why = "timeout" => req[r].proxies # {} \/ req[r].generation = RetryCount + 1
=============================================================================
