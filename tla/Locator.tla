------------------------------- MODULE Locator -------------------------------
(***************************************************************************)
(* The locator cache of a client, and the connections made with it:        *)
(* Ice/LocatorInfo.cpp and RoutableReference::getConnectionNoRouterInfo-   *)
(* Async() of Ice/Reference.cpp.                                           *)
(*                                                                         *)
(* Callers resolve an adapter, or a well-known object which is found in an *)
(* adapter.  The locator, its answers and the servers that move are the    *)
(* environment.  An entry of the cache is fresh until its timeout expires. *)
(***************************************************************************)
EXTENDS Naturals, Sequences, FiniteSets

CONSTANTS
    Caller,
    Adapter, WellKnown,  \* adapters and well-known objects
    Endpoint,            \* where an adapter can be
    Wants,               \* what each caller connects to
    Warm,                \* the cache when the callers start
    Background,          \* Ice.BackgroundLocatorCacheUpdates
    Ttl,                 \* "zero", "some" or "infinite"
    MaxMoves,            \* bound on the changes of the locator
    MaxRequests,         \* bound on the requests made
    LocatorFails         \* whether the locator may fail

Key == Adapter \cup WellKnown
None == "none"
Failed == "failed"  \* the locator failed, or returned a null proxy

LocatorAssumption ==
    /\ Wants \in [Caller -> Key] /\ Warm \in [Key -> Endpoint \cup Adapter \cup {None}]
    /\ Adapter \cap WellKnown = {} /\ Background \in BOOLEAN /\ Ttl \in {"zero", "some", "infinite"}
    /\ MaxMoves \in Nat /\ MaxRequests \in Nat /\ LocatorFails \in BOOLEAN

VARIABLES
    place,     \* what the locator has: the endpoint of an adapter, the adapter of an object
    moves,     \* how often that has changed
    table,     \* LocatorTable: what is cached, and whether it is fresh
    pending,   \* _adapterRequests and _objectRequests: the request of each key, or 0
    request,   \* the requests
    refresh,   \* resolutions nobody waits for: getEndpoints() with a null callback
    caller     \* the callers

vars == <<place, moves, table, pending, request, refresh, caller>>

Value == Endpoint \cup Adapter \cup {None}

TypeOK ==
    /\ place \in [Key -> Value] /\ moves \in 0..MaxMoves
    /\ table \in [Key -> [value : Value, fresh : BOOLEAN]]
    /\ pending \in [Key -> 0..Len(request)]
    /\ \A i \in DOMAIN request :
         /\ request[i].key \in Key /\ request[i].callbacks \subseteq Caller /\ request[i].wellKnown \subseteq WellKnown
         /\ request[i].unheard \in BOOLEAN
         /\ request[i].state \in {"new", "sent", "read", "finishing", "done"}
         /\ request[i].result \in Value \cup {Failed} /\ request[i].since \in 0..MaxMoves
    /\ refresh \subseteq [pc : {"ask", "get", "add"}, ref : Adapter, for : WellKnown, id : 0..MaxRequests]
    /\ caller \in [Caller ->
         [pc : {"ask", "get", "add", "wait", "connect", "connected", "notFound", "unreachable", "locatorFailed"},
          ref : Key, for : WellKnown \cup {None}, id : 0..MaxRequests, stale : Value,
          endpoint : Endpoint \cup {None}, cached : BOOLEAN, since : 0..MaxMoves]]

-----------------------------------------------------------------------------
(* The locator: an adapter is activated, moves or goes away, an object     *)
(* moves to another adapter.                                               *)
Move(k) ==
    /\ moves < MaxMoves
    /\ \E v \in (IF k \in Adapter THEN Endpoint \cup {None} ELSE Adapter) \ {place[k]} :
         place' = [place EXCEPT ![k] = v]
    /\ moves' = moves + 1
    /\ UNCHANGED <<table, pending, request, refresh, caller>>

(* checkTTL() *)
Expire(k) ==
    /\ Ttl = "some" /\ table[k].value # None /\ table[k].fresh
    /\ table' = [table EXCEPT ![k].fresh = FALSE]
    /\ UNCHANGED <<place, moves, pending, request, refresh, caller>>

-----------------------------------------------------------------------------
Set(c, r) == caller' = [caller EXCEPT ![c] = r]

(* getEndpoints() goes on with v, found in the cache. *)
Found(r, v) ==
    IF v \in Adapter THEN [r EXCEPT !.pc = "ask", !.ref = v, !.for = r.ref, !.stale = None]
    ELSE [r EXCEPT !.pc = "connect", !.endpoint = v, !.cached = TRUE, !.stale = None]

(* getEndpoints(), getAdapterEndpoints() and getObjectReference(): the     *)
(* cache is used, refreshed in the background while it is used, or filled. *)
GetEndpoints(c) ==
    /\ caller[c].pc = "ask"
    /\ LET r == caller[c] e == table[r.ref]
       IN  Set(c, IF Ttl # "zero" /\ e.value # None /\ e.fresh THEN Found(r, e.value)
                  ELSE [r EXCEPT !.pc = "get", !.stale = IF Ttl # "zero" /\ Background THEN e.value ELSE None])
    /\ UNCHANGED <<place, moves, table, pending, request, refresh>>

(* getAdapterRequest() and getObjectRequest(): the request for k is joined *)
(* or made, with this id.                                                  *)
RequestId(k) == IF pending[k] # 0 THEN pending[k] ELSE Len(request) + 1

GetAdapterOrObjectRequest(k) ==
    IF pending[k] # 0 THEN UNCHANGED <<pending, request>>
    ELSE /\ Len(request) < MaxRequests
         /\ request' = Append(request, [key |-> k, callbacks |-> {}, unheard |-> FALSE, wellKnown |-> {},
                                        state |-> "new", result |-> None, since |-> 0])
         /\ pending' = [pending EXCEPT ![k] = Len(request')]

GetRequest(c) ==
    /\ caller[c].pc = "get"
    /\ GetAdapterOrObjectRequest(caller[c].ref)
    /\ Set(c, [caller[c] EXCEPT !.pc = "add", !.id = RequestId(caller[c].ref)])
    /\ UNCHANGED <<place, moves, table, refresh>>

(* RequestCallback::response() and exception(): v is the answer to r. *)
Answered(r, v, since) ==
    IF v = Failed THEN [r EXCEPT !.pc = "locatorFailed"]
    ELSE IF v = None THEN [r EXCEPT !.pc = "notFound"]
    ELSE IF v \in Adapter THEN [r EXCEPT !.pc = "ask", !.ref = v, !.for = r.ref]
    ELSE [r EXCEPT !.pc = "connect", !.endpoint = v, !.cached = FALSE, !.since = since]

(* A callback nobody waits for goes on to the adapter of the object.       *)
Unheard(k, v) == IF v \in Adapter THEN {[pc |-> "ask", ref |-> v, for |-> k, id |-> 0]} ELSE {}

(* Request::addCallback(): callers is empty for a null callback.  The      *)
(* first one sends the request.                                            *)
WithCallback(q, callers, for) ==
    [q EXCEPT !.callbacks = @ \cup callers, !.unheard = @ \/ callers = {},
              !.wellKnown = @ \cup ({for} \cap WellKnown),
              !.state = IF @ = "new" THEN "sent" ELSE @,
              !.since = IF q.state = "new" THEN moves ELSE @]

(* addCallback() of a caller: a request that has ended answers at once.  A *)
(* caller that has found an expired entry goes on with it.                 *)
AddCallback(c) ==
    /\ caller[c].pc = "add" /\ request[caller[c].id].state # "finishing"
    /\ LET r == caller[c] q == request[r.id] k == [r EXCEPT !.id = 0]
       IN  IF q.state = "done"
           THEN /\ Set(c, IF r.stale # None THEN Found(k, r.stale) ELSE Answered(k, q.result, q.since))
                /\ refresh' = IF r.stale # None THEN refresh \cup Unheard(q.key, q.result) ELSE refresh
                /\ UNCHANGED request
           ELSE /\ request' = [request EXCEPT ![r.id] = WithCallback(@, IF r.stale = None THEN {c} ELSE {}, r.for)]
                /\ Set(c, IF r.stale # None THEN Found(k, r.stale) ELSE [k EXCEPT !.pc = "wait"])
                /\ UNCHANGED refresh
    /\ UNCHANGED <<place, moves, table, pending>>

(* The same three steps where nobody waits: RequestCallback::response() of *)
(* a well-known object whose entry had expired resolves its adapter too.   *)
Refresh(b) ==
    \/ /\ b.pc = "ask"
       /\ refresh' = (refresh \ {b}) \cup (IF table[b.ref].value # None /\ table[b.ref].fresh THEN {} ELSE {[b EXCEPT !.pc = "get"]})
       /\ UNCHANGED <<place, moves, table, pending, request, caller>>
    \/ /\ b.pc = "get" /\ GetAdapterOrObjectRequest(b.ref)
       /\ refresh' = (refresh \ {b}) \cup {[b EXCEPT !.pc = "add", !.id = RequestId(b.ref)]}
       /\ UNCHANGED <<place, moves, table, caller>>
    \/ /\ b.pc = "add" /\ request[b.id].state # "finishing"
       /\ request' = IF request[b.id].state = "done" THEN request ELSE [request EXCEPT ![b.id] = WithCallback(@, {}, b.for)]
       /\ refresh' = refresh \ {b}
       /\ UNCHANGED <<place, moves, table, pending, caller>>

(* The locator handles the request. *)
LocatorReads(i) ==
    /\ request[i].state = "sent"
    /\ \E v \in {place[request[i].key]} \cup (IF LocatorFails THEN {Failed} ELSE {}) :
         request' = [request EXCEPT ![i].state = "read", ![i].result = v]
    /\ UNCHANGED <<place, moves, table, pending, refresh, caller>>

(* finishRequest(), called with the mutex of the request: the cache first. *)
FinishTable(i) ==
    /\ request[i].state = "read"
    /\ LET q == request[i]
       IN  table' = [k \in Key |->
             IF k = q.key /\ q.result \notin {None, Failed} THEN [value |-> q.result, fresh |-> TRUE]
             ELSE IF (k = q.key /\ q.result = None) \/ (k \in q.wellKnown /\ q.result \in {None, Failed})
             THEN [value |-> None, fresh |-> FALSE] ELSE table[k]]
    /\ request' = [request EXCEPT ![i].state = "finishing"]
    /\ UNCHANGED <<place, moves, pending, refresh, caller>>

(* The request is no longer known, and its callbacks are called. *)
FinishRequest(i) ==
    /\ request[i].state = "finishing"
    /\ LET q == request[i]
       IN  /\ pending' = [pending EXCEPT ![q.key] = 0]
           /\ caller' = [c \in Caller |-> IF c \in q.callbacks THEN Answered(caller[c], q.result, q.since) ELSE caller[c]]
           /\ refresh' = IF q.unheard THEN refresh \cup Unheard(q.key, q.result) ELSE refresh
    /\ request' = [request EXCEPT ![i].state = "done"]
    /\ UNCHANGED <<place, moves, table>>

-----------------------------------------------------------------------------
(* clearCache() *)
Cleared(k) ==
    LET gone == {k} \cup ({table[k].value} \cap Adapter)
    IN  [j \in Key |-> IF j \in gone THEN [value |-> None, fresh |-> FALSE] ELSE table[j]]

(* The caller connects: the endpoint is that of an adapter, or not. *)
Connected(c) ==
    /\ caller[c].pc = "connect" /\ place[caller[c].ref] = caller[c].endpoint
    /\ Set(c, [caller[c] EXCEPT !.pc = "connected"])
    /\ UNCHANGED <<place, moves, table, pending, request, refresh>>

(* Mutant of ConnectFailed: cached endpoints are not tried again. *)
ConnectFailedOnce(c) ==
    /\ caller[c].pc = "connect" /\ place[caller[c].ref] # caller[c].endpoint
    /\ table' = Cleared(Wants[c])
    /\ Set(c, [caller[c] EXCEPT !.pc = "unreachable"])
    /\ UNCHANGED <<place, moves, pending, request, refresh>>

(* The cache is cleared, and the reference is resolved again if it had     *)
(* been in the cache.                                                      *)
ConnectFailed(c) ==
    /\ caller[c].pc = "connect" /\ place[caller[c].ref] # caller[c].endpoint
    /\ table' = Cleared(Wants[c])
    /\ Set(c, IF caller[c].cached THEN [caller[c] EXCEPT !.pc = "ask", !.ref = Wants[c], !.for = None, !.endpoint = None]
              ELSE [caller[c] EXCEPT !.pc = "unreachable"])
    /\ UNCHANGED <<place, moves, pending, request, refresh>>

-----------------------------------------------------------------------------
Init ==
    /\ place \in {p \in [Key -> Value] : /\ \A a \in Adapter : p[a] \in Endpoint
                                         /\ \A o \in WellKnown : p[o] \in Adapter}
    /\ moves = 0
    /\ table = [k \in Key |-> [value |-> Warm[k], fresh |-> Warm[k] # None]]
    /\ pending = [k \in Key |-> 0] /\ request = <<>> /\ refresh = {}
    /\ caller = [c \in Caller |-> [pc |-> "ask", ref |-> Wants[c], for |-> None, id |-> 0, stale |-> None,
                                   endpoint |-> None, cached |-> FALSE, since |-> 0]]

Resolve(c) == GetEndpoints(c) \/ GetRequest(c) \/ AddCallback(c) \/ Connected(c) \/ ConnectFailed(c)
Reply(i) == LocatorReads(i) \/ FinishTable(i) \/ FinishRequest(i)

Next ==
    \/ \E c \in Caller : Resolve(c)
    \/ \E i \in DOMAIN request : Reply(i)
    \/ \E b \in refresh : Refresh(b)
    \/ \E k \in Key : Move(k) \/ Expire(k)

Spec == Init /\ [][Next]_vars

-----------------------------------------------------------------------------
(* The request of a key that has not ended is the one that callers of the  *)
(* key join, and there is one: the assertion of finishRequest().           *)
OneRequest ==
    \A i \in DOMAIN request : request[i].state # "done" <=> pending[request[i].key] = i

(* Stale endpoints fail nobody: a caller that cannot connect was given     *)
(* endpoints by the locator, which have changed since it was asked.        *)
(* Cached endpoints, old as they may be, are tried again.                  *)
FailsOnlyMoved ==
    \A c \in Caller : caller[c].pc = "unreachable" => ~caller[c].cached /\ moves > caller[c].since

(* "Remove the cached references of well-known objects for which we tried  *)
(* to resolve the endpoints if these endpoints are empty": who has been    *)
(* told that the adapter of an object is not registered does not leave it  *)
(* in the cache.  The code does not keep it for a request that was joined. *)
WellKnownForgotten ==
    \A c \in Caller : caller[c].pc = "notFound" /\ caller[c].for # None =>
      table[caller[c].for].value # caller[c].ref

(* The resolution has ended. *)
Ended(c) == caller[c].pc \in {"connected", "notFound", "unreachable", "locatorFailed"}

=============================================================================
