-------------------------- MODULE ConnectionFactory --------------------------
(***************************************************************************)
(* OutgoingConnectionFactory of Ice/ConnectionFactory.cpp: requests for    *)
(* connections share the connections that are established, and those that *)
(* are being established.                                                  *)
(*                                                                         *)
(* A request asks for one of a list of endpoints, each of which resolves   *)
(* to connectors.  It has one connection, the one that it last tried to    *)
(* establish; a connection that failed is forgotten when the next is tried.*)
(* The callbacks that a thread makes with the mutex free are made in any   *)
(* order.                                                                  *)
(***************************************************************************)
EXTENDS Naturals, Sequences, FiniteSets, SequencesExt

CONSTANTS
    Request,        \* calls to createAsync(), with their ConnectCallback
    Endpoint, Connector,
    Endpoints,      \* the endpoints of a request, in order
    Connectors,     \* the connectors of an endpoint, in order
    Failures        \* how a connection attempt may fail: subset of {"other", "timeout"}

FactoryAssumption ==
    /\ IsFiniteSet(Request) /\ IsFiniteSet(Connector) /\ IsFiniteSet(Endpoint)
    /\ Endpoints \in [Request -> Seq(Endpoint) \ {<<>>}]
    /\ Connectors \in [Endpoint -> Seq(Connector) \ {<<>>}]
    /\ Failures \subseteq {"other", "timeout"}

ASSUME FactoryConstants == FactoryAssumption

VARIABLES
    factory,  \* the members of OutgoingConnectionFactory
    request,  \* the ConnectCallback objects
    link      \* the connections

vars == <<factory, request, link>>

Info == [connector : Connector, endpoint : Endpoint]
NoInfo == [connector |-> "none", endpoint |-> "none"]

TypeOK ==
    /\ factory \in [destroyed : BOOLEAN, finished : BOOLEAN, count : 0 .. Cardinality(Request),
                    owners : SUBSET Connector, pending : [Connector -> SUBSET Request]]
    /\ request \in [Request ->
         [pc : {"none", "resolve", "get", "next", "starting", "waiting", "respond", "fail", "answered", "done"},
          endpoints : Seq(Endpoint), connectors : Seq(Info), iter : Nat, answers : 0 .. 1]]
    /\ link \in [Request -> [state : {"none", "starting", "holding", "active", "closed"},
                             info : Info \cup {NoInfo}, listed : BOOLEAN]]

(* The keys of _pending are factory.owners: the connectors of the requests *)
(* that are being established; factory.pending has those that wait.        *)
ConnectorsOf(infos) == {infos[i].connector : i \in DOMAIN infos}

ActiveOrHolding(l) == l.state \in {"holding", "active"}

(* findConnection(), by endpoint and by connector. *)
FindByEndpoint(r) ==
    \E k \in Request : link[k].listed /\ ActiveOrHolding(link[k]) /\ link[k].info.endpoint \in Range(Endpoints[r])

(* Mutant of FindByConnector: the connections are not looked up again. *)
FindNone(infos) == FALSE

FindByConnector(infos) ==
    \E k \in Request : /\ link[k].listed /\ ActiveOrHolding(link[k])
                       /\ link[k].info.connector \in ConnectorsOf(infos) \ factory.owners

Set(r, pc) == request' = [request EXCEPT ![r].pc = pc]

-----------------------------------------------------------------------------
(* createAsync(): findConnection(), or getConnectors() with                *)
(* incPendingConnectCount().                                               *)
CreateAsync(r) ==
    /\ request[r].pc = "none"
    /\ IF factory.destroyed \/ FindByEndpoint(r)
       THEN /\ request' = [request EXCEPT ![r].pc = "done", ![r].answers = @ + 1]
            /\ UNCHANGED factory
       ELSE /\ factory' = [factory EXCEPT !.count = @ + 1]
            /\ Set(r, "resolve")
    /\ UNCHANGED link

(* connectors() and exception(): the next endpoint is resolved, or not. *)
Resolve(r) ==
    LET c == request[r]
        e == Head(c.endpoints)
        found == [i \in DOMAIN Connectors[e] |-> [connector |-> Connectors[e][i], endpoint |-> e]]
    IN
    /\ c.pc = "resolve"
    /\ \E more \in {found, <<>>} :
         request' = [request EXCEPT ![r] = [c EXCEPT
           !.endpoints = Tail(@), !.connectors = @ \o more, !.iter = 1,
           !.pc = IF Len(c.endpoints) > 1 THEN "resolve"
                  ELSE IF c.connectors \o more = <<>> THEN "fail" ELSE "get"]]
    /\ UNCHANGED <<factory, link>>

(* getConnection() and addToPending(): wait for the connection attempts to *)
(* our connectors, or become responsible for them.                         *)
GetConnection(r) ==
    LET mine == ConnectorsOf(request[r].connectors) IN
    /\ request[r].pc = "get"
    /\ IF factory.destroyed THEN Set(r, "fail") /\ UNCHANGED factory
       ELSE IF FindByConnector(request[r].connectors) THEN Set(r, "respond") /\ UNCHANGED factory
       ELSE IF mine \cap factory.owners # {}
       THEN /\ factory' = [factory EXCEPT !.pending =
                 [c \in Connector |-> IF c \in mine \cap factory.owners THEN @[c] \cup {r} ELSE @[c]]]
            /\ Set(r, "waiting")
       ELSE /\ factory' = [factory EXCEPT !.owners = @ \cup mine]
            /\ Set(r, "next")
    /\ UNCHANGED link

-----------------------------------------------------------------------------
(* removeFromPending() of the requests rs, after the lists of cs are gone. *)
Erase(cs, rs) ==
    [factory EXCEPT !.owners = @ \ cs,
                    !.pending = [c \in Connector |-> IF c \in cs THEN {} ELSE @[c] \ rs]]

Waiters(cs) == UNION {factory.pending[c] : c \in cs}

(* finishGetConnection() with a connection: it goes to the requests that   *)
(* have its connector, the others try again.                               *)
FinishWithConnection(r) ==
    LET mine == ConnectorsOf(request[r].connectors)
        waiters == Waiters(mine)
        served == {r} \cup {w \in waiters : link[r].info.connector \in ConnectorsOf(request[w].connectors)}
    IN
    /\ factory' = Erase(mine, served \cup waiters)
    /\ request' = [w \in Request |->
         IF w \in served THEN [request[w] EXCEPT !.pc = "respond"]
         ELSE IF w \in waiters THEN [request[w] EXCEPT !.pc = "get"] ELSE request[w]]

(* removeConnectors(): what is left without the connectors cs, in order. *)
RemoveConnectors(infos, cs) ==
    LET keep == {i \in DOMAIN infos : infos[i].connector \notin cs}
        order == CHOOSE f \in [1 .. Cardinality(keep) -> keep] : \A i, j \in DOMAIN f : i < j => f[i] < f[j]
    IN
    [i \in 1 .. Cardinality(keep) |-> infos[order[i]]]

(* finishGetConnection() with an exception: the connectors are removed     *)
(* from the requests that wait; those that have none left fail too.        *)
FinishWithException(r) ==
    LET mine == ConnectorsOf(request[r].connectors)
        left(w) == RemoveConnectors(request[w].connectors, mine)
        waiters == Waiters(mine)
        failed == {w \in waiters : left(w) = <<>>}
    IN
    /\ factory' = Erase(mine, waiters \ failed)
    /\ request' = [w \in Request |->
         IF w = r THEN [request[w] EXCEPT !.pc = "fail"]
         ELSE IF w \in failed THEN [request[w] EXCEPT !.pc = "fail", !.connectors = <<>>]
         ELSE IF w \in waiters THEN [request[w] EXCEPT !.pc = "get", !.connectors = left(w)]
         ELSE request[w]]

(* connectionStartFailedImpl(): the next connector, unless the             *)
(* communicator is destroyed or the attempt timed out.                     *)
StartFailedImpl(r, ex) ==
    LET c == request[r]
        keepGoing == c.iter < Len(c.connectors) /\ ex = "other"
    IN
    IF keepGoing
    THEN request' = [request EXCEPT ![r] = [c EXCEPT !.iter = @ + 1, !.pc = "next"]] /\ UNCHANGED factory
    ELSE FinishWithException(r)

(* nextConnector(): connect() and createConnection(). *)
NextConnector(r) ==
    LET info == request[r].connectors[request[r].iter] IN
    /\ request[r].pc = "next"
    /\ \/ /\ ~factory.destroyed
          /\ link' = [link EXCEPT ![r] = [state |-> "starting", info |-> info, listed |-> TRUE]]
          /\ Set(r, "starting") /\ UNCHANGED factory
       \/ /\ factory.destroyed /\ StartFailedImpl(r, "destroyed") /\ UNCHANGED link
       \/ /\ "other" \in Failures /\ StartFailedImpl(r, "other") /\ UNCHANGED link

(* The connection is validated, and holding until it is activated. *)
Validate(r) ==
    /\ request[r].pc = "starting" /\ link[r].state = "starting"
    /\ link' = [link EXCEPT ![r].state = "holding"]
    /\ UNCHANGED <<factory, request>>

(* connectionStartCompleted(), called once the connection is validated,    *)
(* even if it was closed meanwhile.                                        *)
ConnectionStartCompleted(r) ==
    /\ request[r].pc = "starting" /\ link[r].state = "holding"
    /\ link' = [link EXCEPT ![r].state = "active"]
    /\ FinishWithConnection(r)

ConnectionStartCompletedClosed(r) ==
    /\ request[r].pc = "starting" /\ link[r].state = "closed"
    /\ FinishWithConnection(r)
    /\ UNCHANGED link

(* connectionStartFailed(). *)
ConnectionStartFailed(r) ==
    /\ request[r].pc = "starting"
    /\ \/ /\ link[r].state = "starting"
          /\ \E ex \in Failures : StartFailedImpl(r, ex)
          /\ link' = [link EXCEPT ![r].state = "closed"]
       \/ /\ link[r].state = "closed"
          /\ StartFailedImpl(r, "destroyed")
          /\ UNCHANGED link

(* The callback of the request is called. *)
Answer(r) ==
    /\ request[r].pc \in {"respond", "fail"}
    /\ request' = [request EXCEPT ![r].pc = "answered", ![r].answers = @ + 1]
    /\ UNCHANGED <<factory, link>>

(* decPendingConnectCount() *)
DecPendingConnectCount(r) ==
    /\ request[r].pc = "answered"
    /\ factory' = [factory EXCEPT !.count = @ - 1]
    /\ Set(r, "done")
    /\ UNCHANGED link

-----------------------------------------------------------------------------
(* The connection is closed by the application, the peer or a timeout. *)
Close(r) ==
    /\ link[r].state = "active"
    /\ link' = [link EXCEPT ![r].state = "closed"]
    /\ UNCHANGED <<factory, request>>

(* removeConnection(), when a connection is closed. *)
RemoveConnection(r) ==
    /\ link[r].state = "closed" /\ link[r].listed /\ ~factory.destroyed
    /\ link' = [link EXCEPT ![r].listed = FALSE]
    /\ UNCHANGED <<factory, request>>

(* destroy(): destroys the connections. *)
Destroy ==
    /\ ~factory.destroyed
    /\ factory' = [factory EXCEPT !.destroyed = TRUE]
    /\ link' = [k \in Request |-> IF link[k].state = "none" THEN link[k] ELSE [link[k] EXCEPT !.state = "closed"]]
    /\ UNCHANGED request

(* Mutant of WaitUntilFinished: does not wait for the pending connects. *)
WaitPending ==
    /\ ~factory.finished
    /\ factory.destroyed /\ factory.owners = {}
    /\ \A k \in Request : link[k].state \in {"none", "closed"}
    /\ factory' = [factory EXCEPT !.finished = TRUE]
    /\ link' = [k \in Request |-> [link[k] EXCEPT !.listed = FALSE]]
    /\ UNCHANGED request

(* waitUntilFinished() *)
WaitUntilFinished ==
    /\ ~factory.finished
    /\ factory.destroyed /\ factory.owners = {} /\ factory.count = 0
    /\ \A k \in Request : link[k].state \in {"none", "closed"}
    /\ factory' = [factory EXCEPT !.finished = TRUE]
    /\ link' = [k \in Request |-> [link[k] EXCEPT !.listed = FALSE]]
    /\ UNCHANGED request

-----------------------------------------------------------------------------
Init ==
    /\ factory = [destroyed |-> FALSE, finished |-> FALSE, count |-> 0, owners |-> {},
                  pending |-> [c \in Connector |-> {}]]
    /\ request = [r \in Request |-> [pc |-> "none", endpoints |-> Endpoints[r], connectors |-> <<>>,
                                     iter |-> 0, answers |-> 0]]
    /\ link = [r \in Request |-> [state |-> "none", info |-> NoInfo, listed |-> FALSE]]

Progress(r) ==
    \/ Resolve(r) \/ GetConnection(r) \/ NextConnector(r) \/ Validate(r) \/ ConnectionStartCompleted(r)
    \/ ConnectionStartCompletedClosed(r) \/ ConnectionStartFailed(r) \/ Answer(r) \/ DecPendingConnectCount(r)

Next ==
    \/ \E r \in Request : CreateAsync(r) \/ Progress(r) \/ Close(r) \/ RemoveConnection(r)
    \/ Destroy \/ WaitUntilFinished

Spec == Init /\ [][Next]_vars

-----------------------------------------------------------------------------
Establishing(r) == request[r].pc \in {"next", "starting"}

(* Nothing is tried twice at once: the connectors that are pending are     *)
(* those of the requests that establish a connection, each the business of *)
(* one of them.                                                            *)
OneAttempt ==
    /\ factory.owners = UNION {ConnectorsOf(request[r].connectors) : r \in {q \in Request : Establishing(q)}}
    /\ \A r, q \in Request :
         r # q /\ Establishing(r) /\ Establishing(q) =>
           ConnectorsOf(request[r].connectors) \cap ConnectorsOf(request[q].connectors) = {}

(* A request that waits is known to every attempt that it depends on, and  *)
(* only those that wait are in the lists.                                  *)
WaitersKnown ==
    \A r \in Request, c \in Connector :
      /\ r \in factory.pending[c] => request[r].pc = "waiting" /\ c \in factory.owners
      /\ request[r].pc = "waiting" => \E d \in ConnectorsOf(request[r].connectors) : r \in factory.pending[d]

(* At most one connection that can be used leads to a connector. *)
OneUsable ==
    \A r, q \in Request :
      r # q /\ ActiveOrHolding(link[r]) /\ ActiveOrHolding(link[q]) => link[r].info.connector # link[q].info.connector

(* The connections are shared, whatever endpoints the requests have in     *)
(* common: at most one that can be used leads to a connector, no connector *)
(* is tried by two requests at once, and a request that waits is known to  *)
(* the attempts that it waits for.                                         *)
OneConnection == TypeOK /\ OneUsable /\ OneAttempt /\ WaitersKnown

(* "This ensures that the communicator client thread pool isn't destroyed  *)
(* too soon": when waitUntilFinished() returns, every request has been     *)
(* answered, and the assertions of the destructor hold.                    *)
FinishedQuiet ==
    factory.finished =>
      /\ factory.count = 0 /\ factory.owners = {}
      /\ \A r \in Request : request[r].pc \in {"none", "done"} /\ ~link[r].listed
                            /\ (request[r].pc = "done" => request[r].answers = 1)

=============================================================================
