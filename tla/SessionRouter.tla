---------------------------- MODULE SessionRouter ----------------------------
(***************************************************************************)
(* The sessions of a Glacier2 router: Glacier2/SessionRouterI.cpp, with    *)
(* the part of Glacier2/RouterI.cpp that ends a session.                   *)
(*                                                                         *)
(* A create is a CreateSession object: one call of createSession() or of   *)
(* createSessionFromSecureConnection(), which do the same with other       *)
(* verifiers and managers.  It makes at most one session, of the same      *)
(* name.  A step is what a thread does under the mutex of the router, or   *)
(* between two such sections.  The verifier and the session manager are    *)
(* external: they answer, or fail, at any time.  An iterator that          *)
(* SessionRouterI keeps is the key it points to, None for end().           *)
(***************************************************************************)
EXTENDS Naturals, Sequences, FiniteSets

CONSTANTS
    Create,  \* the calls that create a session
    Conn,    \* the connections of the clients
    Managed  \* a session manager and the server object adapter are configured

None == "none"

SessionRouterAssumption ==
    None \notin Create \cup Conn /\ Managed \in BOOLEAN

VARIABLES
    router,   \* the members of SessionRouterI, and the routers being destroyed
    create,   \* the CreateSession objects
    session,  \* the application's session of each create
    control,  \* the dispatch of SessionControl::destroy()
    conn      \* the connections

vars == <<router, create, session, control, conn>>

Working == {"authorize", "creating", "created", "failing"}  \* those that own the pending entry

TypeOK ==
    /\ router \in [destroyed : BOOLEAN, byConnection : [Conn -> Create \cup {None}], byCategory : SUBSET Create,
                   pending : [Conn -> Create \cup {None}], hint : Conn \cup {None}, categoryHint : Create \cup {None},
                   controls : SUBSET Create, doomed : SUBSET Create]
    /\ create \in [Create -> [con : Conn, pc : Working \cup {"new", "queued", "registered", "refused", "failed", "callbacks", "end"},
                              callbacks : Seq(Create), answer : {"none", "ok", "failed", "twice"}]]
    /\ session \in [Create -> {"none", "alive", "destroyed", "twice"}]
    /\ control \in [Create -> {"none", "located", "close", "done"}]
    /\ conn \in [Conn -> [state : {"open", "closing", "closed"}, callback : BOOLEAN, due : 0 .. Cardinality(Create)]]

Registered == {router.byConnection[k] : k \in Conn} \ {None}

-----------------------------------------------------------------------------
(* RouterI::destroy() of the routers in set R. *)
DestroyedSessions(R) ==
    [c \in Create |-> IF c \notin R \/ session[c] = "none" THEN session[c]
                      ELSE IF session[c] = "alive" THEN "destroyed" ELSE "twice"]

Answered(c, r) == IF create[c].answer = "none" THEN r ELSE "twice"

(* create() of c, with startCreateSession(): it is refused, waits for the  *)
(* one that is pending, or is the one.                                     *)
Start(cs, c) ==
    LET k == create[c].con
    IN  \/ /\ router.destroyed \/ router.byConnection[k] # None
           /\ create' = [cs EXCEPT ![c].pc = "end", ![c].answer = Answered(c, "failed")]
           /\ UNCHANGED router
        \/ /\ ~router.destroyed /\ router.byConnection[k] = None /\ router.pending[k] # None
           /\ create' = [cs EXCEPT ![router.pending[k]].callbacks = Append(@, c), ![c].pc = "queued"]
           /\ UNCHANGED router
        \/ /\ ~router.destroyed /\ router.byConnection[k] = None /\ router.pending[k] = None
           /\ create' = [cs EXCEPT ![c].pc = "authorize"]
           /\ router' = [router EXCEPT !.pending[k] = c]

CreateSession(c) ==
    /\ create[c].pc = "new" /\ conn[create[c].con].state = "open"
    /\ Start(create, c)
    /\ UNCHANGED <<session, control, conn>>

(* The verifier refuses or fails: checkPermissionsResponse(),              *)
(* checkPermissionsException() and those of the secure connection, or      *)
(* authorize() has thrown.                                                 *)
CheckPermissionsFails(c) ==
    /\ create[c].pc = "authorize"
    /\ create' = [create EXCEPT ![c].pc = "failing"]
    /\ UNCHANGED <<router, session, control, conn>>

(* authorized(): the manager is asked for a session, if there is one. *)
Authorized(c) ==
    /\ create[c].pc = "authorize"
    /\ create' = [create EXCEPT ![c].pc = IF Managed THEN "creating" ELSE "created"]
    /\ router' = IF Managed THEN [router EXCEPT !.controls = @ \cup {c}] ELSE router
    /\ UNCHANGED <<session, control, conn>>

(* sessionCreated() up to finishCreateSession().  No RouterI can be made   *)
(* when the object adapter has been destroyed, after the router.           *)
SessionCreated(c) ==
    /\ create[c].pc = "creating"
    /\ \/ /\ create' = [create EXCEPT ![c].pc = "created"]
          /\ session' = [session EXCEPT ![c] = "alive"]
       \/ /\ router.destroyed
          /\ create' = [create EXCEPT ![c].pc = "failing"]
          /\ session' = [session EXCEPT ![c] = "destroyed"]
    /\ UNCHANGED <<router, control, conn>>

(* The manager returns no session, or fails: createException().            *)
CreateException(c) ==
    /\ create[c].pc = "creating"
    /\ create' = [create EXCEPT ![c].pc = "failing"]
    /\ UNCHANGED <<router, session, control, conn>>

(* setCloseCallback() of connection k. *)
SetCloseCallback(k) ==
    conn' = IF conn[k].state = "closed" THEN [conn EXCEPT ![k].due = @ + 1] ELSE [conn EXCEPT ![k].callback = TRUE]

(* Mutant of FinishCreateSession: the router is not looked at again. *)
FinishAnyway(c) ==
    LET k == create[c].con
    IN  /\ create[c].pc = "created"
        /\ create' = [create EXCEPT ![c].pc = "registered"]
        /\ router' = [router EXCEPT !.pending[k] = None, !.byConnection[k] = c, !.hint = k,
                        !.byCategory = IF Managed THEN @ \cup {c} ELSE @,
                        !.categoryHint = IF Managed THEN c ELSE @]
        /\ SetCloseCallback(k)
        /\ UNCHANGED <<session, control>>

(* finishCreateSession() with a router. *)
FinishCreateSession(c) ==
    LET k == create[c].con
    IN  /\ create[c].pc = "created"
        /\ \/ /\ router.destroyed
              /\ create' = [create EXCEPT ![c].pc = "refused"]
              /\ router' = [router EXCEPT !.pending[k] = None, !.controls = @ \ {c}]
              /\ session' = DestroyedSessions({c})
              /\ UNCHANGED conn
           \/ /\ ~router.destroyed
              /\ create' = [create EXCEPT ![c].pc = "registered"]
              /\ router' = [router EXCEPT !.pending[k] = None, !.byConnection[k] = c, !.hint = k,
                              !.byCategory = IF Managed THEN @ \cup {c} ELSE @,
                              !.categoryHint = IF Managed THEN c ELSE @]
              /\ SetCloseCallback(k)
              /\ UNCHANGED session
        /\ UNCHANGED control

(* finished(), and in exception() the removal of the control. *)
Finished(c) ==
    /\ create[c].pc \in {"registered", "refused", "failed"}
    /\ create' = [create EXCEPT ![c].pc = "callbacks",
                    ![c].answer = Answered(c, IF create[c].pc = "registered" THEN "ok" ELSE "failed")]
    /\ router' = IF create[c].pc = "failed" THEN [router EXCEPT !.controls = @ \ {c}] ELSE router
    /\ UNCHANGED <<session, control, conn>>

(* finishCreateSession() without a router, in exception(). *)
Exception(c) ==
    /\ create[c].pc = "failing"
    /\ create' = [create EXCEPT ![c].pc = "failed"]
    /\ router' = [router EXCEPT !.pending[create[c].con] = None]
    /\ UNCHANGED <<session, control, conn>>

(* The calls that waited are started again, one after the other. *)
RunPendingCallback(c) ==
    /\ create[c].pc = "callbacks"
    /\ IF create[c].callbacks = <<>>
       THEN create' = [create EXCEPT ![c].pc = "end"] /\ UNCHANGED router
       ELSE Start([create EXCEPT ![c].callbacks = Tail(@)], Head(create[c].callbacks))
    /\ UNCHANGED <<session, control, conn>>

-----------------------------------------------------------------------------
(* The section of destroySession() that takes the router of connection k   *)
(* out.  The iterator goes to the next entry of the map, or to its end:    *)
(* the order of the connections is that of their addresses.                *)
Removed(k) ==
    {[router EXCEPT !.byConnection[k] = None, !.doomed = @ \cup {router.byConnection[k]},
                    !.byCategory = @ \ {router.byConnection[k]},
                    !.categoryHint = IF Managed THEN None ELSE @,
                    !.hint = next] : next \in {None} \cup {j \in Conn \ {k} : router.byConnection[j] # None}}

DestroySession(k) ==
    IF router.destroyed \/ router.byConnection[k] = None THEN UNCHANGED router ELSE router' \in Removed(k)

(* destroySession() of a client. *)
ClientDestroysSession(k) ==
    /\ conn[k].state = "open" /\ router.byConnection[k] # None
    /\ DestroySession(k)
    /\ UNCHANGED <<create, session, control, conn>>

(* The close callback. *)
CloseCallback(k) ==
    /\ conn[k].due > 0
    /\ conn' = [conn EXCEPT ![k].due = @ - 1]
    /\ DestroySession(k)
    /\ UNCHANGED <<create, session, control>>

(* SessionControl::destroy(), called by the application: the servant is    *)
(* found, the session destroyed, the connection closed.  It ends with an   *)
(* exception once the router is destroyed.                                 *)
ControlLocated(c) ==
    /\ c \in router.controls /\ control[c] = "none"
    /\ control' = [control EXCEPT ![c] = "located"]
    /\ UNCHANGED <<router, create, session, conn>>

ControlDestroys(c) ==
    /\ control[c] = "located"
    /\ DestroySession(create[c].con)
    /\ control' = [control EXCEPT ![c] = IF router.destroyed THEN "done" ELSE "close"]
    /\ UNCHANGED <<create, session, conn>>

ControlCloses(c) ==
    /\ control[c] = "close"
    /\ control' = [control EXCEPT ![c] = "done"]
    /\ conn' = IF conn[create[c].con].state = "open" THEN [conn EXCEPT ![create[c].con].state = "closing"] ELSE conn
    /\ UNCHANGED <<router, create, session>>

(* SessionRouterI::destroy(). *)
Destroy ==
    /\ ~router.destroyed
    /\ router' = [router EXCEPT !.destroyed = TRUE, !.doomed = @ \cup Registered, !.hint = None, !.categoryHint = None,
                    !.byConnection = [k \in Conn |-> None], !.byCategory = {}]
    /\ UNCHANGED <<create, session, control, conn>>

(* RouterI::destroy(), called without the mutex. *)
RouterDestroyed(c) ==
    /\ c \in router.doomed
    /\ router' = [router EXCEPT !.doomed = @ \ {c}, !.controls = @ \ {c}]
    /\ session' = DestroyedSessions({c})
    /\ UNCHANGED <<create, control, conn>>

-----------------------------------------------------------------------------
Closed(k) ==
    conn' = [conn EXCEPT ![k].state = "closed", ![k].callback = FALSE, ![k].due = IF conn[k].callback THEN @ + 1 ELSE @]

(* The client, or the end of a graceful closure, closes the connection. *)
ConnectionCloses(k) ==
    conn[k].state # "closed" /\ Closed(k) /\ UNCHANGED <<router, create, session, control>>

(* A request of the client: getRouterImpl() finds its router, or aborts    *)
(* the connection (the operations of Router only fail).                    *)
ClientRequest(k) ==
    /\ conn[k].state = "open" /\ ~router.destroyed
    /\ IF router.byConnection[k] # None
       THEN router' = [router EXCEPT !.hint = k] /\ UNCHANGED conn
       ELSE Closed(k) /\ UNCHANGED router
    /\ UNCHANGED <<create, session, control>>

(* A request of a server for the client: getServerBlobject(). *)
ServerRequest(c) ==
    /\ c \in router.byCategory
    /\ router' = [router EXCEPT !.categoryHint = c]
    /\ UNCHANGED <<create, session, control, conn>>

-----------------------------------------------------------------------------
Init ==
    /\ router = [destroyed |-> FALSE, byConnection |-> [k \in Conn |-> None], byCategory |-> {},
                 pending |-> [k \in Conn |-> None], hint |-> None, categoryHint |-> None,
                 controls |-> {}, doomed |-> {}]
    /\ create \in [Create -> [con : Conn, pc : {"new"}, callbacks : {<<>>}, answer : {"none"}]]
    /\ session = [c \in Create |-> "none"]
    /\ control = [c \in Create |-> "none"]
    /\ conn = [k \in Conn |-> [state |-> "open", callback |-> FALSE, due |-> 0]]

Next ==
    \/ Destroy
    \/ \E c \in Create :
         \/ CreateSession(c) \/ CheckPermissionsFails(c) \/ Authorized(c) \/ SessionCreated(c)
         \/ CreateException(c) \/ FinishCreateSession(c) \/ Finished(c) \/ Exception(c) \/ RunPendingCallback(c) \/ RouterDestroyed(c)
         \/ ControlLocated(c) \/ ControlDestroys(c) \/ ControlCloses(c) \/ ServerRequest(c)
    \/ \E k \in Conn : ClientDestroysSession(k) \/ CloseCallback(k) \/ ConnectionCloses(k) \/ ClientRequest(k)

Spec == Init /\ [][Next]_vars

-----------------------------------------------------------------------------
(* The calls on a connection are serialized: one at a time creates a       *)
(* session, and none while the connection has one.                         *)
OneSession ==
    \A k \in Conn :
      LET working == {c \in Create : create[c].con = k /\ create[c].pc \in Working}
      IN  /\ working = {router.pending[k]} \ {None}
          /\ router.byConnection[k] # None => working = {}

(* A call is answered once, and one that waits for another is started      *)
(* again by it, whichever way that one ends.                               *)
CallsAnswered ==
    \A c \in Create :
      /\ create[c].answer # "twice" /\ (create[c].pc = "end" => create[c].answer # "none")
      /\ create[c].pc = "queued" =>
           \E d \in Create : create[d].pc # "end" /\ \E i \in DOMAIN create[d].callbacks : create[d].callbacks[i] = c

(* No session of the application, and no control, outlives its connection  *)
(* and the router: it is being created, or registered with a close         *)
(* callback to come, or being destroyed, and it is destroyed once.         *)
NoSessionLeft ==
    /\ \A c \in Create :
         /\ session[c] # "twice"
         /\ session[c] = "alive" => c \in Registered \cup router.doomed \/ create[c].pc = "created"
         /\ c \in router.controls =>
              c \in Registered \cup router.doomed \/ create[c].pc \in {"creating", "created", "failing", "failed"}
    /\ \A k \in Conn :
         router.byConnection[k] # None => ~router.destroyed /\ (conn[k].callback \/ conn[k].due > 0)

(* The two maps have the same routers, and the iterators that are kept     *)
(* point into them.                                                        *)
MapsAgree ==
    /\ Managed => router.byCategory = Registered
    /\ router.hint # None => router.byConnection[router.hint] # None
    /\ router.categoryHint # None => router.categoryHint \in router.byCategory
=============================================================================
