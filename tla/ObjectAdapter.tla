---------------------------- MODULE ObjectAdapter ----------------------------
(***************************************************************************)
(* The life of an object adapter and of its incoming connection factory:   *)
(* Ice/ObjectAdapterI.cpp, and IncomingConnectionFactory of                *)
(* Ice/ConnectionFactory.cpp.                                              *)
(*                                                                         *)
(* Threads call the operations of the adapter, each the list that Program  *)
(* gives it.  The adapter has one endpoint, and an id in the locator       *)
(* registry; the registry is called with the mutex free.                   *)
(***************************************************************************)
EXTENDS Naturals, Sequences, FiniteSets

CONSTANTS
    Caller,          \* the threads of the application
    Program,         \* the operations that each of them calls
    Conn,            \* connections that the factory may accept
    MaxConnections,  \* 0: no limit
    RegistryFails    \* whether the locator registry may fail

Operation == {"activate", "hold", "waitForHold", "deactivate", "waitForDeactivate", "destroy", "setPublishedEndpoints"}

(* What the constants have to be. *)
AdapterAssumption ==
    /\ Program \in [Caller -> Seq(Operation)]
    /\ IsFiniteSet(Conn) /\ MaxConnections \in Nat /\ RegistryFails \in BOOLEAN

VARIABLES
    adapter,   \* the members of ObjectAdapterI
    factory,   \* the members of IncomingConnectionFactory
    conn,      \* the connections
    registry,  \* what the locator registry has for the adapter
    caller     \* the threads

avars == <<adapter, factory, conn, registry, caller>>

States == <<"uninitialized", "held", "activating", "active", "deactivating", "deactivated", "destroying", "destroyed">>
Rank(s) == CHOOSE i \in DOMAIN States : States[i] = s
AtLeast(s) == Rank(adapter.state) >= Rank(s)

(* The published endpoints: those of the configuration, or of a caller. *)
Published == {"configured"} \cup Caller
None == "none"

ATypeOK ==
    /\ adapter.state \in {States[i] : i \in DOMAIN States} /\ adapter.directCount \in Nat
    /\ adapter.published \in Published
    /\ factory \in [state : {"holding", "active", "closed", "finished"}, acceptorStarted : BOOLEAN]
    /\ conn \in [Conn -> [state : {"none", "starting", "holding", "active", "closing", "closed"},
                          started : BOOLEAN, listed : BOOLEAN]]
    /\ registry \in Published \cup {None}
    /\ caller \in [Caller ->
         [todo : Seq(Operation), proxy : Published \cup {None}, old : Published \cup {None},
          waiting : SUBSET Conn,  \* the connections that the thread still waits for
          pc : {"idle", "proxy", "register", "failed", "activated", "unregister", "closeFactories",
                "closedFactories", "deactivated", "waitFactories", "waitConnections", "waitHolding",
                "connectionsHolding", "destroying", "cleanup", "asserted"}]]

-----------------------------------------------------------------------------
(* IncomingConnectionFactory::setState() *)
(* Mutant of FactoryActivate: the connections are forgotten. *)
FactoryActivateAlone ==
    IF factory.state # "holding" THEN UNCHANGED <<factory, conn>>
    ELSE factory' = [factory EXCEPT !.state = "active"] /\ UNCHANGED conn

FactoryActivate ==
    IF factory.state # "holding" THEN UNCHANGED <<factory, conn>>
    ELSE /\ factory' = [factory EXCEPT !.state = "active"]
         /\ conn' = [k \in Conn |-> IF conn[k].listed /\ conn[k].state = "holding"
                                    THEN [conn[k] EXCEPT !.state = "active"] ELSE conn[k]]

FactoryHold ==
    IF factory.state # "active" THEN UNCHANGED <<factory, conn>>
    ELSE /\ factory' = [factory EXCEPT !.state = "holding"]
         /\ conn' = [k \in Conn |-> IF conn[k].listed /\ conn[k].state = "active"
                                    THEN [conn[k] EXCEPT !.state = "holding"] ELSE conn[k]]

FactoryDestroy ==
    IF factory.state \in {"closed", "finished"} THEN UNCHANGED <<factory, conn>>
    ELSE /\ factory' = [state |-> IF factory.acceptorStarted THEN "closed" ELSE "finished",
                        acceptorStarted |-> FALSE]
         /\ conn' = [k \in Conn |-> IF conn[k].listed /\ conn[k].state # "closed"
                                    THEN [conn[k] EXCEPT !.state = "closing"] ELSE conn[k]]

(* message(): a connection is accepted, or rejected at the limit. *)
Accept(k) ==
    /\ factory.state = "active" /\ factory.acceptorStarted
    /\ conn[k].state = "none"
    /\ IF MaxConnections > 0 /\ Cardinality({c \in Conn : conn[c].listed}) = MaxConnections
       THEN conn' = [conn EXCEPT ![k].state = "closed"]
       ELSE conn' = [conn EXCEPT ![k] = [state |-> "starting", started |-> FALSE, listed |-> TRUE]]
    /\ UNCHANGED <<adapter, factory, registry, caller>>

(* The connection is validated, and holding. *)
Validate(k) ==
    /\ conn[k].state = "starting"
    /\ conn' = [conn EXCEPT ![k].state = "holding"]
    /\ UNCHANGED <<adapter, factory, registry, caller>>

(* connectionStartCompleted() *)
ConnectionStartCompleted(k) ==
    /\ conn[k].state \in {"holding", "active"} /\ ~conn[k].started
    /\ conn' = [conn EXCEPT ![k].started = TRUE, ![k].state = IF factory.state = "active" THEN "active" ELSE @]
    /\ UNCHANGED <<adapter, factory, registry, caller>>

(* The connection is closed: by the peer, by a failure, or after destroy(). *)
ConnectionClosed(k) ==
    /\ conn[k].state \in {"starting", "holding", "active", "closing"}
    /\ conn' = [conn EXCEPT ![k].state = "closed"]
    /\ UNCHANGED <<adapter, factory, registry, caller>>

(* removeConnection() *)
RemoveConnection(k) ==
    /\ conn[k].listed /\ conn[k].state = "closed" /\ factory.state \in {"active", "holding"}
    /\ conn' = [conn EXCEPT ![k].listed = FALSE]
    /\ UNCHANGED <<adapter, factory, registry, caller>>

(* finished(), called by the thread pool. *)
FactoryFinished ==
    /\ factory.state = "closed"
    /\ factory' = [factory EXCEPT !.state = "finished"]
    /\ UNCHANGED <<adapter, conn, registry, caller>>

-----------------------------------------------------------------------------
(* The threads: c goes on at pc, or ends the operation. *)
At(c, op, pc) == caller[c].todo # <<>> /\ Head(caller[c].todo) = op /\ caller[c].pc = pc
Goto(c, pc) == caller' = [caller EXCEPT ![c].pc = pc]
Done(c) == caller' = [caller EXCEPT ![c].pc = "idle", ![c].todo = Tail(@), 
                                           ![c].proxy = None, ![c].old = None, ![c].waiting = {}]

SetState(s) == adapter' = [adapter EXCEPT !.state = s]

(* activate() throws, only activates the factory, or initializes. *)
Activate(c) ==
    /\ At(c, "activate", "idle")
    /\ IF AtLeast("deactivating") THEN Done(c) /\ UNCHANGED <<adapter, factory, conn>>
       ELSE IF adapter.state # "uninitialized"
       THEN FactoryActivate /\ SetState("active") /\ Done(c)
       ELSE SetState("activating") /\ Goto(c, "proxy") /\ UNCHANGED <<factory, conn>>
    /\ UNCHANGED registry

(* createDirectProxy() *)
CreateDirectProxy(c) ==
    /\ caller[c].pc = "proxy"
    /\ IF AtLeast("destroying") THEN Goto(c, "failed")
       ELSE caller' = [caller EXCEPT ![c].pc = "register", ![c].proxy = adapter.published]
    /\ UNCHANGED <<adapter, factory, conn, registry>>

(* updateLocatorRegistry() with the endpoints. *)
Register(c) ==
    /\ caller[c].pc = "register"
    /\ \/ /\ registry' = caller[c].proxy
          /\ IF Head(caller[c].todo) = "activate" THEN Goto(c, "activated") ELSE Done(c)
       \/ /\ RegistryFails /\ Goto(c, "failed") /\ UNCHANGED registry
    /\ UNCHANGED <<adapter, factory, conn>>

ActivateFailed(c) ==
    /\ At(c, "activate", "failed")
    /\ SetState("uninitialized") /\ Done(c)
    /\ UNCHANGED <<factory, conn, registry>>

(* The end of activate(); its assertion fails when another thread has      *)
(* changed the state.                                                      *)
Activated(c) ==
    /\ At(c, "activate", "activated")
    /\ IF adapter.state = "activating"
       THEN FactoryActivate /\ SetState("active") /\ Done(c)
       ELSE Goto(c, "asserted") /\ UNCHANGED <<adapter, factory, conn>>
    /\ UNCHANGED registry

Hold(c) ==
    /\ At(c, "hold", "idle") /\ Done(c)
    /\ IF AtLeast("deactivating") THEN UNCHANGED <<adapter, factory, conn>>
       ELSE SetState("held") /\ FactoryHold
    /\ UNCHANGED registry

(* waitForHold(): the factory, then its connections. *)
WaitForHold(c) ==
    /\ At(c, "waitForHold", "idle")
    /\ IF AtLeast("deactivating") THEN Done(c) ELSE Goto(c, "waitHolding")
    /\ UNCHANGED <<adapter, factory, conn, registry>>

Listed == {k \in Conn : conn[k].listed}

WaitUntilHolding(c) ==
    /\ caller[c].pc = "waitHolding" /\ factory.state # "active"
    /\ caller' = [caller EXCEPT ![c].pc = "connectionsHolding", ![c].waiting = Listed]
    /\ UNCHANGED <<adapter, factory, conn, registry>>

(* ConnectionI::waitUntilHolding(), of one connection after the other. *)
ConnectionsHolding(c) ==
    /\ caller[c].pc = "connectionsHolding"
    /\ \/ /\ caller[c].waiting = {} /\ Done(c)
       \/ \E k \in caller[c].waiting :
            /\ conn[k].state \notin {"starting", "active"}
            /\ caller' = [caller EXCEPT ![c].waiting = @ \ {k}]
    /\ UNCHANGED <<adapter, factory, conn, registry>>

(* deactivate() waits for an activation, and for another deactivation. *)
Deactivate(c) ==
    /\ At(c, "deactivate", "idle") \/ At(c, "destroy", "idle")
    /\ adapter.state \notin {"activating", "deactivating"}
    /\ IF AtLeast("deactivated")
       THEN /\ IF Head(caller[c].todo) = "deactivate" THEN Done(c) ELSE Goto(c, "deactivated")
            /\ UNCHANGED adapter
       ELSE SetState("deactivating") /\ Goto(c, "unregister")
    /\ UNCHANGED <<factory, conn, registry>>

(* Mutant of Unregister: the registry is left alone. *)
UnregisterSkipped(c) ==
    /\ caller[c].pc = "unregister" /\ Goto(c, "closeFactories")
    /\ UNCHANGED <<adapter, factory, conn, registry>>

(* updateLocatorRegistry() without endpoints; a failure is ignored. *)
Unregister(c) ==
    /\ caller[c].pc = "unregister"
    /\ \/ registry' = None
       \/ RegistryFails /\ UNCHANGED registry
    /\ Goto(c, "closeFactories")
    /\ UNCHANGED <<adapter, factory, conn>>

CloseFactories(c) ==
    /\ caller[c].pc = "closeFactories"
    /\ FactoryDestroy /\ Goto(c, "closedFactories")
    /\ UNCHANGED <<adapter, registry>>

Deactivated(c) ==
    /\ caller[c].pc = "closedFactories"
    /\ SetState("deactivated")
    /\ IF Head(caller[c].todo) = "deactivate" THEN Done(c) ELSE Goto(c, "deactivated")
    /\ UNCHANGED <<factory, conn, registry>>

(* waitForDeactivate() *)
WaitForDeactivate(c) ==
    /\ At(c, "waitForDeactivate", "idle") \/ At(c, "destroy", "deactivated")
    /\ AtLeast("deactivated") /\ adapter.directCount = 0
    /\ IF AtLeast("destroying")
       THEN IF Head(caller[c].todo) = "destroy" THEN Goto(c, "destroying") ELSE Done(c)
       ELSE Goto(c, "waitFactories")
    /\ UNCHANGED <<adapter, factory, conn, registry>>

(* IncomingConnectionFactory::waitUntilFinished() *)
WaitUntilFinished(c) ==
    /\ caller[c].pc = "waitFactories" /\ factory.state = "finished"
    /\ caller' = [caller EXCEPT ![c].pc = "waitConnections", ![c].waiting = Listed]
    /\ UNCHANGED <<adapter, factory, conn, registry>>

WaitConnections(c) ==
    /\ caller[c].pc = "waitConnections"
    /\ \A k \in caller[c].waiting : conn[k].state = "closed"
    /\ conn' = [k \in Conn |-> [conn[k] EXCEPT !.listed = FALSE]]
    /\ IF Head(caller[c].todo) = "destroy"
       THEN caller' = [caller EXCEPT ![c].pc = "destroying", ![c].waiting = {}] ELSE Done(c)
    /\ UNCHANGED <<adapter, factory, registry>>

(* destroy(): one thread destroys, the others wait for it. *)
Destroy(c) ==
    /\ At(c, "destroy", "destroying") /\ adapter.state # "destroying"
    /\ IF adapter.state = "destroyed" THEN Done(c) /\ UNCHANGED adapter
       ELSE SetState("destroying") /\ Goto(c, "cleanup")
    /\ UNCHANGED <<factory, conn, registry>>

(* The servants and the thread pool are destroyed, the members cleared. *)
Cleanup(c) ==
    /\ caller[c].pc = "cleanup"
    /\ SetState("destroyed") /\ Done(c)
    /\ UNCHANGED <<factory, conn, registry>>

(* setPublishedEndpoints() *)
SetPublishedEndpoints(c) ==
    /\ At(c, "setPublishedEndpoints", "idle")
    /\ IF AtLeast("deactivating") THEN Done(c) /\ UNCHANGED adapter
       ELSE /\ adapter' = [adapter EXCEPT !.published = c]
            /\ caller' = [caller EXCEPT ![c].pc = "proxy", ![c].old = adapter.published]
    /\ UNCHANGED <<factory, conn, registry>>

SetPublishedFailed(c) ==
    /\ At(c, "setPublishedEndpoints", "failed")
    /\ adapter' = [adapter EXCEPT !.published = caller[c].old]
    /\ Done(c)
    /\ UNCHANGED <<factory, conn, registry>>

-----------------------------------------------------------------------------
AInit ==
    /\ adapter = [state |-> "uninitialized", directCount |-> 0, published |-> "configured"]
    /\ factory = [state |-> "holding", acceptorStarted |-> TRUE]
    /\ conn = [k \in Conn |-> [state |-> "none", started |-> FALSE, listed |-> FALSE]]
    /\ registry = None
    /\ caller = [c \in Caller |-> [todo |-> Program[c], proxy |-> None, old |-> None,
                                waiting |-> {}, pc |-> "idle"]]

Call(c) ==
    \/ Activate(c) \/ CreateDirectProxy(c) \/ Register(c) \/ ActivateFailed(c) \/ Activated(c)
    \/ Hold(c) \/ WaitForHold(c) \/ WaitUntilHolding(c) \/ ConnectionsHolding(c)
    \/ Deactivate(c) \/ Unregister(c) \/ CloseFactories(c) \/ Deactivated(c)
    \/ WaitForDeactivate(c) \/ WaitUntilFinished(c) \/ WaitConnections(c) \/ Destroy(c) \/ Cleanup(c)
    \/ SetPublishedEndpoints(c) \/ SetPublishedFailed(c)

Connections ==
    \E k \in Conn : \/ Accept(k) \/ Validate(k) \/ ConnectionStartCompleted(k)
                    \/ ConnectionClosed(k) \/ RemoveConnection(k)

ANext == (\E c \in Caller : Call(c)) \/ Connections \/ FactoryFinished

ASpec == AInit /\ [][ANext]_avars

-----------------------------------------------------------------------------
Quiet == \A c \in Caller : caller[c].pc = "idle"

(* The connections follow the factory, whatever it does while they are     *)
(* being validated: none dispatches while the factory holds or is closed,  *)
(* and none that has started is left holding while it is active.           *)
ConnectionsFollow ==
    \A k \in Conn : conn[k].listed =>
      /\ conn[k].state = "active" => factory.state = "active"
      /\ conn[k].state = "holding" /\ conn[k].started => factory.state = "holding"

(* Nothing is left when the adapter is destroyed: the factory has          *)
(* finished, and no connection is known or will be accepted.               *)
DestroyedQuiet ==
    AtLeast("destroying") =>
      factory.state = "finished" /\ \A k \in Conn : ~conn[k].listed /\ conn[k].state \in {"none", "closed"}

(* The factory keeps to the maximum number of connections, those that are  *)
(* closed and not yet removed included.                                    *)
WithinMaximum == MaxConnections > 0 => Cardinality({k \in Conn : conn[k].listed}) <= MaxConnections

(* "This is necessary to avoid out of order locator updates": once an      *)
(* adapter is deactivated, the registry does not have its endpoints.       *)
Unregistered == Quiet /\ AtLeast("deactivated") => registry = None

(* "Set state to StateActivating to prevent deactivation from other        *)
(* threads while these one off initializations are done": the assertion at *)
(* the end of activate() holds.                                            *)
ActivatesAlone == \A c \in Caller : caller[c].pc # "asserted"

(* An adapter that has been activated is known to the registry. *)
ActiveRegistered == Quiet /\ adapter.state = "active" => registry # None

=============================================================================
