------------------------------ MODULE MCDispatch ------------------------------
(***************************************************************************)
(* What a server runs between its connections and its servants: the thread *)
(* pool (ThreadPool), the object adapters with their incoming connections  *)
(* (ObjectAdapter) and the collocated calls (CollocatedRequestHandler).    *)
(* The pool shares no state with the others: a behaviour explores the      *)
(* instance that part names.  The constants of ThreadPool are those of the *)
(* serialized one.                                                         *)
(***************************************************************************)
EXTENDS ThreadPool

VARIABLES
    part,
    adapter, factory, conn, registry, caller,  \* ObjectAdapter
    request, asserted                          \* CollocatedRequestHandler

callVars == <<request, asserted>>
adapterVars == <<adapter, factory, conn, registry, caller>>
allVars == <<part, vars, adapterVars, callVars>>

Symmetry == Permutations(Thread) \cup Permutations(Handler)

(* Two threads, that grow to three and shrink. *)
Threads == INSTANCE ThreadPool WITH
    Serialize <- FALSE, ThreadIdleTime <- TRUE, Arrivals <- 1

(* Threads activate, deactivate and destroy one adapter. *)
Life == INSTANCE ObjectAdapter WITH
    Caller <- {"c1", "c2", "c3", "c4"}, Conn <- {"k1"}, MaxConnections <- 0, RegistryFails <- FALSE,
    Program <- [c1 |-> <<"activate">>, c2 |-> <<"deactivate", "activate">>,
                c3 |-> <<"waitForDeactivate", "destroy">>, c4 |-> <<"destroy", "hold">>]

(* The adapter holds, goes on and is destroyed, while connections come and *)
(* go.                                                                     *)
Accepting == INSTANCE ObjectAdapter WITH
    Caller <- {"c1", "c2"}, Conn <- {"k1", "k2", "k3"}, MaxConnections <- 2, RegistryFails <- TRUE,
    Program <- [c1 |-> <<"activate", "hold", "waitForHold", "activate">>, c2 |-> <<"destroy">>]

(* The published endpoints are set while the adapter is activated. *)
Publishing == INSTANCE ObjectAdapter WITH
    Caller <- {"c1", "c2"}, Conn <- {"k1"}, MaxConnections <- 0, RegistryFails <- TRUE,
    Program <- [c1 |-> <<"activate">>, c2 |-> <<"setPublishedEndpoints", "setPublishedEndpoints">>]

(* Calls race with their cancellation and with deactivation. *)
Collocated == INSTANCE CollocatedRequestHandler WITH
    Caller <- {"c1"}, Conn <- {}, MaxConnections <- 0, RegistryFails <- FALSE,
    Program <- [c1 |-> <<"activate", "deactivate", "waitForDeactivate">>],
    Twoway <- {"r1", "r2"}, Batch <- {"b1"}, BatchCount <- 2

ASSUME /\ Threads!ThreadPoolAssumption
       /\ Life!AdapterAssumption /\ Accepting!AdapterAssumption /\ Publishing!AdapterAssumption
       /\ Collocated!AdapterAssumption /\ Collocated!CollocatedAssumption

(* The pools of both instances have the same initial states. *)
SuiteInit ==
    /\ Init
    /\ \/ part = "accepting" /\ Accepting!AInit
       \/ part = "publishing" /\ Publishing!AInit
       \/ part = "collocated" /\ Collocated!AInit
       \/ part \in {"threads", "serialized", "life"} /\ Life!AInit
    /\ Collocated!CallsInit

PoolNext ==
    /\ \/ part = "threads" /\ Threads!Next
       \/ part = "serialized" /\ Next
    /\ UNCHANGED <<part, adapterVars, callVars>>

AdapterNext ==
    /\ \/ part = "life" /\ Life!ANext
       \/ part = "accepting" /\ Accepting!ANext
       \/ part = "publishing" /\ Publishing!ANext
    /\ UNCHANGED <<part, vars, callVars>>

CollocatedNext == part = "collocated" /\ Collocated!CNext /\ UNCHANGED <<part, vars>>

SuiteNext == PoolNext \/ AdapterNext \/ CollocatedNext
Suite == SuiteInit /\ [][SuiteNext]_allVars

-----------------------------------------------------------------------------
(* Two threads never read from one handler at once, since nobody selects   *)
(* while a thread does IO; with Serialize, nor do they dispatch for it at  *)
(* once.                                                                   *)
ReadersApart ==
    /\ part = "threads" => Threads!TypeOK /\ Threads!OneReader
    /\ part = "serialized" => OneReader

(* The connections of an adapter follow its factory, whatever it does      *)
(* while they are being validated: none dispatches while it holds, none is *)
(* left holding while it is active, and they keep to the maximum.          *)
ConnectionsFollow == part = "accepting" => Accepting!ATypeOK /\ Accepting!ConnectionsFollow /\ Accepting!WithinMaximum

(* The locator registry has the endpoints of an adapter that is active,    *)
(* and not those of one that is deactivated; no deactivation falls into an *)
(* activation, and nothing is left of an adapter that is destroyed.        *)
AdapterLife ==
    /\ part = "life" => Life!ATypeOK /\ Life!Unregistered /\ Life!ActivatesAlone /\ Life!DestroyedQuiet
    /\ part = "publishing" => Publishing!ActiveRegistered

(* The direct count of an adapter is what the collocated calls hold of it  *)
(* on every path, cancelled at any time or dispatched, and no call is      *)
(* answered twice, as long as the adapter is not destroyed.                *)
CallsCounted == part = "collocated" => Collocated!CTypeOK /\ Collocated!CountExact /\ Collocated!AnsweredOnce
=============================================================================
