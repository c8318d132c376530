---------------------------- MODULE MCConnections ----------------------------
(***************************************************************************)
(* Connection and IdleTimeout, which model different functions of          *)
(* Ice/ConnectionI.cpp and share no state.  A behaviour explores one of    *)
(* them, in the instance that its variable part names.  The constants of   *)
(* Connection are those of the closure: graceful closure and abort of both *)
(* ends, and the timeouts.                                                 *)
(***************************************************************************)
EXTENDS Connection

VARIABLES part, idle

allVars == <<part, vars, idle>>

(* hold() and activate(), cancellation, fatal errors of a dispatch. *)
Handling == INSTANCE Connection WITH
    Calls <- {"destroy", "hold", "cancel", "fatal"}, LateCancel <- TRUE

(* Graceful closure of both ends, without the close timeout. *)
Graceful == INSTANCE Connection WITH Calls <- {"close", "destroy"}

(* Invocations, held and frozen ends. *)
Idling == INSTANCE IdleTimeout WITH
    conn <- idle, Timeout <- 4, Inactivity <- 3, Delay <- 1, Capacity <- 1,
    Freezes <- End, Holds <- TRUE

ASSUME Handling!ConnectionAssumption /\ Graceful!ConnectionAssumption /\ Idling!IdleAssumption

SuiteInit == part \in {"closure", "handling", "idle"} /\ Init /\ Idling!Init

ClosureNext == part = "closure" /\ Next /\ UNCHANGED <<part, idle>>
HandlingNext == part = "handling" /\ Handling!Next /\ UNCHANGED <<part, idle>>
IdleNext == part = "idle" /\ Idling!Next /\ UNCHANGED <<part, vars>>

SuiteNext == ClosureNext \/ HandlingNext \/ IdleNext
Suite == SuiteInit /\ [][SuiteNext]_allVars

GracefulNext == part = "graceful" /\ Graceful!Next /\ UNCHANGED <<part, idle>>
GracefulInit == part = "graceful" /\ Init /\ Idling!Init
GracefulSpec == GracefulInit /\ [][GracefulNext]_allVars /\ Graceful!Fairness

-----------------------------------------------------------------------------
(* The idle check aborts no connection while both hosts run, whatever is   *)
(* held, blocked or dispatched for long, and an end that reads has         *)
(* received bytes within the idle timeout or is closed; the inactivity     *)
(* timeout closes only what has been without invocations for as long.      *)
IdleDetected == Idling!TypeOK /\ Idling!HealthyNotAborted /\ Idling!DeadPeerDetected /\ Idling!InactiveClosed
=============================================================================
