------------------------------- MODULE Server -------------------------------
(***************************************************************************)
(* A server on an IceGrid node: IceGrid/ServerI.cpp (the server and its    *)
(* load, start, stop and destroy commands) and IceGrid/ServerAdapterI.cpp  *)
(* (its object adapters), with the process the activator forks.            *)
(*                                                                         *)
(* A step is what a thread does with the mutex of the server, or of an     *)
(* adapter.  What it does next, after it has unlocked, is in todo.  Every  *)
(* call is made once, at any time.  A load makes a descriptor, named by    *)
(* the call; descriptors come from the master.                             *)
(***************************************************************************)
EXTENDS Naturals, FiniteSets

CONSTANTS
    Call,                \* the calls
    Kind,                \* "start", "stop", "load", "destroy", "enable", "disable", "activate"
    On,                  \* the adapter that an "activate" call is for
    Props, Shape,        \* of each descriptor: its properties, and the rest
    Adapter,             \* the adapters
    MaxForks,            \* bound on the processes
    Configurations       \* the servers and the calls to be explored

None == "none"
Descriptor == Call \cup {"d0"}

(* A server, what is asked of it and what may go wrong. *)
Configuration ==
    [calls : SUBSET Call,             \* the calls that are made
     noRestart : SUBSET Call,         \* the loads and destroys that must not stop the server
     loaded : {"d0", None},           \* the descriptor loaded first
     lifetime : SUBSET Adapter,       \* the adapters of the server's lifetime
     mode : {"Always", "OnDemand", "Manual"},
     registers : BOOLEAN,             \* the server registers its process object
     disableOnFailure : BOOLEAN,      \* IceGrid.Node.DisableOnFailure is set
     replicates : BOOLEAN,            \* a first activation waits for the replicas
     failures : SUBSET {"crash", "leave", "fork", "load", "push", "kill"}]

ServerAssumption ==
    /\ None \notin Descriptor /\ Configurations \subseteq Configuration
    /\ Kind \in [Call -> {"start", "stop", "load", "destroy", "enable", "disable", "activate"}]
    /\ On \in [Call -> Adapter] /\ MaxForks \in Nat

VARIABLES
    server,    \* the members of ServerI, what its threads have to do, and the answers
    adapter,   \* the members of the ServerAdapterI
    proc,      \* the process
    sent,      \* what it has sent to the node, and the calls of the listener to the adapters
    listener,  \* the termination listener of the activator
    visit,     \* where the calls are that go to an adapter
    since,     \* the destroys since the last load
    config     \* the configuration, which never changes

svars == <<server, adapter, proc, sent, listener, visit, since>>
vars == <<svars, config>>

NoRestart == config.noRestart
Loaded == config.loaded
Lifetime == config.lifetime
Mode == config.mode
ProcessRegistered == config.registers
DisableOnFailure == config.disableOnFailure
Replicates == config.replicates
Crashes == "crash" \in config.failures
Leaves == "leave" \in config.failures
ForkFails == "fork" \in config.failures
LoadFails == "load" \in config.failures
PushFails == "push" \in config.failures
KillFails == "kill" \in config.failures

State == {"Loading", "Inactive", "Activating", "WaitForActivation", "ActivationTimeout", "Active",
          "Deactivating", "DeactivatingWaitForProcess", "Destroying", "Destroyed"}
Todo == {"update", "activate", "replicate", "fork", "forked", "notForked", "activateFailed", "deactivate", "shutdown",
         "kill", "signal", "giveUp", "destroy", "destroyed", "timedOut", "delayedStart", "activationCompleted", "activationFailed"}

TypeOK ==
    /\ server \in [state : State, activation : {"Always", "OnDemand", "Manual", "Disabled"},
         previous : {"Always", "OnDemand", "Manual", "Disabled"}, failure : BOOLEAN,
         desc : Descriptor \cup {None}, waitForReplication : BOOLEAN, process : BOOLEAN, activated : SUBSET Adapter,
         start : BOOLEAN, startCB : SUBSET Call, startTimer : BOOLEAN,
         stop : {None, "deactivate", "wait"}, stopCB : SUBSET Call, stopTimer : BOOLEAN,
         load : Descriptor \cup {None}, loadCB : SUBSET Call, runtime : Descriptor \cup {None}, updating : BOOLEAN,
         pushes : SUBSET Descriptor, destroy : BOOLEAN, destroyCB : SUBSET Call, delayed : BOOLEAN,
         todo : SUBSET Todo, asserts : BOOLEAN, locked : BOOLEAN,
         answer : [Call -> {"none", "waiting", "ok", "failed", "twice"}]]
    /\ adapter \in [Adapter -> [proxy : BOOLEAN, enabled : BOOLEAN, after : BOOLEAN, callbacks : SUBSET Call]]
    /\ proc \in [state : {"none", "running", "exited"}, did : SUBSET (Adapter \cup {"process"}), off : SUBSET Adapter,
                 told : BOOLEAN, failed : BOOLEAN, forks : 0..MaxForks,
                 stray : SUBSET (Adapter \cup {"process"}), survived : BOOLEAN]
    /\ sent \subseteq [what : Adapter \cup {"process"}, on : BOOLEAN, by : {"process", "listener"},
                       pc : {"set", "lock", "tell"}, seen : {"Active", "Deactivating", "Inactive"}]
    /\ listener \in [pc : {"select", "terminated", "adapters", "inactive"}, left : SUBSET Adapter, failed : BOOLEAN]
    /\ visit \in [Call -> [pc : {"none", "asked", "start", "failed", "enabled", "told"}, deactivating : BOOLEAN, activatable : BOOLEAN,
                         enabled : BOOLEAN, activate : BOOLEAN]]
    /\ since \subseteq Call /\ config \in Configurations

-----------------------------------------------------------------------------
Updated(d, e) == Props[d] # Props[e] \/ Shape[d] # Shape[e]

IsDeactivating(s) == s.state \in {"Deactivating", "DeactivatingWaitForProcess"}

(* StopCommand::isStopped() *)
IsStopped(s) == s.state \in {"Inactive", "Loading", "Destroying", "Destroyed"}

Answer(s, calls, r) ==
    [s EXCEPT !.answer = [c \in Call |-> IF c \notin calls THEN @[c] ELSE IF @[c] = "waiting" THEN r ELSE "twice"]]

StartEnded(s, r) == [Answer(s, s.startCB, r) EXCEPT !.start = FALSE, !.startCB = {}, !.startTimer = FALSE]
StopEnded(s, r) == [Answer(s, s.stopCB, r) EXCEPT !.stop = None, !.stopCB = {}, !.stopTimer = FALSE]
LoadAnswered(s, r) == [Answer(s, s.loadCB, r) EXCEPT !.loadCB = {}]
LoadEnded(s, r) == [LoadAnswered(s, r) EXCEPT !.load = None, !.runtime = None, !.updating = FALSE]
DestroyEnded(s) == [Answer(s, s.destroyCB, "ok") EXCEPT !.destroy = FALSE, !.destroyCB = {}]

(* startRuntimePropertiesUpdate(), called with the mutex: where no         *)
(* property differs the answer is given at once, by a function that locks  *)
(* the mutex.                                                              *)
StartRuntimePropertiesUpdate(s) ==
    IF s.updating THEN s
    ELSE [s EXCEPT !.updating = TRUE, !.pushes = @ \cup {s.load},
                   !.locked = @ \/ Props[s.load] = Props[s.runtime],
                   !.asserts = @ /\ s.load # s.runtime]

(* The assertions of setStateNoSync(), in state s. *)
CanSwitch(s, st) ==
    CASE st = "Loading" -> s.load # None /\ s.state = "Inactive"
      [] st = "Activating" -> s.start /\ s.state = "Inactive"
      [] st = "WaitForActivation" -> s.state = "Activating"
      [] st = "ActivationTimeout" -> s.state = "WaitForActivation"
      [] st = "Active" -> s.state \in {"WaitForActivation", "ActivationTimeout"}
      [] st = "DeactivatingWaitForProcess" -> s.state = "Deactivating"
      [] st = "Destroying" -> s.state = "Inactive" /\ s.destroy
      [] st = "Destroyed" -> s.destroy
      [] OTHER -> TRUE

(* What setStateNoSync() does in the new state. *)
Switched(s, st) ==
    LET t == [s EXCEPT !.state = st, !.asserts = @ /\ CanSwitch(s, st), !.delayed = FALSE]
    IN  CASE st = "Inactive" ->
               LET u == IF s.state = "Loading" THEN [t EXCEPT !.load = None, !.runtime = None, !.updating = FALSE] ELSE t
               IN  IF u.stop # None THEN StopEnded(u, "ok") ELSE u
          [] st = "Active" -> IF t.start THEN StartEnded(t, "ok") ELSE t
          [] st \in {"ActivationTimeout", "Deactivating"} -> IF t.start THEN StartEnded(t, "failed") ELSE t
          [] st = "Destroying" -> StopEnded(StartEnded(LoadEnded(t, "failed"), "failed"), "failed")
          [] st = "Destroyed" -> [LoadEnded(DestroyEnded(t), "failed") EXCEPT !.desc = None]
          [] OTHER -> t

(* setStateNoSync() *)
SetState(s, st) ==
    LET t == Switched(s, st)
    IN  IF st = "Inactive"
        THEN [t EXCEPT !.delayed = t.activation = "Always" \/ (t.activation = "Disabled" /\ DisableOnFailure /\ t.failure)]
        ELSE IF st = "Active" /\ t.load # None
        THEN IF t.process THEN StartRuntimePropertiesUpdate(t) ELSE LoadAnswered(t, "ok")
        ELSE t

(* nextCommand(), and the execute() that follows once the mutex is free. *)
NextCommand(s) ==
    LET Do(t, what) == [t EXCEPT !.todo = @ \cup what]
    IN  IF s.stop # None /\ s.state \in {"WaitForActivation", "ActivationTimeout", "Active"}
        THEN Do(SetState([s EXCEPT !.stopTimer = TRUE], "Deactivating"), IF s.stop = "deactivate" THEN {"deactivate"} ELSE {})
        ELSE IF s.state # "Inactive" THEN s
        ELSE IF s.destroy THEN Do(SetState(s, "Destroying"), {"destroy"})
        ELSE IF s.load # None THEN Do(SetState(s, "Loading"), {"update"})
        ELSE IF s.start THEN Do(SetState([s EXCEPT !.startTimer = TRUE], "Activating"), {"activate"})
        ELSE s

(* checkActivation(); activationCompleted() is called on the adapters when *)
(* the mutex is free.                                                      *)
CheckActivation(s) ==
    IF /\ s.state \in {"WaitForActivation", "ActivationTimeout"}
       /\ ~ProcessRegistered \/ s.process
       /\ Lifetime \subseteq s.activated
    THEN [SetState(s, "Active") EXCEPT !.todo = @ \cup {"activationCompleted"}]
    ELSE s

(* disableOnFailure() *)
Disabled(s) ==
    IF /\ s.activation # "Disabled"
       /\ DisableOnFailure \/ (s.activation = "Always" /\ s.state \in {"Activating", "WaitForActivation"})
    THEN [s EXCEPT !.previous = s.activation, !.activation = "Disabled", !.failure = TRUE]
    ELSE s

-----------------------------------------------------------------------------
(* Calls.                                                                  *)
NoVisit == [pc |-> "none", deactivating |-> FALSE, activatable |-> FALSE, enabled |-> FALSE, activate |-> FALSE]
Begin(c, kind) == server.answer[c] = "none" /\ Kind[c] = kind /\ ~server.locked
Waiting(c) == [server EXCEPT !.answer[c] = "waiting"]
Now(s, c, r) == Answer(s, {c}, r)

(* start() re-enables a server disabled by a failure. *)
Reenabled(s, elapsed) ==
    IF DisableOnFailure /\ s.failure /\ elapsed THEN [s EXCEPT !.activation = s.previous, !.failure = FALSE] ELSE s

StartRefused(s, as) ==
    \/ s.activation = "Disabled"
    \/ s.activation = "Manual" /\ as = "OnDemand"
    \/ s.state \in {"ActivationTimeout", "Active", "Destroying", "Destroyed"}

Started(s, callers) ==
    NextCommand([s EXCEPT !.delayed = FALSE, !.start = TRUE, !.startCB = @ \cup callers])

(* startAsync() *)
Start(c) ==
    /\ Begin(c, "start")
    /\ LET s == IF server.state = "Destroyed" THEN Waiting(c) ELSE Reenabled(Waiting(c), TRUE)
       IN  server' = IF StartRefused(s, "Manual") THEN Now(s, c, "failed") ELSE Started(s, {c})
    /\ UNCHANGED <<adapter, proc, sent, listener, visit, since>>

(* stopAsync() *)
Stop(c) ==
    /\ Begin(c, "stop")
    /\ LET s == Waiting(c)
       IN  server' = IF IsStopped(s) THEN Now(s, c, "failed")
                     ELSE NextCommand([s EXCEPT !.stop = IF @ = None THEN "deactivate" ELSE @, !.stopCB = @ \cup {c}])
    /\ UNCHANGED <<adapter, proc, sent, listener, visit, since>>

(* A server that has not been loaded. *)
NewServer(answer) ==
    [state |-> "Inactive", activation |-> "Disabled", previous |-> "Disabled", failure |-> TRUE, desc |-> None,
     waitForReplication |-> FALSE, process |-> FALSE, activated |-> {}, start |-> FALSE, startCB |-> {},
     startTimer |-> FALSE, stop |-> None, stopCB |-> {}, stopTimer |-> FALSE, load |-> None, loadCB |-> {},
     runtime |-> None, updating |-> FALSE, pushes |-> {}, destroy |-> FALSE, destroyCB |-> {}, delayed |-> FALSE,
     todo |-> {}, asserts |-> TRUE, locked |-> FALSE, answer |-> answer]

(* load() of a descriptor that is not the one loaded or being loaded. *)
LoadNew(s, c) ==
    LET running == ~IsStopped(s) /\ s.stop = None
        t == [s EXCEPT !.stop = IF running /\ c \notin NoRestart THEN "deactivate" ELSE @,
                       !.load = c, !.runtime = IF s.load = None THEN s.desc ELSE @]
        u == IF t.destroy /\ t.state # "Destroying" THEN DestroyEnded(t) ELSE t
        w == [u EXCEPT !.loadCB = @ \cup {c}]
    IN  IF running /\ c \in NoRestart /\ Shape[s.desc] # Shape[c] THEN Now(s, c, "failed")
        ELSE NextCommand(
          IF u.stop # None \/ IsStopped(u) \/ u.state \in {"Deactivating", "DeactivatingWaitForProcess"} THEN w
          ELSE IF u.state = "Active" /\ u.process THEN StartRuntimePropertiesUpdate(w)
          ELSE Now(u, c, "ok"))

(* loadServer() and load(): a server that is destroyed is made anew.  The  *)
(* threads that still use the old one share nothing with it.               *)
Load(c) ==
    /\ Begin(c, "load")
    /\ server.state = "Destroyed" => server.todo = {} /\ \A e \in Call : visit[e] = NoVisit
    /\ LET s == IF server.state = "Destroyed" THEN NewServer(Waiting(c).answer) ELSE Waiting(c)
           d == IF s.load # None THEN s.load ELSE s.desc
       IN  server' = IF d = None \/ Updated(d, c) THEN LoadNew(s, c)
                     ELSE IF s.desc = None \/ (s.load # None /\ Updated(s.load, s.desc))
                     THEN [s EXCEPT !.loadCB = @ \cup {c}]
                     ELSE Now(s, c, "ok")
    /\ adapter' = IF server.state = "Destroyed" THEN [a \in Adapter |-> [adapter[a] EXCEPT !.proxy = FALSE, !.enabled = TRUE, !.after = FALSE]]
                  ELSE adapter
    /\ since' = {}
    /\ UNCHANGED <<proc, sent, listener, visit>>

(* destroyServer() and destroy() *)
Destroy(c) ==
    /\ Begin(c, "destroy")
    /\ LET s == Waiting(c) running == ~IsStopped(s) /\ s.stop = None
       IN  server' = IF s.state = "Destroyed" \/ s.desc = None THEN Now(s, c, "ok")
                     ELSE IF running /\ c \in NoRestart THEN Now(s, c, "failed")
                     ELSE NextCommand([s EXCEPT !.stop = IF running THEN "deactivate" ELSE @, !.destroy = TRUE, !.destroyCB = @ \cup {c}])
    /\ since' = since \cup {c}
    /\ UNCHANGED <<adapter, proc, sent, listener, visit>>

(* setEnabled() *)
SetEnabled(c) ==
    /\ \/ Begin(c, "enable") \/ Begin(c, "disable")
    /\ LET s == Waiting(c) on == Kind[c] = "enable"
           t == [s EXCEPT !.failure = FALSE, !.activation = IF on THEN Mode ELSE "Disabled", !.delayed = @ /\ on]
       IN  IF s.state = "Destroyed" \/ s.desc = None THEN server' = Now(s, c, "failed") /\ UNCHANGED visit
           ELSE IF (on /\ s.activation # "Disabled") \/ (~on /\ s.activation = "Disabled" /\ ~s.failure)
           THEN server' = Now(s, c, "ok") /\ UNCHANGED visit
           ELSE /\ server' = t
                /\ visit' = [visit EXCEPT ![c] = [@ EXCEPT !.pc = "enabled", !.activate = on /\ s.state = "Inactive" /\ Mode = "Always"]]
    /\ UNCHANGED <<adapter, proc, sent, listener, since>>

(* updateEnabled() of the adapters asks the server, then changes the       *)
(* adapter; a server that is always active is started afterwards.          *)
UpdateEnabled(c) ==
    /\ ~server.locked
    /\ \/ /\ visit[c].pc = "enabled"
          /\ visit' = [visit EXCEPT ![c] = [@ EXCEPT !.pc = "told", !.enabled = server.activation # "Disabled"]]
          /\ UNCHANGED <<server, adapter>>
       \/ /\ visit[c].pc = "told"
          /\ adapter' = [a \in Adapter |-> [adapter[a] EXCEPT !.enabled = visit[c].enabled]]
          /\ server' = Now([server EXCEPT !.todo = IF visit[c].activate THEN @ \cup {"delayedStart"} ELSE @], c, "ok")
          /\ visit' = [visit EXCEPT ![c] = NoVisit]
    /\ UNCHANGED <<proc, sent, listener, since>>

-----------------------------------------------------------------------------
(* Timers.  A task that has been taken is not stopped by a cancel.         *)
Fire ==
    /\ ~server.locked
    /\ \/ server.startTimer /\ server' = [server EXCEPT !.startTimer = FALSE, !.todo = @ \cup {"timedOut"}]
       \/ server.stopTimer /\ server' = [server EXCEPT !.stopTimer = FALSE, !.todo = @ \cup {"kill"}]
       \/ server.delayed /\ proc.forks < MaxForks /\ server' = [server EXCEPT !.delayed = FALSE, !.todo = @ \cup {"delayedStart"}]
    /\ UNCHANGED <<adapter, proc, sent, listener, visit, since>>

(* A thread goes on with what. *)
Going(what) == what \in server.todo /\ ~server.locked
Done(what, next) == [server EXCEPT !.todo = (@ \ {what}) \cup next]

(* DelayedStart::runTimerTask() *)
DelayedStart ==
    /\ Going("delayedStart")
    /\ LET s == Done("delayedStart", {}) t == IF s.state = "Destroyed" THEN s ELSE Reenabled(s, TRUE)
       IN  server' = IF StartRefused(t, "Always") \/ t.activation # "Always" THEN t ELSE Started(t, {})
    /\ UNCHANGED <<adapter, proc, sent, listener, visit, since>>

(* activationTimedOut() *)
ActivationTimedOut ==
    /\ Going("timedOut")
    /\ LET s == Done("timedOut", {})
       IN  server' = IF s.state # "WaitForActivation" THEN s
                     ELSE LET t == SetState(s, "ActivationTimeout") IN NextCommand([t EXCEPT !.todo = @ \cup {"activationFailed"}])
    /\ UNCHANGED <<adapter, proc, sent, listener, visit, since>>

(* activate(), before the fork *)
Activate ==
    /\ Going("activate")
    /\ LET s == [Done("activate", {}) EXCEPT !.asserts = @ /\ server.state = "Activating" /\ server.desc # None]
       IN  server' = IF s.activation = "Disabled" THEN [s EXCEPT !.todo = @ \cup {"notForked"}]
                     ELSE [s EXCEPT !.todo = @ \cup {IF s.waitForReplication /\ Replicates THEN "replicate" ELSE "fork"},
                                    !.waitForReplication = FALSE, !.process = FALSE]
    /\ UNCHANGED <<adapter, proc, sent, listener, visit, since>>

(* waitForApplicationUpdateCompleted() *)
Replicated ==
    /\ Going("replicate")
    /\ server' = Done("replicate", {"activate"})
    /\ UNCHANGED <<adapter, proc, sent, listener, visit, since>>

(* What a process has to register. *)
Registrable == Lifetime \cup (IF ProcessRegistered THEN {"process"} ELSE {})

(* The adapters are cleared and the process is forked, or is not.  The     *)
(* activator does not replace the process that it has by this name: the    *)
(* new one runs, and is not watched.                                       *)
Fork ==
    /\ Going("fork")
    /\ adapter' = [a \in Adapter |-> [adapter[a] EXCEPT !.proxy = FALSE, !.after = FALSE]]
    /\ \/ /\ proc.forks < MaxForks
          /\ server' = [Done("fork", {"forked"}) EXCEPT !.asserts = @ /\ proc.state = "none"]
          /\ proc' = IF proc.state = "none"
                     THEN [proc EXCEPT !.state = "running", !.did = {}, !.off = {}, !.told = FALSE, !.forks = @ + 1]
                     ELSE [proc EXCEPT !.stray = Registrable, !.forks = @ + 1]
       \/ /\ ForkFails \/ proc.forks = MaxForks
          /\ server' = Done("fork", {"notForked"})
          /\ UNCHANGED proc
    /\ UNCHANGED <<sent, listener, visit, since>>

(* activate(), after the fork *)
Forked ==
    /\ Going("forked")
    /\ server' = NextCommand(CheckActivation(SetState(Done("forked", {}), "WaitForActivation")))
    /\ UNCHANGED <<adapter, proc, sent, listener, visit, since>>

NotForked ==
    /\ Going("notForked")
    /\ server' = SetState(Disabled(Done("notForked", {"activateFailed"})), "Deactivating")
    /\ UNCHANGED <<adapter, proc, sent, listener, visit, since>>

(* activationFailed() and activationCompleted() of the adapters as: the    *)
(* callers are given a proxy for those in active, and null for the others. *)
Flushed(s, as, active) ==
    [s EXCEPT !.answer = [c \in Call |->
       CASE \A a \in as : c \notin adapter[a].callbacks -> @[c]
         [] OTHER -> IF @[c] # "waiting" THEN "twice" ELSE IF On[c] \in active THEN "ok" ELSE "failed"]]

NoCallbacks(as) == [a \in Adapter |-> IF a \in as THEN [adapter[a] EXCEPT !.callbacks = {}] ELSE adapter[a]]

ActivateFailed ==
    /\ Going("activateFailed")
    /\ server' = NextCommand(SetState(Flushed(Done("activateFailed", {}), Adapter, {}), "Inactive"))
    /\ adapter' = NoCallbacks(Adapter)
    /\ UNCHANGED <<proc, sent, listener, visit, since>>

ActivationEnds ==
    /\ \/ /\ Going("activationCompleted")
          /\ server' = Flushed(Done("activationCompleted", {}), Adapter, {a \in Adapter : adapter[a].proxy})
       \/ Going("activationFailed") /\ server' = Flushed(Done("activationFailed", {}), Adapter, {})
    /\ adapter' = NoCallbacks(Adapter)
    /\ UNCHANGED <<proc, sent, listener, visit, since>>

(* deactivate() and kill(): the state is checked, and the activator is     *)
(* called when the mutex is free.                                          *)
Deactivate ==
    /\ Going("deactivate")
    /\ server' = IF ~IsDeactivating(server) THEN Done("deactivate", {})
                 ELSE IF ProcessRegistered /\ ~server.process THEN SetState(Done("deactivate", {}), "DeactivatingWaitForProcess")
                 ELSE Done("deactivate", {"shutdown"})
    /\ UNCHANGED <<adapter, proc, sent, listener, visit, since>>

Kill ==
    /\ Going("kill")
    /\ server' = Done("kill", IF IsDeactivating(server) \/ server.state = "Destroying" THEN {"signal"} ELSE {})
    /\ UNCHANGED <<adapter, proc, sent, listener, visit, since>>

(* Activator::deactivate(): where neither the process object nor SIGTERM   *)
(* can be used, the process is killed.                                     *)
ShutDown ==
    /\ Going("shutdown")
    /\ \/ server' = Done("shutdown", {}) /\ proc' = [proc EXCEPT !.told = proc.state = "running"]
       \/ KillFails /\ proc.state # "none" /\ server' = Done("shutdown", {"signal"}) /\ UNCHANGED proc
    /\ UNCHANGED <<adapter, sent, listener, visit, since>>

(* Mutant of Signal: the server is inactive before its process has ended. *)
SignalInactive ==
    /\ Going("signal")
    /\ server' = NextCommand(SetState(Done("signal", {}), "Inactive"))
    /\ proc' = [proc EXCEPT !.state = IF @ = "running" THEN "exited" ELSE @]
    /\ UNCHANGED <<adapter, sent, listener, visit, since>>

(* Activator::kill(), which does nothing when the activator has no process *)
(* by this name.                                                           *)
Signal ==
    /\ Going("signal")
    /\ \/ server' = Done("signal", {}) /\ proc' = [proc EXCEPT !.state = IF @ = "running" THEN "exited" ELSE @]
       \/ KillFails /\ proc.state # "none" /\ server' = Done("signal", {"giveUp"}) /\ UNCHANGED proc
    /\ UNCHANGED <<adapter, sent, listener, visit, since>>

(* SyscallException: "TODO: Is this really correct?" *)
GiveUp ==
    /\ Going("giveUp")
    /\ server' = NextCommand(SetState(Done("giveUp", {}), "Inactive"))
    /\ proc' = [proc EXCEPT !.survived = TRUE]
    /\ UNCHANGED <<adapter, sent, listener, visit, since>>

(* update() and updateImpl() *)
Update ==
    /\ Going("update")
    /\ LET s == Done("update", {})
           on == s.activation # "Disabled" \/ s.failure
           Impl(d) == [s EXCEPT !.desc = d, !.waitForReplication = TRUE, !.failure = IF on THEN FALSE ELSE @,
                                !.activation = IF on THEN Mode ELSE @, !.delayed = FALSE]
       IN  \/ s.state # "Loading" /\ server' = s
           \/ s.state = "Loading" /\ server' = NextCommand(SetState(LoadAnswered(Impl(s.load), "ok"), "Inactive"))
           \/ /\ s.state = "Loading" /\ LoadFails
              /\ server' = NextCommand(SetState(
                   IF s.desc # None THEN LoadAnswered(Impl(s.desc), "failed")
                   ELSE LoadAnswered([Impl(s.load) EXCEPT !.destroy = TRUE], "failed"), "Inactive"))
    /\ UNCHANGED <<adapter, proc, sent, listener, visit, since>>

(* ServerI::destroy(), run by the command: the adapters, then the server. *)
DestroyAdapters ==
    /\ Going("destroy")
    /\ server' = [Flushed(Done("destroy", {"destroyed"}), Adapter, {})
                    EXCEPT !.asserts = @ /\ server.desc # None /\ server.state = "Destroying" /\ server.destroy]
    /\ adapter' = NoCallbacks(Adapter)
    /\ UNCHANGED <<proc, sent, listener, visit, since>>

Destroyed ==
    /\ Going("destroyed")
    /\ server' = NextCommand(SetState(Done("destroyed", {}), "Destroyed"))
    /\ UNCHANGED <<adapter, proc, sent, listener, visit, since>>

(* updateRuntimePropertiesCallback() *)
Pushed(d) ==
    /\ d \in server.pushes /\ ~server.locked
    /\ \E ok \in (IF PushFails \/ proc.state # "running" THEN BOOLEAN ELSE {TRUE}) :
         LET s == [server EXCEPT !.pushes = @ \ {d}]
             t == [s EXCEPT !.updating = FALSE, !.runtime = d, !.asserts = @ /\ s.process]
         IN  server' = IF s.state # "Active" \/ s.load = None THEN s
                       ELSE IF t.load # d THEN StartRuntimePropertiesUpdate(t)
                       ELSE IF ok THEN LoadAnswered([t EXCEPT !.desc = d], "ok")
                       ELSE LoadEnded(t, "failed")
    /\ UNCHANGED <<adapter, proc, sent, listener, visit, since>>

-----------------------------------------------------------------------------
(* A call to setProcess() or setDirectProxy(). *)
Report(x, on, by) == [what |-> x, on |-> on, by |-> by, pc |-> "set", seen |-> "Inactive"]

(* The process registers itself and its adapters, deactivates them, ends.  *)
Register(x) ==
    /\ \/ proc.state = "running" /\ x \in Registrable \ proc.did /\ proc' = [proc EXCEPT !.did = @ \cup {x}]
       \/ x \in proc.stray /\ proc' = [proc EXCEPT !.stray = @ \ {x}]
    /\ sent' = sent \cup {Report(x, TRUE, "process")}
    /\ UNCHANGED <<server, adapter, listener, visit, since>>

Leave(a) ==
    /\ proc.state = "running" /\ a \in proc.did \ proc.off /\ Leaves
    /\ proc' = [proc EXCEPT !.off = @ \cup {a}]
    /\ sent' = sent \cup {Report(a, FALSE, "process")}
    /\ UNCHANGED <<server, adapter, listener, visit, since>>

Exit ==
    /\ proc.state = "running" /\ (proc.told \/ Crashes)
    /\ \E f \in (IF Crashes THEN BOOLEAN ELSE {FALSE}) : proc' = [proc EXCEPT !.state = "exited", !.failed = f]
    /\ UNCHANGED <<server, adapter, sent, listener, visit, since>>

(* setProcessAsync() *)
SetProcess(m) ==
    /\ m.what = "process" /\ ~server.locked
    /\ sent' = sent \ {m}
    /\ LET s == [server EXCEPT !.process = TRUE]
       IN  server' = IF s.state = "Destroyed" THEN server
                     ELSE IF s.state = "DeactivatingWaitForProcess" THEN [s EXCEPT !.todo = @ \cup {"deactivate"}]
                     ELSE NextCommand(CheckActivation(s))
    /\ UNCHANGED <<adapter, proc, listener, visit, since>>

(* toServerState(), as far as setDirectProxy() tells states apart. *)
ServerState(s) == IF IsDeactivating(s) THEN "Deactivating" ELSE IF s.state = "Active" THEN "Active" ELSE "Inactive"

(* setDirectProxy() asks the server for its state, before it locks the     *)
(* adapter.                                                                *)
AskState(m) ==
    /\ m.what \in Adapter /\ m.pc = "set" /\ ~server.locked
    /\ sent' = (sent \ {m}) \cup (IF server.state = "Destroyed" /\ m.by = "process" THEN {}
                                  ELSE {[m EXCEPT !.pc = "lock", !.seen = ServerState(server)]})
    /\ UNCHANGED <<server, adapter, proc, listener, visit, since>>

(* The callbacks are kept when the server was deactivating and they were   *)
(* added meanwhile.                                                        *)
Answers(m) == m.seen # "Deactivating" \/ ~adapter[m.what].after

SetDirectProxy(m) ==
    /\ m.pc = "lock" /\ ~server.locked
    /\ LET a == m.what
       IN  IF m.on /\ adapter[a].proxy /\ m.seen = "Active"
           THEN sent' = sent \ {m} /\ UNCHANGED <<server, adapter>>
           ELSE /\ adapter' = [adapter EXCEPT ![a].proxy = m.on, ![a].callbacks = IF Answers(m) THEN {} ELSE @]
                /\ server' = IF Answers(m) THEN Flushed(server, {a}, IF m.on THEN {a} ELSE {}) ELSE server
                /\ sent' = (sent \ {m}) \cup {[m EXCEPT !.pc = "tell", !.seen = "Inactive"]}
    /\ UNCHANGED <<proc, listener, visit, since>>

(* adapterActivated() and adapterDeactivated() *)
AdapterActivated(s, a) ==
    IF s.state \notin {"Activating", "WaitForActivation", "ActivationTimeout"} THEN s
    ELSE NextCommand(CheckActivation([s EXCEPT !.activated = @ \cup {a}]))

AdapterDeactivated(s, a) ==
    NextCommand(IF s.state \in {"Active", "WaitForActivation"} /\ a \in Lifetime
                THEN [s EXCEPT !.stop = "wait", !.stopCB = {}, !.stopTimer = FALSE] ELSE s)

TellServer(m) ==
    /\ m.what \in Adapter /\ m.pc = "tell" /\ ~server.locked
    /\ m.on \/ server.state # "Activating"
    /\ sent' = sent \ {m}
    /\ server' = IF m.on THEN AdapterActivated(server, m.what) ELSE AdapterDeactivated(server, m.what)
    /\ UNCHANGED <<adapter, proc, listener, visit, since>>

-----------------------------------------------------------------------------
(* The termination listener, and terminated().                             *)
Listen ==
    /\ listener.pc = "select" /\ proc.state = "exited"
    /\ listener' = [pc |-> "terminated", left |-> {}, failed |-> proc.failed]
    /\ proc' = [proc EXCEPT !.state = "none", !.failed = FALSE]
    /\ UNCHANGED <<server, adapter, sent, visit, since>>

Terminated ==
    /\ listener.pc = "terminated" /\ server.state # "Activating" /\ ~server.locked
    /\ LET s == [server EXCEPT !.activated = {}] t == IF listener.failed THEN Disabled(s) ELSE s
       IN  server' = IF t.state \in {"Deactivating", "DeactivatingWaitForProcess", "Destroying"} THEN t
                     ELSE SetState(t, "Deactivating")
    /\ listener' = [pc |-> "adapters", left |-> Adapter, failed |-> FALSE]
    /\ UNCHANGED <<adapter, proc, sent, visit, since>>

(* setDirectProxy(nullopt), on one adapter after the other. *)
Returned == \A m \in sent : m.by # "listener"

TerminatedAdapter(a) ==
    /\ listener.pc = "adapters" /\ a \in listener.left /\ Returned
    /\ sent' = sent \cup {Report(a, FALSE, "listener")}
    /\ listener' = [listener EXCEPT !.pc = IF listener.left = {a} THEN "inactive" ELSE @, !.left = @ \ {a}]
    /\ UNCHANGED <<server, adapter, proc, visit, since>>

TerminatedInactive ==
    /\ listener.pc = "inactive" /\ Returned /\ ~server.locked
    /\ server' = IF server.state = "Destroying" THEN [server EXCEPT !.todo = @ \cup {"destroy"}]
                 ELSE NextCommand(SetState(server, "Inactive"))
    /\ listener' = [pc |-> "select", left |-> {}, failed |-> FALSE]
    /\ UNCHANGED <<adapter, proc, sent, visit, since>>

-----------------------------------------------------------------------------
(* isAdapterActivatable() *)
IsAdapterActivatable(a) ==
    /\ server.desc # None /\ server.activation # "Disabled" /\ Mode # "Manual"
    /\ \/ server.state \in {"Loading", "Inactive", "Activating", "WaitForActivation"} /\ a \notin server.activated
       \/ IsDeactivating(server)

(* activateAsync(): the server is asked first. *)
AskServer(c) ==
    /\ Begin(c, "activate")
    /\ IF server.state = "Destroyed" THEN server' = Now(Waiting(c), c, "failed") /\ UNCHANGED visit
       ELSE /\ server' = Waiting(c)
            /\ visit' = [visit EXCEPT ![c] = [@ EXCEPT !.pc = "asked", !.deactivating = IsDeactivating(server),
                                              !.activatable = IsAdapterActivatable(On[c])]]
    /\ UNCHANGED <<adapter, proc, sent, listener, since>>

(* Then the adapter is locked. *)
AddCallback(c) ==
    /\ visit[c].pc = "asked" /\ ~server.locked
    /\ LET a == On[c] r == adapter[a] leave == [visit EXCEPT ![c] = NoVisit]
       IN  IF r.enabled /\ r.proxy
           THEN server' = Now(server, c, "ok") /\ visit' = leave /\ UNCHANGED adapter
           ELSE IF r.callbacks = {} /\ ~(r.enabled /\ visit[c].activatable)
           THEN server' = Now(server, c, "failed") /\ visit' = leave /\ UNCHANGED adapter
           ELSE /\ adapter' = [adapter EXCEPT ![a].callbacks = @ \cup {c},
                                              ![a].after = IF r.callbacks = {} THEN visit[c].deactivating ELSE @]
                /\ visit' = IF r.callbacks = {} THEN [visit EXCEPT ![c].pc = "start"] ELSE leave
                /\ UNCHANGED server
    /\ UNCHANGED <<proc, sent, listener, since>>

(* And the server is started. *)
StartOnDemand(c) ==
    /\ visit[c].pc = "start" /\ ~server.locked
    /\ \E elapsed \in BOOLEAN :
         LET s == IF server.state = "Destroyed" THEN server ELSE Reenabled(server, elapsed)
         IN  IF StartRefused(s, "OnDemand")
             THEN server' = s /\ visit' = [visit EXCEPT ![c].pc = "failed"]
             ELSE server' = Started(s, {}) /\ visit' = [visit EXCEPT ![c] = NoVisit]
    /\ UNCHANGED <<adapter, proc, sent, listener, since>>

StartFailed(c) ==
    /\ visit[c].pc = "failed" /\ ~server.locked
    /\ server' = Flushed(server, {On[c]}, {})
    /\ adapter' = NoCallbacks({On[c]})
    /\ visit' = [visit EXCEPT ![c] = NoVisit]
    /\ UNCHANGED <<proc, sent, listener, since>>

-----------------------------------------------------------------------------
Init ==
    /\ config \in Configurations
    /\ LET s == NewServer([c \in Call |-> "none"])
       IN  server = IF Loaded = None THEN s
                    ELSE [s EXCEPT !.desc = Loaded, !.activation = Mode, !.failure = FALSE, !.waitForReplication = TRUE, !.delayed = Mode = "Always"]
    /\ adapter = [a \in Adapter |-> [proxy |-> FALSE, enabled |-> TRUE, after |-> FALSE, callbacks |-> {}]]
    /\ proc = [state |-> "none", did |-> {}, off |-> {}, told |-> FALSE, failed |-> FALSE, forks |-> 0,
               stray |-> {}, survived |-> FALSE]
    /\ sent = {} /\ listener = [pc |-> "select", left |-> {}, failed |-> FALSE]
    /\ visit = [c \in Call |-> NoVisit]
    /\ since = {}

Calls == \E c \in config.calls : Start(c) \/ Stop(c) \/ Load(c) \/ Destroy(c) \/ SetEnabled(c) \/ AskServer(c)

Threads ==
    \/ DelayedStart \/ ActivationTimedOut \/ Activate \/ Replicated \/ Fork \/ Forked \/ NotForked \/ ActivateFailed
    \/ ActivationEnds \/ Deactivate \/ Kill \/ ShutDown \/ Signal \/ GiveUp \/ Update \/ DestroyAdapters \/ Destroyed
    \/ \E d \in Descriptor : Pushed(d)

Visits == \E c \in Call : UpdateEnabled(c) \/ AddCallback(c) \/ StartOnDemand(c) \/ StartFailed(c)

Process == \E x \in Adapter \cup {"process"} : Register(x)
Dispatch == \E m \in sent : SetProcess(m) \/ AskState(m) \/ SetDirectProxy(m) \/ TellServer(m)
Listener == Listen \/ Terminated \/ (\E a \in Adapter : TerminatedAdapter(a)) \/ TerminatedInactive

Step == Calls \/ Fire \/ Threads \/ Visits \/ Process \/ (\E a \in Adapter : Leave(a)) \/ Exit \/ Dispatch \/ Listener
Next == Step /\ UNCHANGED config

Spec == Init /\ [][Next]_vars

(* The threads of the node run and its timers fire; a process that does    *)
(* not hang registers what it has to, and ends when it is told to.         *)
Ends == proc.told /\ Exit

-----------------------------------------------------------------------------
(* The assertions of setStateNoSync(), activate(), destroy() and of the    *)
(* callbacks hold, and one process is forked at a time, unless a process   *)
(* could not be killed.                                                    *)
AssertsHold == server.asserts \/ proc.survived

(* No caller is answered twice.                                            *)
AnsweredOnce == \A c \in Call : server.answer[c] # "twice"

(* While a process of the server runs, the server is not updated, started  *)
(* or destroyed: the commands that write or remove its directory wait for  *)
(* the process to end, unless it could not be killed.                      *)
QuietWhenStopped == IsStopped(server) => (proc.state = "none" /\ listener.pc = "select") \/ proc.survived

(* The same of a process that could not be killed, of which kill() and     *)
(* deactivate() ask "TODO: Is this really correct?".  Not kept: the server *)
(* is inactive, and is loaded, started again or destroyed while it runs.   *)
QuietAfterKill == IsStopped(server) => proc.state = "none"

(* A server that has nothing left to do has not kept anybody waiting for   *)
(* one of its adapters: "The server is going to be activated again and the *)
(* adapter activated."                                                     *)
NoneStranded ==
    (server.state = "Inactive" /\ server.todo = {} /\ ~server.start /\ sent = {}) =>
      \A a \in Adapter : adapter[a].callbacks = {} \/ \E c \in Call : visit[c].pc \in {"start", "failed"}

(* A thread that has the mutex does not lock it again. *)
NoSelfDeadlock == ~server.locked

(* A destroy that has been answered, with no load since, has left nothing  *)
(* loaded and nothing to be loaded.                                        *)
DestroyedGone ==
    (\E c \in since : server.answer[c] = "ok") =>
      server.state = "Destroyed" \/ (server.desc = None /\ server.load = None)

(* "The server is being activated and will change to the active state when *)
(* the registered server object adapters are activated or to the           *)
(* activation timed out state if the activation timeout expires."  Not     *)
(* kept: the timer may expire before the process has been forked.          *)
TimeoutArmed ==
    server.state = "WaitForActivation" => server.startTimer \/ "timedOut" \in server.todo

(* "If the server is being activated, return the response now": no load    *)
(* waits for a server that is being activated and is not to be stopped.    *)
(* Not kept by a second load of the same descriptor.                       *)
LoadNotHeld ==
    server.state \in {"Activating", "WaitForActivation"} /\ server.stop = None => server.loadCB = {}

(* An adapter is enabled if and only if its server is, once nobody is      *)
(* changing it; a server disabled by a failure keeps its adapters enabled. *)
(* Not kept when two calls change it.                                      *)
EnabledFollows ==
    (\A c \in Call : visit[c].pc \notin {"enabled", "told"}) /\ server.desc # None =>
      \A a \in Adapter : adapter[a].enabled = (server.activation # "Disabled" \/ server.failure)

=============================================================================
