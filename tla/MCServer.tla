------------------------------ MODULE MCServer ------------------------------
(***************************************************************************)
(* A server and the calls that show what ServerI does against what its     *)
(* code or its comments say: one configuration for each disagreement.      *)
(***************************************************************************)
EXTENDS Server

MCKind ==
    [c \in Call |->
       CASE c \in {"start1", "start2"} -> "start" [] c \in {"load1", "load2", "load3"} -> "load"
         [] c = "destroy1" -> "destroy" [] c = "enable1" -> "enable" [] c = "disable1" -> "disable"
         [] OTHER -> "activate"]
MCCall == {"start1", "start2", "load1", "load2", "load3", "destroy1", "enable1", "disable1", "get1"}
MCAdapter == {"a1"}
MCOn == [c \in Call |-> "a1"]

\* The second load takes the properties of the first descriptor again.
MCProps == [d \in Descriptor |-> IF d \in {"d0", "load2"} THEN "p0" ELSE "p1"]
SameShape == [d \in Descriptor |-> "s"]

OnDemand ==
    [calls |-> {}, noRestart |-> {}, loaded |-> "d0", lifetime |-> {"a1"}, mode |-> "OnDemand", registers |-> FALSE,
     disableOnFailure |-> FALSE, replicates |-> FALSE, failures |-> {}]

(* An update is reverted while the server is being activated. *)
Reverted == {[OnDemand EXCEPT !.calls = {"start1", "load1", "load2"}, !.noRestart = {"load1", "load2"}, !.registers = TRUE]}

(* A caller has seen the server deactivating, and comes back when it starts. *)
Stranded == {[OnDemand EXCEPT !.calls = {"get1", "start1", "start2"}, !.failures = {"crash"}]}

(* A server is destroyed while it is loaded for the first time. *)
DestroyLoading == {[OnDemand EXCEPT !.calls = {"load1", "destroy1"}, !.loaded = None]}

(* The activation timeout expires before the process is forked. *)
EarlyTimeout == {[OnDemand EXCEPT !.calls = {"start1"}, !.replicates = TRUE]}

(* A descriptor is loaded twice while the server is being activated. *)
LoadHeld == {[OnDemand EXCEPT !.calls = {"start1", "load1", "load3"}, !.noRestart = {"load1", "load3"}, !.registers = TRUE]}

(* A server is enabled and disabled at the same time. *)
EnabledDisabled == {[OnDemand EXCEPT !.calls = {"enable1", "disable1"}]}
=============================================================================
