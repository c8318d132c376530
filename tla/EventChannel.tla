---------------------------- MODULE EventChannel ----------------------------
(***************************************************************************)
(* What a topic of IceStorm promises a subscriber: events may be lost, but *)
(* those that are sent are events of the topic, each is sent once, in the  *)
(* order in which the topic queued them, and none once the subscription    *)
(* has failed.  Subscriber implements it.                                  *)
(***************************************************************************)
EXTENDS Naturals, Sequences

VARIABLES
    queued,   \* how many events the topic has queued; they are numbered
    sent,     \* the events given to the transport
    closed    \* the subscription has failed

vars == <<queued, sent, closed>>

Init == queued = 0 /\ sent = <<>> /\ closed = FALSE

Increasing(s) == \A i, j \in DOMAIN s : i < j => s[i] < s[j]

(* The topic queues more events, and some that wait are sent. *)
Forward ==
    /\ ~closed
    /\ queued' \in Nat /\ queued' >= queued
    /\ Len(sent') >= Len(sent) /\ SubSeq(sent', 1, Len(sent)) = sent
    /\ \A i \in DOMAIN sent' : sent'[i] \in 1 .. queued'
    /\ Increasing(sent')
    /\ closed' \in BOOLEAN

Discard ==
    /\ closed /\ closed' = TRUE
    /\ queued' \in Nat /\ queued' >= queued
    /\ UNCHANGED sent

Next == Forward \/ Discard
Spec == Init /\ [][Next]_vars
=============================================================================
