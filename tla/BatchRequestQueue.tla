------------------------- MODULE BatchRequestQueue -------------------------
(***************************************************************************)
(* The queue of the batch requests of a proxy or of a connection           *)
(* (Ice/BatchRequestQueue.cpp).  A thread takes the stream of the queue,   *)
(* writes its request at its end, and gives it back; when the stream is    *)
(* full the thread flushes it while it still owns it.  Other threads flush *)
(* the queue too.                                                          *)
(*                                                                         *)
(* A stream is the sequence of what is in it: the header, and requests.    *)
(* Junk is what resize() adds to a stream that is too short.               *)
(***************************************************************************)
EXTENDS Integers, Sequences

CONSTANTS
    Thread,
    None,
    MaxSize,   \* requests that fill a stream: Ice.BatchAutoFlushSize
    Events,    \* what throws an Ice exception, and the end of the connection
    MaxCalls   \* bound: batch requests of a thread

BatchAssumption ==
    /\ None \notin Thread /\ MaxSize \in Nat /\ MaxCalls \in Nat
    /\ Events \subseteq {"write", "flush", "interceptor", "destroy"}

Header == <<None, 0>>
Junk == <<None, 1>>
Req == Thread \X (1 .. MaxCalls)
Stream == Seq(Req \cup {Header, Junk})

VARIABLES
    stream,     \* _batchStream
    inUse,      \* _batchStreamInUse
    owner,      \* _batchStreamOwnerId
    num,        \* _batchRequestNum
    marker,     \* _batchMarker
    exception,  \* whether _exception is set
    os,         \* the streams of the invocations
    pc,         \* where the threads are
    calls,      \* the batch requests that a thread has started
    sent,       \* the batches that were flushed, with their number of requests;
                \* upto: how many requests had been finished
    accepted    \* the requests that were finished, in order

vars == <<stream, inUse, owner, num, marker, exception, os, pc, calls, sent, accepted>>

TypeOK ==
    /\ stream \in Stream /\ os \in [Thread -> Stream]
    /\ inUse \in BOOLEAN /\ owner \in Thread \cup {None} /\ exception \in BOOLEAN
    /\ num \in Nat /\ marker \in Nat \ {0}
    /\ pc \in [Thread -> {"idle", "write", "finish", "flush", "intercept", "release", "throw", "abort"}]
    /\ calls \in [Thread -> 0 .. MaxCalls]
    /\ sent \in Seq([batch : Stream, num : Nat, upto : Nat]) /\ accepted \in Seq(Req)

Goes(t, p) == pc' = [pc EXCEPT ![t] = p]
ThisRequest(t) == <<t, calls[t]>>

(* OutputStream::resize(). *)
Resize(s, n) == [i \in 1 .. n |-> IF i <= Len(s) THEN s[i] ELSE Junk]

-----------------------------------------------------------------------------
(* prepareBatchRequest(), called by OutgoingAsync::prepare(). *)
PrepareBatchRequest(t) ==
    /\ pc[t] = "idle" /\ calls[t] < MaxCalls
    /\ calls' = [calls EXCEPT ![t] = @ + 1]
    /\ \/ /\ exception
          /\ Goes(t, "abort") /\ UNCHANGED <<stream, inUse, os>>
       \/ /\ ~exception /\ ~inUse
          /\ inUse' = TRUE
          /\ os' = [os EXCEPT ![t] = stream] /\ stream' = <<>>
          /\ Goes(t, "write")
    /\ UNCHANGED <<owner, num, marker, exception, sent, accepted>>

(* The parameters are written; what throws leaves a part of the request. *)
Write(t) ==
    /\ pc[t] = "write"
    /\ os' = [os EXCEPT ![t] = Append(@, ThisRequest(t))]
    /\ \E p \in {"finish"} \cup (IF "write" \in Events THEN {"abort"} ELSE {}) : Goes(t, p)
    /\ UNCHANGED <<stream, inUse, owner, num, marker, exception, calls, sent, accepted>>

(* finishBatchRequest(): the stream is brought back, *)
FinishBatchRequest(t) ==
    /\ pc[t] = "finish"
    /\ stream' = os[t] /\ os' = [os EXCEPT ![t] = stream]
    /\ owner' = t
    /\ Goes(t, IF Len(os[t]) > MaxSize THEN "flush" ELSE "intercept")
    /\ UNCHANGED <<inUse, num, marker, exception, calls, sent, accepted>>

(* Mutant of Swap: the request that is being finished goes with the batch. *)
SwapAll ==
    IF num = 0 THEN UNCHANGED <<stream, num, marker, sent>>
    ELSE /\ sent' = Append(sent, [batch |-> stream, num |-> num, upto |-> Len(accepted)])
         /\ stream' = <<Header>> /\ num' = 0 /\ marker' = 1

(* The part of swap() after its wait. *)
Swap ==
    IF num = 0 THEN UNCHANGED <<stream, num, marker, sent>>
    ELSE /\ sent' = Append(sent, [batch |-> IF marker < Len(stream) THEN SubSeq(stream, 1, marker) ELSE stream,
                                    num |-> num, upto |-> Len(accepted)])
         /\ stream' = <<Header>> \o SubSeq(stream, marker + 1, Len(stream))
         /\ num' = 0 /\ marker' = 1

(* it is flushed if it is full, through swap() again, *)
AutoFlush(t) ==
    /\ pc[t] = "flush"
    /\ Swap
    /\ \E p \in {"intercept"} \cup (IF "flush" \in Events THEN {"throw"} ELSE {}) : Goes(t, p)
    /\ UNCHANGED <<inUse, owner, exception, os, calls, accepted>>

(* the request is added to the batch, unless the interceptor drops it,     *)
Intercept(t) ==
    /\ pc[t] = "intercept"
    /\ \/ /\ marker' = Len(stream) /\ num' = num + 1
          /\ accepted' = Append(accepted, ThisRequest(t))
          /\ Goes(t, "release")
       \/ /\ \E p \in {"release"} \cup (IF "interceptor" \in Events THEN {"throw"} ELSE {}) : Goes(t, p)
          /\ UNCHANGED <<marker, num, accepted>>
    /\ UNCHANGED <<stream, inUse, owner, exception, os, calls, sent>>

(* and the stream is released; what throws leads to abort().               *)
Release(t) ==
    /\ pc[t] \in {"release", "throw"}
    /\ stream' = Resize(stream, marker)
    /\ inUse' = FALSE /\ owner' = None
    /\ os' = IF pc[t] = "throw" THEN os ELSE [os EXCEPT ![t] = <<>>]
    /\ Goes(t, IF pc[t] = "throw" THEN "abort" ELSE "idle")
    /\ UNCHANGED <<num, marker, exception, calls, sent, accepted>>

(* abortBatchRequest(), called by OutgoingAsync::abort(). *)
AbortBatchRequest(t) ==
    /\ pc[t] = "abort"
    /\ IF inUse
       THEN stream' = Resize(os[t], marker) /\ inUse' = FALSE
       ELSE UNCHANGED <<stream, inUse>>
    /\ os' = [os EXCEPT ![t] = <<>>]
    /\ Goes(t, "idle")
    /\ UNCHANGED <<owner, num, marker, exception, calls, sent, accepted>>

(* swap(), called by the flush of a proxy, a connection or a communicator. *)
Flush(t) ==
    /\ pc[t] = "idle" /\ ~inUse
    /\ Swap
    /\ UNCHANGED <<inUse, owner, exception, os, pc, calls, accepted>>

(* destroy(), when the connection is closed. *)
Destroy ==
    /\ "destroy" \in Events /\ ~exception
    /\ exception' = TRUE
    /\ UNCHANGED <<stream, inUse, owner, num, marker, os, pc, calls, sent, accepted>>

Init ==
    /\ stream = <<Header>> /\ marker = 1 /\ num = 0
    /\ inUse = FALSE /\ owner = None /\ exception = FALSE
    /\ os = [t \in Thread |-> <<>>] /\ pc = [t \in Thread |-> "idle"] /\ calls = [t \in Thread |-> 0]
    /\ sent = <<>> /\ accepted = <<>>

Step(t) == \/ Write(t) \/ FinishBatchRequest(t) \/ AutoFlush(t) \/ Intercept(t) \/ Release(t)
           \/ AbortBatchRequest(t)

Next ==
    \/ \E t \in Thread : PrepareBatchRequest(t) \/ Step(t) \/ Flush(t)
    \/ Destroy

Spec == Init /\ [][Next]_vars

-----------------------------------------------------------------------------
(* The threads between prepareBatchRequest() and the release. *)
Holds(t) == pc[t] \in {"write", "finish", "flush", "intercept", "release", "throw"}
            \/ (pc[t] = "abort" /\ os[t] # <<>>)

(* The assertion of finishBatchRequest(), and what it stands for: the      *)
(* stream belongs to one thread from prepareBatchRequest() to its release, *)
(* which no flush and no failure of another thread takes from it.          *)
StreamOwned ==
    /\ \A t, u \in Thread : Holds(t) /\ Holds(u) => t = u
    /\ inUse <=> \E t \in Thread : Holds(t)

(* The batch that is being filled. *)
Current ==
    IF \E t \in Thread : pc[t] \in {"write", "finish", "abort"} /\ os[t] # <<>>
    THEN SubSeq(os[CHOOSE t \in Thread : pc[t] \in {"write", "finish", "abort"} /\ os[t] # <<>>], 1, marker)
    ELSE SubSeq(stream, 1, marker)

(* A stream with the requests that were finished after the first a, up to  *)
(* the first b; those that the batches before the i-th have.               *)
Filled(a, b) == <<Header>> \o SubSeq(accepted, a + 1, b)
Before(i) == IF i = 1 THEN 0 ELSE sent[i - 1].upto

(* "Restore the queue to a usable state on any exception" and the          *)
(* bookkeeping of swap(): the batches that were flushed and the one that   *)
(* is filled hold the requests that were finished, each once and in order, *)
(* with no part of another, and the number of requests that a batch        *)
(* announces is the number it holds.                                       *)
BatchesExact ==
    /\ \A i \in DOMAIN sent :
         sent[i].num > 0 /\ sent[i].upto = Before(i) + sent[i].num
         /\ sent[i].batch = Filled(Before(i), sent[i].upto)
    /\ Len(accepted) = Before(Len(sent) + 1) + num
    /\ Current = Filled(Before(Len(sent) + 1), Len(accepted))
=============================================================================
