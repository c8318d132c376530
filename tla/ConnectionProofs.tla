-------------------------- MODULE ConnectionProofs --------------------------
(***************************************************************************)
(* Proofs about Connection, for any set of requests, limit of dispatches   *)
(* and capacity of the transport, and any calls of both ends.              *)
(*                                                                         *)
(* The argument is about the stream of an end: the messages that the       *)
(* transport has taken followed by those of the queue that will still be   *)
(* written.  sendMessage() appends to it, the other end reads its head,    *)
(* and writing a message leaves it as it is.  Local(c) is what an end      *)
(* keeps by itself, Mid(c) the part of it that also holds inside           *)
(* message(), and Cross what relates the two ends.                         *)
(***************************************************************************)
EXTENDS Connection, FiniteSetTheorems, SequenceTheorems, TLAPS

(* What is left of the queue once the message that was written is removed, *)
(* and what will be written of it.                                         *)
Rest(c) == IF c.written THEN Tail(c.sendStreams) ELSE c.sendStreams
Unwritten(c) == IF c.state >= Closed THEN <<>> ELSE Rest(c)
Stream(c) == c.out \o Unwritten(c)

(* The requests of queued messages are waited for. *)
Owned(q, c) ==
    \A i \in DOMAIN q : q[i].of # None => q[i].type = "request" /\ q[i].of = q[i].r /\ q[i].of \in c.asyncRequests

(* The phases of the closure, and of message(). *)
Phases(c) ==
    /\ c.written => c.pc = "locked" /\ c.sendStreams # <<>>
    /\ c.finishing => c.state = Closed
    /\ c.shutdownInitiated => c.state >= Closing /\ c.dispatches = {}
    /\ c.state = ClosingPending => c.shutdownInitiated

(* NoStall, RemovedOnce and the completions of one end. *)
Waits(c) ==
    /\ c.state = Active /\ Reads(c) => "read" \in c.registered
    /\ c.state = ClosingPending => "read" \in c.registered
    /\ c.state < ClosingPending /\ c.sendStreams # <<>> => "write" \in c.registered

Removal(c) == c.removed = IF c.state = Finished /\ Upcalls(c) = 0 THEN 1 ELSE 0

Tally(c) ==
    /\ \A r \in Request :
         /\ c.completions[r] <= 1
         /\ c.completions[r] = 0 <=> c.done[r] \in {"new", "pending"}
         /\ c.done[r] = "pending" <=> r \in c.asyncRequests
    /\ c.state = Finished => c.asyncRequests = {}
    /\ c.hint \in c.asyncRequests \cup {None}

Core(c) ==
    /\ c \in Endpoint /\ Len(c.out) <= Capacity
    /\ Phases(c) /\ Waits(c) /\ Tally(c) /\ Owned(Rest(c), c)

Mid(c) == Core(c) /\ Removal(c)

(* CloseHonoured of one end, and what an end that is not validated has. *)
Settled(c) ==
    /\ ~LateCancel /\ c.closeRequested /\ c.asyncRequests = {} => c.state >= Closing
    /\ c.state = NotValidated => c.sendStreams = <<>> /\ c.asyncRequests = {} /\ c.dispatches = {}

Local(c) == Mid(c) /\ Settled(c) /\ (c.pc = "locked" => c.state < Closed) /\ Owned(c.sendStreams, c)

(* What is on its way to the server, and to the client. *)
Requests(q, done, D) ==
    /\ \A i \in DOMAIN q : q[i].type = "request" => done[q[i].r] # "new" /\ q[i].r \notin D
    /\ \A i, j \in DOMAIN q : q[i].type = "request" /\ q[j].type = "request" /\ q[i].r = q[j].r => i = j

Replies(q, D, shut) ==
    \A i \in DOMAIN q :
        /\ q[i].type # "request"
        /\ q[i].type = "reply" => q[i].r \in D
        /\ q[i].type = "close" => i = Len(q) /\ shut

HasReply(q, r) == \E i \in DOMAIN q : q[i].type = "reply" /\ q[i].r = r
HasClose(q) == \E i \in DOMAIN q : q[i].type = "close"

(* A request that was dispatched and is waited for will be answered before *)
(* the server says that it closes.                                         *)
Answered(cl, sv, D) ==
    \A r \in D : r \in cl.asyncRequests =>
        \/ r \in sv.dispatches
        \/ HasReply(Stream(sv), r)
        \/ sv.state >= Closed /\ ~HasClose(Stream(sv))

Cross(cl, sv, D) ==
    /\ Requests(Stream(cl), cl.done, D) /\ Replies(Stream(sv), D, sv.shutdownInitiated)
    /\ sv.asyncRequests = {} /\ sv.dispatches \subseteq D
    /\ \A r \in D : cl.done[r] # "new"
    /\ Answered(cl, sv, D)
    /\ cl.exception = "CloseConnection" => sv.shutdownInitiated /\ cl.asyncRequests \cap D = {}
    /\ \A r \in Request : cl.done[r] = "CloseConnection" => sv.shutdownInitiated /\ r \notin D

IInv ==
    /\ conn \in [End -> Endpoint] /\ \A e \in End : Local(conn[e])
    /\ Cross(conn["client"], conn["server"], dispatched)
    /\ dispatched \subseteq Request /\ held \in BOOLEAN /\ calls \in 0 .. MaxCalls

-----------------------------------------------------------------------------
LEMMA States ==
    /\ NotValidated = 0 /\ Active = 1 /\ Holding = 2 /\ Closing = 3
    /\ ClosingPending = 4 /\ Closed = 5 /\ Finished = 6
BY DEF NotValidated, Active, Holding, Closing, ClosingPending, Closed, Finished

USE States

LEMMA Constants ==
    /\ IsFiniteSet(Request) /\ None \notin Request
    /\ MaxDispatches \in Nat /\ Capacity \in Nat /\ Capacity > 0 /\ MaxCalls \in Nat
    /\ LateCancel \in BOOLEAN
BY Instance DEF ConnectionAssumption

LEMMA Controls ==
    /\ \A t \in {"validate", "close"} : /\ Control(t) \in Message
                                        /\ Control(t).type = t /\ Control(t).of = None
    /\ \A r \in Request : [type |-> "reply", r |-> r, of |-> None] \in Message
    /\ \A r \in Request : [type |-> "request", r |-> r, of |-> r] \in Message
BY DEF Control, Message

LEMMA UpcallsFacts ==
    ASSUME NEW c \in Endpoint
    PROVE  /\ Upcalls(c) \in Nat
           /\ Upcalls(c) = 0 <=> c.callbacks = 0 /\ c.dispatches = {}
           /\ Upcalls(c) > 0 <=> Upcalls(c) # 0
<1>1. c.callbacks \in Nat /\ c.dispatches \subseteq Request
  BY DEF Endpoint
<1>2. IsFiniteSet(c.dispatches)
  BY <1>1, Constants, FS_Subset
<1>3. Cardinality(c.dispatches) \in Nat /\ (Cardinality(c.dispatches) = 0 <=> c.dispatches = {})
  BY <1>2, FS_CardinalityType, FS_EmptySet
<1> DEFINE k == c.callbacks
<1> DEFINE n == Cardinality(c.dispatches)
<1>4. Upcalls(c) = k + n /\ k \in Nat /\ n \in Nat /\ (n = 0 <=> c.dispatches = {})
  BY <1>1, <1>3 DEF Upcalls
<1> HIDE DEF n
<1>5. Upcalls(c) \in Nat /\ (Upcalls(c) = 0 <=> (k = 0 /\ n = 0))
  BY <1>4
<1> QED
  BY <1>4, <1>5

(* An end may dispatch more after a dispatch has ended, if it could before *)
(* or reaches the limit no more.                                           *)
LEMMA ReadsFacts ==
    ASSUME NEW c \in Endpoint, NEW r \in c.dispatches
    PROVE  LET d == [c EXCEPT !.dispatches = @ \ {r}] IN
           Reads(d) => Reads(c) \/ (MaxDispatches > 0 /\ Cardinality(c.dispatches) = MaxDispatches)
<1> DEFINE d == [c EXCEPT !.dispatches = @ \ {r}]
<1>1. c.dispatches \subseteq Request /\ d.dispatches = c.dispatches \ {r}
  BY DEF Endpoint
<1>2. IsFiniteSet(c.dispatches)
  BY <1>1, Constants, FS_Subset
<1>3. /\ Cardinality(c.dispatches) \in Nat
      /\ Cardinality(c.dispatches \ {r}) = Cardinality(c.dispatches) - 1
  BY <1>2, FS_CardinalityType, FS_RemoveElement
<1> QED
  BY <1>1, <1>3, Constants DEF Reads

(* The parts of the stream are sequences of messages. *)
LEMMA Typing ==
    ASSUME NEW c \in Endpoint, c.written => c.sendStreams # <<>>
    PROVE  /\ c.out \in Seq(Message) /\ c.sendStreams \in Seq(Message)
           /\ Rest(c) \in Seq(Message) /\ Unwritten(c) \in Seq(Message) /\ Stream(c) \in Seq(Message)
           /\ c.state \in Nat
<1>1. c.out \in Seq(Message) /\ c.sendStreams \in Seq(Message) /\ c.state \in Nat
  BY DEF Endpoint
<1>2. Rest(c) \in Seq(Message)
  BY <1>1, HeadTailProperties DEF Rest
<1>3. Unwritten(c) \in Seq(Message)
  BY <1>2, EmptySeq DEF Unwritten
<1> QED
  BY <1>1, <1>2, <1>3, ConcatProperties DEF Stream

-----------------------------------------------------------------------------
(* Streams that lose their head, their end or one of their messages. *)
LEMMA RequestsSub ==
    ASSUME NEW q \in Seq(Message), NEW p \in Seq(Message), NEW done, NEW D, Requests(q, done, D),
           NEW f \in [DOMAIN p -> DOMAIN q],
           \A i, j \in DOMAIN p : f[i] = f[j] => i = j,
           \A i \in DOMAIN p : p[i].type = q[f[i]].type /\ p[i].r = q[f[i]].r
    PROVE  Requests(p, done, D)
<1>1. \A i \in DOMAIN p : f[i] \in DOMAIN q
  OBVIOUS
<1>2. \A i \in DOMAIN p : p[i].type = "request" => done[p[i].r] # "new" /\ p[i].r \notin D
  BY <1>1, SMTT(60) DEF Requests
<1>3. ASSUME NEW i \in DOMAIN p, NEW j \in DOMAIN p, p[i].type = "request", p[j].type = "request", p[i].r = p[j].r
      PROVE  i = j
  <2>1. f[i] = f[j]
    BY <1>1, <1>3 DEF Requests
  <2> QED
    BY <2>1
<1> QED
  BY <1>2, <1>3 DEF Requests

LEMMA RequestsTail ==
    ASSUME NEW q \in Seq(Message), q # <<>>, NEW done, NEW D, Requests(q, done, D)
    PROVE  /\ Requests(Tail(q), done, D)
           /\ Head(q).type = "request" => Requests(Tail(q), done, D \cup {Head(q).r})
<1> DEFINE p == Tail(q)
<1>1. /\ p \in Seq(Message) /\ DOMAIN p = 1 .. Len(p) /\ DOMAIN q = 1 .. Len(q) /\ Len(q) \in Nat
      /\ Len(p) = Len(q) - 1 /\ Len(q) > 0 /\ Head(q) = q[1]
      /\ \A i \in DOMAIN p : p[i] = q[i + 1] /\ i + 1 \in DOMAIN q /\ i \in Nat
  BY HeadTailProperties, LenProperties, EmptySeq
<1> HIDE DEF p
<1>2. Requests(p, done, D)
  BY <1>1 DEF Requests
<1>3. ASSUME q[1].type = "request" PROVE Requests(p, done, D \cup {q[1].r})
  <2>1. \A i \in DOMAIN p : p[i].type = "request" => p[i].r # q[1].r
    <3> SUFFICES ASSUME NEW i \in DOMAIN p, p[i].type = "request", p[i].r = q[1].r PROVE FALSE
      OBVIOUS
    <3>1. i + 1 \in DOMAIN q /\ 1 \in DOMAIN q /\ q[i + 1].type = "request" /\ q[i + 1].r = q[1].r
      BY <1>1
    <3>2. i + 1 = 1
      BY <1>3, <3>1 DEF Requests
    <3> QED
      BY <1>1, <3>2
  <2> QED
    BY <1>2, <2>1 DEF Requests
<1> QED
  BY <1>1, <1>2, <1>3 DEF p

LEMMA RequestsAppend ==
    ASSUME NEW q \in Seq(Message), NEW done, NEW D, NEW m \in Message, Requests(q, done, D),
           m.type = "request" => /\ done[m.r] # "new" /\ m.r \notin D
                                 /\ \A i \in DOMAIN q : q[i].type = "request" => q[i].r # m.r
    PROVE  Requests(Append(q, m), done, D)
<1> DEFINE p == Append(q, m)
<1>1. /\ DOMAIN p = 1 .. Len(q) + 1 /\ DOMAIN q = 1 .. Len(q) /\ Len(q) \in Nat
      /\ (\A i \in DOMAIN q : p[i] = q[i]) /\ p[Len(q) + 1] = m
  BY AppendProperties, LenProperties
<1> HIDE DEF p
<1>2. \A i \in DOMAIN p : i \in DOMAIN q \/ i = Len(q) + 1
  BY <1>1
<1> QED
  BY <1>1, <1>2 DEF Requests, p

LEMMA RequestsPrefix ==
    ASSUME NEW p \in Seq(Message), NEW u \in Seq(Message), NEW done, NEW D, Requests(p \o u, done, D)
    PROVE  Requests(p, done, D)
<1> DEFINE q == p \o u
<1>1. /\ DOMAIN p = 1 .. Len(p) /\ DOMAIN q = 1 .. Len(p) + Len(u) /\ Len(p) \in Nat /\ Len(u) \in Nat
      /\ \A i \in DOMAIN p : p[i] = q[i] /\ i \in DOMAIN q
  BY ConcatProperties, LenProperties
<1> HIDE DEF q
<1> QED
  BY <1>1 DEF Requests, q

LEMMA RepliesTail ==
    ASSUME NEW q \in Seq(Message), q # <<>>, NEW D, NEW shut, Replies(q, D, shut)
    PROVE  /\ Replies(Tail(q), D, shut)
           /\ Head(q).type = "close" => Tail(q) = <<>> /\ shut
           /\ Head(q).type = "reply" => Head(q).r \in D
           /\ Head(q).type # "request"
           /\ HasClose(q) /\ ~HasClose(Tail(q)) => Head(q).type = "close"
           /\ HasClose(Tail(q)) => HasClose(q)
           /\ \A r : HasReply(q, r) /\ ~HasReply(Tail(q), r) => Head(q).type = "reply" /\ Head(q).r = r
<1> DEFINE p == Tail(q)
<1>1. /\ p \in Seq(Message) /\ DOMAIN p = 1 .. Len(p) /\ DOMAIN q = 1 .. Len(q) /\ Len(q) \in Nat
      /\ Len(p) = Len(q) - 1 /\ Len(q) > 0 /\ Head(q) = q[1]
      /\ \A i \in DOMAIN p : p[i] = q[i + 1] /\ i + 1 \in DOMAIN q /\ i \in Nat
  BY HeadTailProperties, LenProperties, EmptySeq
<1>0. Len(p) = 0 => p = <<>>
  BY <1>1, EmptySeq
<1>2. \A i \in DOMAIN q : i = 1 \/ (i - 1 \in DOMAIN p /\ q[i] = p[i - 1])
  BY <1>1
<1>3. 1 \in DOMAIN q
  BY <1>1
<1> HIDE DEF p
<1>4. Replies(p, D, shut)
  BY <1>1 DEF Replies
<1>5. q[1].type = "close" => p = <<>> /\ shut
  BY <1>0, <1>1, <1>3 DEF Replies
<1>6. (q[1].type = "reply" => q[1].r \in D) /\ q[1].type # "request"
  BY <1>3 DEF Replies
<1>7. (HasClose(q) /\ ~HasClose(p) => q[1].type = "close") /\ (HasClose(p) => HasClose(q))
  BY <1>1, <1>2 DEF HasClose
<1>8. \A r : HasReply(q, r) /\ ~HasReply(p, r) => q[1].type = "reply" /\ q[1].r = r
  BY <1>2 DEF HasReply
<1> QED
  BY <1>1, <1>4, <1>5, <1>6, <1>7, <1>8 DEF p

LEMMA RepliesAppend ==
    ASSUME NEW q \in Seq(Message), NEW D, NEW shut, NEW shut2, NEW m \in Message, Replies(q, D, shut),
           ~HasClose(q), m.type # "request", m.type = "reply" => m.r \in D, m.type = "close" => shut2
    PROVE  /\ Replies(Append(q, m), D, shut2)
           /\ HasClose(Append(q, m)) => m.type = "close"
           /\ \A r : HasReply(q, r) \/ (m.type = "reply" /\ m.r = r) => HasReply(Append(q, m), r)
<1> DEFINE p == Append(q, m)
<1>1. /\ Len(p) = Len(q) + 1 /\ DOMAIN p = 1 .. Len(q) + 1 /\ DOMAIN q = 1 .. Len(q) /\ Len(q) \in Nat
      /\ (\A i \in DOMAIN q : p[i] = q[i] /\ i \in DOMAIN p) /\ p[Len(q) + 1] = m /\ Len(q) + 1 \in DOMAIN p
  BY AppendProperties, LenProperties
<1> HIDE DEF p
<1>2. \A i \in DOMAIN p : i \in DOMAIN q \/ i = Len(p)
  BY <1>1
<1>3. Replies(p, D, shut2)
  <2> SUFFICES ASSUME NEW i \in DOMAIN p
               PROVE  /\ p[i].type # "request" /\ (p[i].type = "reply" => p[i].r \in D)
                      /\ p[i].type = "close" => i = Len(p) /\ shut2
    BY DEF Replies
  <2>1. CASE i \in DOMAIN q
    BY <1>1, <2>1 DEF Replies, HasClose
  <2>2. CASE i = Len(p)
    BY <1>1, <2>2
  <2> QED
    BY <1>2, <2>1, <2>2
<1>4. HasClose(p) => m.type = "close"
  BY <1>1, <1>2 DEF HasClose
<1>5. \A r : HasReply(q, r) \/ (m.type = "reply" /\ m.r = r) => HasReply(p, r)
  BY <1>1 DEF HasReply
<1> QED
  BY <1>3, <1>4, <1>5 DEF p

LEMMA RepliesPrefix ==
    ASSUME NEW p \in Seq(Message), NEW u \in Seq(Message), NEW D, NEW shut, Replies(p \o u, D, shut)
    PROVE  /\ Replies(p, D, shut)
           /\ HasClose(p) => HasClose(p \o u)
           /\ \A r : HasReply(p \o u, r) /\ ~HasReply(p, r) => ~HasClose(p)
<1> DEFINE q == p \o u
<1>1. /\ DOMAIN p = 1 .. Len(p) /\ DOMAIN q = 1 .. Len(q) /\ Len(q) = Len(p) + Len(u)
      /\ Len(p) \in Nat /\ Len(u) \in Nat
      /\ \A i \in DOMAIN p : p[i] = q[i] /\ i \in DOMAIN q
  BY ConcatProperties, LenProperties
<1> HIDE DEF q
<1>2. Replies(p, D, shut)
  BY <1>1 DEF Replies, q
<1>3. HasClose(p) => HasClose(q)
  BY <1>1 DEF HasClose
<1>4. ASSUME NEW r, HasReply(q, r), ~HasReply(p, r), HasClose(p) PROVE FALSE
  <2>1. PICK i \in DOMAIN q : q[i].type = "reply" /\ q[i].r = r
    BY <1>4 DEF HasReply
  <2>2. PICK k \in DOMAIN p : p[k].type = "close"
    BY <1>4 DEF HasClose
  <2>3. k = Len(q)
    BY <1>1, <2>2 DEF Replies, q
  <2>4. i \in DOMAIN p
    BY <1>1, <2>1, <2>2, <2>3
  <2> QED
    BY <1>1, <1>4, <2>1, <2>4 DEF HasReply
<1> QED
  BY <1>2, <1>3, <1>4 DEF q

-----------------------------------------------------------------------------
(* What a function of an end does that neither starts, ends, reads nor     *)
(* answers a request: the requests stay, a closure does not go back, and   *)
(* the stream stays, gets a control message or loses its unwritten part.   *)
Kept(c, d) ==
    /\ d.done = c.done /\ d.asyncRequests = c.asyncRequests /\ d.dispatches = c.dispatches
    /\ d.closeRequested => c.closeRequested \/ d.asyncRequests # {}
    /\ c.shutdownInitiated => d.shutdownInitiated
    /\ c.state >= Closing => d.state >= Closing
    /\ c.state >= Closed => d.state >= Closed
    /\ d.state = NotValidated => c.state = NotValidated /\ d.sendStreams = c.sendStreams
    /\ d.exception = "CloseConnection" => c.exception = "CloseConnection"

Appends(c, d, t) ==
    /\ Stream(d) = Append(Stream(c), Control(t)) /\ ~c.shutdownInitiated /\ c.state < Closed
    /\ t = "close" => d.shutdownInitiated /\ c.dispatches = {}

Cuts(c, d) == c.state < Closed /\ d.state >= Closed /\ Stream(d) = c.out

Flows(c, d) ==
    \/ Stream(d) = Stream(c)
    \/ Appends(c, d, "validate") \/ Appends(c, d, "close")
    \/ Cuts(c, d)

Quiet(c, d) == Kept(c, d) /\ Flows(c, d)

(* A record whose stream is a sequence. *)
Typed(c) == c \in Endpoint /\ (c.written => c.sendStreams # <<>>)

LEMMA QuietServer ==
    ASSUME NEW cl, NEW sv, NEW s2, NEW D, Typed(cl), Typed(sv), Typed(s2), Cross(cl, sv, D), Quiet(sv, s2)
    PROVE  Cross(cl, s2, D)
<1> DEFINE q == Stream(sv)
<1> DEFINE p == Stream(s2)
<1>1. /\ q \in Seq(Message) /\ p \in Seq(Message) /\ sv.state \in Nat /\ s2.state \in Nat
      /\ sv.out \in Seq(Message) /\ Unwritten(sv) \in Seq(Message) /\ q = sv.out \o Unwritten(sv)
  BY Typing DEF Typed, Stream
<1>2. /\ Replies(q, D, sv.shutdownInitiated) /\ Answered(cl, sv, D)
      /\ s2.dispatches = sv.dispatches /\ (sv.state >= Closed => s2.state >= Closed)
      /\ (sv.shutdownInitiated => s2.shutdownInitiated)
      /\ s2.shutdownInitiated \in BOOLEAN /\ sv.shutdownInitiated \in BOOLEAN
  BY DEF Cross, Quiet, Kept, Typed, Endpoint
<1>3. Replies(p, D, s2.shutdownInitiated) /\ Answered(cl, s2, D)
  <2>1. CASE p = q
    BY <1>1, <1>2, <2>1 DEF Replies, Answered
  <2>2. ASSUME NEW t \in {"validate", "close"}, Appends(sv, s2, t)
        PROVE  Replies(p, D, s2.shutdownInitiated) /\ Answered(cl, s2, D)
    <3>1. ~HasClose(q)
      BY <1>2, <2>2 DEF Replies, HasClose, Appends
    <3> DEFINE m == Control(t)
    <3>2. /\ m \in Message /\ m.type # "request" /\ m.type # "reply" /\ p = Append(q, m)
          /\ m.type = "close" => s2.shutdownInitiated
      BY <2>2, Controls DEF Appends
    <3> HIDE DEF m
    <3>6. /\ Replies(Append(q, m), D, s2.shutdownInitiated)
          /\ \A r : HasReply(q, r) \/ (m.type = "reply" /\ m.r = r) => HasReply(Append(q, m), r)
      <4> HIDE DEF p, q
      <4> QED
        BY <1>1, <1>2, <3>1, <3>2, RepliesAppend
    <3>3. /\ Replies(p, D, s2.shutdownInitiated)
          /\ \A r : HasReply(q, r) => HasReply(p, r)
      BY <3>2, <3>6
    <3>4. ~(sv.state >= Closed)
      BY <1>1, <2>2 DEF Appends
    <3>5. Answered(cl, s2, D)
      BY <1>2, <3>3, <3>4 DEF Answered
    <3> QED
      BY <3>3, <3>5
  <2>3. CASE Cuts(sv, s2)
    <3>1. p = sv.out /\ s2.state >= Closed /\ ~(sv.state >= Closed)
      BY <1>1, <2>3 DEF Cuts
    <3>2. /\ Replies(p, D, sv.shutdownInitiated) /\ (HasClose(p) => HasClose(q))
          /\ \A r : HasReply(q, r) /\ ~HasReply(p, r) => ~HasClose(p)
      BY <1>1, <1>2, <3>1, RepliesPrefix
    <3>3. Replies(p, D, s2.shutdownInitiated)
      BY <1>2, <3>2 DEF Replies
    <3>4. Answered(cl, s2, D)
      BY <1>2, <3>1, <3>2 DEF Answered
    <3> QED
      BY <3>3, <3>4
  <2> QED
    BY <2>1, <2>2, <2>3 DEF Quiet, Flows
<1> HIDE DEF p, q
<1> QED
  BY <1>2, <1>3 DEF Cross, Quiet, Kept, p

LEMMA QuietClient ==
    ASSUME NEW cl, NEW sv, NEW c2, NEW D, Typed(cl), Typed(c2), Cross(cl, sv, D), Quiet(cl, c2)
    PROVE  Cross(c2, sv, D)
<1> DEFINE q == Stream(cl)
<1> DEFINE p == Stream(c2)
<1>1. /\ q \in Seq(Message) /\ cl.out \in Seq(Message) /\ Unwritten(cl) \in Seq(Message)
      /\ q = cl.out \o Unwritten(cl)
  BY Typing DEF Typed, Stream
<1>2. Requests(q, cl.done, D) /\ c2.done = cl.done
  BY DEF Cross, Quiet, Kept
<1>3. Requests(p, cl.done, D)
  <2>1. CASE p = q
    BY <1>2, <2>1
  <2>2. ASSUME NEW t \in {"validate", "close"}, Appends(cl, c2, t) PROVE Requests(p, cl.done, D)
    <3>1. Control(t) \in Message /\ Control(t).type # "request"
      BY Controls
    <3> QED
      BY <1>1, <1>2, <2>2, <3>1, RequestsAppend DEF Appends
  <2>3. CASE Cuts(cl, c2)
    BY <1>1, <1>2, <2>3, RequestsPrefix DEF Cuts
  <2> QED
    BY <2>1, <2>2, <2>3 DEF Quiet, Flows
<1> HIDE DEF p, q
<1> QED
  BY <1>2, <1>3 DEF Cross, Quiet, Kept, p, Answered

-----------------------------------------------------------------------------
(* The functions of an end. *)
Frame(c, d) == d.pc = c.pc /\ d.written = c.written /\ d.callbacks = c.callbacks /\ d.removed = c.removed

LEMMA MidTyped == \A c : Mid(c) => Typed(c) /\ Core(c)
BY DEF Mid, Core, Phases, Typed

LEMMA SetClosedMid ==
    ASSUME NEW c \in Endpoint, Mid(c), NEW ex \in Exception, NEW d, d = SetClosed(c, ex)
    PROVE  /\ Mid(d) /\ Frame(c, d) /\ d.sendStreams = c.sendStreams /\ d.state >= Closed
           /\ ex # "CloseConnection" => Quiet(c, d)
<1>1. CASE c.state >= Closed
  <2>1. d = c
    BY <1>1 DEF SetClosed
  <2> QED
    BY <1>1, <2>1 DEF Quiet, Kept, Flows, Frame
<1>2. CASE ~(c.state >= Closed)
  <2>1. /\ c \in Endpoint /\ c.state < Closed
        /\ d = [c EXCEPT !.state = Closed, !.exception = IF @ = "none" THEN ex ELSE @,
                         !.registered = {}, !.finishing = TRUE]
    BY <1>2 DEF SetClosed, Mid, Core, Endpoint
  <2> DEFINE x == IF c.exception = "none" THEN ex ELSE c.exception
  <2>0. x \in Exception /\ d = [c EXCEPT !.state = Closed, !.exception = x, !.registered = {}, !.finishing = TRUE]
    BY <2>1 DEF Endpoint
  <2> HIDE DEF x
  <2>a. Closed \in NotValidated .. Finished
    OBVIOUS
  <2>b. [c EXCEPT !.state = Closed, !.exception = x, !.registered = {}, !.finishing = TRUE] \in Endpoint
    BY <2>0, <2>a DEF Endpoint
  <2>2. d \in Endpoint
    BY <2>0, <2>b
  <2>3. /\ d.state = Closed /\ d.registered = {} /\ d.finishing /\ d.exception \in {c.exception, ex}
        /\ d.out = c.out /\ d.sendStreams = c.sendStreams /\ d.written = c.written /\ d.pc = c.pc
        /\ d.shutdownInitiated = c.shutdownInitiated /\ d.closeRequested = c.closeRequested
        /\ d.dispatches = c.dispatches /\ d.asyncRequests = c.asyncRequests /\ d.hint = c.hint
        /\ d.done = c.done /\ d.completions = c.completions /\ d.removed = c.removed /\ d.callbacks = c.callbacks
    BY <2>1 DEF Endpoint
  <2>4. Rest(d) = Rest(c)
    BY <2>3 DEF Rest
  <2>5. Phases(d) /\ Waits(d) /\ Tally(d) /\ Owned(Rest(d), d)
    BY <2>1, <2>3, <2>4 DEF Mid, Core, Phases, Waits, Tally, Owned
  <2>6. Removal(d)
    BY <2>1, <2>3 DEF Mid, Removal
  <2>7. Mid(d)
    BY <2>2, <2>3, <2>5, <2>6 DEF Mid, Core
  <2>8. Stream(d) = c.out
    BY <2>3, <2>1, ConcatEmptySeq DEF Stream, Unwritten, Endpoint
  <2>9. Cuts(c, d) /\ (ex # "CloseConnection" => Kept(c, d))
    BY <2>1, <2>3, <2>8 DEF Cuts, Kept
  <2> QED
    BY <2>3, <2>7, <2>9 DEF Quiet, Flows, Frame
<1> QED
  BY <1>1, <1>2

LEMMA AppendOfConcat ==
    ASSUME NEW p \in Seq(Message), NEW q \in Seq(Message), NEW m \in Message
    PROVE  p \o Append(q, m) = Append(p \o q, m)
<1>1. <<m>> \in Seq(Message) /\ p \o q \in Seq(Message)
  BY ConcatProperties
<1>2. Append(q, m) = q \o <<m>> /\ Append(p \o q, m) = (p \o q) \o <<m>>
  BY <1>1, AppendIsConcat
<1> QED
  BY <1>1, <1>2, ConcatAssociative

(* sendMessage() appends to the stream. *)
Sends(c, m, d) ==
    /\ Frame(c, d) /\ Stream(d) = Append(Stream(c), m)
    /\ d.state = c.state /\ d.shutdownInitiated = c.shutdownInitiated
    /\ d.exception = c.exception /\ d.closeRequested = c.closeRequested /\ d.done = c.done
    /\ d.asyncRequests = c.asyncRequests /\ d.dispatches = c.dispatches
    /\ c.sendStreams # <<>> => d.sendStreams # <<>>

Sendable(c, m) == m.of # None => m.type = "request" /\ m.of = m.r /\ m.of \in c.asyncRequests

LEMMA SendMessageMid ==
    ASSUME NEW c \in Endpoint, Mid(c), c.state < Closed, NEW m \in Message,
           Sendable(c, m), NEW d, d = SendMessage(c, m)
    PROVE  Mid(d) /\ Sends(c, m, d)
<1>1. /\ c \in Endpoint /\ c.sendStreams \in Seq(Message) /\ c.out \in Seq(Message) /\ c.state \in Nat
      /\ Len(c.out) <= Capacity /\ Len(c.out) \in Nat /\ Typed(c) /\ Core(c)
  BY MidTyped, LenProperties DEF Mid, Core, Endpoint
<1> DEFINE Rem == /\ d.pc = c.pc /\ d.written = c.written /\ d.callbacks = c.callbacks /\ d.removed = c.removed
                  /\ d.state = c.state /\ d.exception = c.exception /\ d.finishing = c.finishing
                  /\ d.shutdownInitiated = c.shutdownInitiated /\ d.closeRequested = c.closeRequested
                  /\ d.dispatches = c.dispatches /\ d.asyncRequests = c.asyncRequests /\ d.hint = c.hint
                  /\ d.done = c.done /\ d.completions = c.completions
                  /\ (d.registered = c.registered \/ d.registered = c.registered \cup {"write"})
<1>2. /\ d \in Endpoint /\ Rem /\ Len(d.out) <= Capacity
      /\ Owned(Rest(d), d) /\ Stream(d) = Append(Stream(c), m)
      /\ c.sendStreams # <<>> => d.sendStreams # <<>>
      /\ c.sendStreams = <<>> /\ d.sendStreams # <<>> => "write" \in d.registered
  <2>1. CASE c.sendStreams # <<>>
    <3> DEFINE q == Append(c.sendStreams, m)
    <3>1. d = [c EXCEPT !.sendStreams = q]
      BY <2>1 DEF SendMessage
    <3>2. q \in Seq(Message) /\ q # <<>> /\ Tail(q) = Append(Tail(c.sendStreams), m) /\ Tail(c.sendStreams) \in Seq(Message)
      BY <1>1, <2>1, AppendProperties, HeadTailAppend, HeadTailProperties
    <3> HIDE DEF q
    <3>3. d \in Endpoint /\ Rem /\ d.sendStreams = q /\ d.out = c.out
      BY <1>1, <3>1, <3>2, ZenonT(60) DEF Endpoint
    <3>4. Rest(d) = Append(Rest(c), m) /\ Rest(c) \in Seq(Message)
      BY <1>1, <3>2, <3>3 DEF Rest, q
    <3>5. Owned(Rest(d), d)
      <4>1. Owned(Rest(c), c)
        BY DEF Mid, Core
      <4>2. \A i \in DOMAIN Rest(d) : (i \in DOMAIN Rest(c) /\ Rest(d)[i] = Rest(c)[i]) \/ Rest(d)[i] = m
        BY <3>4, AppendProperties, LenProperties
      <4> QED
        BY <3>3, <4>1, <4>2 DEF Owned, Sendable
    <3>6. Stream(d) = Append(Stream(c), m)
      <4>0. Unwritten(d) = Rest(d) /\ Unwritten(c) = Rest(c)
        BY <1>1, <3>3 DEF Unwritten
      <4>1. Stream(d) = c.out \o Append(Rest(c), m) /\ Stream(c) = c.out \o Rest(c)
        BY <3>3, <3>4, <4>0 DEF Stream
      <4>2. c.out \o Append(Rest(c), m) = Append(c.out \o Rest(c), m)
        BY <1>1, <3>4, AppendOfConcat
      <4> QED
        BY <4>1, <4>2
    <3> QED
      BY <1>1, <2>1, <3>2, <3>3, <3>5, <3>6
  <2>2. CASE c.sendStreams = <<>> /\ Len(c.out) < Capacity
    <3> DEFINE q == Append(c.out, m)
    <3> DEFINE now == c.sent \cup {x.of : x \in {y \in {m} : y.of # None}}
    <3>1. d = [[c EXCEPT !.out = q] EXCEPT !.sent = @ \cup {x.of : x \in {y \in {m} : y.of # None}}]
      BY <2>2 DEF SendMessage, Sent
    <3>2. q \in Seq(Message) /\ Len(q) = Len(c.out) + 1
      BY <1>1, AppendProperties
    <3> HIDE DEF q
    <3>3. now \subseteq Request
      BY <1>1 DEF Message, Endpoint
    <3>4. d.sent = now /\ d = [[c EXCEPT !.out = q] EXCEPT !.sent = now]
      BY <1>1, <3>1 DEF Endpoint
    <3> HIDE DEF now
    <3>b. d = [c EXCEPT !.out = q, !.sent = now] /\ q \in Seq(Message)
      BY <3>2, <3>4
    <3>c. [c EXCEPT !.out = q, !.sent = now] \in Endpoint
      BY <3>2, <3>3 DEF Endpoint
    <3>a. d \in Endpoint
      BY <3>b, <3>c
    <3>5. d \in Endpoint /\ Rem /\ d.sendStreams = <<>> /\ d.out = q
      BY <1>1, <2>2, <3>4, <3>a DEF Endpoint
    <3>6. ~c.written /\ Rest(d) = <<>> /\ Rest(c) = <<>>
      BY <1>1, <2>2, <3>5 DEF Rest, Typed
    <3>7. Stream(d) = q /\ Stream(c) = c.out
      BY <1>1, <3>2, <3>5, <3>6, ConcatEmptySeq DEF Stream, Unwritten
    <3>8. Owned(Rest(d), d)
      BY <3>6 DEF Owned
    <3>9. Len(d.out) <= Capacity
      BY <1>1, <2>2, <3>2, <3>5, Constants
    <3> QED
      BY <2>2, <3>5, <3>7, <3>8, <3>9 DEF q
  <2>3. CASE c.sendStreams = <<>> /\ ~(Len(c.out) < Capacity)
    <3>1. d = [c EXCEPT !.sendStreams = <<m>>, !.registered = @ \cup {"write"}]
      BY <2>3 DEF SendMessage
    <3>a. <<m>> \in Seq(Message) /\ c \in Endpoint
      BY <1>1
    <3> DEFINE q == <<m>>
    <3> HIDE DEF q
    <3>b. d = [c EXCEPT !.sendStreams = q, !.registered = @ \cup {"write"}] /\ q \in Seq(Message)
      BY <3>1, <3>a DEF q
    <3>e. [c EXCEPT !.sendStreams = q, !.registered = @ \cup {"write"}] \in Endpoint
      BY <3>b DEF Endpoint
    <3>c. d \in Endpoint
      BY <3>b, <3>e
    <3>d. Rem /\ d.sendStreams = q /\ d.out = c.out /\ "write" \in d.registered
      BY <3>a, <3>b DEF Endpoint
    <3>2. d \in Endpoint /\ Rem /\ d.sendStreams = <<m>> /\ d.out = c.out /\ "write" \in d.registered
      BY <3>c, <3>d DEF q
    <3>3. ~c.written /\ Rest(d) = <<m>> /\ Rest(c) = <<>>
      BY <1>1, <2>3, <3>2 DEF Rest, Typed
    <3>0. Unwritten(d) = <<m>> /\ Unwritten(c) = <<>>
      BY <1>1, <3>2, <3>3 DEF Unwritten
    <3>4. Stream(d) = c.out \o <<m>> /\ Stream(c) = c.out
      BY <1>1, <3>2, <3>0, ConcatEmptySeq DEF Stream
    <3>5. Append(c.out, m) = c.out \o <<m>>
      BY <1>1, AppendIsConcat
    <3>6. Owned(Rest(d), d)
      BY <3>2, <3>3 DEF Owned, Sendable
    <3> QED
      BY <1>1, <2>3, <3>2, <3>4, <3>5, <3>6
  <2> QED
    BY <2>1, <2>2, <2>3
<1>3. Phases(d) /\ Tally(d) /\ Waits(d) /\ Removal(d)
  <2>1. Phases(d) /\ Tally(d)
    BY <1>2 DEF Mid, Core, Phases, Tally
  <2>2. Waits(d)
    BY <1>2 DEF Mid, Core, Waits, Reads
  <2>3. Removal(d)
    BY <1>2 DEF Mid, Removal, Upcalls
  <2> QED
    BY <2>1, <2>2, <2>3
<1> QED
  BY <1>2, <1>3 DEF Mid, Core, Frame, Sends

(* A step that leaves the queue and the requests of an end alone. *)
Body(c, d) ==
    /\ d.out = c.out /\ d.sendStreams = c.sendStreams /\ d.written = c.written /\ d.pc = c.pc
    /\ d.asyncRequests = c.asyncRequests /\ d.hint = c.hint /\ d.done = c.done /\ d.completions = c.completions
    /\ d.dispatches = c.dispatches /\ d.callbacks = c.callbacks /\ d.removed = c.removed

LEMMA BodyMid ==
    ASSUME NEW c \in Endpoint, Mid(c), NEW d \in Endpoint, Body(c, d), Phases(d), Waits(d),
           d.state = Finished <=> c.state = Finished
    PROVE  /\ Mid(d) /\ Frame(c, d)
           /\ (d.state >= Closed <=> c.state >= Closed) => Stream(d) = Stream(c)
<1>1. Tally(d)
  BY DEF Mid, Core, Body, Tally
<1>2. Rest(d) = Rest(c)
  BY DEF Rest, Body
<1>3. Owned(Rest(d), d)
  BY <1>2 DEF Mid, Core, Owned, Body
<1>4. Removal(d)
  BY DEF Mid, Removal, Upcalls, Body
<1>5. (d.state >= Closed <=> c.state >= Closed) => Stream(d) = Stream(c)
  <2>1. (d.state >= Closed <=> c.state >= Closed) => Unwritten(d) = Unwritten(c)
    BY <1>2 DEF Unwritten
  <2> QED
    BY <2>1 DEF Stream, Body
<1> QED
  BY <1>1, <1>3, <1>4, <1>5 DEF Mid, Core, Body, Frame

LEMMA StateRange ==
    /\ NotValidated \in NotValidated .. Finished /\ Active \in NotValidated .. Finished
    /\ Holding \in NotValidated .. Finished /\ Closing \in NotValidated .. Finished
    /\ ClosingPending \in NotValidated .. Finished /\ Closed \in NotValidated .. Finished
    /\ Finished \in NotValidated .. Finished
OBVIOUS

LEMMA PendingMid ==
    ASSUME NEW c \in Endpoint, Mid(c), c.state = Closing, c.shutdownInitiated
    PROVE  LET d == [c EXCEPT !.state = ClosingPending, !.registered = @ \cup {"read"}] IN
           Mid(d) /\ Frame(c, d) /\ Kept(c, d) /\ Stream(d) = Stream(c) /\ d.state = ClosingPending
<1> DEFINE d == [c EXCEPT !.state = ClosingPending, !.registered = @ \cup {"read"}]
<1>1. d \in Endpoint
  BY StateRange DEF Endpoint
<1>2. /\ Body(c, d) /\ d.state = ClosingPending /\ d.registered = c.registered \cup {"read"}
      /\ d.shutdownInitiated = c.shutdownInitiated /\ d.finishing = c.finishing
      /\ d.exception = c.exception /\ d.closeRequested = c.closeRequested
  BY DEF Endpoint, Body
<1> HIDE DEF d
<1>3. Phases(d) /\ Waits(d)
  BY <1>2 DEF Mid, Core, Phases, Waits, Body
<1>4. Mid(d) /\ Frame(c, d) /\ Stream(d) = Stream(c)
  BY <1>1, <1>2, <1>3, BodyMid
<1>5. Kept(c, d)
  BY <1>2 DEF Kept, Body
<1>6. Mid(d) /\ Frame(c, d) /\ Kept(c, d) /\ Stream(d) = Stream(c) /\ d.state = ClosingPending
  BY <1>2, <1>4, <1>5
<1> QED
  BY <1>6 DEF d

LEMMA QuietSelf == \A c : Frame(c, c) /\ Kept(c, c) /\ Quiet(c, c)
BY DEF Frame, Kept, Quiet, Flows

LEMMA InitiateShutdownMid ==
    ASSUME NEW c \in Endpoint, Mid(c), c.state = Closing, NEW fail \in BOOLEAN
    PROVE  LET d == InitiateShutdown(c, fail) IN
           Mid(d) /\ Frame(c, d) /\ Quiet(c, d) /\ d.state >= Closing
<1> DEFINE d == InitiateShutdown(c, fail)
<1>1. CASE c.shutdownInitiated \/ Upcalls(c) > 0
  <2>1. d = c
    BY <1>1 DEF InitiateShutdown
  <2> HIDE DEF d
  <2>2. Mid(d) /\ Frame(c, d) /\ Quiet(c, d) /\ d.state >= Closing
    BY <2>1, QuietSelf
  <2> QED
    BY <2>2 DEF d
<1>2. CASE ~(c.shutdownInitiated \/ Upcalls(c) > 0)
  <2>0. c.dispatches = {} /\ ~c.shutdownInitiated
    BY <1>2, UpcallsFacts
  <2> DEFINE c1 == [c EXCEPT !.shutdownInitiated = TRUE]
  <2> DEFINE c2 == [c EXCEPT !.shutdownInitiated = TRUE, !.closeTimer = TRUE]
  <2>1. c1 \in Endpoint /\ c2 \in Endpoint
    BY DEF Endpoint
  <2> DEFINE Like(x) ==
           /\ Body(c, x) /\ x.state = c.state /\ x.registered = c.registered /\ x.finishing = c.finishing
           /\ x.shutdownInitiated = TRUE /\ x.exception = c.exception /\ x.closeRequested = c.closeRequested
  <2>a. Like(c1)
    BY DEF Endpoint, Body
  <2>b. Like(c2)
    BY DEF Endpoint, Body
  <2>2. \A x \in {c1, c2} : Like(x)
    BY <2>a, <2>b
  <2> HIDE DEF c1, c2
  <2>3. \A x \in {c1, c2} : Phases(x) /\ Waits(x)
    BY <2>0, <2>2 DEF Mid, Core, Phases, Waits, Reads, Body
  <2>4. \A x \in {c1, c2} : Mid(x) /\ Frame(c, x) /\ Stream(x) = Stream(c)
    BY <2>1, <2>2, <2>3, BodyMid
  <2>5. CASE Fails(c, fail)
    <3>1. d = SetClosed(c1, "ConnectionLost")
      BY <1>2, <2>5 DEF InitiateShutdown, c1
    <3> HIDE DEF d
    <3>2. Mid(d) /\ Frame(c1, d) /\ d.state >= Closed /\ Quiet(c1, d)
      BY <2>1, <2>4, <3>1, SetClosedMid DEF Exception
    <3>3. Kept(c, d)
      BY <2>2, <3>2 DEF Quiet, Kept, Body
    <3>4. Flows(c, d)
      <4>1. c1.out = c.out /\ c1.state = c.state /\ Stream(c1) = Stream(c) /\ c1.shutdownInitiated
        BY <2>2, <2>4 DEF Body
      <4> QED
        BY <3>2, <4>1 DEF Quiet, Flows, Cuts, Appends
    <3>5. Mid(d) /\ Frame(c, d) /\ Quiet(c, d) /\ d.state >= Closing
      BY <2>1, <2>4, <3>2, <3>3, <3>4 DEF Quiet, Frame, Mid, Core, Endpoint
    <3> QED
      BY <3>5 DEF d
  <2>6. CASE ~Fails(c, fail)
    <3> DEFINE m == Control("close")
    <3> DEFINE s1 == SendMessage(c2, m)
    <3>1. d = IF s1.sendStreams = <<>>
              THEN [s1 EXCEPT !.state = ClosingPending, !.registered = @ \cup {"read"}] ELSE s1
      BY <1>2, <2>6 DEF InitiateShutdown, c2
    <3>0. s1 = SendMessage(c2, m)
      OBVIOUS
    <3> HIDE DEF s1, d
    <3>2. m \in Message /\ m.of = None
      BY Controls
    <3> HIDE DEF m
    <3>3. Mid(c2) /\ c2.state = Closing /\ c2.shutdownInitiated /\ Frame(c, c2)
      BY <2>2, <2>4
    <3>a. Sendable(c2, m)
      BY <3>2 DEF Sendable
    <3>b. Mid(s1) /\ Sends(c2, m, s1)
      BY <2>1, <3>0, <3>2, <3>3, <3>a, SendMessageMid
    <3>4. /\ Mid(s1) /\ Frame(c2, s1) /\ Stream(s1) = Append(Stream(c2), m)
          /\ s1.state = c2.state /\ s1.shutdownInitiated = c2.shutdownInitiated
          /\ s1.exception = c2.exception /\ s1.closeRequested = c2.closeRequested /\ s1.done = c2.done
          /\ s1.asyncRequests = c2.asyncRequests /\ s1.dispatches = c2.dispatches
      BY <3>b DEF Sends
    <3>5. s1 \in Endpoint
      BY <3>4 DEF Mid, Core
    <3>6. Kept(c, s1) /\ Frame(c, s1) /\ Stream(s1) = Append(Stream(c), m) /\ s1.state = Closing
      BY <2>2, <2>4, <3>3, <3>4 DEF Kept, Body, Frame
    <3>7. /\ Mid(d) /\ Frame(s1, d) /\ Kept(s1, d) /\ Stream(d) = Stream(s1) /\ d.state >= Closing
      <4>1. CASE s1.sendStreams = <<>>
        <5>1. d = [s1 EXCEPT !.state = ClosingPending, !.registered = @ \cup {"read"}]
          BY <3>1, <4>1
        <5>2. Mid(s1) /\ s1.state = Closing /\ s1.shutdownInitiated
          BY <3>3, <3>4
        <5>3. Mid(d) /\ Frame(s1, d) /\ Kept(s1, d) /\ Stream(d) = Stream(s1) /\ d.state = ClosingPending
          BY <3>5, <5>1, <5>2, PendingMid
        <5> QED
          BY <5>3
      <4>2. CASE s1.sendStreams # <<>>
        <5>1. d = s1
          BY <3>1, <4>2
        <5> QED
          BY <3>4, <3>6, <5>1, QuietSelf
      <4> QED
        BY <4>1, <4>2
    <3>8. Kept(c, d) /\ Frame(c, d)
      BY <3>6, <3>7 DEF Kept, Frame
    <3>9. Appends(c, d, "close")
      BY <2>0, <3>3, <3>4, <3>6, <3>7 DEF Appends, Kept, m
    <3>10. Mid(d) /\ Frame(c, d) /\ Quiet(c, d) /\ d.state >= Closing
      BY <3>7, <3>8, <3>9 DEF Quiet, Flows
    <3> QED
      BY <3>10 DEF d
  <2> QED
    BY <2>5, <2>6
<1> QED
  BY <1>1, <1>2

LEMMA SetClosingMid ==
    ASSUME NEW c \in Endpoint, Mid(c), NEW ex \in Exception, ex # "CloseConnection", NEW fail \in BOOLEAN
    PROVE  LET d == SetClosing(c, ex, fail) IN
           Mid(d) /\ Frame(c, d) /\ Quiet(c, d) /\ d.state >= Closing
<1> DEFINE d == SetClosing(c, ex, fail)
<1>0. c.state \in NotValidated .. Finished
  BY DEF Endpoint
<1>1. CASE c.state = NotValidated
  <2>1. d = SetClosed(c, ex)
    BY <1>1 DEF SetClosing
  <2> HIDE DEF d
  <2>2. Mid(d) /\ Frame(c, d) /\ d.state >= Closed /\ Quiet(c, d)
    BY <2>1, SetClosedMid
  <2>3. d.state >= Closing
    BY <2>2 DEF Mid, Core, Endpoint
  <2> QED
    BY <2>2, <2>3 DEF d
<1>2. CASE c.state >= Closing
  <2>1. d = c
    BY <1>0, <1>2 DEF SetClosing
  <2> HIDE DEF d
  <2>2. Mid(d) /\ Frame(c, d) /\ Quiet(c, d) /\ d.state >= Closing
    BY <1>2, <2>1, QuietSelf
  <2> QED
    BY <2>2 DEF d
<1>3. CASE c.state # NotValidated /\ ~(c.state >= Closing)
  <2> DEFINE c1 == [c EXCEPT !.state = Closing, !.exception = ex]
  <2>1. d = InitiateShutdown(c1, fail)
    BY <1>3 DEF SetClosing
  <2> HIDE DEF d
  <2>2. c1 \in Endpoint
    BY StateRange DEF Endpoint
  <2>3. /\ Body(c, c1) /\ c1.state = Closing /\ c1.registered = c.registered /\ c1.finishing = c.finishing
        /\ c1.shutdownInitiated = c.shutdownInitiated /\ c1.exception = ex /\ c1.closeRequested = c.closeRequested
    BY DEF Endpoint, Body
  <2> HIDE DEF c1
  <2>4. ~c.shutdownInitiated /\ ~c.finishing
    BY <1>0, <1>3 DEF Mid, Core, Phases
  <2>5. Phases(c1) /\ Waits(c1)
    BY <1>0, <1>3, <2>3, <2>4 DEF Mid, Core, Phases, Waits, Body
  <2>6. Mid(c1) /\ Frame(c, c1) /\ Stream(c1) = Stream(c)
    BY <1>0, <1>3, <2>2, <2>3, <2>5, BodyMid
  <2>7. Mid(d) /\ Frame(c1, d) /\ Quiet(c1, d) /\ d.state >= Closing
    BY <2>1, <2>2, <2>3, <2>6, InitiateShutdownMid
  <2>8. Frame(c, d)
    BY <2>6, <2>7 DEF Frame
  <2>9. Kept(c, d)
    BY <1>0, <1>3, <2>3, <2>7 DEF Quiet, Kept, Body, Mid, Core, Endpoint
  <2>10. Flows(c, d)
    <3>1. c1.out = c.out /\ c1.dispatches = c.dispatches /\ c.state < Closed /\ c1.state < Closed
      BY <1>0, <1>3, <2>3 DEF Body
    <3> QED
      BY <2>3, <2>6, <2>7, <3>1 DEF Quiet, Flows, Cuts, Appends
  <2>11. Mid(d) /\ Frame(c, d) /\ Quiet(c, d) /\ d.state >= Closing
    BY <2>7, <2>8, <2>9, <2>10 DEF Quiet
  <2> QED
    BY <2>11 DEF d
<1> QED
  BY <1>1, <1>2, <1>3

LEMMA SetHoldingMid ==
    ASSUME NEW c \in Endpoint, Mid(c)
    PROVE  LET d == SetHolding(c) IN
           /\ Mid(d) /\ Frame(c, d) /\ Stream(d) = Stream(c) /\ Kept(c, d)
           /\ d.exception = c.exception /\ d.sendStreams = c.sendStreams
           /\ c.state \in {Active, NotValidated} => d.state = Holding
<1> DEFINE d == SetHolding(c)
<1>0. c.state \in NotValidated .. Finished
  BY DEF Endpoint
<1>1. CASE c.state \notin {Active, NotValidated}
  <2>1. d = c
    BY <1>1 DEF SetHolding
  <2> HIDE DEF d
  <2>2. /\ Mid(d) /\ Frame(c, d) /\ Stream(d) = Stream(c) /\ Kept(c, d)
        /\ d.exception = c.exception /\ d.sendStreams = c.sendStreams
        /\ c.state \in {Active, NotValidated} => d.state = Holding
    BY <1>1, <2>1, QuietSelf
  <2> QED
    BY <2>2 DEF d
<1>2. CASE c.state \in {Active, NotValidated}
  <2> DEFINE g == IF c.state = Active /\ Reads(c) THEN c.registered \ {"read"} ELSE c.registered
  <2>1. d = [c EXCEPT !.state = Holding, !.registered = g]
    BY <1>2 DEF SetHolding
  <2>2. /\ g \in SUBSET {"read", "write"} /\ ("write" \in c.registered => "write" \in g)
    BY DEF Endpoint
  <2> HIDE DEF g, d
  <2>3. [c EXCEPT !.state = Holding, !.registered = g] \in Endpoint
    BY <2>2, StateRange DEF Endpoint
  <2>4. /\ d \in Endpoint /\ Body(c, d) /\ d.state = Holding /\ d.registered = g /\ d.finishing = c.finishing
        /\ d.shutdownInitiated = c.shutdownInitiated /\ d.exception = c.exception
        /\ d.closeRequested = c.closeRequested /\ d.sendStreams = c.sendStreams
    BY <2>1, <2>3 DEF Endpoint, Body
  <2>5. Phases(d) /\ Waits(d)
    BY <1>0, <1>2, <2>2, <2>4 DEF Mid, Core, Phases, Waits, Body
  <2>6. Mid(d) /\ Frame(c, d) /\ Stream(d) = Stream(c)
    BY <1>0, <1>2, <2>4, <2>5, BodyMid
  <2>7. Kept(c, d)
    BY <1>0, <1>2, <2>4 DEF Kept, Body
  <2>8. /\ Mid(d) /\ Frame(c, d) /\ Stream(d) = Stream(c) /\ Kept(c, d)
        /\ d.exception = c.exception /\ d.sendStreams = c.sendStreams
        /\ c.state \in {Active, NotValidated} => d.state = Holding
    BY <2>4, <2>6, <2>7
  <2> QED
    BY <2>8 DEF d
<1> QED
  BY <1>1, <1>2

LEMMA SetActiveMid ==
    ASSUME NEW c \in Endpoint, Mid(c), c.state = Holding
    PROVE  LET d == SetActive(c) IN Mid(d) /\ Frame(c, d) /\ Quiet(c, d)
<1> DEFINE d == SetActive(c)
<1> DEFINE g == IF Reads(c) THEN c.registered \cup {"read"} ELSE c.registered
<1>1. d = [c EXCEPT !.state = Active, !.registered = g]
  BY DEF SetActive
<1>2. /\ g \in SUBSET {"read", "write"} /\ ("write" \in c.registered => "write" \in g)
      /\ Reads(c) => "read" \in g
  BY DEF Endpoint
<1> HIDE DEF g, d
<1>3. [c EXCEPT !.state = Active, !.registered = g] \in Endpoint
  BY <1>2, StateRange DEF Endpoint
<1>4. /\ d \in Endpoint /\ Body(c, d) /\ d.state = Active /\ d.registered = g /\ d.finishing = c.finishing
      /\ d.shutdownInitiated = c.shutdownInitiated /\ d.exception = c.exception
      /\ d.closeRequested = c.closeRequested
  BY <1>1, <1>3 DEF Endpoint, Body
<1>5. Phases(d) /\ Waits(d)
  BY <1>2, <1>4 DEF Mid, Core, Phases, Waits, Body, Reads
<1>6. Mid(d) /\ Frame(c, d) /\ Stream(d) = Stream(c)
  BY <1>4, <1>5, BodyMid
<1>7. Kept(c, d)
  BY <1>4 DEF Kept, Body
<1>8. Mid(d) /\ Frame(c, d) /\ Quiet(c, d)
  BY <1>6, <1>7 DEF Quiet, Flows
<1> QED
  BY <1>8 DEF d

(* CloseIfRequested() honours close(). *)
LEMMA CloseIfRequestedMid ==
    ASSUME NEW c \in Endpoint, Mid(c), NEW fail \in BOOLEAN
    PROVE  LET d == CloseIfRequested(c, fail) IN
           /\ Mid(d) /\ Frame(c, d) /\ Quiet(c, d)
           /\ d.closeRequested /\ d.asyncRequests = {} => d.state >= Closing
<1> DEFINE d == CloseIfRequested(c, fail)
<1>0. c.state \in NotValidated .. Finished
  BY DEF Endpoint
<1>1. CASE c.closeRequested /\ c.state < Closing /\ c.asyncRequests = {}
  <2>1. d = SetClosing(c, "ConnectionClosed", fail)
    BY <1>1 DEF CloseIfRequested
  <2> HIDE DEF d
  <2>2. Mid(d) /\ Frame(c, d) /\ Quiet(c, d) /\ d.state >= Closing
    BY <2>1, SetClosingMid DEF Exception
  <2> QED
    BY <2>2 DEF d
<1>2. CASE ~(c.closeRequested /\ c.state < Closing /\ c.asyncRequests = {})
  <2>1. d = c
    BY <1>2 DEF CloseIfRequested
  <2> HIDE DEF d
  <2>2. /\ Mid(d) /\ Frame(c, d) /\ Quiet(c, d)
        /\ d.closeRequested /\ d.asyncRequests = {} => d.state >= Closing
    BY <1>0, <1>2, <2>1, QuietSelf
  <2> QED
    BY <2>2 DEF d
<1> QED
  BY <1>1, <1>2

-----------------------------------------------------------------------------
(* The completion of requests. *)
Aside(c, d) ==
    /\ d.out = c.out /\ d.sendStreams = c.sendStreams /\ d.written = c.written /\ d.pc = c.pc
    /\ d.state = c.state /\ d.exception = c.exception /\ d.registered = c.registered /\ d.operation = c.operation
    /\ d.closeRequested = c.closeRequested /\ d.shutdownInitiated = c.shutdownInitiated
    /\ d.closeTimer = c.closeTimer /\ d.finishing = c.finishing
    /\ d.callbacks = c.callbacks /\ d.dispatches = c.dispatches /\ d.removed = c.removed

Done(c, rs, how, d) ==
    /\ \A r \in Request : d.done[r] = IF r \in rs THEN how ELSE c.done[r]
    /\ \A r \in Request : r \in rs /\ c.completions[r] = 0 => d.completions[r] = 1
    /\ \A r \in Request : r \notin rs => d.completions[r] = c.completions[r]

LEMMA CompleteFacts ==
    ASSUME NEW c \in Endpoint, NEW rs \in SUBSET Request, NEW how \in {"ok", "canceled"} \cup Exception
    PROVE  LET d == Complete(c, rs, how) IN
           /\ d \in Endpoint /\ Aside(c, d) /\ Done(c, rs, how, d)
           /\ d.asyncRequests = c.asyncRequests /\ d.hint = c.hint
<1> DEFINE d == Complete(c, rs, how)
<1> DEFINE f == [r \in Request |-> IF r \in rs THEN how ELSE c.done[r]]
<1> DEFINE g == [r \in Request |-> IF r \in rs /\ c.completions[r] < 2 THEN c.completions[r] + 1 ELSE c.completions[r]]
<1>1. d = [c EXCEPT !.done = f, !.completions = g]
  BY DEF Complete
<1>2. c.done \in [Request -> {"new", "pending", "ok", "canceled"} \cup Exception] /\ c.completions \in [Request -> 0 .. 2]
  BY DEF Endpoint
<1>3. f \in [Request -> {"new", "pending", "ok", "canceled"} \cup Exception]
  BY <1>2
<1>4. g \in [Request -> 0 .. 2]
  BY <1>2
<1>5. /\ \A r \in Request : f[r] = IF r \in rs THEN how ELSE c.done[r]
      /\ \A r \in Request : r \in rs /\ c.completions[r] = 0 => g[r] = 1
      /\ \A r \in Request : r \notin rs => g[r] = c.completions[r]
  BY <1>2
<1> HIDE DEF d, f, g
<1>6. [c EXCEPT !.done = f, !.completions = g] \in Endpoint
  BY <1>3, <1>4 DEF Endpoint
<1>7. Aside(c, d) /\ d.asyncRequests = c.asyncRequests /\ d.hint = c.hint /\ d.done = f /\ d.completions = g
  BY <1>1 DEF Endpoint, Aside
<1>8. Done(c, rs, how, d)
  BY <1>5, <1>7 DEF Done
<1>9. d \in Endpoint /\ Aside(c, d) /\ Done(c, rs, how, d) /\ d.asyncRequests = c.asyncRequests /\ d.hint = c.hint
  BY <1>1, <1>6, <1>7, <1>8
<1> QED
  BY <1>9 DEF d

(* A request that is taken from the map. *)
Took(c, r, how, d) ==
    /\ Aside(c, d) /\ d.asyncRequests = c.asyncRequests \ {r}
    /\ d.done[r] = how /\ \A x \in Request : x # r => d.done[x] = c.done[x]

LEMMA TakeFacts ==
    ASSUME NEW c \in Endpoint, Mid(c), NEW r \in c.asyncRequests, NEW how \in {"ok", "canceled"}
    PROVE  LET d == Take(c, r, how) IN
           d \in Endpoint /\ Took(c, r, how, d) /\ Phases(d) /\ Waits(d) /\ Tally(d) /\ Removal(d)
<1> DEFINE d == Take(c, r, how)
<1> DEFINE h == IF c.hint = r THEN None ELSE c.hint
<1> DEFINE a == c.asyncRequests \ {r}
<1> DEFINE c1 == [c EXCEPT !.asyncRequests = a, !.hint = h]
<1>0. c.asyncRequests \subseteq Request /\ c.hint \in Request \cup {None}
  BY DEF Endpoint
<1>1. d = Complete(c1, {r}, how)
  BY DEF Take
<1>2. a \in SUBSET Request /\ h \in Request \cup {None}
  BY <1>0
<1>a. h \in a \cup {None}
  BY DEF Mid, Core, Tally
<1> HIDE DEF d, h, a
<1>3. c1 \in Endpoint
  BY <1>2 DEF Endpoint
<1>4. /\ Aside(c, c1) /\ c1.done = c.done /\ c1.completions = c.completions
      /\ c1.asyncRequests = a /\ c1.hint = h
  BY DEF Endpoint, Aside
<1> HIDE DEF c1
<1>5. {r} \in SUBSET Request /\ how \in {"ok", "canceled"} \cup Exception
  BY <1>0
<1>6. d \in Endpoint /\ Aside(c1, d) /\ Done(c1, {r}, how, d) /\ d.asyncRequests = a /\ d.hint = h
  BY <1>1, <1>3, <1>4, <1>5, CompleteFacts
<1>7. Aside(c, d)
  BY <1>4, <1>6 DEF Aside
<1>8. /\ d.done[r] = how /\ d.completions[r] = 1
      /\ \A x \in Request : x # r => d.done[x] = c.done[x] /\ d.completions[x] = c.completions[x]
  <2>1. c.completions[r] = 0
    BY <1>0 DEF Mid, Core, Tally
  <2> QED
    BY <1>0, <1>4, <1>6, <2>1 DEF Done
<1>9. Took(c, r, how, d)
  BY <1>6, <1>7, <1>8 DEF Took, a
<1>10. Phases(d) /\ Waits(d)
  BY <1>7 DEF Mid, Core, Phases, Waits, Aside, Reads
<1>11. Removal(d)
  BY <1>7 DEF Mid, Removal, Upcalls, Aside
<1>12. Tally(d)
  <2>1. ASSUME NEW x \in Request
        PROVE  /\ d.completions[x] <= 1
               /\ d.completions[x] = 0 <=> d.done[x] \in {"new", "pending"}
               /\ d.done[x] = "pending" <=> x \in d.asyncRequests
    <3>1. CASE x = r
      BY <1>6, <1>8, <3>1 DEF a
    <3>2. CASE x # r
      <4>1. /\ c.completions[x] <= 1
            /\ c.completions[x] = 0 <=> c.done[x] \in {"new", "pending"}
            /\ c.done[x] = "pending" <=> x \in c.asyncRequests
        BY DEF Mid, Core, Tally
      <4> QED
        BY <1>6, <1>8, <3>2, <4>1 DEF a
    <3> QED
      BY <3>1, <3>2
  <2>2. d.state = Finished => d.asyncRequests = {}
    BY <1>6, <1>7 DEF Mid, Core, Tally, Aside, a
  <2> QED
    BY <1>6, <1>a, <2>1, <2>2 DEF Tally
<1>13. d \in Endpoint /\ Took(c, r, how, d) /\ Phases(d) /\ Waits(d) /\ Tally(d) /\ Removal(d)
  BY <1>6, <1>9, <1>10, <1>11, <1>12
<1> QED
  BY <1>13 DEF d

(* The last upcall of a finished connection. *)
LEMMA RemoveMid ==
    ASSUME NEW c \in Endpoint, Core(c), c.removed = 0
    PROVE  LET d == RemoveFromFactory(c) IN
           /\ Mid(d) /\ Stream(d) = Stream(c) /\ Kept(c, d) /\ d.pc = c.pc /\ d.sendStreams = c.sendStreams
<1> DEFINE d == RemoveFromFactory(c)
<1>1. CASE c.state = Finished /\ Upcalls(c) = 0
  <2>1. d = [c EXCEPT !.removed = 1]
    BY <1>1 DEF RemoveFromFactory
  <2> HIDE DEF d
  <2>2. [c EXCEPT !.removed = 1] \in Endpoint
    <3> DEFINE one == 1
    <3> HIDE DEF one
    <3>2. one \in Nat /\ one = 1
      BY DEF one
    <3>3. [c EXCEPT !.removed = one] \in Endpoint
      BY <3>2, ZenonT(60) DEF Endpoint
    <3> QED
      BY <3>2, <3>3
  <2>3. d \in Endpoint
    BY <2>1, <2>2
  <2>4. d.removed = 1
    BY <2>1 DEF Endpoint
  <2>5. /\ d.out = c.out /\ d.sendStreams = c.sendStreams /\ d.written = c.written /\ d.pc = c.pc
        /\ d.state = c.state /\ d.exception = c.exception /\ d.registered = c.registered
        /\ d.closeRequested = c.closeRequested /\ d.shutdownInitiated = c.shutdownInitiated
        /\ d.finishing = c.finishing /\ d.callbacks = c.callbacks /\ d.dispatches = c.dispatches
        /\ d.asyncRequests = c.asyncRequests /\ d.hint = c.hint /\ d.done = c.done /\ d.completions = c.completions
    BY <2>1 DEF Endpoint
  <2>6. Phases(d) /\ Waits(d) /\ Tally(d)
    BY <2>5 DEF Core, Phases, Waits, Tally, Reads
  <2>7. Rest(d) = Rest(c) /\ Unwritten(d) = Unwritten(c)
    BY <2>5 DEF Rest, Unwritten
  <2>8. Owned(Rest(d), d) /\ Stream(d) = Stream(c)
    BY <2>5, <2>7 DEF Core, Owned, Stream
  <2>9. Removal(d)
    BY <1>1, <2>4, <2>5 DEF Removal, Upcalls
  <2>10. /\ Mid(d) /\ Stream(d) = Stream(c) /\ Kept(c, d) /\ d.pc = c.pc /\ d.sendStreams = c.sendStreams
    BY <2>3, <2>5, <2>6, <2>8, <2>9 DEF Mid, Core, Kept
  <2> QED
    BY <2>10 DEF d
<1>2. CASE ~(c.state = Finished /\ Upcalls(c) = 0)
  <2>1. d = c
    BY <1>2 DEF RemoveFromFactory
  <2> HIDE DEF d
  <2>2. /\ Mid(d) /\ Stream(d) = Stream(c) /\ Kept(c, d) /\ d.pc = c.pc /\ d.sendStreams = c.sendStreams
    BY <1>2, <2>1, QuietSelf DEF Mid, Removal
  <2> QED
    BY <2>2 DEF d
<1> QED
  BY <1>1, <1>2

-----------------------------------------------------------------------------
(* The end of message(). *)
Still(c, d) ==
    /\ d.exception = c.exception /\ d.closeRequested = c.closeRequested
    /\ d.shutdownInitiated = c.shutdownInitiated /\ d.finishing = c.finishing
    /\ d.callbacks = c.callbacks /\ d.dispatches = c.dispatches /\ d.removed = c.removed
    /\ d.asyncRequests = c.asyncRequests /\ d.hint = c.hint /\ d.done = c.done /\ d.completions = c.completions

(* The closure goes on when the queue is empty. *)
Moves(c, a) ==
    \/ a.state = c.state /\ a.registered = c.registered
    \/ /\ c.state = Closing /\ a.state = ClosingPending /\ c.shutdownInitiated /\ a.sendStreams = <<>>
       /\ a.registered = c.registered \cup {"read"}

(* sendNextMessages() takes the message that was written from the queue,   *)
(* and moves others to the transport.                                      *)
Pops(c, a) ==
    /\ a.out \o a.sendStreams = c.out \o Tail(c.sendStreams) /\ Len(a.out) <= Capacity
    /\ c.state >= ClosingPending => a.out = c.out
    /\ Owned(a.sendStreams, c) /\ Still(c, a) /\ Moves(c, a)

Splits(out, rest, k) ==
    LET now == SubSeq(rest, 1, k)
        left == SubSeq(rest, k + 1, Len(rest))
    IN /\ now \in Seq(Message) /\ left \in Seq(Message) /\ out \o now \in Seq(Message)
       /\ Len(out \o now) = Len(out) + k /\ (out \o now) \o left = out \o rest
       /\ \A i \in DOMAIN left : \E j \in DOMAIN rest : left[i] = rest[j]
       /\ k = 0 => out \o now = out

LEMMA SplitRest ==
    ASSUME NEW out \in Seq(Message), NEW rest \in Seq(Message), NEW k \in 0 .. Len(rest)
    PROVE  Splits(out, rest, k)
<1> DEFINE now == SubSeq(rest, 1, k)
<1> DEFINE left == SubSeq(rest, k + 1, Len(rest))
<1>1. Len(rest) \in Nat /\ DOMAIN rest = 1 .. Len(rest) /\ \A i \in 1 .. Len(rest) : rest[i] \in Message
  BY LenProperties, ElementOfSeq
<1>2. now \in Seq(Message) /\ Len(now) = k
  BY <1>1, SubSeqProperties
<1>3. /\ left \in Seq(Message) /\ Len(left) = Len(rest) - k
      /\ \A i \in 1 .. Len(rest) - k : left[i] = rest[k + i]
  <2> DEFINE a == k + 1
  <2> DEFINE b == Len(rest)
  <2>0. k \in Nat /\ k <= Len(rest)
    BY <1>1, SMTT(60)
  <2>1. a \in Int /\ b \in Int /\ b - a + 1 = b - k /\ (IF a <= b THEN b - a + 1 ELSE 0) = b - k
    <3>1. ASSUME NEW n \in Nat, NEW j \in Nat, j <= n
          PROVE  /\ j + 1 \in Int /\ n \in Int /\ n - (j + 1) + 1 = n - j
                 /\ (IF j + 1 <= n THEN n - (j + 1) + 1 ELSE 0) = n - j
      <4>1. CASE j + 1 <= n
        BY <3>1, <4>1
      <4>2. CASE ~(j + 1 <= n)
        BY <3>1, <4>2
      <4> QED
        BY <4>1, <4>2
    <3> QED
      BY <1>1, <2>0, <3>1
  <2>2. \A i \in a .. b : rest[i] \in Message
    BY <1>1
  <2>3. \A i \in 1 .. b - k : a + i - 1 = k + i
    BY <1>1
  <2> HIDE DEF a, b
  <2>4. /\ SubSeq(rest, a, b) \in Seq(Message)
        /\ Len(SubSeq(rest, a, b)) = IF a <= b THEN b - a + 1 ELSE 0
        /\ \A i \in 1 .. b - a + 1 : SubSeq(rest, a, b)[i] = rest[a + i - 1]
    BY <2>1, <2>2, SubSeqProperties
  <2>5. left = SubSeq(rest, a, b)
    BY DEF a, b
  <2> HIDE DEF left
  <2>6. left \in Seq(Message) /\ Len(left) = b - k /\ \A i \in 1 .. b - k : left[i] = rest[k + i]
    BY <2>1, <2>3, <2>4, <2>5
  <2> QED
    BY <2>6 DEF b
<1>4. now \o left = rest
  <2>1. SubSeq(rest, 1, k) \o SubSeq(rest, k + 1, Len(rest)) = SubSeq(rest, 1, Len(rest))
    <3>1. 1 \in 1 .. Len(rest) + 1 /\ k \in 1 - 1 .. Len(rest) /\ Len(rest) \in k .. Len(rest)
      BY <1>1
    <3> QED
      BY <3>1, ConcatAdjacentSubSeq
  <2> QED
    BY <2>1, SubSeqFull
<1> HIDE DEF now, left
<1>5. out \o now \in Seq(Message) /\ Len(out \o now) = Len(out) + k
  BY <1>2, ConcatProperties
<1>6. (out \o now) \o left = out \o rest
  <2>1. (out \o now) \o left = out \o (now \o left)
    <3>1. now \in Seq(Message)
      BY <1>2
    <3>2. left \in Seq(Message)
      BY <1>3
    <3>3. out \in Seq(Message)
      OBVIOUS
    <3> QED
      BY <3>1, <3>2, <3>3, ConcatAssociative, SMTT(60)
  <2> QED
    BY <1>4, <2>1
<1>7. \A i \in DOMAIN left : \E j \in DOMAIN rest : left[i] = rest[j]
  <2> SUFFICES ASSUME NEW i \in DOMAIN left PROVE \E j \in DOMAIN rest : left[i] = rest[j]
    OBVIOUS
  <2>1. i \in 1 .. Len(rest) - k
    BY <1>1, <1>3, LenProperties
  <2>2. k + i \in DOMAIN rest /\ left[i] = rest[k + i]
    BY <1>1, <1>3, <2>1
  <2> QED
    BY <2>2
<1>8. k = 0 => out \o now = out
  <2>1. k = 0 => now = <<>>
    BY <1>2, EmptySeq
  <2> QED
    BY <2>1, ConcatEmptySeq
<1> QED
  BY <1>2, <1>3, <1>5, <1>6, <1>7, <1>8 DEF now, left, Splits

LEMMA SendNextFacts ==
    ASSUME NEW c \in Endpoint, Mid(c), c.written
    PROVE  SendNextMessages(c) \in Endpoint /\ Pops(c, SendNextMessages(c))
<1> DEFINE a == SendNextMessages(c)
<1> DEFINE front == Head(c.sendStreams)
<1> DEFINE rest == Tail(c.sendStreams)
<1> DEFINE room == Capacity - Len(c.out)
<1> DEFINE k == IF c.state >= ClosingPending THEN 0 ELSE IF Len(rest) < room THEN Len(rest) ELSE room
<1> DEFINE now == SubSeq(rest, 1, k)
<1> DEFINE left == SubSeq(rest, k + 1, Len(rest))
<1> DEFINE out == c.out \o now
<1> DEFINE sent == c.sent \cup {m.of : m \in {x \in {front} \cup ToSet(now) : x.of # None}}
<1> DEFINE d == [[c EXCEPT !.out = out, !.sendStreams = left] EXCEPT !.sent = sent]
<1>0. c.sendStreams # <<>> /\ c.sendStreams \in Seq(Message) /\ c.out \in Seq(Message) /\ c.sent \subseteq Request
  BY DEF Mid, Core, Phases, Endpoint
<1>1. a = IF d.sendStreams = <<>> /\ d.state = Closing /\ d.shutdownInitiated
          THEN [d EXCEPT !.state = ClosingPending, !.registered = @ \cup {"read"}] ELSE d
  BY DEF SendNextMessages, Sent
<1>2. front \in Message /\ rest \in Seq(Message) /\ Len(rest) \in Nat
  BY <1>0, HeadTailProperties, LenProperties
<1>3. room \in Nat /\ Len(c.out) \in Nat /\ Len(c.out) + room = Capacity
  BY <1>0, Constants, LenProperties DEF Mid, Core
<1> HIDE DEF room
<1>4. k \in 0 .. Len(rest) /\ k <= room /\ (c.state >= ClosingPending => k = 0)
  BY <1>2, <1>3
<1> HIDE DEF k, rest
<1>5. /\ now \in Seq(Message) /\ left \in Seq(Message) /\ out \in Seq(Message) /\ Len(out) = Len(c.out) + k
      /\ out \o left = c.out \o rest /\ (k = 0 => out = c.out)
      /\ \A i \in DOMAIN left : \E j \in DOMAIN rest : left[i] = rest[j]
  <2>1. Splits(c.out, rest, k)
    BY <1>0, <1>2, <1>4, SplitRest
  <2> QED
    BY <2>1 DEF Splits
<1> HIDE DEF now, left, out
<1>6. sent \in SUBSET Request
  <2>1. \A m \in {front} \cup ToSet(now) : m \in Message
    BY <1>2, <1>5, LenProperties, ElementOfSeq DEF ToSet
  <2>2. \A m \in Message : m.of # None => m.of \in Request
    BY DEF Message
  <2> QED
    BY <1>0, <2>1, <2>2
<1> HIDE DEF sent, front
<1>7. d \in Endpoint
  BY <1>5, <1>6 DEF Endpoint
<1>8. /\ Still(c, d) /\ d.out = out /\ d.sendStreams = left /\ d.state = c.state /\ d.registered = c.registered
  BY DEF Endpoint, Still
<1> HIDE DEF a, d
<1>9. Owned(left, c)
  <2>1. Owned(rest, c)
    BY DEF Mid, Core, Rest, rest
  <2> QED
    BY <1>5, <2>1 DEF Owned
<1>10. Len(out) <= Capacity
  BY <1>3, <1>4, <1>5
<1>11. CASE d.sendStreams = <<>> /\ d.state = Closing /\ d.shutdownInitiated
  <2>1. a = [d EXCEPT !.state = ClosingPending, !.registered = @ \cup {"read"}]
    BY <1>1, <1>11
  <2>2. [d EXCEPT !.state = ClosingPending, !.registered = @ \cup {"read"}] \in Endpoint
    BY <1>7, StateRange, ZenonT(60) DEF Endpoint
  <2>3. /\ a \in Endpoint /\ Still(d, a) /\ a.out = d.out /\ a.sendStreams = d.sendStreams
        /\ a.state = ClosingPending /\ a.registered = d.registered \cup {"read"}
    BY <1>7, <2>1, <2>2, SMTT(60) DEF Endpoint, Still
  <2>4. Still(c, a) /\ Moves(c, a)
    BY <1>8, <1>11, <2>3 DEF Still, Moves
  <2>5. c.state >= ClosingPending => a.out = c.out
    BY <1>8, <1>11
  <2>6. Pops(c, a)
    BY <1>5, <1>8, <1>9, <1>10, <2>3, <2>4, <2>5 DEF Pops, rest
  <2> QED
    BY <2>3, <2>6 DEF a
<1>12. CASE ~(d.sendStreams = <<>> /\ d.state = Closing /\ d.shutdownInitiated)
  <2>1. a = d
    BY <1>1, <1>12
  <2>2. Moves(c, d)
    BY <1>8 DEF Moves
  <2>3. Pops(c, d)
    BY <1>4, <1>5, <1>8, <1>9, <1>10, <2>2 DEF Pops, rest
  <2> QED
    BY <1>7, <2>1, <2>3 DEF a
<1> QED
  BY <1>11, <1>12

LEMMA IdleFacts ==
    ASSUME NEW b \in Endpoint
    PROVE  LET d == Idle(b) IN
           /\ d \in Endpoint /\ d.pc = "idle" /\ d.written = FALSE
           /\ d.out = b.out /\ d.sendStreams = b.sendStreams /\ d.state = b.state /\ d.registered = b.registered
           /\ Still(b, d)
<1> DEFINE d == Idle(b)
<1>1. d \in Endpoint
  BY DEF Idle, Endpoint
<1>2. /\ d.pc = "idle" /\ d.written = FALSE
      /\ d.out = b.out /\ d.sendStreams = b.sendStreams /\ d.state = b.state /\ d.registered = b.registered
      /\ Still(b, d)
  BY DEF Idle, Endpoint, Still
<1> QED
  BY <1>1, <1>2

(* What is left once the message that was written is out of the queue. *)
After(c, a) ==
    /\ a \in Endpoint /\ a.out \o a.sendStreams = c.out \o Rest(c) /\ Len(a.out) <= Capacity
    /\ c.state >= ClosingPending => a.out = c.out
    /\ Owned(a.sendStreams, c) /\ Still(c, a) /\ Moves(c, a)
    /\ c.sendStreams = <<>> => a.sendStreams = <<>>

Registers(c, a, readOp, g) ==
    /\ g \in SUBSET {"read", "write"}
    /\ \A op \in a.registered \ c.operation : op \in g
    /\ readOp => "read" \in g
    /\ a.sendStreams # <<>> /\ a.state < ClosingPending => "write" \in g
    /\ c.state # ClosingPending /\ a.state = ClosingPending => "read" \in g

LEMMA UpdateMid ==
    ASSUME NEW c \in Endpoint, Mid(c), c.state = NotValidated => c.sendStreams = <<>>, NEW readOp \in BOOLEAN,
           "read" \in c.operation /\ (c.state = ClosingPending \/ (c.state = Active /\ Reads(c))) => readOp
    PROVE  LET d == Update(c, readOp) IN
           Mid(d) /\ d.pc = "idle" /\ Quiet(c, d)
<1> DEFINE d == Update(c, readOp)
<1> DEFINE a == IF c.written THEN SendNextMessages(c) ELSE c
<1> DEFINE g == (a.registered \ c.operation)
                \cup ((IF readOp THEN {"read"} ELSE {})
                      \cup (IF a.sendStreams # <<>> /\ a.state < ClosingPending THEN {"write"} ELSE {})
                      \cup (IF c.state # ClosingPending /\ a.state = ClosingPending THEN {"read"} ELSE {}))
<1> DEFINE b == IF a.state >= Closed THEN a ELSE [a EXCEPT !.registered = g]
<1>0. c.state \in NotValidated .. Finished /\ c.out \in Seq(Message) /\ Rest(c) \in Seq(Message) /\ Typed(c)
  BY Typing, MidTyped DEF Endpoint, Typed
<1>1. d = Idle(b)
  BY DEF Update
<1>2. After(c, a)
  <2>1. CASE c.written
    <3>1. a = SendNextMessages(c) /\ Rest(c) = Tail(c.sendStreams) /\ c.sendStreams # <<>>
      BY <1>0, <2>1 DEF Rest, Typed
    <3>2. a \in Endpoint /\ Pops(c, a)
      BY <2>1, <3>1, SendNextFacts
    <3> HIDE DEF a
    <3> QED
      BY <3>1, <3>2 DEF After, Pops
  <2>2. CASE ~c.written
    <3>1. a = c /\ Rest(c) = c.sendStreams
      BY <2>2 DEF Rest
    <3> HIDE DEF a
    <3>2. Still(c, c) /\ Moves(c, c) /\ Owned(c.sendStreams, c) /\ Len(c.out) <= Capacity
      BY <3>1 DEF Still, Moves, Mid, Core
    <3> QED
      BY <3>1, <3>2 DEF After
  <2> QED
    BY <2>1, <2>2
<1> HIDE DEF a, d
<1>3. Registers(c, a, readOp, g)
  BY <1>2 DEF Registers, After, Endpoint
<1> HIDE DEF g
<1>4. /\ b \in Endpoint /\ b.out = a.out /\ b.sendStreams = a.sendStreams /\ b.state = a.state /\ Still(a, b)
      /\ a.state < Closed => b.registered = g
  <2>1. a \in Endpoint /\ a.state \in Nat
    BY <1>2, SMTT(60) DEF After, Endpoint
  <2>2. CASE a.state >= Closed
    <3>1. b = a
      BY <2>2
    <3> HIDE DEF b
    <3> QED
      BY <2>1, <2>2, <3>1 DEF Still
  <2>3. CASE ~(a.state >= Closed)
    <3>1. b = [a EXCEPT !.registered = g]
      BY <2>3
    <3>2. [a EXCEPT !.registered = g] \in Endpoint
      BY <1>3, <2>1 DEF Endpoint, Registers
    <3> HIDE DEF b
    <3>3. b \in Endpoint
      BY <3>1, <3>2
    <3> QED
      BY <2>1, <3>1, <3>3, ZenonT(60) DEF Endpoint, Still
  <2> QED
    BY <2>2, <2>3
<1> HIDE DEF b
<1>5. /\ d \in Endpoint /\ d.pc = "idle" /\ d.written = FALSE
      /\ d.out = a.out /\ d.sendStreams = a.sendStreams /\ d.state = a.state
      /\ (a.state < Closed => d.registered = g) /\ Still(a, d)
  <2>1. /\ d \in Endpoint /\ d.pc = "idle" /\ d.written = FALSE
        /\ d.out = b.out /\ d.sendStreams = b.sendStreams /\ d.state = b.state /\ d.registered = b.registered
        /\ Still(b, d)
    BY <1>1, <1>4, IdleFacts
  <2> QED
    BY <1>4, <2>1 DEF Still
<1>6. Still(c, d) /\ (d.state = c.state \/ (c.state = Closing /\ d.state = ClosingPending /\ c.shutdownInitiated))
  BY <1>2, <1>5 DEF After, Still, Moves
<1>7. Phases(d)
  BY <1>0, <1>5, <1>6 DEF Mid, Core, Phases, Still
<1>8. Waits(d)
  <2>1. d.state = Active /\ Reads(d) => "read" \in d.registered
    <3> SUFFICES ASSUME d.state = Active, Reads(d) PROVE "read" \in d.registered
      OBVIOUS
    <3>1. c.state = Active /\ Reads(c) /\ a.registered = c.registered /\ a.state = Active
      BY <1>2, <1>5, <1>6 DEF Reads, Still, Moves, After
    <3>2. "read" \in c.registered
      BY <3>1 DEF Mid, Core, Waits
    <3> QED
      BY <1>3, <1>5, <3>1, <3>2 DEF Registers
  <2>2. d.state = ClosingPending => "read" \in d.registered
    <3> SUFFICES ASSUME d.state = ClosingPending PROVE "read" \in d.registered
      OBVIOUS
    <3>1. a.state = ClosingPending /\ d.registered = g
      BY <1>5
    <3>2. CASE c.state # ClosingPending
      BY <1>3, <3>1, <3>2 DEF Registers
    <3>3. CASE c.state = ClosingPending
      <4>1. "read" \in c.registered /\ a.registered = c.registered
        BY <1>2, <3>3 DEF Mid, Core, Waits, After, Moves
      <4> QED
        BY <1>3, <3>1, <3>3, <4>1 DEF Registers
    <3> QED
      BY <3>2, <3>3
  <2>3. d.state < ClosingPending /\ d.sendStreams # <<>> => "write" \in d.registered
    BY <1>0, <1>3, <1>5, <1>6 DEF Registers
  <2> QED
    BY <2>1, <2>2, <2>3 DEF Waits
<1>9. Tally(d)
  BY <1>0, <1>6 DEF Mid, Core, Tally, Still
<1>10. Removal(d)
  BY <1>6 DEF Mid, Removal, Upcalls, Still
<1>11. Rest(d) = d.sendStreams
  BY <1>5 DEF Rest
<1>12. Owned(Rest(d), d)
  BY <1>2, <1>5, <1>6, <1>11 DEF After, Owned, Still
<1>13. Mid(d)
  BY <1>2, <1>5, <1>7, <1>8, <1>9, <1>10, <1>12 DEF Mid, Core, After
<1>14. Stream(d) = Stream(c)
  <2>1. CASE c.state >= Closed
    <3>1. d.state >= Closed /\ d.out = c.out
      BY <1>0, <1>2, <1>5, <1>6, <2>1 DEF After
    <3> QED
      BY <2>1, <3>1 DEF Stream, Unwritten
  <2>2. CASE ~(c.state >= Closed)
    <3>1. ~(d.state >= Closed)
      BY <1>6, <2>2
    <3> QED
      BY <1>2, <1>5, <1>11, <2>2, <3>1 DEF Stream, Unwritten, After
  <2> QED
    BY <2>1, <2>2
<1>15. Kept(c, d)
  <2>1. d.state = NotValidated => c.state = NotValidated /\ d.sendStreams = c.sendStreams
    BY <1>2, <1>5, <1>6 DEF After
  <2> QED
    BY <1>0, <1>6, <2>1 DEF Kept, Still
<1>16. Mid(d) /\ d.pc = "idle" /\ Quiet(c, d)
  BY <1>5, <1>13, <1>14, <1>15 DEF Quiet, Flows
<1> QED
  BY <1>16 DEF d

LEMMA IdleMid ==
    ASSUME NEW b \in Endpoint, Mid(b), Owned(b.sendStreams, b), b.written => b.state >= Closed
    PROVE  LET d == Idle(b) IN Mid(d) /\ d.pc = "idle" /\ Quiet(b, d)
<1> DEFINE d == Idle(b)
<1>1. /\ d \in Endpoint /\ d.pc = "idle" /\ d.written = FALSE
      /\ d.out = b.out /\ d.sendStreams = b.sendStreams /\ d.state = b.state /\ d.registered = b.registered
      /\ Still(b, d)
  BY IdleFacts
<1> HIDE DEF d
<1>2. Phases(d) /\ Waits(d) /\ Tally(d)
  BY <1>1 DEF Mid, Core, Phases, Waits, Tally, Still, Reads
<1>3. Removal(d)
  BY <1>1 DEF Mid, Removal, Upcalls, Still
<1>4. Rest(d) = b.sendStreams /\ Owned(Rest(d), d)
  BY <1>1 DEF Rest, Owned, Still
<1>5. Unwritten(d) = Unwritten(b)
  BY <1>1, <1>4 DEF Unwritten, Rest
<1>6. Stream(d) = Stream(b) /\ Kept(b, d)
  BY <1>1, <1>5 DEF Stream, Kept, Still
<1>7. Mid(d)
  BY <1>1, <1>2, <1>3, <1>4 DEF Mid, Core
<1>8. Mid(d) /\ d.pc = "idle" /\ Quiet(b, d)
  BY <1>1, <1>6, <1>7 DEF Quiet, Flows
<1> QED
  BY <1>8 DEF d

-----------------------------------------------------------------------------
(* The steps of the ends. *)
LEMMA InvFacts ==
    ASSUME IInv, NEW e \in End
    PROVE  /\ conn[e] \in Endpoint /\ Local(conn[e]) /\ Mid(conn[e]) /\ Settled(conn[e]) /\ Typed(conn[e])
           /\ Owned(conn[e].sendStreams, conn[e]) /\ conn[e].state \in NotValidated .. Finished
           /\ conn[e].pc = "locked" => conn[e].state < Closed
           /\ WriteFails(e) \subseteq BOOLEAN
<1>1. Local(conn[e]) /\ conn[e] \in Endpoint
  BY DEF IInv
<1>2. Mid(conn[e]) /\ Settled(conn[e]) /\ Owned(conn[e].sendStreams, conn[e])
      /\ (conn[e].pc = "locked" => conn[e].state < Closed)
  BY <1>1 DEF Local
<1>3. Typed(conn[e]) /\ conn[e].state \in NotValidated .. Finished
  BY <1>1, <1>2, MidTyped DEF Endpoint
<1> QED
  BY <1>1, <1>2, <1>3 DEF WriteFails

LEMMA MidLocal ==
    ASSUME NEW d, Mid(d), Settled(d), d.pc # "locked"
    PROVE  Local(d)
<1>1. ~d.written /\ Rest(d) = d.sendStreams
  BY DEF Mid, Core, Phases, Rest, Endpoint
<1> QED
  BY <1>1 DEF Local, Mid, Core

LEMMA SettledKept ==
    ASSUME NEW c \in Endpoint, NEW d \in Endpoint, Settled(c), Kept(c, d)
    PROVE  Settled(d)
BY DEF Settled, Kept, Endpoint

LEMMA EndFacts ==
    /\ "client" \in End /\ "server" \in End /\ Peer("client") = "server" /\ Peer("server") = "client"
    /\ \A e \in End : Peer(e) \in End /\ Peer(e) # e /\ (e = "client" \/ e = "server")
<1>1. \A e \in End : \E p \in End : p # e
  BY DEF End
<1>2. \A e \in End : Peer(e) \in End /\ Peer(e) # e
  BY <1>1 DEF Peer
<1> QED
  BY <1>2 DEF End

(* Any step of one end that keeps the requests. *)
LEMMA QuietStep ==
    ASSUME IInv, NEW e \in End, NEW d, Local(d), Quiet(conn[e], d), Step(e, d),
           dispatched' = dispatched, held' \in BOOLEAN, calls' \in 0 .. MaxCalls
    PROVE  IInv'
<1>1. /\ Local(conn["client"]) /\ Local(conn["server"]) /\ conn \in [End -> Endpoint]
      /\ Typed(conn["client"]) /\ Typed(conn["server"])
  BY InvFacts, EndFacts DEF IInv
<1>2. d \in Endpoint /\ Typed(d)
  BY MidTyped DEF Local, Mid, Core
<1>3. conn' \in [End -> Endpoint] /\ conn'[e] = d /\ \A x \in End : x # e => conn'[x] = conn[x]
  BY <1>1, <1>2 DEF Step
<1>4. \A x \in End : Local(conn'[x])
  BY <1>3 DEF IInv
<1>5. Cross(conn["client"], conn["server"], dispatched)
  BY DEF IInv
<1>6. Cross(conn'["client"], conn'["server"], dispatched)
  <2>1. CASE e = "client"
    <3>1. Cross(d, conn["server"], dispatched)
      BY <1>1, <1>2, <1>5, <2>1, QuietClient
    <3> QED
      BY <1>3, <2>1, <3>1, EndFacts
  <2>2. CASE e = "server"
    <3>1. Cross(conn["client"], d, dispatched)
      BY <1>1, <1>2, <1>5, <2>2, QuietServer
    <3> QED
      BY <1>3, <2>2, <3>1, EndFacts
  <2> QED
    BY <2>1, <2>2, EndFacts
<1> QED
  BY <1>3, <1>4, <1>6 DEF IInv

(* The same for a step that ends outside message(). *)
LEMMA FreeStep ==
    ASSUME IInv, NEW e \in End, NEW d, Mid(d), d.pc # "locked", Quiet(conn[e], d), Step(e, d),
           dispatched' = dispatched, held' \in BOOLEAN, calls' \in 0 .. MaxCalls
    PROVE  IInv'
<1>1. d \in Endpoint /\ conn[e] \in Endpoint /\ Settled(conn[e]) /\ Kept(conn[e], d)
  BY InvFacts DEF Mid, Core, Quiet
<1>2. Settled(d)
  BY <1>1, SettledKept
<1>3. Local(d)
  BY <1>2, MidLocal
<1> QED
  BY <1>3, QuietStep

LEMMA OtherFacts ==
    ASSUME IInv, Other
    PROVE  dispatched' = dispatched /\ held' \in BOOLEAN /\ calls' \in 0 .. MaxCalls
BY DEF IInv, Other

LEMMA ValidateStep == IInv /\ Validate => IInv'
<1> SUFFICES ASSUME IInv, Validate PROVE IInv'
  OBVIOUS
<1> DEFINE c == conn["server"]
<1> DEFINE m == Control("validate")
<1> DEFINE b == SendMessage(c, m)
<1> DEFINE d == SetHolding(b)
<1>0. "server" \in End
  BY EndFacts
<1>1. c \in Endpoint /\ Mid(c) /\ c.state = NotValidated /\ c.pc # "locked"
  BY <1>0, InvFacts DEF Validate, Locked
<1>2. Step("server", d) /\ Other
  BY DEF Validate
<1>3. m \in Message /\ m.of = None
  BY Controls
<1>4. Sendable(c, m)
  BY <1>3 DEF Sendable
<1> HIDE DEF c
<1>a. b = SendMessage(c, m)
  OBVIOUS
<1>b. d = SetHolding(b)
  OBVIOUS
<1> HIDE DEF m, b, d
<1>5. Mid(b) /\ Sends(c, m, b) /\ b \in Endpoint
  <2>1. Mid(b) /\ Sends(c, m, b)
    BY <1>1, <1>3, <1>4, <1>a, SendMessageMid
  <2> QED
    BY <2>1 DEF Mid, Core
<1>6. /\ Mid(d) /\ Frame(b, d) /\ Stream(d) = Stream(b) /\ Kept(b, d)
      /\ d.exception = b.exception /\ d.sendStreams = b.sendStreams
      /\ b.state \in {Active, NotValidated} => d.state = Holding
  BY <1>5, <1>b, SetHoldingMid
<1>7. ~c.shutdownInitiated
  BY <1>1 DEF Mid, Core, Phases
<1>8. Appends(c, d, "validate") /\ d.state = Holding
  BY <1>1, <1>5, <1>6, <1>7 DEF Appends, Sends, m
<1>9. Kept(c, d)
  BY <1>1, <1>5, <1>6, <1>8 DEF Kept, Sends
<1>10. Quiet(c, d) /\ d.pc # "locked"
  BY <1>1, <1>5, <1>6, <1>8, <1>9 DEF Quiet, Flows, Sends, Frame
<1> QED
  BY <1>0, <1>2, <1>6, <1>10, FreeStep, OtherFacts DEF c

LEMMA ActivateStep == ASSUME IInv, NEW e \in End, Activate(e) PROVE IInv'
<1> DEFINE d == SetActive(conn[e])
<1>1. Step(e, d) /\ dispatched' = dispatched /\ held' \in BOOLEAN /\ calls' \in 0 .. MaxCalls
  BY DEF Activate, IInv
<1>2. Mid(d) /\ Frame(conn[e], d) /\ Quiet(conn[e], d) /\ conn[e].pc # "locked"
  BY InvFacts, SetActiveMid DEF Activate, Locked
<1> QED
  BY <1>1, <1>2, FreeStep DEF Frame

LEMMA HoldStep == IInv /\ Hold => IInv'
<1> SUFFICES ASSUME IInv, Hold PROVE IInv'
  OBVIOUS
<1> DEFINE c == conn["server"]
<1> DEFINE d == SetHolding(c)
<1>0. "server" \in End /\ c \in Endpoint /\ Mid(c)
  BY EndFacts, InvFacts
<1>1. Step("server", d) /\ dispatched' = dispatched /\ held' \in BOOLEAN /\ calls' \in 0 .. MaxCalls
  BY Constants DEF Hold, IInv
<1>2. Mid(d) /\ Frame(c, d) /\ Stream(d) = Stream(c) /\ Kept(c, d) /\ c.pc # "locked"
  BY <1>0, SetHoldingMid DEF Hold, Locked
<1> HIDE DEF d
<1>3. Quiet(c, d) /\ d.pc # "locked"
  BY <1>2 DEF Quiet, Flows, Frame
<1> QED
  BY <1>0, <1>1, <1>2, <1>3, FreeStep

LEMMA WaitStep == IInv /\ WaitUntilHolding => IInv'
BY DEF IInv, WaitUntilHolding

LEMMA CloseStep == ASSUME IInv, NEW e \in End, Close(e) PROVE IInv'
<1> DEFINE c == conn[e]
<1>0. c \in Endpoint /\ Mid(c) /\ c.pc # "locked" /\ c.state \in NotValidated .. Finished
  BY InvFacts DEF Close, Locked
<1>1. PICK fail \in BOOLEAN :
        Step(e, IF c.asyncRequests = {} THEN SetClosing(c, "ConnectionClosed", fail)
                ELSE [c EXCEPT !.closeRequested = TRUE, !.closeTimer = TRUE])
  BY InvFacts DEF Close
<1>2. Other
  BY DEF Close
<1>3. CASE c.asyncRequests = {}
  <2> DEFINE d == SetClosing(c, "ConnectionClosed", fail)
  <2>1. Step(e, d)
    BY <1>1, <1>3
  <2> HIDE DEF c
  <2>2. Mid(d) /\ Frame(c, d) /\ Quiet(c, d)
    BY <1>0, SetClosingMid DEF Exception
  <2> HIDE DEF d
  <2> QED
    BY <1>0, <1>2, <2>1, <2>2, FreeStep, OtherFacts DEF Frame, c
<1>4. CASE c.asyncRequests # {}
  <2> DEFINE d == [c EXCEPT !.closeRequested = TRUE, !.closeTimer = TRUE]
  <2>1. Step(e, d)
    BY <1>1, <1>4
  <2> HIDE DEF c
  <2>2. d \in Endpoint
    BY <1>0 DEF Endpoint
  <2>3. /\ Body(c, d) /\ d.state = c.state /\ d.registered = c.registered /\ d.finishing = c.finishing
        /\ d.shutdownInitiated = c.shutdownInitiated /\ d.exception = c.exception
    BY <1>0 DEF Endpoint, Body
  <2> HIDE DEF d
  <2>4. Phases(d) /\ Waits(d)
    BY <1>0, <2>3 DEF Mid, Core, Phases, Waits, Reads, Body
  <2>5. Mid(d) /\ Frame(c, d) /\ Stream(d) = Stream(c)
    BY <1>0, <2>2, <2>3, <2>4, BodyMid
  <2>6. Quiet(c, d)
    BY <1>0, <1>4, <2>3, <2>5 DEF Quiet, Kept, Flows, Body
  <2> QED
    BY <1>0, <1>2, <2>1, <2>5, <2>6, FreeStep, OtherFacts DEF Frame, c
<1> QED
  BY <1>3, <1>4

LEMMA DestroyStep == ASSUME IInv, NEW e \in End, Destroy(e) PROVE IInv'
<1> DEFINE c == conn[e]
<1>0. c \in Endpoint /\ Mid(c) /\ c.pc # "locked" /\ Other
  BY InvFacts DEF Destroy, Locked
<1>1. PICK fail \in BOOLEAN : Step(e, SetClosing(c, "CommunicatorDestroyed", fail))
  BY InvFacts DEF Destroy
<1> DEFINE d == SetClosing(c, "CommunicatorDestroyed", fail)
<1> HIDE DEF c
<1>2. Mid(d) /\ Frame(c, d) /\ Quiet(c, d)
  BY <1>0, SetClosingMid DEF Exception
<1> HIDE DEF d
<1> QED
  BY <1>0, <1>1, <1>2, FreeStep, OtherFacts DEF Frame, c, d

LEMMA ClosedStep ==
    ASSUME IInv, NEW e \in End, ~Locked(e), NEW ex \in Exception, ex # "CloseConnection",
           Step(e, SetClosed(conn[e], ex)), Other
    PROVE  IInv'
<1> DEFINE c == conn[e]
<1> DEFINE d == SetClosed(c, ex)
<1>0. c \in Endpoint /\ Mid(c) /\ c.pc # "locked" /\ d = SetClosed(c, ex) /\ Step(e, d)
  BY InvFacts DEF Locked
<1> HIDE DEF c, d
<1>1. Mid(d) /\ Frame(c, d) /\ Quiet(c, d)
  BY <1>0, SetClosedMid
<1> QED
  BY <1>0, <1>1, FreeStep, OtherFacts DEF Frame, c

LEMMA AbortStep == ASSUME IInv, NEW e \in End, Abort(e) \/ ConnectTimedOut(e) PROVE IInv'
<1>1. "ConnectionAborted" \in Exception /\ "ConnectTimeout" \in Exception
  BY DEF Exception
<1>2. CASE Abort(e)
  BY <1>1, <1>2, ClosedStep DEF Abort
<1>3. CASE ConnectTimedOut(e)
  BY <1>1, <1>3, ClosedStep DEF ConnectTimedOut
<1> QED
  BY <1>2, <1>3

LEMMA CloseTimedOutStep == ASSUME IInv, NEW e \in End, CloseTimedOut(e) PROVE IInv'
<1> DEFINE c == conn[e]
<1> DEFINE x == [c EXCEPT !.exception = "CloseTimeout"]
<1> DEFINE b == IF c.state < Closed THEN SetClosed(x, "CloseTimeout") ELSE c
<1> DEFINE d == [b EXCEPT !.closeTimer = FALSE]
<1>0. c \in Endpoint /\ Mid(c) /\ c.pc # "locked" /\ c.state \in NotValidated .. Finished
  BY InvFacts DEF CloseTimedOut, Locked
<1>1. Step(e, d) /\ Other
  BY DEF CloseTimedOut
<1> HIDE DEF c
<1>2. x \in Endpoint
  BY <1>0 DEF Endpoint, Exception
<1>3. /\ Body(c, x) /\ x.state = c.state /\ x.registered = c.registered /\ x.finishing = c.finishing
      /\ x.shutdownInitiated = c.shutdownInitiated /\ x.exception = "CloseTimeout"
      /\ x.closeRequested = c.closeRequested
  BY <1>0 DEF Endpoint, Body
<1> HIDE DEF x
<1>4. Phases(x) /\ Waits(x)
  BY <1>0, <1>3 DEF Mid, Core, Phases, Waits, Reads, Body
<1>5. Mid(x) /\ Frame(c, x) /\ Stream(x) = Stream(c)
  BY <1>0, <1>2, <1>3, <1>4, BodyMid
<1>6. Mid(b) /\ b.pc # "locked" /\ Quiet(c, b) /\ b \in Endpoint
  <2>1. CASE c.state < Closed
    <3> DEFINE y == SetClosed(x, "CloseTimeout")
    <3>1. y = SetClosed(x, "CloseTimeout") /\ b = y
      BY <2>1
    <3> HIDE DEF y, b
    <3>2. Mid(y) /\ Frame(x, y) /\ Quiet(x, y)
      BY <1>2, <1>5, <3>1, SetClosedMid DEF Exception
    <3>3. Kept(c, y) /\ Flows(c, y)
      BY <1>3, <1>5, <3>2 DEF Quiet, Kept, Flows, Body, Cuts, Appends
    <3> QED
      BY <1>0, <1>5, <3>1, <3>2, <3>3 DEF Quiet, Frame, Mid, Core
  <2>2. CASE ~(c.state < Closed)
    BY <1>0, <2>2, QuietSelf
  <2> QED
    BY <2>1, <2>2
<1> HIDE DEF b
<1>7. d \in Endpoint
  BY <1>6 DEF Endpoint
<1>8. /\ Body(b, d) /\ d.state = b.state /\ d.registered = b.registered /\ d.finishing = b.finishing
      /\ d.shutdownInitiated = b.shutdownInitiated /\ d.exception = b.exception
      /\ d.closeRequested = b.closeRequested
  BY <1>6 DEF Endpoint, Body
<1> HIDE DEF d
<1>9. Phases(d) /\ Waits(d)
  BY <1>6, <1>8 DEF Mid, Core, Phases, Waits, Reads, Body
<1>10. Mid(d) /\ Frame(b, d) /\ Stream(d) = Stream(b)
  BY <1>6, <1>7, <1>8, <1>9, BodyMid
<1>11. Quiet(c, d)
  BY <1>6, <1>8, <1>10 DEF Quiet, Kept, Flows, Body, Cuts, Appends
<1> QED
  BY <1>1, <1>6, <1>8, <1>10, <1>11, FreeStep, OtherFacts DEF Frame, c

(* A thread that takes the connection, and message() until it reads. *)
LEMMA HandlerLocal ==
    ASSUME NEW c \in Endpoint, Local(c), NEW d \in Endpoint, Still(c, d), d.state = c.state,
           d.registered = c.registered, d.sendStreams = c.sendStreams, Len(d.out) <= Capacity,
           d.written => d.pc = "locked" /\ d.sendStreams # <<>>, Stream(d) = Stream(c),
           d.pc = "locked" => d.state < Closed
    PROVE  Local(d) /\ Quiet(c, d)
<1>1. Mid(c) /\ Settled(c) /\ Owned(c.sendStreams, c)
  BY DEF Local
<1>2. Phases(d) /\ Waits(d) /\ Tally(d)
  BY <1>1 DEF Mid, Core, Phases, Waits, Tally, Reads, Still
<1>3. Removal(d)
  BY <1>1 DEF Mid, Removal, Upcalls, Still
<1>4. Owned(d.sendStreams, d)
  BY <1>1 DEF Owned, Still
<1>5. Owned(Rest(d), d)
  <2>1. CASE ~d.written
    BY <1>4, <2>1 DEF Rest
  <2>2. CASE d.written
    <3> DEFINE q == d.sendStreams
    <3>1. q \in Seq(Message) /\ q # <<>> /\ Rest(d) = Tail(q)
      BY <2>2 DEF Endpoint, Rest
    <3> HIDE DEF q
    <3>2. \A i \in DOMAIN Tail(q) : i + 1 \in DOMAIN q /\ Tail(q)[i] = q[i + 1]
      BY <3>1, HeadTailProperties, LenProperties
    <3> QED
      BY <1>4, <3>1, <3>2 DEF Owned, q
  <2> QED
    BY <2>1, <2>2
<1>6. Settled(d) /\ Kept(c, d)
  BY <1>1 DEF Settled, Still, Kept
<1> QED
  BY <1>2, <1>3, <1>4, <1>5, <1>6 DEF Local, Mid, Core, Quiet, Flows

LEMMA PickStep == ASSUME IInv, NEW e \in End, Pick(e) PROVE IInv'
<1> DEFINE c == conn[e]
<1>1. PICK ops : ops \in SUBSET c.registered /\ Step(e, [c EXCEPT !.pc = "picked", !.operation = ops])
  BY DEF Pick
<1> DEFINE d == [c EXCEPT !.pc = "picked", !.operation = ops]
<1>2. c \in Endpoint /\ Local(c) /\ Mid(c) /\ c.pc = "idle" /\ Other /\ Step(e, d)
  BY <1>1, InvFacts DEF Pick
<1>3. ops \subseteq {"read", "write"}
  BY <1>1, <1>2 DEF Endpoint
<1> HIDE DEF c
<1>4. d \in Endpoint
  BY <1>2, <1>3 DEF Endpoint
<1>5. /\ Still(c, d) /\ d.state = c.state /\ d.registered = c.registered /\ d.sendStreams = c.sendStreams
      /\ d.out = c.out /\ d.written = c.written /\ d.pc = "picked"
  BY <1>2 DEF Endpoint, Still
<1> HIDE DEF d
<1>6. ~c.written /\ Len(c.out) <= Capacity
  BY <1>2 DEF Mid, Core, Phases
<1>7. Stream(d) = Stream(c)
  BY <1>5 DEF Stream, Unwritten, Rest
<1>8. Local(d) /\ Quiet(c, d)
  BY <1>2, <1>4, <1>5, <1>6, <1>7, HandlerLocal
<1> QED
  BY <1>2, <1>8, QuietStep, OtherFacts DEF c

LEMMA HeadMoves ==
    ASSUME NEW p \in Seq(Message), NEW q \in Seq(Message), q # <<>>
    PROVE  Append(p, Head(q)) \o Tail(q) = p \o q
<1> DEFINE h == Head(q)
<1> DEFINE g == <<h>>
<1> DEFINE t == Tail(q)
<1>1. h \in Message /\ t \in Seq(Message) /\ q = g \o t
  BY HeadTailProperties
<1>2. Append(p, h) = p \o g /\ g \in Seq(Message)
  BY <1>1, AppendIsConcat
<1> HIDE DEF h, g, t
<1>3. (p \o g) \o t = p \o (g \o t)
  BY <1>1, <1>2, ConcatAssociative, SMTT(60)
<1> QED
  BY <1>1, <1>2, <1>3 DEF h, t

LEMMA MessageWriteStep == ASSUME IInv, NEW e \in End, MessageWrite(e) PROVE IInv'
<1> DEFINE c == conn[e]
<1> DEFINE b == [c EXCEPT !.pc = "locked"]
<1> DEFINE w == [b EXCEPT !.out = Append(@, Head(c.sendStreams)), !.written = TRUE]
<1>0. /\ c \in Endpoint /\ Local(c) /\ Mid(c) /\ c.pc = "picked" /\ Other /\ c.state \in NotValidated .. Finished
      /\ Owned(c.sendStreams, c)
  BY InvFacts DEF MessageWrite
<1>1. \/ c.state >= Closed /\ Step(e, Idle(c))
      \/ c.state < Closed /\ Step(e, b)
      \/ c.state < Closed /\ c.sendStreams # <<>> /\ Len(c.out) < Capacity /\ Step(e, w)
  BY <1>0 DEF MessageWrite
<1> HIDE DEF c
<1>2. ~c.written /\ Len(c.out) <= Capacity
  BY <1>0 DEF Mid, Core, Phases
<1>a. c.out \in Seq(Message) /\ c.sendStreams \in Seq(Message) /\ Len(c.out) \in Nat
  BY <1>0, LenProperties DEF Endpoint
<1>3. CASE c.state >= Closed /\ Step(e, Idle(c))
  <2> DEFINE d == Idle(c)
  <2>1. Mid(d) /\ d.pc = "idle" /\ Quiet(c, d)
    BY <1>0, <1>3, IdleMid
  <2> HIDE DEF d
  <2>2. Step(e, d)
    BY <1>3 DEF d
  <2> QED
    BY <1>0, <2>1, <2>2, FreeStep, OtherFacts DEF c
<1>b. b \in Endpoint
  BY <1>0 DEF Endpoint
<1>c. /\ Still(c, b) /\ b.state = c.state /\ b.registered = c.registered /\ b.sendStreams = c.sendStreams
      /\ b.out = c.out /\ b.written = c.written /\ b.pc = "locked"
  BY <1>0 DEF Endpoint, Still
<1>4. CASE c.state < Closed /\ Step(e, b)
  <2> HIDE DEF b
  <2>3. Stream(b) = Stream(c)
    BY <1>c DEF Stream, Unwritten, Rest
  <2>4. Local(b) /\ Quiet(c, b)
    BY <1>0, <1>2, <1>4, <1>b, <1>c, <2>3, HandlerLocal
  <2> QED
    BY <1>0, <1>4, <2>4, QuietStep, OtherFacts DEF c
<1>5. CASE c.state < Closed /\ c.sendStreams # <<>> /\ Len(c.out) < Capacity /\ Step(e, w)
  <2> DEFINE q == Append(c.out, Head(c.sendStreams))
  <2> DEFINE h == Head(c.sendStreams)
  <2>0. h \in Message
    BY <1>a, <1>5, HeadTailProperties
  <2>1. q \in Seq(Message) /\ Len(q) = Len(c.out) + 1
    BY <1>a, <2>0, AppendProperties
  <2>2. w = [b EXCEPT !.out = q, !.written = TRUE]
    BY <1>c
  <2> HIDE DEF q, b, w
  <2>3. [b EXCEPT !.out = q, !.written = TRUE] \in Endpoint
    BY <1>b, <2>1 DEF Endpoint
  <2>4. /\ w \in Endpoint /\ Still(b, w) /\ w.state = b.state /\ w.registered = b.registered
        /\ w.sendStreams = b.sendStreams /\ w.out = q /\ w.written = TRUE /\ w.pc = b.pc
    BY <1>b, <2>2, <2>3 DEF Endpoint, Still
  <2>5. /\ Still(c, w) /\ w.state = c.state /\ w.registered = c.registered
        /\ w.sendStreams = c.sendStreams /\ w.pc = "locked" /\ Len(w.out) <= Capacity
    BY <1>a, <1>c, <1>5, <2>1, <2>4, Constants DEF Still
  <2>6. Stream(w) = Stream(c)
    <3> DEFINE t == Tail(c.sendStreams)
    <3>0. Rest(w) = t /\ Rest(c) = c.sendStreams /\ ~(c.state >= Closed) /\ ~(w.state >= Closed)
      BY <1>0, <1>2, <1>5, <2>4, <2>5 DEF Rest
    <3>1. Stream(w) = q \o t /\ Stream(c) = c.out \o c.sendStreams
      BY <2>4, <3>0 DEF Stream, Unwritten
    <3>2. q \o t = c.out \o c.sendStreams
      BY <1>a, <1>5, HeadMoves DEF q
    <3> QED
      BY <3>1, <3>2
  <2>7. Local(w) /\ Quiet(c, w)
    BY <1>0, <1>5, <2>4, <2>5, <2>6, HandlerLocal
  <2> QED
    BY <1>0, <1>5, <2>7, QuietStep, OtherFacts DEF c
<1> QED
  BY <1>1, <1>3, <1>4, <1>5

(* message() ends because the connection is lost. *)
LEMMA LostStep ==
    ASSUME IInv, NEW e \in End, Step(e, Idle(SetClosed(conn[e], "ConnectionLost"))), Other
    PROVE  IInv'
<1> DEFINE c == conn[e]
<1> DEFINE b == SetClosed(c, "ConnectionLost")
<1> DEFINE d == Idle(b)
<1>0. c \in Endpoint /\ Mid(c) /\ Owned(c.sendStreams, c) /\ b = SetClosed(c, "ConnectionLost") /\ Step(e, d)
  BY InvFacts
<1> HIDE DEF c, b
<1>1. Mid(b) /\ Frame(c, b) /\ Quiet(c, b) /\ b.sendStreams = c.sendStreams /\ b.state >= Closed /\ b \in Endpoint
  BY <1>0, SetClosedMid DEF Exception, Mid, Core
<1>2. Owned(b.sendStreams, b)
  BY <1>0, <1>1 DEF Owned, Quiet, Kept
<1>3. Mid(d) /\ d.pc = "idle" /\ Quiet(b, d)
  BY <1>1, <1>2, IdleMid
<1>a. d.sendStreams = b.sendStreams /\ d.state = b.state /\ Still(b, d) /\ d.out = b.out /\ d.written = FALSE
  BY <1>1, IdleFacts
<1> HIDE DEF d
<1>4. Stream(d) = Stream(b)
  BY <1>1, <1>a DEF Stream, Unwritten
<1>5. Quiet(c, d)
  BY <1>1, <1>a, <1>4 DEF Quiet, Kept, Flows, Still, Appends, Cuts
<1> QED
  BY <1>0, <1>3, <1>5, FreeStep, OtherFacts DEF c

LEMMA MessageReadPartStep == ASSUME IInv, NEW e \in End, MessageReadPart(e) PROVE IInv'
<1> DEFINE c == conn[e]
<1> DEFINE readOp == "read" \in c.operation
<1> DEFINE d == Update(c, readOp)
<1>0. c \in Endpoint /\ Mid(c) /\ Settled(c) /\ Step(e, d) /\ Other /\ readOp \in BOOLEAN
  BY InvFacts DEF MessageReadPart
<1>1. c.state = NotValidated => c.sendStreams = <<>>
  BY <1>0 DEF Settled
<1> HIDE DEF c
<1>2. Mid(d) /\ d.pc = "idle" /\ Quiet(c, d)
  BY <1>0, <1>1, UpdateMid
<1> HIDE DEF d
<1> QED
  BY <1>0, <1>2, FreeStep, OtherFacts DEF c

-----------------------------------------------------------------------------
(* Steps of one end that start, end or answer requests. *)
LEMMA ServerStep ==
    ASSUME IInv, NEW d, Mid(d), Settled(d), d.pc # "locked", Cross(conn["client"], d, dispatched),
           Step("server", d), Other
    PROVE  IInv'
<1>1. d \in Endpoint /\ Local(d) /\ conn \in [End -> Endpoint]
  BY MidLocal DEF Mid, Core, IInv
<1>2. /\ conn' \in [End -> Endpoint] /\ conn'["server"] = d /\ conn'["client"] = conn["client"]
  BY <1>1, EndFacts DEF Step
<1>3. \A x \in End : Local(conn'[x])
  BY <1>1, <1>2, EndFacts DEF IInv
<1> QED
  BY <1>2, <1>3, OtherFacts DEF IInv

LEMMA ClientStep ==
    ASSUME IInv, NEW d, Mid(d), Settled(d), d.pc # "locked", Cross(d, conn["server"], dispatched),
           Step("client", d), Other
    PROVE  IInv'
<1>1. d \in Endpoint /\ Local(d) /\ conn \in [End -> Endpoint]
  BY MidLocal DEF Mid, Core, IInv
<1>2. /\ conn' \in [End -> Endpoint] /\ conn'["client"] = d /\ conn'["server"] = conn["server"]
  BY <1>1, EndFacts DEF Step
<1>3. \A x \in End : Local(conn'[x])
  BY <1>1, <1>2, EndFacts DEF IInv
<1> QED
  BY <1>2, <1>3, OtherFacts DEF IInv

(* Two ends that differ in what their streams and closures do not depend   *)
(* on.                                                                     *)
Alike(c, b) ==
    /\ b.out = c.out /\ b.sendStreams = c.sendStreams /\ b.written = c.written /\ b.pc = c.pc
    /\ b.state = c.state /\ b.exception = c.exception /\ b.finishing = c.finishing
    /\ b.closeRequested = c.closeRequested /\ b.shutdownInitiated = c.shutdownInitiated
    /\ b.asyncRequests = c.asyncRequests /\ b.hint = c.hint /\ b.done = c.done /\ b.completions = c.completions

LEMMA AlikeFacts ==
    ASSUME NEW c, NEW b, Alike(c, b)
    PROVE  /\ Rest(b) = Rest(c) /\ Stream(b) = Stream(c)
           /\ Tally(c) => Tally(b)
           /\ Owned(Rest(c), c) => Owned(Rest(b), b)
           /\ Settled(c) /\ b.dispatches \subseteq c.dispatches => Settled(b)
           /\ b.dispatches = c.dispatches => /\ Kept(c, b) /\ Quiet(c, b)
                                             /\ \A d : Quiet(b, d) => Quiet(c, d)
<1>1. Rest(b) = Rest(c)
  BY DEF Alike, Rest
<1>2. Unwritten(b) = Unwritten(c)
  BY <1>1 DEF Alike, Unwritten
<1>3. Stream(b) = Stream(c)
  BY <1>2 DEF Alike, Stream
<1>4. Tally(c) => Tally(b)
  BY DEF Alike, Tally
<1>5. Owned(Rest(c), c) => Owned(Rest(b), b)
  BY <1>1 DEF Alike, Owned
<1>6. Settled(c) /\ b.dispatches \subseteq c.dispatches => Settled(b)
  BY DEF Alike, Settled
<1>7. ASSUME b.dispatches = c.dispatches PROVE Kept(c, b) /\ Quiet(c, b)
  BY <1>3, <1>7 DEF Alike, Kept, Quiet, Flows
<1>8. ASSUME b.dispatches = c.dispatches, NEW d, Quiet(b, d) PROVE Quiet(c, d)
  BY <1>3, <1>8 DEF Alike, Kept, Quiet, Flows, Appends, Cuts
<1> QED
  BY <1>1, <1>3, <1>4, <1>5, <1>6, <1>7, <1>8

LEMMA UpcallDoneStep == ASSUME IInv, NEW e \in End, UpcallDone(e) PROVE IInv'
<1> DEFINE c == conn[e]
<1> DEFINE k == c.callbacks - 1
<1> DEFINE b == [c EXCEPT !.callbacks = k]
<1>0. c \in Endpoint /\ Mid(c) /\ c.pc # "locked" /\ c.callbacks > 0 /\ Other
  BY InvFacts DEF UpcallDone, Locked
<1>1. PICK fail \in BOOLEAN :
        Step(e, IF Upcalls(b) = 0 /\ b.state = Closing THEN InitiateShutdown(b, fail) ELSE RemoveFromFactory(b))
  BY InvFacts DEF UpcallDone
<1> HIDE DEF c
<1>2. k \in Nat
  BY <1>0 DEF Endpoint
<1> HIDE DEF k
<1>3. b \in Endpoint
  BY <1>0, <1>2 DEF Endpoint
<1>4. Alike(c, b) /\ b.dispatches = c.dispatches /\ b.registered = c.registered /\ b.removed = c.removed
  BY <1>0 DEF Endpoint, Alike
<1> HIDE DEF b
<1>5. Upcalls(c) # 0
  BY <1>0, UpcallsFacts
<1>6. b.removed = 0
  BY <1>0, <1>4, <1>5 DEF Mid, Removal
<1>7. Core(b)
  <2>1. Phases(b) /\ Waits(b)
    BY <1>0, <1>4 DEF Mid, Core, Phases, Waits, Reads, Alike
  <2>2. Tally(b) /\ Owned(Rest(b), b)
    BY <1>0, <1>4, AlikeFacts DEF Mid, Core
  <2>3. Len(b.out) <= Capacity
    BY <1>0, <1>4 DEF Mid, Core, Alike
  <2> QED
    BY <1>3, <2>1, <2>2, <2>3 DEF Core
<1>8. CASE Upcalls(b) = 0 /\ b.state = Closing
  <2> DEFINE d == InitiateShutdown(b, fail)
  <2>1. Mid(b)
    BY <1>6, <1>7, <1>8 DEF Mid, Removal
  <2>2. Mid(d) /\ Frame(b, d) /\ Quiet(b, d)
    BY <1>3, <1>8, <2>1, InitiateShutdownMid
  <2>3. Step(e, d)
    BY <1>1, <1>8
  <2> HIDE DEF d
  <2>4. Quiet(c, d) /\ d.pc # "locked"
    BY <1>0, <1>4, <2>2, AlikeFacts DEF Frame, Alike
  <2> QED
    BY <1>0, <2>2, <2>3, <2>4, FreeStep, OtherFacts DEF c
<1>9. CASE ~(Upcalls(b) = 0 /\ b.state = Closing)
  <2> DEFINE d == RemoveFromFactory(b)
  <2>1. Mid(d) /\ Stream(d) = Stream(b) /\ Kept(b, d) /\ d.pc = b.pc
    BY <1>3, <1>6, <1>7, RemoveMid
  <2>2. Step(e, d)
    BY <1>1, <1>9
  <2> HIDE DEF d
  <2>3. Quiet(b, d)
    BY <2>1 DEF Quiet, Flows
  <2>4. Quiet(c, d) /\ d.pc # "locked"
    BY <1>0, <1>4, <2>1, <2>3, AlikeFacts DEF Alike
  <2> QED
    BY <1>0, <2>1, <2>2, <2>4, FreeStep, OtherFacts DEF c
<1> QED
  BY <1>8, <1>9

(* The end of a dispatch. *)
LEMMA UndispatchFacts ==
    ASSUME NEW c \in Endpoint, Core(c), NEW r \in c.dispatches
    PROVE  LET d == [c EXCEPT !.dispatches = @ \ {r}] IN
           /\ d \in Endpoint /\ Alike(c, d) /\ d.dispatches = c.dispatches \ {r}
           /\ d.registered = c.registered /\ d.removed = c.removed /\ d.callbacks = c.callbacks
           /\ Waits(d) => Core(d)
<1> DEFINE d == [c EXCEPT !.dispatches = @ \ {r}]
<1>1. d \in Endpoint
  BY DEF Endpoint
<1>2. /\ Alike(c, d) /\ d.dispatches = c.dispatches \ {r}
      /\ d.registered = c.registered /\ d.removed = c.removed /\ d.callbacks = c.callbacks
  BY DEF Endpoint, Alike
<1> HIDE DEF d
<1>3. Phases(d) /\ Len(d.out) <= Capacity
  BY <1>2 DEF Core, Phases, Alike
<1>4. Tally(d) /\ Owned(Rest(d), d)
  BY <1>2, AlikeFacts DEF Core
<1>5. /\ d \in Endpoint /\ Alike(c, d) /\ d.dispatches = c.dispatches \ {r}
      /\ d.registered = c.registered /\ d.removed = c.removed /\ d.callbacks = c.callbacks
      /\ Waits(d) => Core(d)
  BY <1>1, <1>2, <1>3, <1>4 DEF Core
<1> QED
  BY <1>5 DEF d

(* It is answered, or the server closes without CloseConnection. *)
LEMMA AnswerServer ==
    ASSUME NEW cl, NEW sv, NEW s2, NEW D, Cross(cl, sv, D), NEW r \in sv.dispatches, ~sv.shutdownInitiated,
           ~s2.shutdownInitiated, s2.asyncRequests = sv.asyncRequests, s2.dispatches = sv.dispatches \ {r},
           Typed(sv), Typed(s2), sv.state >= Closed => s2.state >= Closed,
           \/ Stream(s2) = Append(Stream(sv), [type |-> "reply", r |-> r, of |-> None])
           \/ Stream(s2) = Stream(sv) /\ s2.state >= Closed
    PROVE  Cross(cl, s2, D)
<1> DEFINE q == Stream(sv)
<1> DEFINE p == Stream(s2)
<1>1. q \in Seq(Message) /\ r \in Request /\ r \in D
  BY Typing DEF Typed, Endpoint, Cross
<1>2. Replies(q, D, sv.shutdownInitiated) /\ ~HasClose(q) /\ Answered(cl, sv, D)
  BY DEF Cross, Replies, HasClose
<1>3. Replies(p, D, s2.shutdownInitiated) /\ Answered(cl, s2, D)
  <2>1. CASE Stream(s2) = Stream(sv) /\ s2.state >= Closed
    <3>1. Replies(p, D, s2.shutdownInitiated) /\ ~HasClose(p)
      BY <1>2, <2>1 DEF Replies, HasClose
    <3> QED
      BY <2>1, <3>1 DEF Answered
  <2>2. CASE Stream(s2) = Append(Stream(sv), [type |-> "reply", r |-> r, of |-> None])
    <3> DEFINE m == [type |-> "reply", r |-> r, of |-> None]
    <3>1. m \in Message /\ m.type = "reply" /\ m.r = r /\ p = Append(q, m)
      BY <1>1, <2>2, Controls
    <3> HIDE DEF m, q, p
    <3>2. /\ Replies(Append(q, m), D, s2.shutdownInitiated)
          /\ HasClose(Append(q, m)) => m.type = "close"
          /\ \A x : HasReply(q, x) \/ (m.type = "reply" /\ m.r = x) => HasReply(Append(q, m), x)
      BY <1>1, <1>2, <3>1, RepliesAppend
    <3>3. Replies(p, D, s2.shutdownInitiated) /\ ~HasClose(p) /\ (\A x : HasReply(q, x) \/ x = r => HasReply(p, x))
      BY <3>1, <3>2
    <3>4. Answered(cl, s2, D)
      BY <1>2, <3>3 DEF Answered, p, q
    <3> QED
      BY <3>3, <3>4
  <2> QED
    BY <2>1, <2>2
<1>4. \A x \in D : cl.done[x] # "new"
  BY DEF Cross
<1>5. s2.asyncRequests = {} /\ s2.dispatches \subseteq D
  BY DEF Cross
<1>6. /\ cl.exception = "CloseConnection" => s2.shutdownInitiated /\ cl.asyncRequests \cap D = {}
      /\ \A x \in Request : cl.done[x] = "CloseConnection" => s2.shutdownInitiated /\ x \notin D
  BY DEF Cross
<1> QED
  BY <1>3, <1>4, <1>5, <1>6 DEF Cross

(* A dispatch ends on an end that is closed. *)
LEMMA UnansweredStep ==
    ASSUME IInv, ~Locked("server"), NEW r \in conn["server"].dispatches,
           NEW ex \in Exception, ex # "CloseConnection",
           Step("server", RemoveFromFactory([SetClosed(conn["server"], ex) EXCEPT !.dispatches = @ \ {r}])), Other
    PROVE  IInv'
<1> DEFINE c == conn["server"]
<1> DEFINE b == SetClosed(c, ex)
<1> DEFINE d == [b EXCEPT !.dispatches = @ \ {r}]
<1> DEFINE x == RemoveFromFactory(d)
<1>0. c \in Endpoint /\ Mid(c) /\ Settled(c) /\ c.pc # "locked" /\ Typed(c) /\ Typed(conn["client"])
  BY InvFacts, EndFacts DEF Locked
<1>1. Cross(conn["client"], c, dispatched) /\ r \in c.dispatches
  BY DEF IInv
<1>2. Step("server", x) /\ b = SetClosed(c, ex)
  OBVIOUS
<1> HIDE DEF c, b
<1>3. Mid(b) /\ Frame(c, b) /\ b.state >= Closed /\ Quiet(c, b) /\ b \in Endpoint /\ Core(b) /\ Typed(b)
  BY <1>0, <1>2, SetClosedMid, MidTyped DEF Mid, Core
<1>4. r \in b.dispatches /\ Settled(b) /\ Cross(conn["client"], b, dispatched)
  BY <1>0, <1>1, <1>3, SettledKept, QuietServer DEF Quiet, Kept
<1>5. /\ d \in Endpoint /\ Alike(b, d) /\ d.dispatches = b.dispatches \ {r}
      /\ d.registered = b.registered /\ d.removed = b.removed /\ d.callbacks = b.callbacks
      /\ Waits(d) => Core(d)
  BY <1>3, <1>4, UndispatchFacts
<1> HIDE DEF d
<1>6. d.state >= Closed /\ ~(d.state < ClosingPending) /\ d.state # Active /\ d.state # ClosingPending
  BY <1>3, <1>5 DEF Alike, Endpoint
<1>7. Core(d) /\ Typed(d)
  BY <1>5, <1>6 DEF Waits, Core, Phases, Typed
<1>8. d.removed = 0
  BY <1>3, <1>4, <1>5, UpcallsFacts DEF Mid, Removal
<1>9. ~b.shutdownInitiated /\ ~d.shutdownInitiated
  BY <1>3, <1>4, <1>5 DEF Core, Phases, Alike
<1>10. Cross(conn["client"], d, dispatched)
  <2>1. Stream(d) = Stream(b) /\ d.asyncRequests = b.asyncRequests
    BY <1>5, AlikeFacts DEF Alike
  <2> QED
    BY <1>3, <1>4, <1>5, <1>6, <1>7, <1>9, <2>1, AnswerServer
<1>11. Mid(x) /\ Stream(x) = Stream(d) /\ Kept(d, x) /\ x.pc = d.pc
  BY <1>5, <1>7, <1>8, RemoveMid
<1> HIDE DEF x
<1>12. Settled(d) /\ x \in Endpoint /\ Typed(x) /\ x.pc # "locked"
  BY <1>0, <1>3, <1>4, <1>5, <1>11, AlikeFacts, MidTyped DEF Typed, Alike, Frame
<1>13. Settled(x) /\ Cross(conn["client"], x, dispatched)
  BY <1>0, <1>5, <1>7, <1>10, <1>11, <1>12, SettledKept, QuietServer DEF Quiet, Flows
<1> QED
  BY <1>2, <1>11, <1>12, <1>13, ServerStep

LEMMA DispatchExceptionStep == ASSUME IInv, NEW r \in Request, DispatchException(r) PROVE IInv'
<1>1. "Fatal" \in Exception
  BY DEF Exception
<1> QED
  BY <1>1, UnansweredStep DEF DispatchException

(* sendResponse() ends the dispatch first; the order does not matter. *)
LEMMA UndispatchCommutes ==
    ASSUME NEW c \in Endpoint, NEW r, NEW m, NEW ex
    PROVE  LET d == [c EXCEPT !.dispatches = @ \ {r}] IN
           /\ SendMessage(d, m) = [SendMessage(c, m) EXCEPT !.dispatches = @ \ {r}]
           /\ SetClosed(d, ex) = [SetClosed(c, ex) EXCEPT !.dispatches = @ \ {r}]
           /\ d.sendStreams = c.sendStreams /\ d.state = c.state
<1> DEFINE d == [c EXCEPT !.dispatches = @ \ {r}]
<1>1. /\ d.sendStreams = c.sendStreams /\ d.out = c.out /\ d.state = c.state
  BY DEF Endpoint
<1>2. SetClosed(d, ex) = [SetClosed(c, ex) EXCEPT !.dispatches = @ \ {r}]
  BY <1>1 DEF SetClosed, Endpoint
<1>3. SendMessage(d, m) = [SendMessage(c, m) EXCEPT !.dispatches = @ \ {r}]
  <2>1. CASE c.sendStreams # <<>>
    BY <1>1, <2>1 DEF SendMessage, Endpoint
  <2>2. CASE c.sendStreams = <<>> /\ Len(c.out) < Capacity
    <3> DEFINE new == {x.of : x \in {y \in {m} : y.of # None}}
    <3>1. /\ SendMessage(c, m) = [[c EXCEPT !.out = Append(@, m)] EXCEPT !.sent = @ \cup new]
          /\ SendMessage(d, m) = [[d EXCEPT !.out = Append(@, m)] EXCEPT !.sent = @ \cup new]
      BY <1>1, <2>2 DEF SendMessage, Sent
    <3> HIDE DEF new
    <3> QED
      BY <3>1 DEF Endpoint
  <2>3. CASE c.sendStreams = <<>> /\ ~(Len(c.out) < Capacity)
    BY <1>1, <2>3 DEF SendMessage, Endpoint
  <2> QED
    BY <2>1, <2>2, <2>3
<1> QED
  BY <1>1, <1>2, <1>3

LEMMA SendResponseStep == ASSUME IInv, NEW r \in Request, SendResponse(r) PROVE IInv'
<1> DEFINE c == conn["server"]
<1> DEFINE b == [c EXCEPT !.dispatches = @ \ {r}]
<1> DEFINE m == [type |-> "reply", r |-> r, of |-> None]
<1> DEFINE s == SendMessage(b, m)
<1> DEFINE resumes == c.state = Active /\ MaxDispatches > 0 /\ Cardinality(c.dispatches) = MaxDispatches
<1>0. /\ c \in Endpoint /\ Mid(c) /\ Settled(c) /\ c.pc # "locked" /\ Typed(c) /\ Typed(conn["client"])
      /\ c.state \in NotValidated .. Finished /\ ~Locked("server") /\ "server" \in End /\ Core(c)
  BY InvFacts, EndFacts, MidTyped DEF Locked, SendResponse
<1>1. Cross(conn["client"], c, dispatched) /\ r \in c.dispatches /\ Other
  BY DEF IInv, SendResponse
<1>2. PICK fail \in BOOLEAN :
        Step("server",
             IF c.state >= Closed THEN RemoveFromFactory(b)
             ELSE IF Fails(b, fail) THEN SetClosed(b, "ConnectionLost")
             ELSE IF resumes THEN [s EXCEPT !.registered = @ \cup {"read"}]
             ELSE IF s.state = Closing THEN InitiateShutdown(s, fail) ELSE s)
  BY <1>0, InvFacts DEF SendResponse
<1>3. /\ s = [SendMessage(c, m) EXCEPT !.dispatches = @ \ {r}]
      /\ SetClosed(b, "ConnectionLost") = [SetClosed(c, "ConnectionLost") EXCEPT !.dispatches = @ \ {r}]
  BY <1>0, UndispatchCommutes
<1>4. "ConnectionLost" \in Exception
  BY DEF Exception
<1>5. CASE c.state >= Closed
  <2>1. SetClosed(c, "ConnectionLost") = c
    BY <1>5 DEF SetClosed
  <2>2. Step("server", RemoveFromFactory([SetClosed(c, "ConnectionLost") EXCEPT !.dispatches = @ \ {r}]))
    BY <1>2, <1>5, <2>1
  <2> QED
    BY <1>0, <1>1, <1>4, <2>2, UnansweredStep
<1>6. CASE c.state < Closed /\ Fails(b, fail)
  <2> DEFINE x == [SetClosed(c, "ConnectionLost") EXCEPT !.dispatches = @ \ {r}]
  <2>1. x.state = Closed
    BY <1>0, <1>6 DEF SetClosed, Endpoint
  <2>2. RemoveFromFactory(x) = x
    BY <2>1 DEF RemoveFromFactory
  <2>3. Step("server", RemoveFromFactory(x))
    BY <1>0, <1>2, <1>3, <1>6, <2>2
  <2> QED
    BY <1>0, <1>1, <1>4, <2>3, UnansweredStep
<1>7. CASE c.state < Closed /\ ~Fails(b, fail)
  <2> DEFINE a == SendMessage(c, m)
  <2>1. m \in Message /\ m.of = None
    BY Controls
  <2>2. Step("server", IF resumes THEN [s EXCEPT !.registered = @ \cup {"read"}]
                       ELSE IF s.state = Closing THEN InitiateShutdown(s, fail) ELSE s)
    BY <1>0, <1>2, <1>7
  <2>3. s = [a EXCEPT !.dispatches = @ \ {r}] /\ a = SendMessage(c, m)
    BY <1>3
  <2>4. Sendable(c, m)
    BY <2>1 DEF Sendable
  <2> HIDE DEF c, s, a, m
  <2>5. Mid(a) /\ Sends(c, m, a) /\ a \in Endpoint /\ Core(a) /\ Typed(a)
    <3>1. Mid(a) /\ Sends(c, m, a)
      BY <1>0, <1>7, <2>1, <2>3, <2>4, SendMessageMid
    <3> QED
      BY <3>1, MidTyped DEF Mid, Core
  <2>6. r \in a.dispatches /\ a.state = c.state
    BY <1>1, <2>5 DEF Sends
  <2>7. /\ s \in Endpoint /\ Alike(a, s) /\ s.dispatches = a.dispatches \ {r}
        /\ s.registered = a.registered /\ s.removed = a.removed /\ s.callbacks = a.callbacks
        /\ Waits(s) => Core(s)
    BY <2>3, <2>5, <2>6, UndispatchFacts
  <2>8. ~c.shutdownInitiated /\ ~s.shutdownInitiated
    BY <1>0, <1>1, <2>5, <2>7 DEF Core, Phases, Alike, Sends
  <2>9. /\ Typed(s) /\ Stream(s) = Append(Stream(c), m) /\ s.state = c.state /\ s.pc # "locked"
        /\ s.dispatches = c.dispatches \ {r} /\ s.asyncRequests = c.asyncRequests /\ Settled(s)
    <3>1. Stream(s) = Stream(a) /\ Typed(s)
      BY <2>5, <2>7, AlikeFacts DEF Alike, Typed
    <3>2. Settled(s)
      <4>1. c.state # NotValidated /\ s.state = c.state
        BY <1>0, <1>1, <2>5, <2>7 DEF Settled, Sends, Alike
      <4> QED
        BY <1>0, <2>5, <2>7, <4>1 DEF Settled, Alike, Sends
    <3> QED
      BY <1>0, <2>5, <2>7, <3>1, <3>2 DEF Alike, Sends, Frame
  <2>10. Cross(conn["client"], s, dispatched)
    <3>1. Stream(s) = Append(Stream(c), [type |-> "reply", r |-> r, of |-> None])
      BY <2>9 DEF m
    <3> QED
      BY <1>0, <1>1, <1>7, <2>8, <2>9, <3>1, AnswerServer
  <2>11. s.removed = 0 /\ s.state # Finished
    <3>1. a.state # Finished
      BY <1>7, <2>6
    <3> QED
      BY <2>5, <2>6, <2>7, <2>9, <3>1 DEF Mid, Removal
  <2>12. CASE resumes
    <3> DEFINE x == [s EXCEPT !.registered = @ \cup {"read"}]
    <3>1. x \in Endpoint
      BY <2>7 DEF Endpoint
    <3>2. /\ Alike(s, x) /\ x.dispatches = s.dispatches /\ x.registered = s.registered \cup {"read"}
          /\ x.removed = s.removed /\ x.callbacks = s.callbacks
      BY <2>7 DEF Endpoint, Alike
    <3>3. Step("server", x)
      BY <2>2, <2>12
    <3> HIDE DEF x
    <3>4. Waits(x)
      <4>1. c.state = Active /\ x.state = Active /\ x.sendStreams = a.sendStreams /\ a.registered \subseteq x.registered
        BY <2>7, <2>9, <2>12, <3>2 DEF Alike
      <4>2. a.sendStreams # <<>> => "write" \in a.registered
        BY <2>5, <2>6, <4>1 DEF Core, Waits
      <4> QED
        BY <3>2, <4>1, <4>2 DEF Waits
    <3>5. Phases(x) /\ Len(x.out) <= Capacity
      BY <2>5, <2>7, <3>2 DEF Core, Phases, Alike
    <3>6. Tally(x) /\ Owned(Rest(x), x) /\ Settled(x)
      BY <2>5, <2>7, <2>9, <3>2, AlikeFacts DEF Core
    <3>7. Mid(x) /\ x.pc # "locked"
      BY <2>9, <2>11, <3>1, <3>2, <3>4, <3>5, <3>6 DEF Mid, Core, Removal, Alike
    <3>8. Cross(conn["client"], x, dispatched)
      <4>1. Quiet(s, x) /\ Typed(x)
        BY <3>2, <3>7, AlikeFacts, MidTyped
      <4> QED
        BY <1>0, <2>9, <2>10, <4>1, QuietServer
    <3> QED
      BY <1>1, <3>3, <3>6, <3>7, <3>8, ServerStep
  <2>13. CASE ~resumes
    <3>1. Waits(s)
      <4>1. s.state = Active /\ Reads(s) => "read" \in s.registered
        <5> SUFFICES ASSUME s.state = Active, Reads(s) PROVE "read" \in s.registered
          OBVIOUS
        <5>1. Reads(a) \/ (MaxDispatches > 0 /\ Cardinality(a.dispatches) = MaxDispatches)
          BY <2>3, <2>5, <2>6, ReadsFacts
        <5>2. Reads(a)
          BY <2>5, <2>9, <2>13, <5>1 DEF Sends
        <5>3. "read" \in a.registered
          BY <2>5, <2>6, <2>9, <5>2 DEF Core, Waits
        <5> QED
          BY <2>7, <5>3
      <4>2. /\ s.state = ClosingPending => "read" \in s.registered
            /\ s.state < ClosingPending /\ s.sendStreams # <<>> => "write" \in s.registered
        BY <2>5, <2>7 DEF Core, Waits, Alike
      <4> QED
        BY <4>1, <4>2 DEF Waits
    <3>2. Mid(s)
      BY <2>7, <2>11, <3>1 DEF Mid, Removal
    <3>3. CASE s.state = Closing
      <4> DEFINE x == InitiateShutdown(s, fail)
      <4>1. Mid(x) /\ Frame(s, x) /\ Quiet(s, x)
        BY <2>7, <3>2, <3>3, InitiateShutdownMid
      <4>2. Step("server", x)
        BY <2>2, <2>13, <3>3
      <4> HIDE DEF x
      <4>3. Typed(x) /\ x \in Endpoint
        BY <4>1, MidTyped DEF Typed
      <4>4. Settled(x) /\ x.pc # "locked" /\ Cross(conn["client"], x, dispatched)
        BY <1>0, <2>7, <2>9, <2>10, <4>1, <4>3, SettledKept, QuietServer DEF Quiet, Frame
      <4> QED
        BY <1>1, <4>1, <4>2, <4>4, ServerStep
    <3>4. CASE s.state # Closing
      <4>1. Step("server", s)
        BY <2>2, <2>13, <3>4
      <4> QED
        BY <1>1, <2>9, <2>10, <3>2, <4>1, ServerStep
    <3> QED
      BY <3>3, <3>4
  <2> QED
    BY <2>12, <2>13
<1> QED
  BY <1>0, <1>5, <1>6, <1>7

(* Steps of the client that keep what is known of its requests. *)
LEMMA ClientCross ==
    ASSUME NEW cl, NEW sv, NEW D, NEW c2, Cross(cl, sv, D),
           Requests(Stream(c2), c2.done, D),
           \A r \in D : c2.done[r] # "new" /\ (r \in c2.asyncRequests => r \in cl.asyncRequests),
           c2.exception = "CloseConnection" => cl.exception = "CloseConnection",
           \A r \in Request : c2.done[r] = "CloseConnection" =>
               cl.done[r] = "CloseConnection" \/ (r \in cl.asyncRequests /\ cl.exception = "CloseConnection")
    PROVE  Cross(c2, sv, D)
<1>1. Answered(c2, sv, D)
  BY DEF Cross, Answered
<1>2. c2.exception = "CloseConnection" => sv.shutdownInitiated /\ c2.asyncRequests \cap D = {}
  BY DEF Cross
<1>3. \A r \in Request : c2.done[r] = "CloseConnection" => sv.shutdownInitiated /\ r \notin D
  BY DEF Cross
<1> QED
  BY <1>1, <1>2, <1>3 DEF Cross

LEMMA RequestsDone ==
    ASSUME NEW q \in Seq(Message), NEW done, NEW done2, NEW D, Requests(q, done, D),
           \A r \in Request : done[r] # "new" => done2[r] # "new"
    PROVE  Requests(q, done2, D)
<1>1. \A i \in DOMAIN q : q[i] \in Message
  BY LenProperties
<1>2. \A i \in DOMAIN q : q[i].type = "request" => q[i].r \in Request
  BY <1>1 DEF Message
<1> QED
  BY <1>2 DEF Requests

LEMMA FinishStep == ASSUME IInv, NEW e \in End, Finish(e) PROVE IInv'
<1> DEFINE c == conn[e]
<1> DEFINE queued == {m.of : m \in ToSet(c.sendStreams)} \ {None}
<1> DEFINE others == c.asyncRequests \ queued
<1> DEFINE x == Complete(c, queued, c.exception)
<1> DEFINE y == Complete(x, others, c.exception)
<1> DEFINE f == [y EXCEPT !.state = Finished, !.finishing = FALSE, !.sendStreams = <<>>,
                          !.asyncRequests = {}, !.hint = None]
<1> DEFINE d == RemoveFromFactory(f)
<1>0. c \in Endpoint /\ Mid(c) /\ Core(c) /\ c.pc # "locked" /\ Typed(c) /\ Owned(c.sendStreams, c)
  BY InvFacts, MidTyped DEF Locked, Finish
<1>1. Step(e, d) /\ Other /\ c.finishing
  BY DEF Finish
<1> HIDE DEF c
<1>2. c.state = Closed /\ ~c.written /\ c.removed = 0 /\ c.exception \in Exception
  BY <1>0, <1>1 DEF Mid, Core, Phases, Removal, Endpoint
<1>3. queued \in SUBSET Request /\ queued \subseteq c.asyncRequests
  <2>1. c.asyncRequests \subseteq Request
    BY <1>0 DEF Endpoint
  <2>2. ASSUME NEW q \in queued PROVE q \in c.asyncRequests
    <3>1. PICK i \in DOMAIN c.sendStreams : q = c.sendStreams[i].of /\ q # None
      BY DEF ToSet
    <3> QED
      BY <1>0, <3>1 DEF Owned
  <2> QED
    BY <2>1, <2>2
<1>4. others \in SUBSET Request /\ others \cap queued = {} /\ others \cup queued = c.asyncRequests
  BY <1>0, <1>3 DEF Endpoint
<1> HIDE DEF queued, others
<1>5. /\ x \in Endpoint /\ Aside(c, x) /\ Done(c, queued, c.exception, x)
      /\ x.asyncRequests = c.asyncRequests /\ x.hint = c.hint
  BY <1>0, <1>2, <1>3, CompleteFacts
<1> HIDE DEF x
<1>6. y \in Endpoint /\ Aside(x, y) /\ Done(x, others, c.exception, y)
  BY <1>2, <1>4, <1>5, CompleteFacts
<1> HIDE DEF y
<1>7. /\ y.done \in [Request -> {"new", "pending", "ok", "canceled"} \cup Exception]
      /\ Aside(c, y)
      /\ \A r \in Request : y.done[r] = IF r \in c.asyncRequests THEN c.exception ELSE c.done[r]
      /\ \A r \in Request : r \in c.asyncRequests /\ c.completions[r] = 0 => y.completions[r] = 1
      /\ \A r \in Request : r \notin c.asyncRequests => y.completions[r] = c.completions[r]
  <2>1. y.done \in [Request -> {"new", "pending", "ok", "canceled"} \cup Exception]
    BY <1>6 DEF Endpoint
  <2>2. Aside(c, y)
    BY <1>5, <1>6 DEF Aside
  <2>3. \A r \in Request : y.done[r] = IF r \in c.asyncRequests THEN c.exception ELSE c.done[r]
    BY <1>4, <1>5, <1>6 DEF Done
  <2>4. \A r \in Request : r \in c.asyncRequests /\ c.completions[r] = 0 => y.completions[r] = 1
    BY <1>4, <1>5, <1>6 DEF Done
  <2>5. \A r \in Request : r \notin c.asyncRequests => y.completions[r] = c.completions[r]
    BY <1>4, <1>5, <1>6 DEF Done
  <2> QED
    BY <2>1, <2>2, <2>3, <2>4, <2>5
<1>8. f \in Endpoint
  <2> DEFINE q == <<>>
  <2>1. q \in Seq(Message)
    BY EmptySeq
  <2> HIDE DEF q
  <2>2. [y EXCEPT !.state = Finished, !.finishing = FALSE, !.sendStreams = q,
                  !.asyncRequests = {}, !.hint = None] \in Endpoint
    BY <1>6, <2>1, StateRange DEF Endpoint
  <2> QED
    BY <2>2 DEF q
<1>9. /\ f.state = Finished /\ f.finishing = FALSE /\ f.sendStreams = <<>> /\ f.asyncRequests = {} /\ f.hint = None
      /\ f.out = y.out /\ f.written = y.written /\ f.pc = y.pc /\ f.exception = y.exception
      /\ f.shutdownInitiated = y.shutdownInitiated /\ f.dispatches = y.dispatches /\ f.removed = y.removed
      /\ f.done = y.done /\ f.completions = y.completions
  BY <1>6 DEF Endpoint
<1> HIDE DEF f
<1>10. /\ f.out = c.out /\ f.written = FALSE /\ f.pc = c.pc /\ f.exception = c.exception
       /\ f.shutdownInitiated = c.shutdownInitiated /\ f.dispatches = c.dispatches /\ f.removed = 0
  BY <1>0, <1>2, <1>7, <1>9 DEF Aside, Endpoint
<1>11. Tally(f)
  <2>1. ASSUME NEW r \in Request
        PROVE  /\ f.completions[r] <= 1
               /\ f.completions[r] = 0 <=> f.done[r] \in {"new", "pending"}
               /\ f.done[r] = "pending" <=> r \in f.asyncRequests
    <3>1. /\ c.completions[r] <= 1
          /\ c.completions[r] = 0 <=> c.done[r] \in {"new", "pending"}
          /\ c.done[r] = "pending" <=> r \in c.asyncRequests
      BY <1>0 DEF Core, Tally
    <3>2. CASE r \in c.asyncRequests
      <4>1. f.done[r] \in Exception /\ f.completions[r] = 1
        BY <1>2, <1>7, <1>9, <3>1, <3>2
      <4> QED
        BY <1>9, <4>1 DEF Exception
    <3>3. CASE r \notin c.asyncRequests
      <4>1. f.done[r] = c.done[r] /\ f.completions[r] = c.completions[r]
        BY <1>7, <1>9, <3>3
      <4> QED
        BY <1>9, <3>1, <3>3, <4>1
    <3> QED
      BY <3>2, <3>3
  <2> QED
    BY <1>9, <2>1 DEF Tally
<1>12. Core(f)
  <2>1. Phases(f) /\ Waits(f) /\ Len(f.out) <= Capacity
    BY <1>0, <1>9, <1>10 DEF Core, Phases, Waits
  <2>2. Owned(Rest(f), f)
    BY <1>9, <1>10 DEF Rest, Owned
  <2> QED
    BY <1>8, <1>11, <2>1, <2>2 DEF Core
<1>13. Mid(d) /\ Stream(d) = Stream(f) /\ Kept(f, d) /\ d.pc = f.pc
  BY <1>8, <1>10, <1>12, RemoveMid
<1> HIDE DEF d
<1>14. Stream(f) = Stream(c)
  BY <1>2, <1>9, <1>10 DEF Stream, Unwritten
<1>15. Typed(f) /\ Typed(d) /\ Quiet(f, d) /\ d.pc # "locked" /\ d \in Endpoint
  BY <1>0, <1>8, <1>10, <1>13, MidTyped DEF Quiet, Flows, Typed
<1>16. Settled(f)
  BY <1>9 DEF Settled
<1>17. Settled(d)
  BY <1>8, <1>13, <1>15, <1>16, SettledKept
<1>18. CASE e = "client"
  <2>1. Cross(c, conn["server"], dispatched) /\ dispatched \subseteq Request
    BY <1>18 DEF IInv, c
  <2>2. \A r \in Request : c.done[r] # "new" => f.done[r] # "new"
    BY <1>2, <1>7, <1>9 DEF Exception
  <2>3. Requests(Stream(f), f.done, dispatched)
    <3>1. Requests(Stream(c), c.done, dispatched) /\ Stream(c) \in Seq(Message)
      BY <1>0, <2>1, Typing DEF Cross, Typed
    <3> QED
      BY <1>14, <2>2, <3>1, RequestsDone
  <2>4. Cross(f, conn["server"], dispatched)
    <3>1. \A r \in dispatched : f.done[r] # "new" /\ (r \in f.asyncRequests => r \in c.asyncRequests)
      BY <1>9, <2>1, <2>2 DEF Cross
    <3>2. \A r \in Request : f.done[r] = "CloseConnection" =>
             c.done[r] = "CloseConnection" \/ (r \in c.asyncRequests /\ c.exception = "CloseConnection")
      BY <1>7, <1>9
    <3> QED
      BY <1>10, <2>1, <2>3, <3>1, <3>2, ClientCross
  <2>5. Cross(d, conn["server"], dispatched)
    BY <1>15, <2>4, QuietClient
  <2> QED
    BY <1>1, <1>13, <1>15, <1>17, <1>18, <2>5, ClientStep
<1>19. CASE e = "server"
  <2>1. Cross(conn["client"], c, dispatched) /\ Typed(conn["client"])
    BY <1>19, InvFacts, EndFacts DEF IInv, c
  <2>2. Answered(conn["client"], f, dispatched)
    BY <1>2, <1>9, <1>10, <1>14, <2>1 DEF Cross, Answered
  <2>3. Cross(conn["client"], f, dispatched)
    BY <1>9, <1>10, <1>14, <2>1, <2>2 DEF Cross
  <2>4. Cross(conn["client"], d, dispatched)
    BY <1>15, <2>1, <2>3, QuietServer
  <2> QED
    BY <1>1, <1>13, <1>15, <1>17, <1>19, <2>4, ServerStep
<1> QED
  BY <1>18, <1>19, EndFacts

LEMMA SendAsyncRequestStep == ASSUME IInv, NEW r \in Request, SendAsyncRequest(r) PROVE IInv'
<1> DEFINE c == conn["client"]
<1> DEFINE sv == conn["server"]
<1> DEFINE b == [c EXCEPT !.done[r] = "pending", !.asyncRequests = @ \cup {r}, !.hint = r]
<1> DEFINE m == [type |-> "request", r |-> r, of |-> r]
<1>0. /\ c \in Endpoint /\ Mid(c) /\ Core(c) /\ Settled(c) /\ Typed(c) /\ c.pc # "locked"
      /\ c.state = Active /\ c.done[r] = "new" /\ "client" \in End
  BY InvFacts, EndFacts, MidTyped DEF SendAsyncRequest, Locked
<1>1. Cross(c, sv, dispatched) /\ dispatched \subseteq Request /\ Other
  BY DEF IInv, SendAsyncRequest
<1>2. PICK fail \in BOOLEAN :
        Step("client", IF Fails(c, fail) THEN Complete(SetClosed(c, "ConnectionLost"), {r}, "ConnectionLost")
                       ELSE SendMessage(b, m))
  BY <1>0, InvFacts DEF SendAsyncRequest
<1>3. r \notin dispatched /\ r \notin c.asyncRequests /\ c.completions[r] = 0
  BY <1>0, <1>1 DEF Cross, Core, Tally
<1>4. Requests(Stream(c), c.done, dispatched) /\ Stream(c) \in Seq(Message)
  BY <1>0, <1>1, Typing DEF Cross, Typed
<1> HIDE DEF sv
<1>5. CASE Fails(c, fail)
  <2> DEFINE x == SetClosed(c, "ConnectionLost")
  <2> DEFINE d == Complete(x, {r}, "ConnectionLost")
  <2>1. Step("client", d) /\ x = SetClosed(c, "ConnectionLost")
    BY <1>2, <1>5
  <2> HIDE DEF c, x
  <2>2. /\ Mid(x) /\ Core(x) /\ Frame(c, x) /\ Quiet(c, x) /\ x \in Endpoint /\ Typed(x) /\ x.state >= Closed
    BY <1>0, <2>1, SetClosedMid, MidTyped DEF Exception, Mid, Core
  <2>3. Cross(x, sv, dispatched) /\ x.done[r] = "new" /\ r \notin x.asyncRequests
    BY <1>0, <1>1, <1>3, <2>2, QuietClient DEF Quiet, Kept
  <2>4. {r} \in SUBSET Request /\ "ConnectionLost" \in {"ok", "canceled"} \cup Exception
    BY DEF Exception
  <2>5. /\ d \in Endpoint /\ Aside(x, d) /\ Done(x, {r}, "ConnectionLost", d)
        /\ d.asyncRequests = x.asyncRequests /\ d.hint = x.hint
    BY <2>2, <2>4, CompleteFacts
  <2> HIDE DEF d
  <2>6. /\ d.done[r] = "ConnectionLost"
        /\ \A q \in Request : q # r => d.done[q] = x.done[q] /\ d.completions[q] = x.completions[q]
        /\ d.completions[r] = 1
    <3>1. x.completions[r] = 0
      BY <2>2, <2>3 DEF Core, Tally
    <3> QED
      BY <2>5, <3>1 DEF Done
  <2>7. Tally(d)
    <3>1. ASSUME NEW q \in Request
          PROVE  /\ d.completions[q] <= 1
                 /\ d.completions[q] = 0 <=> d.done[q] \in {"new", "pending"}
                 /\ d.done[q] = "pending" <=> q \in d.asyncRequests
      <4>1. /\ x.completions[q] <= 1
            /\ x.completions[q] = 0 <=> x.done[q] \in {"new", "pending"}
            /\ x.done[q] = "pending" <=> q \in x.asyncRequests
        BY <2>2 DEF Core, Tally
      <4>2. CASE q = r
        BY <2>3, <2>5, <2>6, <4>2
      <4>3. CASE q # r
        BY <2>5, <2>6, <4>1, <4>3
      <4> QED
        BY <4>2, <4>3
    <3>2. (d.state = Finished => d.asyncRequests = {}) /\ d.hint \in d.asyncRequests \cup {None}
      BY <2>2, <2>5 DEF Core, Tally, Aside
    <3> QED
      BY <3>1, <3>2 DEF Tally
  <2>8. Phases(d) /\ Waits(d) /\ Len(d.out) <= Capacity
    BY <2>2, <2>5 DEF Core, Phases, Waits, Reads, Aside
  <2>9. Rest(d) = Rest(x) /\ Stream(d) = Stream(x)
    <3>1. Rest(d) = Rest(x)
      BY <2>5 DEF Rest, Aside
    <3>2. Unwritten(d) = Unwritten(x)
      BY <2>5, <3>1 DEF Unwritten, Aside
    <3> QED
      BY <2>5, <3>1, <3>2 DEF Stream, Aside
  <2>10. Owned(Rest(d), d)
    BY <2>2, <2>5, <2>9 DEF Core, Owned
  <2>11. Removal(d)
    BY <2>2, <2>5 DEF Mid, Removal, Upcalls, Aside
  <2>12. Mid(d)
    BY <2>5, <2>7, <2>8, <2>10, <2>11 DEF Mid, Core
  <2>13. Settled(d) /\ d.pc # "locked"
    BY <1>0, <2>2, <2>5 DEF Settled, Aside, Frame, Endpoint
  <2>14. Cross(d, sv, dispatched)
    <3>1. \A q \in Request : x.done[q] # "new" => d.done[q] # "new"
      BY <2>6
    <3>2. Requests(Stream(x), x.done, dispatched) /\ Stream(x) \in Seq(Message)
      BY <2>2, <2>3, Typing DEF Cross, Typed
    <3>3. Requests(Stream(d), d.done, dispatched)
      BY <2>9, <3>1, <3>2, RequestsDone
    <3>4. \A q \in dispatched : d.done[q] # "new" /\ (q \in d.asyncRequests => q \in x.asyncRequests)
      BY <1>1, <2>3, <2>5, <3>1 DEF Cross
    <3>5. \A q \in Request : d.done[q] = "CloseConnection" => x.done[q] = "CloseConnection"
      BY <2>6
    <3>6. d.exception = x.exception
      BY <2>5 DEF Aside
    <3> QED
      BY <2>3, <3>3, <3>4, <3>5, <3>6, ClientCross
  <2> QED
    BY <1>1, <2>1, <2>12, <2>13, <2>14, ClientStep DEF sv
<1>6. CASE ~Fails(c, fail)
  <2> DEFINE d == SendMessage(b, m)
  <2> DEFINE f == [c.done EXCEPT ![r] = "pending"]
  <2> DEFINE a == c.asyncRequests \cup {r}
  <2>1. Step("client", d) /\ d = SendMessage(b, m)
    BY <1>2, <1>6
  <2> HIDE DEF c
  <2>2. /\ c.done \in [Request -> {"new", "pending", "ok", "canceled"} \cup Exception]
        /\ c.asyncRequests \subseteq Request
    BY <1>0 DEF Endpoint
  <2>3. /\ f \in [Request -> {"new", "pending", "ok", "canceled"} \cup Exception] /\ f[r] = "pending"
        /\ \A q \in Request : q # r => f[q] = c.done[q]
    BY <2>2
  <2>4. b = [c EXCEPT !.done = f, !.asyncRequests = a, !.hint = r]
    OBVIOUS
  <2>a. a \in SUBSET Request
    BY <2>2
  <2> HIDE DEF f, b, a
  <2>5. [c EXCEPT !.done = f, !.asyncRequests = a, !.hint = r] \in Endpoint
    BY <1>0, <2>3, <2>a DEF Endpoint
  <2>6. b \in Endpoint
    BY <2>4, <2>5
  <2>7. /\ b.out = c.out /\ b.sendStreams = c.sendStreams /\ b.written = c.written /\ b.pc = c.pc
        /\ b.state = c.state /\ b.exception = c.exception /\ b.registered = c.registered
        /\ b.closeRequested = c.closeRequested /\ b.shutdownInitiated = c.shutdownInitiated
        /\ b.finishing = c.finishing /\ b.callbacks = c.callbacks /\ b.dispatches = c.dispatches
        /\ b.removed = c.removed /\ b.completions = c.completions
        /\ b.done = f /\ b.asyncRequests = a /\ b.hint = r
    BY <1>0, <2>4 DEF Endpoint
  <2>8. Tally(b)
    <3>1. ASSUME NEW q \in Request
          PROVE  /\ b.completions[q] <= 1
                 /\ b.completions[q] = 0 <=> b.done[q] \in {"new", "pending"}
                 /\ b.done[q] = "pending" <=> q \in b.asyncRequests
      <4>1. /\ c.completions[q] <= 1
            /\ c.completions[q] = 0 <=> c.done[q] \in {"new", "pending"}
            /\ c.done[q] = "pending" <=> q \in c.asyncRequests
        BY <1>0 DEF Core, Tally
      <4>2. CASE q = r
        BY <1>3, <2>3, <2>7, <4>2 DEF a
      <4>3. CASE q # r
        BY <2>3, <2>7, <4>1, <4>3 DEF a
      <4> QED
        BY <4>2, <4>3
    <3>2. (b.state = Finished => b.asyncRequests = {}) /\ b.hint \in b.asyncRequests \cup {None}
      BY <1>0, <2>7 DEF a
    <3> QED
      BY <3>1, <3>2 DEF Tally
  <2>9. Phases(b) /\ Waits(b) /\ Len(b.out) <= Capacity /\ Removal(b)
    BY <1>0, <2>7 DEF Mid, Core, Phases, Waits, Reads, Removal, Upcalls
  <2>10. Rest(b) = Rest(c) /\ Stream(b) = Stream(c)
    <3>1. Rest(b) = Rest(c)
      BY <2>7 DEF Rest
    <3>2. Unwritten(b) = Unwritten(c)
      BY <2>7, <3>1 DEF Unwritten
    <3> QED
      BY <2>7, <3>1, <3>2 DEF Stream
  <2>11. Owned(Rest(b), b)
    BY <1>0, <2>7, <2>10 DEF Core, Owned, a
  <2>12. Mid(b) /\ b.state < Closed
    BY <1>0, <2>6, <2>7, <2>8, <2>9, <2>11 DEF Mid, Core
  <2>13. m \in Message /\ m.type = "request" /\ m.r = r /\ m.of = r
    BY Controls
  <2> HIDE DEF m, d
  <2>14. Sendable(b, m)
    BY <2>7, <2>13 DEF Sendable, a
  <2>15. Mid(d) /\ Sends(b, m, d)
    BY <2>1, <2>6, <2>12, <2>13, <2>14, SendMessageMid
  <2>16. /\ Stream(d) = Append(Stream(c), m) /\ d.done = f /\ d.asyncRequests = a /\ d.exception = c.exception
         /\ d.state = Active /\ d.pc # "locked"
    BY <1>0, <2>7, <2>10, <2>15 DEF Sends, Frame
  <2>17. Settled(d)
    BY <2>16 DEF Settled, a
  <2>18. Requests(Stream(d), d.done, dispatched)
    <3>1. \A q \in Request : c.done[q] # "new" => f[q] # "new"
      BY <2>3
    <3>2. Requests(Stream(c), f, dispatched)
      BY <1>4, <3>1, RequestsDone
    <3>3. \A i \in DOMAIN Stream(c) : Stream(c)[i].type = "request" => Stream(c)[i].r # r
      BY <1>0, <1>4 DEF Requests
    <3>4. Requests(Append(Stream(c), m), f, dispatched)
      BY <1>3, <1>4, <2>3, <2>13, <3>2, <3>3, RequestsAppend
    <3> QED
      BY <2>16, <3>4
  <2>19. Cross(d, sv, dispatched)
    <3>1. \A q \in dispatched : d.done[q] # "new" /\ (q \in d.asyncRequests => q \in c.asyncRequests)
      BY <1>1, <1>3, <2>3, <2>16 DEF Cross, a
    <3>2. \A q \in Request : d.done[q] = "CloseConnection" => c.done[q] = "CloseConnection"
      BY <2>3, <2>16
    <3> QED
      BY <1>1, <2>16, <2>18, <3>1, <3>2, ClientCross
  <2> QED
    BY <1>1, <2>1, <2>15, <2>16, <2>17, <2>19, ClientStep DEF sv
<1> QED
  BY <1>5, <1>6

-----------------------------------------------------------------------------
(* The message of a request that is cancelled is erased: the others stay,  *)
(* in their order.                                                         *)
Erases(q, i, p, f) ==
    /\ p \in Seq(Message) /\ f \in [DOMAIN p -> DOMAIN q]
    /\ \A j, k \in DOMAIN p : f[j] = f[k] => j = k
    /\ \A j \in DOMAIN p : p[j].type = q[f[j]].type /\ p[j].r = q[f[j]].r
    /\ \A j \in DOMAIN p : p[j].of # None => f[j] # i /\ p[j].of = q[f[j]].of

LEMMA EraseFacts ==
    ASSUME NEW q \in Seq(Message), NEW i \in DOMAIN q, q[i].type = "request"
    PROVE  \E f : Erases(q, i, Erase(q, i), f)
<1> DEFINE p == Erase(q, i)
<1>0. /\ DOMAIN q = 1 .. Len(q) /\ Len(q) \in Nat /\ i \in 1 .. Len(q)
      /\ \A j \in 1 .. Len(q) : q[j] \in Message
  BY LenProperties
<1>1. CASE i = 1
  <2> DEFINE w == [q[1] EXCEPT !.of = None]
  <2>1. p = [q EXCEPT ![1] = w]
    BY <1>1 DEF Erase
  <2>2. w \in Message /\ w.type = q[1].type /\ w.r = q[1].r /\ w.of = None
    BY <1>0, <1>1 DEF Message
  <2> HIDE DEF w, p
  <2>3. p \in Seq(Message) /\ DOMAIN p = DOMAIN q /\ p[1] = w /\ \A j \in DOMAIN q : j # 1 => p[j] = q[j]
    <3>1. \A j \in 1 .. Len(q) : p[j] \in Message
      BY <1>0, <2>1, <2>2
    <3>2. p \in [1 .. Len(q) -> Message]
      BY <1>0, <2>1, <3>1
    <3>3. p \in Seq(Message)
      BY <1>0, <3>2, IsASeq
    <3> QED
      BY <1>0, <1>1, <2>1, <3>3
  <2> DEFINE f == [j \in DOMAIN p |-> j]
  <2>4. Erases(q, i, p, f)
    BY <1>1, <2>2, <2>3 DEF Erases
  <2> QED
    BY <2>4 DEF p
<1>2. CASE i # 1
  <2> DEFINE l == SubSeq(q, 1, i - 1)
  <2> DEFINE t == SubSeq(q, i + 1, Len(q))
  <2>1. p = l \o t
    BY <1>2 DEF Erase, RemoveAt
  <2>2. /\ l \in Seq(Message) /\ Len(l) = i - 1 /\ \A j \in 1 .. i - 1 : l[j] = q[j]
    <3>1. \A j \in 1 .. i - 1 : q[j] \in Message
      BY <1>0
    <3>2. /\ l \in Seq(Message) /\ Len(l) = (IF 1 <= i - 1 THEN (i - 1) - 1 + 1 ELSE 0)
          /\ \A j \in 1 .. (i - 1) - 1 + 1 : l[j] = q[1 + j - 1]
      BY <1>0, <3>1, SubSeqProperties
    <3> QED
      BY <1>0, <1>2, <3>2
  <2>3. /\ t \in Seq(Message) /\ Len(t) = Len(q) - i /\ \A j \in 1 .. Len(q) - i : t[j] = q[i + j]
    <3>1. \A j \in i + 1 .. Len(q) : q[j] \in Message
      BY <1>0
    <3>2. /\ t \in Seq(Message) /\ Len(t) = (IF i + 1 <= Len(q) THEN Len(q) - (i + 1) + 1 ELSE 0)
          /\ \A j \in 1 .. Len(q) - (i + 1) + 1 : t[j] = q[(i + 1) + j - 1]
      BY <1>0, <3>1, SubSeqProperties
    <3> QED
      BY <1>0, <3>2
  <2> HIDE DEF l, t, p
  <2>4. /\ p \in Seq(Message) /\ Len(p) = Len(q) - 1
        /\ \A j \in 1 .. Len(q) - 1 : p[j] = IF j <= i - 1 THEN l[j] ELSE t[j - (i - 1)]
    <3>1. /\ l \o t \in Seq(Message) /\ Len(l \o t) = Len(l) + Len(t)
          /\ \A j \in 1 .. Len(l) + Len(t) : (l \o t)[j] = IF j <= Len(l) THEN l[j] ELSE t[j - Len(l)]
      BY <2>2, <2>3, ConcatProperties
    <3>2. Len(l) + Len(t) = Len(q) - 1
      BY <1>0, <2>2, <2>3
    <3> QED
      BY <2>1, <2>2, <3>1, <3>2
  <2>5. DOMAIN p = 1 .. Len(q) - 1
    BY <2>4, LenProperties
  <2> DEFINE f == [j \in 1 .. Len(q) - 1 |-> IF j <= i - 1 THEN j ELSE j + 1]
  <2>6. /\ \A j \in 1 .. Len(q) - 1 : f[j] \in 1 .. Len(q) /\ f[j] # i /\ p[j] = q[f[j]]
    <3> SUFFICES ASSUME NEW j \in 1 .. Len(q) - 1 PROVE f[j] \in 1 .. Len(q) /\ f[j] # i /\ p[j] = q[f[j]]
      OBVIOUS
    <3>1. CASE j <= i - 1
      BY <1>0, <2>2, <2>4, <3>1, SMTT(60)
    <3>2. CASE ~(j <= i - 1)
      <4>1. j - (i - 1) \in 1 .. Len(q) - i /\ i + (j - (i - 1)) = j + 1
        BY <1>0, <3>2
      <4>2. t[j - (i - 1)] = q[i + (j - (i - 1))]
        BY <2>3, <4>1
      <4> QED
        BY <1>0, <2>4, <3>2, <4>1, <4>2
    <3> QED
      BY <3>1, <3>2
  <2>7. f \in [DOMAIN p -> DOMAIN q] /\ \A j, k \in DOMAIN p : f[j] = f[k] => j = k
    BY <1>0, <2>5, <2>6
  <2>8. Erases(q, i, p, f)
    <3> HIDE DEF f
    <3> QED
      BY <2>4, <2>5, <2>6, <2>7 DEF Erases
  <2> QED
    BY <2>8 DEF p
<1> QED
  BY <1>1, <1>2

LEMMA RequestsErase ==
    ASSUME NEW u \in Seq(Message), NEW q \in Seq(Message), NEW p \in Seq(Message), NEW i, NEW f, Erases(q, i, p, f),
           NEW done, NEW D, Requests(u \o q, done, D)
    PROVE  Requests(u \o p, done, D)
<1> DEFINE n == Len(u)
<1>1. /\ n \in Nat /\ DOMAIN u = 1 .. n /\ DOMAIN p = 1 .. Len(p) /\ DOMAIN q = 1 .. Len(q)
      /\ Len(p) \in Nat /\ Len(q) \in Nat
  BY LenProperties
<1>2. /\ u \o q \in Seq(Message) /\ DOMAIN (u \o q) = 1 .. n + Len(q)
      /\ \A k \in 1 .. n + Len(q) : (u \o q)[k] = IF k <= n THEN u[k] ELSE q[k - n]
  BY ConcatProperties, LenProperties
<1>3. /\ u \o p \in Seq(Message) /\ DOMAIN (u \o p) = 1 .. n + Len(p)
      /\ \A k \in 1 .. n + Len(p) : (u \o p)[k] = IF k <= n THEN u[k] ELSE p[k - n]
  BY ConcatProperties, LenProperties
<1> DEFINE a == u \o q
<1> DEFINE b == u \o p
<1> DEFINE g == [k \in 1 .. n + Len(p) |-> IF k <= n THEN k ELSE n + f[k - n]]
<1> HIDE DEF n
<1>4. \A k \in 1 .. n + Len(p) : k \in Nat /\ (~(k <= n) => k - n \in DOMAIN p /\ f[k - n] \in 1 .. Len(q))
  <2>1. \A j \in DOMAIN p : f[j] \in DOMAIN q
    BY DEF Erases
  <2>2. \A k \in 1 .. n + Len(p) : k \in Nat /\ (~(k <= n) => k - n \in 1 .. Len(p))
    BY <1>1
  <2> QED
    BY <1>1, <2>1, <2>2
<1>5. \A k \in 1 .. n + Len(p) : /\ g[k] \in 1 .. n + Len(q)
                                 /\ k <= n => g[k] = k
                                 /\ ~(k <= n) => g[k] = n + f[k - n] /\ g[k] - n = f[k - n] /\ ~(g[k] <= n)
  <2> SUFFICES ASSUME NEW k \in 1 .. n + Len(p)
               PROVE  /\ g[k] \in 1 .. n + Len(q)
                      /\ k <= n => g[k] = k
                      /\ ~(k <= n) => g[k] = n + f[k - n] /\ g[k] - n = f[k - n] /\ ~(g[k] <= n)
    OBVIOUS
  <2>1. CASE k <= n
    <3>1. g[k] = k
      BY <2>1
    <3> QED
      BY <1>1, <1>4, <2>1, <3>1
  <2>2. CASE ~(k <= n)
    <3> DEFINE v == f[k - n]
    <3>1. g[k] = n + v /\ v \in 1 .. Len(q)
      BY <1>4, <2>2
    <3> HIDE DEF v, g
    <3> QED
      BY <1>1, <2>2, <3>1 DEF v
  <2> QED
    BY <2>1, <2>2
<1>6. g \in [DOMAIN b -> DOMAIN a]
  BY <1>2, <1>3, <1>5
<1> HIDE DEF g
<1>7. \A k \in DOMAIN b : b[k].type = a[g[k]].type /\ b[k].r = a[g[k]].r
  <2> SUFFICES ASSUME NEW k \in 1 .. n + Len(p) PROVE b[k].type = a[g[k]].type /\ b[k].r = a[g[k]].r
    BY <1>3
  <2>1. CASE k <= n
    BY <1>2, <1>3, <1>5, <2>1
  <2>2. CASE ~(k <= n)
    <3>1. b[k] = p[k - n] /\ a[g[k]] = q[f[k - n]] /\ k - n \in DOMAIN p
      BY <1>2, <1>3, <1>4, <1>5, <2>2
    <3> HIDE DEF a, b
    <3> QED
      BY <3>1 DEF Erases
  <2> QED
    BY <2>1, <2>2
<1>8. \A j, k \in DOMAIN b : g[j] = g[k] => j = k
  <2> SUFFICES ASSUME NEW j \in 1 .. n + Len(p), NEW k \in 1 .. n + Len(p), g[j] = g[k] PROVE j = k
    BY <1>3
  <2>1. CASE j <= n
    BY <1>5, <2>1
  <2>2. CASE ~(j <= n)
    <3>1. ~(k <= n)
      BY <1>5, <2>2
    <3>2. f[j - n] = f[k - n]
      BY <1>5, <2>2, <3>1
    <3>3. j - n = k - n
      BY <1>4, <2>2, <3>1, <3>2 DEF Erases
    <3> QED
      BY <1>1, <1>4, <3>3
  <2> QED
    BY <2>1, <2>2
<1>9. a \in Seq(Message) /\ b \in Seq(Message) /\ Requests(a, done, D)
  BY <1>2, <1>3
<1> HIDE DEF a, b
<1>10. Requests(b, done, D)
  BY <1>6, <1>7, <1>8, <1>9, RequestsSub
<1> QED
  BY <1>10 DEF b

LEMMA RequestsUnique ==
    ASSUME NEW u \in Seq(Message), NEW q \in Seq(Message), NEW done, NEW D, Requests(u \o q, done, D),
           NEW j \in DOMAIN q, NEW k \in DOMAIN q, q[j].type = "request", q[k].type = "request", q[j].r = q[k].r
    PROVE  j = k
<1> DEFINE n == Len(u)
<1> DEFINE a == u \o q
<1>1. n \in Nat /\ DOMAIN q = 1 .. Len(q) /\ Len(q) \in Nat
  BY LenProperties
<1>2. DOMAIN a = 1 .. n + Len(q) /\ \A i \in 1 .. n + Len(q) : a[i] = IF i <= n THEN u[i] ELSE q[i - n]
  BY ConcatProperties, LenProperties
<1> HIDE DEF n, a
<1>3. /\ n + j \in DOMAIN a /\ ~(n + j <= n) /\ (n + j) - n = j
      /\ n + k \in DOMAIN a /\ ~(n + k <= n) /\ (n + k) - n = k
  BY <1>1, <1>2
<1>4. a[n + j] = q[j] /\ a[n + k] = q[k]
  BY <1>2, <1>3
<1>5. n + j = n + k
  BY <1>3, <1>4 DEF Requests, a
<1> QED
  BY <1>1, <1>5

(* A request is taken from the map, and from the queue if it is there. *)
Removes(c, r, d, b) ==
    \/ b = d /\ \A i \in DOMAIN c.sendStreams : c.sendStreams[i].of # r
    \/ \E i \in DOMAIN c.sendStreams :
         c.sendStreams[i].of = r /\ b = [d EXCEPT !.sendStreams = Erase(c.sendStreams, i)]

LEMMA CanceledMid ==
    ASSUME NEW c \in Endpoint, Local(c), c.pc # "locked", c.state < Closed, NEW r \in c.asyncRequests,
           NEW sv, NEW D \in SUBSET Request, Cross(c, sv, D), NEW b, Removes(c, r, Take(c, r, "canceled"), b)
    PROVE  /\ Mid(b) /\ Cross(b, sv, D) /\ b \in Endpoint /\ b.pc = c.pc /\ b.closeRequested = c.closeRequested
           /\ b.state = c.state /\ b.asyncRequests = c.asyncRequests \ {r} /\ b.dispatches = c.dispatches
<1> DEFINE d == Take(c, r, "canceled")
<1> DEFINE q == c.sendStreams
<1> DEFINE p == b.sendStreams
<1>0. /\ Mid(c) /\ Core(c) /\ Owned(q, c) /\ Typed(c) /\ r \in Request /\ r # None /\ q \in Seq(Message)
      /\ c.out \in Seq(Message) /\ c.state \in NotValidated .. Finished
  BY MidTyped, Constants DEF Local, Endpoint
<1>b. ~c.written /\ Rest(c) = q /\ ~(c.state >= Closed)
  BY <1>0 DEF Core, Phases, Rest
<1>1. ~c.written /\ Rest(c) = q /\ Stream(c) = c.out \o q
  BY <1>b DEF Stream, Unwritten
<1>2. Requests(c.out \o q, c.done, D)
  BY <1>1 DEF Cross
<1>3. d \in Endpoint /\ Took(c, r, "canceled", d) /\ Phases(d) /\ Waits(d) /\ Tally(d) /\ Removal(d)
  BY <1>0, TakeFacts
<1>a. Removes(c, r, d, b)
  OBVIOUS
<1> HIDE DEF d
<1>4. /\ b \in Endpoint /\ b.out = c.out /\ b.written = c.written /\ b.pc = c.pc
      /\ b.state = c.state /\ b.exception = c.exception /\ b.registered = c.registered
      /\ b.closeRequested = c.closeRequested /\ b.shutdownInitiated = c.shutdownInitiated
      /\ b.finishing = c.finishing /\ b.callbacks = c.callbacks /\ b.dispatches = c.dispatches
      /\ b.removed = c.removed /\ b.asyncRequests = c.asyncRequests \ {r}
      /\ b.hint = d.hint /\ b.done = d.done /\ b.completions = d.completions
      /\ p # <<>> => q # <<>>
      /\ \A i \in DOMAIN p : p[i].of # None =>
           p[i].type = "request" /\ p[i].of = p[i].r /\ p[i].of \in c.asyncRequests /\ p[i].of # r
      /\ Requests(c.out \o p, c.done, D)
  <2>1. CASE b = d /\ \A i \in DOMAIN q : q[i].of # r
    <3>1. p = q
      BY <1>3, <2>1 DEF Took, Aside
    <3> QED
      BY <1>0, <1>2, <1>3, <2>1, <3>1 DEF Took, Aside, Owned
  <2>2. CASE \E i \in DOMAIN q : q[i].of = r /\ b = [d EXCEPT !.sendStreams = Erase(q, i)]
    <3>1. PICK i \in DOMAIN q : q[i].of = r /\ b = [d EXCEPT !.sendStreams = Erase(q, i)]
      BY <2>2
    <3>2. q[i].type = "request" /\ q[i].r = r
      BY <1>0, <3>1 DEF Owned
    <3> DEFINE z == Erase(q, i)
    <3>3. PICK f : Erases(q, i, z, f)
      BY <1>0, <3>2, EraseFacts
    <3> HIDE DEF z
    <3>4. z \in Seq(Message)
      BY <3>3 DEF Erases
    <3>5. [d EXCEPT !.sendStreams = z] \in Endpoint
      BY <1>3, <3>4 DEF Endpoint
    <3>6. b = [d EXCEPT !.sendStreams = z]
      BY <3>1 DEF z
    <3>7. b \in Endpoint
      BY <3>5, <3>6
    <3>8. /\ p = z /\ Aside(c, d) /\ b.out = d.out /\ b.written = d.written /\ b.pc = d.pc
          /\ b.state = d.state /\ b.exception = d.exception /\ b.registered = d.registered
          /\ b.closeRequested = d.closeRequested /\ b.shutdownInitiated = d.shutdownInitiated
          /\ b.finishing = d.finishing /\ b.callbacks = d.callbacks /\ b.dispatches = d.dispatches
          /\ b.removed = d.removed /\ b.asyncRequests = d.asyncRequests
          /\ b.hint = d.hint /\ b.done = d.done /\ b.completions = d.completions
      BY <1>3, <3>6 DEF Endpoint, Took
    <3>9. q # <<>>
      BY <3>1
    <3>10. ASSUME NEW j \in DOMAIN z, z[j].of # None
           PROVE  z[j].type = "request" /\ z[j].of = z[j].r /\ z[j].of \in c.asyncRequests /\ z[j].of # r
      <4>1. /\ f[j] \in DOMAIN q /\ f[j] # i /\ z[j].of = q[f[j]].of
            /\ z[j].type = q[f[j]].type /\ z[j].r = q[f[j]].r
        BY <3>3, <3>10 DEF Erases
      <4>2. q[f[j]].type = "request" /\ q[f[j]].of = q[f[j]].r /\ q[f[j]].of \in c.asyncRequests
        BY <1>0, <3>10, <4>1 DEF Owned
      <4>3. q[f[j]].r # r
        <5> SUFFICES ASSUME q[f[j]].r = r PROVE FALSE
          OBVIOUS
        <5> DEFINE k == f[j]
        <5>1. k \in DOMAIN q /\ q[k].type = "request" /\ q[k].r = q[i].r
          BY <3>2, <4>1, <4>2
        <5> HIDE DEF k, q
        <5>2. k = i
          BY <1>0, <1>2, <3>1, <3>2, <5>1, RequestsUnique
        <5> QED
          BY <4>1, <5>2 DEF k
      <4> QED
        BY <4>1, <4>2, <4>3
    <3>11. Requests(c.out \o z, c.done, D)
      <4> HIDE DEF q
      <4> QED
        BY <1>0, <1>2, <3>3, <3>4, RequestsErase
    <3>12. d.asyncRequests = c.asyncRequests \ {r}
      BY <1>3 DEF Took
    <3> HIDE DEF p, q
    <3> QED
      BY <3>7, <3>8, <3>9, <3>10, <3>11, <3>12 DEF Aside
  <2> QED
    BY <1>a, <2>1, <2>2 DEF Removes
<1>5. Phases(b) /\ Waits(b) /\ Len(b.out) <= Capacity
  BY <1>0, <1>1, <1>4 DEF Core, Phases, Waits, Reads
<1>6. Tally(b)
  BY <1>3, <1>4 DEF Tally, Took, Aside
<1>7. Rest(b) = p /\ Owned(Rest(b), b)
  BY <1>1, <1>4 DEF Rest, Owned
<1>8. Removal(b)
  BY <1>0, <1>4 DEF Mid, Removal, Upcalls
<1>9. Mid(b)
  BY <1>4, <1>5, <1>6, <1>7, <1>8 DEF Mid, Core
<1>10. Stream(b) = c.out \o p /\ p \in Seq(Message) /\ c.out \o p \in Seq(Message)
  <2>1. p \in Seq(Message)
    BY <1>4 DEF Endpoint
  <2>2. Stream(b) = c.out \o p
    BY <1>b, <1>4, <1>7 DEF Stream, Unwritten
  <2>3. c.out \o p \in Seq(Message)
    <3> HIDE DEF p
    <3> QED
      BY <1>0, <2>1, ConcatProperties
  <2> QED
    BY <2>1, <2>2, <2>3
<1>11. Cross(b, sv, D)
  <2>0. /\ b.done[r] = "canceled" /\ \A x \in Request : x # r => b.done[x] = c.done[x]
    BY <1>3, <1>4 DEF Took
  <2>1. \A x \in Request : c.done[x] # "new" => b.done[x] # "new"
    BY <2>0
  <2>2. Requests(Stream(b), b.done, D)
    <3> HIDE DEF p
    <3>1. Requests(c.out \o p, b.done, D)
      BY <1>4, <1>10, <2>1, RequestsDone
    <3> QED
      BY <1>10, <3>1
  <2>3. \A x \in D : b.done[x] # "new" /\ (x \in b.asyncRequests => x \in c.asyncRequests)
    BY <1>4, <2>1 DEF Cross
  <2>4. \A x \in Request : b.done[x] = "CloseConnection" => c.done[x] = "CloseConnection"
    BY <2>0
  <2> QED
    BY <1>4, <2>2, <2>3, <2>4, ClientCross
<1> QED
  BY <1>4, <1>9, <1>11

LEMMA AsyncRequestCanceledStep == ASSUME IInv, NEW r \in Request, AsyncRequestCanceled(r) PROVE IInv'
<1> DEFINE c == conn["client"]
<1> DEFINE sv == conn["server"]
<1> DEFINE d == Take(c, r, "canceled")
<1>0. /\ c \in Endpoint /\ Local(c) /\ Mid(c) /\ Settled(c) /\ c.pc # "locked" /\ c.state < Closed
      /\ c.done[r] = "pending" /\ "client" \in End /\ c.state \in NotValidated .. Finished
  BY InvFacts, EndFacts DEF AsyncRequestCanceled, Locked
<1>1. Cross(c, sv, dispatched) /\ dispatched \in SUBSET Request /\ Other
  BY DEF IInv, AsyncRequestCanceled
<1>2. r \in c.asyncRequests
  BY <1>0 DEF Mid, Core, Tally
<1>3. \E fail \in BOOLEAN : \E b : /\ Removes(c, r, d, b)
                                   /\ \/ Step("client", CloseIfRequested(b, fail))
                                      \/ LateCancel /\ Step("client", b)
  <2>1. PICK fail \in BOOLEAN :
          \/ \E i \in Queued(c, r) : Step("client", CloseIfRequested([d EXCEPT !.sendStreams = Erase(@, i)], fail))
          \/ Queued(c, r) = {} /\ c.hint = r /\ Step("client", CloseIfRequested(d, fail))
          \/ Queued(c, r) = {} /\ c.hint # r /\ LateCancel /\ Step("client", d)
    BY <1>0, InvFacts DEF AsyncRequestCanceled
  <2>2. d.sendStreams = c.sendStreams
    BY <1>0, <1>2, TakeFacts DEF Took, Aside
  <2> HIDE DEF d, c
  <2>3. CASE \E i \in Queued(c, r) : Step("client", CloseIfRequested([d EXCEPT !.sendStreams = Erase(@, i)], fail))
    <3>1. PICK i \in Queued(c, r) : Step("client", CloseIfRequested([d EXCEPT !.sendStreams = Erase(@, i)], fail))
      BY <2>3
    <3> DEFINE b == [d EXCEPT !.sendStreams = Erase(@, i)]
    <3>2. b = [d EXCEPT !.sendStreams = Erase(c.sendStreams, i)]
      BY <2>2
    <3>3. i \in DOMAIN c.sendStreams /\ c.sendStreams[i].of = r
      BY <3>1 DEF Queued
    <3>4. Removes(c, r, d, b)
      BY <3>2, <3>3 DEF Removes
    <3> QED
      BY <3>1, <3>4
  <2>4. CASE Queued(c, r) = {}
    <3>1. Removes(c, r, d, d)
      BY <2>4 DEF Removes, Queued
    <3> QED
      BY <2>1, <2>4, <3>1
  <2> QED
    BY <2>1, <2>3, <2>4
<1>a. PICK fail \in BOOLEAN : \E b : /\ Removes(c, r, d, b)
                                     /\ \/ Step("client", CloseIfRequested(b, fail))
                                        \/ LateCancel /\ Step("client", b)
  BY <1>3
<1>4. PICK b : /\ Removes(c, r, d, b)
               /\ \/ Step("client", CloseIfRequested(b, fail))
                  \/ LateCancel /\ Step("client", b)
  BY <1>a
<1> HIDE DEF c, sv
<1>5. /\ Mid(b) /\ Cross(b, sv, dispatched) /\ b \in Endpoint /\ b.pc = c.pc
      /\ b.closeRequested = c.closeRequested /\ b.state = c.state
      /\ b.asyncRequests = c.asyncRequests \ {r} /\ b.dispatches = c.dispatches
  BY <1>0, <1>1, <1>2, <1>4, CanceledMid
<1>6. c.state # NotValidated
  BY <1>0, <1>2 DEF Settled
<1>7. CASE Step("client", CloseIfRequested(b, fail))
  <2> DEFINE x == CloseIfRequested(b, fail)
  <2>1. /\ Mid(x) /\ Frame(b, x) /\ Quiet(b, x)
        /\ x.closeRequested /\ x.asyncRequests = {} => x.state >= Closing
    BY <1>5, CloseIfRequestedMid
  <2> HIDE DEF x
  <2>2. Settled(x) /\ x.pc # "locked"
    BY <1>0, <1>5, <1>6, <2>1 DEF Settled, Quiet, Kept, Frame
  <2>3. Cross(x, sv, dispatched)
    BY <1>5, <2>1, MidTyped, QuietClient
  <2>4. Step("client", x)
    BY <1>7 DEF x
  <2> QED
    BY <1>1, <2>1, <2>2, <2>3, <2>4, ClientStep DEF sv
<1>8. CASE LateCancel /\ Step("client", b)
  <2>1. Settled(b) /\ b.pc # "locked"
    BY <1>0, <1>5, <1>6, <1>8 DEF Settled
  <2> QED
    BY <1>1, <1>5, <1>8, <2>1, ClientStep DEF sv
<1> QED
  BY <1>4, <1>7, <1>8

-----------------------------------------------------------------------------
(* A message is read: the stream of the other end loses its head. *)
Popped(a, b) == Alike([a EXCEPT !.out = b.out], b) /\ b.dispatches = a.dispatches /\ Stream(b) = Tail(Stream(a))

LEMMA PopFacts ==
    ASSUME NEW a \in Endpoint, Local(a), a.out # <<>>
    PROVE  LET b == [a EXCEPT !.out = Tail(a.out)] IN
           /\ b \in Endpoint /\ Local(b) /\ Typed(b) /\ Popped(a, b)
           /\ Stream(a) # <<>> /\ Head(Stream(a)) = Head(a.out) /\ Head(a.out) \in Message
<1> DEFINE t == Tail(a.out)
<1> DEFINE b == [a EXCEPT !.out = t]
<1>0. Mid(a) /\ Core(a) /\ Typed(a) /\ a.out \in Seq(Message) /\ Unwritten(a) \in Seq(Message)
  BY MidTyped, Typing DEF Local, Endpoint, Typed
<1>1. t \in Seq(Message) /\ Len(t) = Len(a.out) - 1 /\ Len(a.out) \in Nat /\ Len(t) \in Nat /\ Head(a.out) \in Message
  BY <1>0, HeadTailProperties, LenProperties
<1>a. Stream(a) # <<>> /\ Head(Stream(a)) = Head(a.out) /\ Tail(Stream(a)) = t \o Unwritten(a)
  <2> DEFINE h == Head(a.out)
  <2> DEFINE u == Unwritten(a)
  <2> DEFINE g == <<h>>
  <2>1. g \in Seq(Message) /\ a.out = g \o t
    BY <1>0, <1>1, HeadTailProperties
  <2>2. t \o u \in Seq(Message)
    BY <1>0, <1>1, ConcatProperties
  <2>3. Stream(a) = (g \o t) \o u
    BY <2>1 DEF Stream
  <2>4. (g \o t) \o u = g \o (t \o u)
    <3> HIDE DEF g, t, u
    <3>1. u \in Seq(Message)
      BY <1>0 DEF u
    <3> QED
      BY <1>1, <2>1, <3>1, ConcatAssociative, SMTT(60)
  <2> DEFINE w == t \o u
  <2>5. Stream(a) = <<h>> \o w /\ w \in Seq(Message) /\ h \in Message
    BY <1>1, <2>2, <2>3, <2>4
  <2> HIDE DEF w, h
  <2>6. LET s == <<h>> \o w IN s # <<>> /\ Head(s) = h /\ Tail(s) = w
    BY <2>5
  <2> QED
    BY <2>5, <2>6 DEF h, w
<1> HIDE DEF t
<1>2. b \in Endpoint
  BY <1>1 DEF Endpoint
<1>3. /\ Alike([a EXCEPT !.out = t], b) /\ b.out = t
      /\ b.sendStreams = a.sendStreams /\ b.written = a.written /\ b.pc = a.pc
      /\ b.state = a.state /\ b.exception = a.exception /\ b.finishing = a.finishing
      /\ b.closeRequested = a.closeRequested /\ b.shutdownInitiated = a.shutdownInitiated
      /\ b.asyncRequests = a.asyncRequests /\ b.hint = a.hint /\ b.done = a.done /\ b.completions = a.completions
      /\ b.dispatches = a.dispatches /\ b.registered = a.registered
      /\ b.removed = a.removed /\ b.callbacks = a.callbacks
  BY <1>1 DEF Endpoint, Alike
<1> HIDE DEF b
<1>4. Phases(b) /\ Waits(b) /\ Tally(b)
  BY <1>0, <1>3 DEF Core, Phases, Waits, Reads, Tally
<1>5. Removal(b)
  BY <1>0, <1>3 DEF Mid, Removal, Upcalls
<1>6. Rest(b) = Rest(a) /\ Unwritten(b) = Unwritten(a)
  BY <1>3 DEF Rest, Unwritten
<1>7. Owned(Rest(b), b) /\ Owned(b.sendStreams, b)
  BY <1>0, <1>3, <1>6 DEF Core, Owned, Local
<1>8. Len(b.out) <= Capacity
  BY <1>0, <1>1, <1>3, Constants DEF Core
<1>9. Mid(b) /\ Typed(b)
  BY <1>2, <1>4, <1>5, <1>7, <1>8, MidTyped DEF Mid, Core
<1>10. Local(b)
  BY <1>3, <1>7, <1>9 DEF Local, Settled
<1>11. Popped(a, b)
  BY <1>a, <1>3, <1>6 DEF Popped, Stream
<1> QED
  BY <1>a, <1>1, <1>2, <1>9, <1>10, <1>11 DEF b, t

LEMMA PoppedFacts ==
    ASSUME NEW a \in Endpoint, NEW b \in Endpoint, Popped(a, b)
    PROVE  /\ b.state = a.state /\ b.exception = a.exception /\ b.shutdownInitiated = a.shutdownInitiated
           /\ b.asyncRequests = a.asyncRequests /\ b.done = a.done /\ b.dispatches = a.dispatches
           /\ Stream(b) = Tail(Stream(a))
BY DEF Popped, Alike, Endpoint

LEMMA ClientPops ==
    ASSUME NEW cl \in Endpoint, NEW c2 \in Endpoint, Typed(cl), NEW sv, NEW D, Cross(cl, sv, D),
           Popped(cl, c2), Stream(cl) # <<>>
    PROVE  Cross(c2, sv, D)
<1>1. Requests(Stream(cl), cl.done, D) /\ Stream(cl) \in Seq(Message)
  BY Typing DEF Cross, Typed
<1>2. Requests(Tail(Stream(cl)), cl.done, D)
  BY <1>1, RequestsTail
<1>3. /\ c2.exception = cl.exception /\ c2.asyncRequests = cl.asyncRequests /\ c2.done = cl.done
      /\ Stream(c2) = Tail(Stream(cl))
  BY PoppedFacts
<1>4. \A r \in D : cl.done[r] # "new"
  BY DEF Cross
<1> QED
  BY <1>2, <1>3, <1>4, ClientCross

LEMMA ServerPops ==
    ASSUME NEW cl, NEW sv \in Endpoint, NEW s2 \in Endpoint, Typed(sv), NEW D, Cross(cl, sv, D),
           Popped(sv, s2), Stream(sv) # <<>>,
           Head(Stream(sv)).type = "reply" => Head(Stream(sv)).r \notin cl.asyncRequests
    PROVE  Cross(cl, s2, D)
<1> DEFINE q == Stream(sv)
<1>1. Replies(q, D, sv.shutdownInitiated) /\ q \in Seq(Message) /\ q # <<>>
  BY Typing DEF Cross, Typed
<1>2. /\ s2.state = sv.state /\ s2.shutdownInitiated = sv.shutdownInitiated
      /\ s2.asyncRequests = sv.asyncRequests /\ s2.dispatches = sv.dispatches /\ Stream(s2) = Tail(q)
  BY PoppedFacts
<1> HIDE DEF q
<1>3. /\ Replies(Tail(q), D, sv.shutdownInitiated)
      /\ HasClose(Tail(q)) => HasClose(q)
      /\ \A r : HasReply(q, r) /\ ~HasReply(Tail(q), r) => Head(q).type = "reply" /\ Head(q).r = r
  BY <1>1, RepliesTail
<1>4. Answered(cl, s2, D)
  <2>1. Answered(cl, sv, D)
    BY DEF Cross
  <2> QED
    BY <1>2, <1>3, <2>1 DEF Answered, q
<1> QED
  BY <1>2, <1>3, <1>4 DEF Cross

(* What parseMessage() leaves, before message() goes on. *)
Parsed(p) == p \in Endpoint /\ Mid(p) /\ Settled(p) /\ p.state # NotValidated

(* A CloseConnection message closes the end that reads it. *)
LEMMA ParseCloseMid ==
    ASSUME NEW c \in Endpoint, Mid(c), Settled(c), c.state # NotValidated, NEW m, m.type = "close", NEW fail
    PROVE  \E b \in Endpoint : /\ Typed(b) /\ Alike([c EXCEPT !.exception = b.exception], b)
                               /\ b.exception \in {c.exception, "CloseConnection"} /\ b.dispatches = c.dispatches
                               /\ Quiet(b, Parse(c, m, fail)) /\ Parsed(Parse(c, m, fail))
<1> DEFINE x == IF c.exception = "none" THEN "CloseConnection" ELSE c.exception
<1> DEFINE b == [c EXCEPT !.exception = x]
<1> DEFINE p == SetClosed(b, "none")
<1>1. Parse(c, m, fail) = p
  BY DEF Parse
<1>2. x \in Exception /\ x \in {c.exception, "CloseConnection"}
  BY DEF Endpoint, Exception
<1> HIDE DEF x
<1>3. b \in Endpoint
  BY <1>2 DEF Endpoint
<1>4. /\ Body(c, b) /\ b.state = c.state /\ b.registered = c.registered /\ b.finishing = c.finishing
      /\ b.shutdownInitiated = c.shutdownInitiated /\ b.exception = x /\ b.closeRequested = c.closeRequested
      /\ Alike([c EXCEPT !.exception = x], b) /\ b.dispatches = c.dispatches
  BY DEF Endpoint, Body, Alike
<1>5. p = SetClosed(b, "none")
  OBVIOUS
<1> HIDE DEF b, p
<1>6. Phases(b) /\ Waits(b)
  BY <1>4 DEF Mid, Core, Phases, Waits, Reads, Body
<1>7. Mid(b) /\ Settled(b) /\ Typed(b)
  BY <1>3, <1>4, <1>6, BodyMid, MidTyped DEF Settled, Body
<1>8. Mid(p) /\ Quiet(b, p)
  BY <1>3, <1>5, <1>7, SetClosedMid DEF Exception
<1>9. Parsed(p)
  <2>1. p \in Endpoint
    BY <1>8 DEF Mid, Core
  <2>2. Settled(p) /\ p.state # NotValidated
    BY <1>3, <1>4, <1>7, <1>8, <2>1, SettledKept DEF Quiet, Kept
  <2> QED
    BY <1>8, <2>1, <2>2 DEF Parsed
<1> QED
  BY <1>1, <1>2, <1>3, <1>4, <1>7, <1>8, <1>9

(* The client reads from the server.  A CloseConnection message is the     *)
(* last one, and what was dispatched has been answered.                    *)
LEMMA ParseClient ==
    ASSUME NEW c \in Endpoint, Local(c), c.state < Closed, c.state # NotValidated,
           NEW sv \in Endpoint, NEW s2 \in Endpoint, Mid(sv), Typed(s2), Popped(sv, s2), Stream(sv) # <<>>,
           NEW D \in SUBSET Request, Cross(c, sv, D), NEW fail \in BOOLEAN
    PROVE  LET p == Parse(c, Head(Stream(sv)), fail) IN Parsed(p) /\ Cross(p, s2, D)
<1> DEFINE q == Stream(sv)
<1> DEFINE m == Head(q)
<1> DEFINE p == Parse(c, m, fail)
<1>0. /\ Mid(c) /\ Core(c) /\ Settled(c) /\ Typed(c) /\ Typed(sv) /\ Core(sv) /\ q \in Seq(Message) /\ q # <<>>
      /\ Replies(q, D, sv.shutdownInitiated)
  BY MidTyped, Typing DEF Local, Typed, Cross
<1>1. /\ m.type = "close" => Tail(q) = <<>> /\ sv.shutdownInitiated
      /\ m.type = "reply" => m.r \in D
      /\ m.type # "request" /\ m = q[1] /\ 1 \in DOMAIN q /\ m \in Message
      /\ Len(Tail(q)) = Len(q) - 1 /\ DOMAIN q = 1 .. Len(q) /\ Len(q) \in Nat
  <2> HIDE DEF q
  <2>1. /\ m.type = "close" => Tail(q) = <<>> /\ sv.shutdownInitiated
        /\ m.type = "reply" => m.r \in D
        /\ m.type # "request"
    BY <1>0, RepliesTail
  <2>2. /\ m = q[1] /\ 1 \in DOMAIN q /\ m \in Message
        /\ Len(Tail(q)) = Len(q) - 1 /\ DOMAIN q = 1 .. Len(q) /\ Len(q) \in Nat
    BY <1>0, HeadTailProperties, LenProperties, EmptySeq
  <2> QED
    BY <2>1, <2>2
<1>2. CASE m.type = "close"
  <2>1. PICK b \in Endpoint : /\ Typed(b) /\ Alike([c EXCEPT !.exception = b.exception], b)
                              /\ b.exception \in {c.exception, "CloseConnection"} /\ b.dispatches = c.dispatches
                              /\ Quiet(b, p) /\ Parsed(p)
    <3> HIDE DEF m
    <3> QED
      BY <1>0, <1>2, ParseCloseMid
  <2>2. Cross(c, s2, D)
    BY <1>0, <1>2, ServerPops
  <2>3. /\ s2.shutdownInitiated /\ Len(q) = 1 /\ HasClose(q) /\ sv.dispatches = {}
    <3>1. sv.shutdownInitiated /\ Tail(q) = <<>>
      BY <1>1, <1>2
    <3>2. Len(q) = 1
      BY <1>1, <3>1, EmptySeq
    <3>3. HasClose(q)
      BY <1>1, <1>2 DEF HasClose
    <3>4. sv.dispatches = {}
      BY <1>0, <3>1 DEF Core, Phases
    <3> QED
      BY <3>1, <3>2, <3>3, <3>4, PoppedFacts
  <2>4. c.asyncRequests \cap D = {}
    <3> SUFFICES ASSUME NEW r \in D, r \in c.asyncRequests PROVE FALSE
      OBVIOUS
    <3>1. HasReply(q, r)
      BY <2>3 DEF Cross, Answered
    <3>2. PICK i \in DOMAIN q : q[i].type = "reply"
      BY <3>1 DEF HasReply
    <3>3. i = 1
      BY <1>1, <2>3, <3>2
    <3> QED
      BY <1>1, <1>2, <3>2, <3>3
  <2>5. /\ b.out = c.out /\ b.sendStreams = c.sendStreams /\ b.written = c.written /\ b.state = c.state
        /\ b.done = c.done /\ b.asyncRequests = c.asyncRequests
    BY <2>1 DEF Alike, Endpoint
  <2>6. Stream(b) = Stream(c)
    BY <2>5 DEF Stream, Unwritten, Rest
  <2>7. Cross(b, s2, D)
    <3>1. Answered(b, s2, D)
      BY <2>2, <2>5 DEF Cross, Answered
    <3> QED
      BY <2>2, <2>3, <2>4, <2>5, <2>6, <3>1 DEF Cross
  <2>8. Typed(p)
    BY <2>1, MidTyped DEF Parsed
  <2>9. Cross(p, s2, D)
    <3> HIDE DEF p
    <3> QED
      BY <2>1, <2>7, <2>8, QuietClient
  <2> QED
    BY <2>1, <2>9
<1>3. CASE m.type = "reply" /\ m.r \in c.asyncRequests
  <2> DEFINE r == m.r
  <2> DEFINE t == Take(c, r, "ok")
  <2> DEFINE z == CloseIfRequested(t, fail)
  <2> DEFINE k == z.callbacks + 1
  <2> DEFINE x == [z EXCEPT !.callbacks = k]
  <2>1. p = x /\ r \in c.asyncRequests /\ r \in D /\ r \in Request
    BY <1>1, <1>3 DEF Parse
  <2> HIDE DEF r
  <2>2. t \in Endpoint /\ Took(c, r, "ok", t) /\ Phases(t) /\ Waits(t) /\ Tally(t) /\ Removal(t)
    BY <1>0, <2>1, TakeFacts
  <2> HIDE DEF t
  <2>3. Rest(t) = Rest(c) /\ Stream(t) = Stream(c)
    <3>1. Rest(t) = Rest(c)
      BY <2>2 DEF Rest, Took, Aside
    <3>2. Unwritten(t) = Unwritten(c)
      BY <2>2, <3>1 DEF Unwritten, Took, Aside
    <3> QED
      BY <2>2, <3>1, <3>2 DEF Stream, Took, Aside
  <2>4. Owned(Rest(t), t)
    <3> DEFINE w == Rest(c)
    <3>1. w \in Seq(Message) /\ c.out \in Seq(Message) /\ Owned(w, c) /\ ~(c.state >= Closed)
      <4>1. w \in Seq(Message) /\ c.out \in Seq(Message) /\ c.state \in Nat
        BY <1>0, Typing DEF Typed
      <4>2. ~(c.state >= Closed)
        BY <4>1
      <4> QED
        BY <1>0, <4>1, <4>2 DEF Core
    <3>2. Requests(c.out \o w, c.done, D)
      BY <3>1 DEF Cross, Stream, Unwritten
    <3> HIDE DEF w
    <3>3. \A i \in DOMAIN w : w[i].type = "request" => w[i].r \notin D
      <4> DEFINE n == Len(c.out)
      <4> DEFINE v == c.out \o w
      <4>1. n \in Nat /\ DOMAIN w = 1 .. Len(w) /\ Len(w) \in Nat
        BY <3>1, LenProperties
      <4>2. DOMAIN v = 1 .. n + Len(w) /\ \A i \in 1 .. n + Len(w) : v[i] = IF i <= n THEN c.out[i] ELSE w[i - n]
        BY <3>1, ConcatProperties, LenProperties
      <4> HIDE DEF n, v
      <4>3. \A i \in DOMAIN w : n + i \in DOMAIN v /\ ~(n + i <= n) /\ (n + i) - n = i
        BY <4>1, <4>2
      <4>4. \A i \in DOMAIN w : v[n + i] = w[i]
        BY <4>2, <4>3
      <4> QED
        BY <3>2, <4>3, <4>4 DEF Requests, v
    <3> QED
      BY <2>1, <2>2, <2>3, <3>1, <3>3 DEF Owned, w, Took
  <2>5. Mid(t) /\ Typed(t)
    <3>1. Len(t.out) <= Capacity
      BY <1>0, <2>2 DEF Core, Took, Aside
    <3> QED
      BY <2>2, <2>4, <3>1, MidTyped DEF Mid, Core
  <2>6. Cross(t, sv, D)
    <3>0. t.done[r] = "ok" /\ (\A y \in Request : y # r => t.done[y] = c.done[y])
          /\ t.asyncRequests = c.asyncRequests \ {r} /\ t.exception = c.exception
      BY <2>2 DEF Took, Aside
    <3>1. \A y \in Request : c.done[y] # "new" => t.done[y] # "new"
      BY <3>0
    <3>2. Requests(Stream(c), c.done, D) /\ Stream(c) \in Seq(Message)
      BY <1>0, Typing DEF Cross, Typed
    <3>3. Requests(Stream(t), t.done, D)
      BY <2>3, <3>1, <3>2, RequestsDone
    <3>4. \A y \in D : t.done[y] # "new" /\ (y \in t.asyncRequests => y \in c.asyncRequests)
      BY <3>0, <3>1 DEF Cross
    <3>5. \A y \in Request : t.done[y] = "CloseConnection" => c.done[y] = "CloseConnection"
      BY <3>0
    <3> QED
      BY <3>0, <3>3, <3>4, <3>5, ClientCross
  <2>7. Cross(t, s2, D)
    <3>1. m.r \notin t.asyncRequests
      BY <2>2 DEF Took, r
    <3> QED
      BY <1>0, <2>6, <3>1, ServerPops
  <2>8. /\ Mid(z) /\ Frame(t, z) /\ Quiet(t, z)
        /\ z.closeRequested /\ z.asyncRequests = {} => z.state >= Closing
    BY <2>2, <2>5, CloseIfRequestedMid
  <2> HIDE DEF z
  <2>9. z \in Endpoint /\ Typed(z) /\ Core(z) /\ z.callbacks \in Nat
    <3>1. z \in Endpoint
      BY <2>8 DEF Mid, Core
    <3> QED
      BY <2>8, <3>1, MidTyped DEF Endpoint
  <2>10. Cross(z, s2, D)
    BY <2>5, <2>7, <2>8, <2>9, QuietClient
  <2>11. k \in Nat /\ k # 0
    BY <2>9
  <2> HIDE DEF k
  <2>12. x \in Endpoint
    BY <2>9, <2>11, ZenonT(60) DEF Endpoint
  <2>13. /\ Alike(z, x) /\ x.dispatches = z.dispatches /\ x.registered = z.registered
         /\ x.removed = z.removed /\ x.callbacks = k
    BY <2>9 DEF Endpoint, Alike
  <2> HIDE DEF x
  <2>14. x.removed = 0
    BY <1>0, <2>2, <2>8, <2>13 DEF Mid, Removal, Frame, Took, Aside
  <2>15. Upcalls(x) # 0
    BY <2>11, <2>12, <2>13, UpcallsFacts
  <2>16. Phases(x) /\ Waits(x) /\ Len(x.out) <= Capacity
    BY <2>9, <2>13 DEF Core, Phases, Waits, Reads, Alike
  <2>17. Tally(x) /\ Owned(Rest(x), x) /\ Quiet(z, x)
    BY <2>9, <2>13, AlikeFacts DEF Core
  <2>18. Mid(x) /\ Typed(x)
    BY <2>12, <2>14, <2>15, <2>16, <2>17, MidTyped DEF Mid, Core, Removal
  <2>19. x.state # NotValidated
    BY <2>2, <2>8, <2>13 DEF Quiet, Kept, Alike, Took, Aside
  <2>20. Settled(x)
    BY <2>8, <2>13, <2>19 DEF Settled, Alike
  <2>21. Cross(x, s2, D)
    BY <2>9, <2>10, <2>17, <2>18, QuietClient
  <2> HIDE DEF p
  <2>22. Parsed(p) /\ Cross(p, s2, D)
    BY <2>1, <2>12, <2>18, <2>19, <2>20, <2>21 DEF Parsed
  <2> QED
    BY <2>22 DEF p
<1>4. CASE m.type \notin {"close", "request"} /\ ~(m.type = "reply" /\ m.r \in c.asyncRequests)
  <2>1. p = c
    BY <1>4 DEF Parse
  <2>2. Cross(c, s2, D)
    BY <1>0, <1>4, ServerPops
  <2> HIDE DEF p
  <2>3. Parsed(p) /\ Cross(p, s2, D)
    BY <1>0, <2>1, <2>2 DEF Parsed
  <2> QED
    BY <2>3 DEF p
<1> QED
  BY <1>1, <1>2, <1>3, <1>4

(* One dispatch more. *)
LEMMA DispatchFacts ==
    ASSUME NEW c \in Endpoint, NEW r \in Request
    PROVE  LET d == [c EXCEPT !.dispatches = @ \cup {r}] IN
           /\ d \in Endpoint /\ Alike(c, d) /\ d.dispatches = c.dispatches \cup {r}
           /\ d.registered = c.registered /\ d.removed = c.removed /\ d.callbacks = c.callbacks
           /\ Reads(d) => Reads(c)
<1> DEFINE d == [c EXCEPT !.dispatches = @ \cup {r}]
<1>1. d \in Endpoint
  BY DEF Endpoint
<1>2. /\ Alike(c, d) /\ d.dispatches = c.dispatches \cup {r}
      /\ d.registered = c.registered /\ d.removed = c.removed /\ d.callbacks = c.callbacks
  BY DEF Endpoint, Alike
<1>3. c.dispatches \subseteq Request
  BY DEF Endpoint
<1> HIDE DEF d
<1>4. IsFiniteSet(c.dispatches)
  BY <1>3, Constants, FS_Subset
<1>5. /\ Cardinality(c.dispatches) \in Nat
      /\ Cardinality(c.dispatches \cup {r}) = IF r \in c.dispatches THEN Cardinality(c.dispatches)
                                              ELSE Cardinality(c.dispatches) + 1
  BY <1>4, FS_CardinalityType, FS_AddElement
<1>6. Reads(d) => Reads(c)
  BY <1>2, <1>5, Constants DEF Reads
<1>7. /\ d \in Endpoint /\ Alike(c, d) /\ d.dispatches = c.dispatches \cup {r}
      /\ d.registered = c.registered /\ d.removed = c.removed /\ d.callbacks = c.callbacks
      /\ Reads(d) => Reads(c)
  BY <1>1, <1>2, <1>6
<1> QED
  BY <1>7 DEF d

(* The server reads from the client. *)
LEMMA ParseServer ==
    ASSUME NEW c \in Endpoint, Local(c), c.state < Closed, c.state # NotValidated,
           NEW cl \in Endpoint, NEW c2 \in Endpoint, Typed(cl), Typed(c2), Popped(cl, c2), Stream(cl) # <<>>,
           NEW D \in SUBSET Request, Cross(cl, c, D), NEW fail \in BOOLEAN
    PROVE  LET p == Parse(c, Head(Stream(cl)), fail) IN Parsed(p) /\ Cross(c2, p, D \cup p.dispatches)
<1> DEFINE q == Stream(cl)
<1> DEFINE m == Head(q)
<1> DEFINE p == Parse(c, m, fail)
<1>0. /\ Mid(c) /\ Core(c) /\ Settled(c) /\ Typed(c) /\ q \in Seq(Message) /\ q # <<>>
      /\ Requests(q, cl.done, D) /\ c.state \in Nat
  BY MidTyped, Typing DEF Local, Typed, Cross
<1>1. m = q[1] /\ 1 \in DOMAIN q /\ m \in Message
  <2> HIDE DEF q
  <2> QED
    BY <1>0, HeadTailProperties, LenProperties, EmptySeq
<1>2. Cross(c2, c, D)
  BY <1>0, ClientPops
<1>3. c.dispatches \subseteq D /\ c.asyncRequests = {}
  BY DEF Cross
<1>4. CASE m.type = "close"
  <2>1. PICK b \in Endpoint : /\ Typed(b) /\ Alike([c EXCEPT !.exception = b.exception], b)
                              /\ b.exception \in {c.exception, "CloseConnection"} /\ b.dispatches = c.dispatches
                              /\ Quiet(b, p) /\ Parsed(p)
    <3> HIDE DEF m
    <3> QED
      BY <1>0, <1>4, ParseCloseMid
  <2>2. /\ b.out = c.out /\ b.sendStreams = c.sendStreams /\ b.written = c.written /\ b.state = c.state
        /\ b.shutdownInitiated = c.shutdownInitiated /\ b.asyncRequests = c.asyncRequests
    BY <2>1 DEF Alike, Endpoint
  <2>3. Stream(b) = Stream(c)
    BY <2>2 DEF Stream, Unwritten, Rest
  <2>4. Cross(c2, b, D)
    <3>1. Answered(c2, b, D)
      BY <1>2, <2>1, <2>2, <2>3 DEF Cross, Answered
    <3> QED
      BY <1>2, <2>1, <2>2, <2>3, <3>1 DEF Cross
  <2> HIDE DEF p
  <2>5. Typed(p)
    BY <2>1, MidTyped DEF Parsed
  <2>6. Cross(c2, p, D)
    BY <2>1, <2>4, <2>5, QuietServer
  <2>7. D \cup p.dispatches = D
    BY <1>3, <2>1 DEF Quiet, Kept
  <2>8. Parsed(p) /\ Cross(c2, p, D \cup p.dispatches)
    BY <2>1, <2>6, <2>7
  <2> QED
    BY <2>8 DEF p
<1>5. CASE m.type = "request" /\ c.state < Closing
  <2> DEFINE r == m.r
  <2>1. p = [c EXCEPT !.dispatches = @ \cup {r}] /\ r \in Request
    BY <1>0, <1>1, <1>5 DEF Parse, Message
  <2>2. cl.done[r] # "new" /\ r \notin D
    BY <1>0, <1>1, <1>5 DEF Requests
  <2>3. Requests(Tail(q), cl.done, D \cup {r})
    BY <1>0, <1>5, RequestsTail
  <2> HIDE DEF p, r
  <2>4. /\ p \in Endpoint /\ Alike(c, p) /\ p.dispatches = c.dispatches \cup {r}
        /\ p.registered = c.registered /\ p.removed = c.removed /\ p.callbacks = c.callbacks
        /\ Reads(p) => Reads(c)
    BY <2>1, DispatchFacts
  <2>5. ~c.shutdownInitiated /\ ~(c.state >= Closing) /\ ~p.shutdownInitiated
    BY <1>0, <1>5, <2>4 DEF Core, Phases, Alike
  <2>6. Phases(p) /\ Len(p.out) <= Capacity
    BY <1>0, <2>4, <2>5 DEF Core, Phases, Alike
  <2>7. Waits(p)
    BY <1>0, <2>4 DEF Core, Waits, Alike
  <2>8. Tally(p) /\ Owned(Rest(p), p) /\ Stream(p) = Stream(c)
    BY <1>0, <2>4, AlikeFacts DEF Core
  <2>9. Removal(p)
    BY <1>0, <1>5, <2>4 DEF Mid, Removal, Alike
  <2>10. Parsed(p)
    <3>1. Settled(p) /\ p.state # NotValidated
      BY <1>0, <2>4 DEF Settled, Alike
    <3> QED
      BY <2>4, <2>6, <2>7, <2>8, <2>9, <3>1 DEF Parsed, Mid, Core
  <2>11. Cross(c2, p, D \cup {r})
    <3>1. /\ c2.exception = cl.exception /\ c2.asyncRequests = cl.asyncRequests /\ c2.done = cl.done
          /\ Stream(c2) = Tail(q)
      BY PoppedFacts
    <3>2. Requests(Stream(c2), c2.done, D \cup {r})
      BY <2>3, <3>1
    <3>3. Replies(Stream(p), D \cup {r}, p.shutdownInitiated)
      BY <2>4, <2>8 DEF Cross, Replies, Alike
    <3>4. p.asyncRequests = {} /\ p.dispatches \subseteq D \cup {r}
      BY <1>3, <2>4 DEF Alike
    <3>5. \A x \in D \cup {r} : c2.done[x] # "new"
      BY <2>2, <3>1 DEF Cross
    <3>6. Answered(c2, p, D \cup {r})
      <4>1. Answered(cl, c, D)
        BY DEF Cross
      <4> QED
        BY <2>4, <2>8, <3>1, <4>1 DEF Answered, Alike
    <3>7. /\ c2.exception # "CloseConnection"
          /\ \A x \in Request : c2.done[x] # "CloseConnection"
      BY <2>5, <3>1 DEF Cross
    <3> QED
      BY <3>2, <3>3, <3>4, <3>5, <3>6, <3>7 DEF Cross
  <2>12. D \cup p.dispatches = D \cup {r}
    BY <1>3, <2>4
  <2>13. Parsed(p) /\ Cross(c2, p, D \cup p.dispatches)
    BY <2>10, <2>11, <2>12
  <2> QED
    BY <2>13 DEF p
<1>6. CASE m.type # "close" /\ ~(m.type = "request" /\ c.state < Closing)
  <2>1. p = c
    BY <1>0, <1>3, <1>6 DEF Parse
  <2> HIDE DEF p
  <2>2. D \cup p.dispatches = D
    BY <1>3, <2>1
  <2>3. Parsed(p) /\ Cross(c2, p, D \cup p.dispatches)
    BY <1>0, <1>2, <2>1, <2>2 DEF Parsed
  <2> QED
    BY <2>3 DEF p
<1> QED
  BY <1>4, <1>5, <1>6

(* message() goes on after parseMessage(), or after it has validated the   *)
(* connection.                                                             *)
LEMMA ParsedUpdate ==
    ASSUME NEW p, Parsed(p)
    PROVE  LET d == Update(p, p.state # Holding /\ Reads(p)) IN Mid(d) /\ Settled(d) /\ d.pc = "idle" /\ Quiet(p, d)
<1> DEFINE readOp == p.state # Holding /\ Reads(p)
<1> DEFINE d == Update(p, readOp)
<1>1. p \in Endpoint /\ Mid(p) /\ Settled(p) /\ p.state # NotValidated /\ readOp \in BOOLEAN
  BY DEF Parsed, Reads
<1>2. p.state = ClosingPending => readOp
  <2> SUFFICES ASSUME p.state = ClosingPending PROVE Reads(p)
    OBVIOUS
  <2>1. p.dispatches = {}
    BY <1>1 DEF Mid, Core, Phases
  <2>2. Cardinality(p.dispatches) = 0
    BY <2>1, FS_EmptySet
  <2> QED
    BY <2>2, Constants DEF Reads
<1>3. p.state = Active /\ Reads(p) => readOp
  OBVIOUS
<1> HIDE DEF readOp
<1>4. Mid(d) /\ d.pc = "idle" /\ Quiet(p, d)
  BY <1>1, <1>2, <1>3, UpdateMid
<1> HIDE DEF d
<1>5. Settled(d)
  <2>1. d \in Endpoint
    BY <1>4 DEF Mid, Core
  <2> QED
    BY <1>1, <1>4, <2>1, SettledKept DEF Quiet
<1>6. Mid(d) /\ Settled(d) /\ d.pc = "idle" /\ Quiet(p, d)
  BY <1>4, <1>5
<1> QED
  BY <1>6 DEF d, readOp

LEMMA ValidatedMid ==
    ASSUME NEW c \in Endpoint, Local(c), c.state = NotValidated
    PROVE  LET d == Idle([SetHolding(c) EXCEPT !.registered = @ \ {"read"}, !.callbacks = @ + 1]) IN
           Mid(d) /\ Settled(d) /\ d.pc = "idle" /\ Quiet(c, d)
<1> DEFINE h == SetHolding(c)
<1> DEFINE k == h.callbacks + 1
<1> DEFINE g == h.registered \ {"read"}
<1> DEFINE x == [h EXCEPT !.registered = g, !.callbacks = k]
<1> DEFINE d == Idle(x)
<1>0. Mid(c) /\ Core(c) /\ Settled(c) /\ c.sendStreams = <<>> /\ c.removed = 0
  BY MidTyped DEF Local, Settled, Mid, Removal
<1>1. /\ Mid(h) /\ Frame(c, h) /\ Stream(h) = Stream(c) /\ Kept(c, h)
      /\ h.exception = c.exception /\ h.sendStreams = c.sendStreams /\ h.state = Holding
  BY <1>0, SetHoldingMid
<1> HIDE DEF h
<1>2. h \in Endpoint /\ Core(h) /\ h.removed = 0
  BY <1>0, <1>1, MidTyped DEF Mid, Core, Frame
<1>3. k \in Nat /\ g \in SUBSET {"read", "write"}
  BY <1>2 DEF Endpoint
<1> HIDE DEF k, g
<1>4. x \in Endpoint
  BY <1>2, <1>3, ZenonT(60) DEF Endpoint
<1>5. Alike(h, x) /\ x.dispatches = h.dispatches /\ x.removed = h.removed
  BY <1>2 DEF Endpoint, Alike
<1> HIDE DEF x
<1>6. x.sendStreams = <<>> /\ x.state = Holding /\ ~x.written
  BY <1>0, <1>1, <1>2, <1>5 DEF Alike, Core, Phases
<1>7. Phases(x) /\ Waits(x) /\ Len(x.out) <= Capacity
  BY <1>2, <1>5, <1>6 DEF Core, Phases, Waits, Alike
<1>8. Tally(x) /\ Owned(Rest(x), x) /\ Quiet(h, x) /\ Stream(x) = Stream(h) /\ Owned(x.sendStreams, x)
  BY <1>2, <1>5, <1>6, AlikeFacts DEF Core, Owned
<1>9. Mid(x)
  BY <1>2, <1>4, <1>5, <1>6, <1>7, <1>8 DEF Mid, Core, Removal
<1>10. Mid(d) /\ d.pc = "idle" /\ Quiet(x, d)
  BY <1>4, <1>6, <1>8, <1>9, IdleMid
<1>11. d.state = x.state /\ d.sendStreams = x.sendStreams /\ d.out = x.out /\ d.written = FALSE /\ Still(x, d)
  BY <1>4, IdleFacts
<1> HIDE DEF d
<1>12. Stream(d) = Stream(x)
  BY <1>6, <1>11 DEF Stream, Unwritten, Rest
<1>13. Kept(c, d)
  BY <1>1, <1>5, <1>6, <1>11 DEF Kept, Alike, Still
<1>14. Settled(d)
  <2>1. d \in Endpoint
    BY <1>10 DEF Mid, Core
  <2> QED
    BY <1>0, <1>13, <2>1, SettledKept
<1>15. Mid(d) /\ Settled(d) /\ d.pc = "idle" /\ Quiet(c, d)
  BY <1>1, <1>8, <1>10, <1>12, <1>13, <1>14 DEF Quiet, Flows
<1> QED
  BY <1>15 DEF d, x, g, k, h

LEMMA MessageReadStep == ASSUME IInv, NEW e \in End, MessageRead(e) PROVE IInv'
<1> DEFINE c == conn[e]
<1> DEFINE a == conn[Peer(e)]
<1> DEFINE b == [a EXCEPT !.out = Tail(a.out)]
<1> DEFINE m == Head(a.out)
<1> DEFINE v == Idle([SetHolding(c) EXCEPT !.registered = @ \ {"read"}, !.callbacks = @ + 1])
<1>0. /\ c \in Endpoint /\ Local(c) /\ c.pc = "locked" /\ c.state < Closed /\ Typed(c)
      /\ a \in Endpoint /\ Local(a) /\ Mid(a) /\ Typed(a) /\ a.out # <<>> /\ conn \in [End -> Endpoint]
  BY InvFacts, EndFacts, SMTT(60) DEF MessageRead, IInv
<1>1. PICK fail \in BOOLEAN :
        LET p == Parse(c, m, fail)
            d == IF c.state = NotValidated THEN v ELSE Update(p, p.state # Holding /\ Reads(p))
        IN conn' = [conn EXCEPT ![e] = d, ![Peer(e)].out = Tail(a.out)]
  BY InvFacts, ZenonT(60) DEF MessageRead
<1>2. dispatched' = dispatched \cup conn'["server"].dispatches /\ held' = held /\ calls' = calls
  BY DEF MessageRead
<1> DEFINE p == Parse(c, m, fail)
<1> DEFINE u == Update(p, p.state # Holding /\ Reads(p))
<1> DEFINE d == IF c.state = NotValidated THEN v ELSE u
<1>3. conn' = [conn EXCEPT ![e] = d, ![Peer(e)].out = Tail(a.out)]
  BY <1>1
<1> HIDE DEF p, u, v, d
<1>4. /\ b \in Endpoint /\ Local(b) /\ Typed(b) /\ Popped(a, b)
      /\ Stream(a) # <<>> /\ Head(Stream(a)) = m /\ m \in Message
  BY <1>0, PopFacts
<1>5. conn'[e] = d /\ conn'[Peer(e)] = b
  BY <1>0, <1>3, EndFacts
<1>7. dispatched \in SUBSET Request /\ held \in BOOLEAN /\ calls \in 0 .. MaxCalls
  BY DEF IInv
<1>8. CASE e = "client"
  <2>1. Cross(c, a, dispatched) /\ a.dispatches \subseteq dispatched /\ Peer(e) = "server"
    BY <1>8, EndFacts DEF IInv, Cross
  <2>2. b.dispatches = a.dispatches /\ dispatched \cup b.dispatches = dispatched
    BY <1>0, <1>4, <2>1, PoppedFacts
  <2>3. Mid(d) /\ Settled(d) /\ d.pc = "idle" /\ Cross(d, b, dispatched)
    <3>1. CASE c.state = NotValidated
      <4>1. d = v
        BY <3>1 DEF d
      <4>2. Mid(v) /\ Settled(v) /\ v.pc = "idle" /\ Quiet(c, v)
        BY <1>0, <3>1, ValidatedMid DEF v
      <4>3. c.asyncRequests = {}
        BY <1>0, <3>1 DEF Local, Settled
      <4>4. Cross(c, b, dispatched)
        BY <1>0, <1>4, <2>1, <4>3, ServerPops
      <4>5. Cross(v, b, dispatched)
        BY <1>0, <4>2, <4>4, MidTyped, QuietClient
      <4> QED
        BY <4>1, <4>2, <4>5
    <3>2. CASE c.state # NotValidated
      <4>1. d = u
        BY <3>2 DEF d
      <4>2. Parsed(p) /\ Cross(p, b, dispatched)
        <5>1. LET x == Parse(c, Head(Stream(a)), fail) IN Parsed(x) /\ Cross(x, b, dispatched)
          BY <1>0, <1>4, <1>7, <2>1, <3>2, ParseClient
        <5> QED
          BY <1>4, <5>1 DEF p
      <4>3. Mid(u) /\ Settled(u) /\ u.pc = "idle" /\ Quiet(p, u)
        BY <4>2, ParsedUpdate DEF u
      <4>4. Cross(u, b, dispatched)
        BY <4>2, <4>3, MidTyped, QuietClient DEF Parsed
      <4> QED
        BY <4>1, <4>3, <4>4
    <3> QED
      BY <3>1, <3>2
  <2>4. Local(d) /\ d \in Endpoint
    BY <2>3, MidLocal DEF Mid, Core
  <2>5. conn'["client"] = d /\ conn'["server"] = b /\ dispatched' = dispatched
    BY <1>2, <1>5, <1>8, <2>1, <2>2
  <2>6. conn' \in [End -> Endpoint]
    <3>1. conn \in [End -> Endpoint] /\ conn' = [conn EXCEPT !["client"] = d, !["server"] = b]
      BY <1>0, <1>3, <1>8, <2>1
    <3> HIDE DEF b
    <3> QED
      BY <1>4, <2>4, <3>1, EndFacts
  <2>7. \A x \in End : Local(conn'[x])
    BY <1>4, <2>4, <2>5, EndFacts
  <2> HIDE DEF b, a, c
  <2> QED
    BY <1>2, <1>7, <2>3, <2>5, <2>6, <2>7 DEF IInv
<1>9. CASE e = "server"
  <2>1. Cross(a, c, dispatched) /\ c.dispatches \subseteq dispatched /\ Peer(e) = "client"
    BY <1>9, EndFacts DEF IInv, Cross
  <2>3. Mid(d) /\ Settled(d) /\ d.pc = "idle" /\ Cross(b, d, dispatched \cup d.dispatches)
    <3>1. CASE c.state = NotValidated
      <4>1. d = v
        BY <3>1 DEF d
      <4>2. Mid(v) /\ Settled(v) /\ v.pc = "idle" /\ Quiet(c, v)
        BY <1>0, <3>1, ValidatedMid DEF v
      <4>3. Cross(b, c, dispatched)
        BY <1>0, <1>4, <2>1, ClientPops
      <4>4. Cross(b, v, dispatched) /\ dispatched \cup v.dispatches = dispatched
        BY <1>0, <1>4, <2>1, <4>2, <4>3, MidTyped, QuietServer DEF Quiet, Kept
      <4> QED
        BY <4>1, <4>2, <4>4
    <3>2. CASE c.state # NotValidated
      <4>1. d = u
        BY <3>2 DEF d
      <4>2. Parsed(p) /\ Cross(b, p, dispatched \cup p.dispatches)
        <5>1. LET x == Parse(c, Head(Stream(a)), fail) IN Parsed(x) /\ Cross(b, x, dispatched \cup x.dispatches)
          BY <1>0, <1>4, <1>7, <2>1, <3>2, ParseServer
        <5> QED
          BY <1>4, <5>1 DEF p
      <4>3. Mid(u) /\ Settled(u) /\ u.pc = "idle" /\ Quiet(p, u)
        BY <4>2, ParsedUpdate DEF u
      <4>4. Cross(b, u, dispatched \cup p.dispatches) /\ u.dispatches = p.dispatches
        BY <1>4, <4>2, <4>3, MidTyped, QuietServer DEF Parsed, Quiet, Kept
      <4> QED
        BY <4>1, <4>3, <4>4
    <3> QED
      BY <3>1, <3>2
  <2>4. Local(d) /\ d \in Endpoint /\ d.dispatches \subseteq Request
    BY <2>3, MidLocal DEF Mid, Core, Endpoint
  <2>5. conn'["server"] = d /\ conn'["client"] = b /\ dispatched' = dispatched \cup d.dispatches
    BY <1>2, <1>5, <1>9, <2>1
  <2>6. conn' \in [End -> Endpoint]
    <3>1. conn \in [End -> Endpoint] /\ conn' = [conn EXCEPT !["server"] = d, !["client"] = b]
      BY <1>0, <1>3, <1>9, <2>1
    <3> HIDE DEF b
    <3> QED
      BY <1>4, <2>4, <3>1, EndFacts
  <2>7. \A x \in End : Local(conn'[x])
    BY <1>4, <2>4, <2>5, EndFacts
  <2> HIDE DEF b, a, c
  <2> QED
    BY <1>2, <1>7, <2>3, <2>4, <2>5, <2>6, <2>7 DEF IInv
<1> QED
  BY <1>8, <1>9, EndFacts

-----------------------------------------------------------------------------
LEMMA NewEndLocal ==
    ASSUME NEW ops \in SUBSET {"read", "write"}
    PROVE  LET c == NewEnd(ops) IN
           /\ c \in Endpoint /\ Local(c) /\ Stream(c) = <<>> /\ c.asyncRequests = {} /\ c.dispatches = {}
           /\ c.exception = "none" /\ \A r \in Request : c.done[r] = "new"
<1> DEFINE c == NewEnd(ops)
<1> DEFINE f == [r \in Request |-> "new"]
<1> DEFINE g == [r \in Request |-> 0]
<1>1. /\ c.state = NotValidated /\ c.exception = "none" /\ c.sendStreams = <<>> /\ c.out = <<>>
      /\ c.registered = ops /\ c.pc = "idle" /\ c.written = FALSE
      /\ c.closeRequested = FALSE /\ c.shutdownInitiated = FALSE /\ c.finishing = FALSE
      /\ c.callbacks = 0 /\ c.dispatches = {} /\ c.asyncRequests = {} /\ c.hint = None
      /\ c.done = f /\ c.completions = g /\ c.removed = 0
  BY DEF NewEnd
<1>2. c \in Endpoint
  <2> DEFINE q == <<>>
  <2> DEFINE z == 0
  <2>1. c = [state |-> NotValidated, exception |-> "none", sendStreams |-> q, out |-> q,
             registered |-> ops, operation |-> {}, pc |-> "idle", written |-> FALSE,
             closeRequested |-> FALSE, shutdownInitiated |-> FALSE, closeTimer |-> FALSE, finishing |-> FALSE,
             callbacks |-> z, dispatches |-> {}, asyncRequests |-> {}, hint |-> None, sent |-> {},
             done |-> f, completions |-> g, removed |-> z]
    BY DEF NewEnd
  <2>2. q \in Seq(Message) /\ z \in Nat /\ g \in [Request -> 0 .. 2] /\ "none" \in Exception
    BY EmptySeq DEF Exception
  <2>3. f \in [Request -> {"new", "pending", "ok", "canceled"} \cup Exception]
    OBVIOUS
  <2> HIDE DEF q, z, f, g, c
  <2>4. [state |-> NotValidated, exception |-> "none", sendStreams |-> q, out |-> q,
         registered |-> ops, operation |-> {}, pc |-> "idle", written |-> FALSE,
         closeRequested |-> FALSE, shutdownInitiated |-> FALSE, closeTimer |-> FALSE, finishing |-> FALSE,
         callbacks |-> z, dispatches |-> {}, asyncRequests |-> {}, hint |-> None, sent |-> {},
         done |-> f, completions |-> g, removed |-> z] \in Endpoint
    BY <2>2, <2>3, StateRange DEF Endpoint
  <2> QED
    BY <2>1, <2>4
<1> HIDE DEF c
<1>3. Phases(c) /\ Waits(c) /\ Removal(c) /\ Settled(c)
  BY <1>1 DEF Phases, Waits, Removal, Settled
<1>4. (\A r \in Request : c.done[r] = "new" /\ c.completions[r] = 0) /\ Tally(c)
  BY <1>1 DEF Tally
<1>5. Owned(Rest(c), c) /\ Owned(c.sendStreams, c) /\ Rest(c) = <<>>
  BY <1>1 DEF Rest, Owned
<1>6. Len(c.out) <= Capacity
  BY <1>1, Constants
<1>7. Stream(c) = <<>>
  BY <1>1, <1>5 DEF Stream, Unwritten
<1>8. Local(c)
  BY <1>1, <1>2, <1>3, <1>4, <1>5, <1>6 DEF Local, Mid, Core
<1> QED
  BY <1>1, <1>2, <1>4, <1>7, <1>8 DEF c

LEMMA Starts == Init => IInv
<1> SUFFICES ASSUME Init PROVE IInv
  OBVIOUS
<1> DEFINE a == NewEnd({"read"})
<1> DEFINE b == NewEnd({})
<1>1. conn = [e \in End |-> IF e = "client" THEN a ELSE b] /\ dispatched = {} /\ held = FALSE /\ calls = 0
  BY DEF Init
<1>2. /\ a \in Endpoint /\ Local(a) /\ Stream(a) = <<>> /\ a.asyncRequests = {} /\ a.dispatches = {}
      /\ a.exception = "none" /\ \A r \in Request : a.done[r] = "new"
  BY NewEndLocal
<1>3. /\ b \in Endpoint /\ Local(b) /\ Stream(b) = <<>> /\ b.asyncRequests = {} /\ b.dispatches = {}
  BY NewEndLocal
<1> HIDE DEF a, b
<1>4. Cross(a, b, {})
  BY <1>2, <1>3 DEF Cross, Requests, Replies, Answered
<1>5. conn["client"] = a /\ conn["server"] = b /\ conn \in [End -> Endpoint]
  BY <1>1, <1>2, <1>3, EndFacts
<1>6. \A e \in End : Local(conn[e])
  BY <1>2, <1>3, <1>5, EndFacts
<1>7. Cross(conn["client"], conn["server"], dispatched)
  BY <1>1, <1>4, <1>5
<1>8. dispatched \subseteq Request /\ held \in BOOLEAN /\ calls \in 0 .. MaxCalls
  <2>1. dispatched \subseteq Request /\ held \in BOOLEAN
    BY DEF Init
  <2>2. calls \in 0 .. MaxCalls
    BY Constants DEF Init
  <2> QED
    BY <2>1, <2>2
<1> QED
  BY <1>5, <1>6, <1>7, <1>8 DEF IInv

LEMMA IoStep == ASSUME IInv, NEW e \in End, Io(e) PROVE IInv'
<1>1. CASE MessageWriteFails(e)
  BY <1>1, LostStep DEF MessageWriteFails
<1>2. CASE MessageReadFails(e)
  BY <1>2, LostStep DEF MessageReadFails
<1> QED
  BY <1>1, <1>2, PickStep, MessageWriteStep, MessageReadStep, MessageReadPartStep, FinishStep DEF Io

LEMMA Inductive == IInv /\ [Next]_vars => IInv'
<1> SUFFICES ASSUME IInv, [Next]_vars PROVE IInv'
  OBVIOUS
<1>1. CASE UNCHANGED vars
  BY <1>1 DEF vars, IInv
<1>2. CASE Validate \/ Hold \/ WaitUntilHolding
  BY <1>2, ValidateStep, HoldStep, WaitStep
<1>3. ASSUME NEW e \in End,
             \/ Io(e) \/ Activate(e) \/ UpcallDone(e)
             \/ Close(e) \/ Destroy(e) \/ Abort(e) \/ ConnectTimedOut(e) \/ CloseTimedOut(e)
      PROVE  IInv'
  BY <1>3, IoStep, ActivateStep, UpcallDoneStep, CloseStep, DestroyStep, AbortStep, CloseTimedOutStep
<1>4. ASSUME NEW r \in Request,
             SendAsyncRequest(r) \/ AsyncRequestCanceled(r) \/ SendResponse(r) \/ DispatchException(r)
      PROVE  IInv'
  BY <1>4, SendAsyncRequestStep, AsyncRequestCanceledStep, SendResponseStep, DispatchExceptionStep
<1> QED
  BY <1>1, <1>2, <1>3, <1>4 DEF Next

LEMMA Invariant == Spec => []IInv
BY Starts, Inductive, PTL DEF Spec

(* Every request that a connection accepts is completed once: by its       *)
(* reply, by its cancellation or by finish(), whether its message was in   *)
(* the queue, half written or only waited for.  A connection that has      *)
(* finished has none left and is removed from its factory once, by finish()*)
(* or by the last upcall.                                                  *)
THEOREM RequestsCompletedOnce == Spec => []CompletedOnce
<1>1. IInv => CompletedOnce
  <2> SUFFICES ASSUME IInv PROVE CompletedOnce
    OBVIOUS
  <2>1. \A e \in End : Len(conn[e].out) <= Capacity /\ conn[e].hint \in conn[e].asyncRequests \cup {None}
    BY DEF IInv, Local, Mid, Core, Tally
  <2>2. TypeOK
    BY <2>1 DEF IInv, TypeOK
  <2>3. RemovedOnce
    BY DEF IInv, Local, Mid, Removal, RemovedOnce
  <2>4. Tally(conn["client"]) /\ conn["client"].completions \in [Request -> 0 .. 2]
    BY EndFacts DEF IInv, Local, Mid, Core, Endpoint
  <2> QED
    BY <2>2, <2>3, <2>4 DEF CompletedOnce, Tally
<1> QED
  BY <1>1, Invariant, PTL

(* A request that ends with CloseConnectionException was not dispatched,   *)
(* whatever the two ends did before: the retry of handleRetryAfterException*)
(* cannot run it twice.                                                    *)
THEOREM RetriesSafe == Spec => []CloseConnectionSafe
<1>1. IInv => CloseConnectionSafe
  BY DEF IInv, Cross, CloseConnectionSafe
<1> QED
  BY <1>1, Invariant, PTL

(* The selector waits for what an end has to do: it reads when the end may *)
(* dispatch or waits for the other end to close, and writes when messages  *)
(* are queued, after any hold, activate, response or closure.              *)
THEOREM NeverStalls == Spec => []NoStall
<1>1. IInv => NoStall
  BY DEF IInv, Local, Mid, Core, Waits, NoStall
<1> QED
  BY <1>1, Invariant, PTL

(* The closure that close() has put off starts when the last request is    *)
(* completed, if the requests that are cancelled are queued or the last    *)
(* one that was sent; the other path of asyncRequestCanceled() forgets it. *)
THEOREM CloseAlwaysHonoured ==
    ASSUME ~LateCancel
    PROVE  Spec => []CloseHonoured
<1>1. IInv => CloseHonoured
  BY DEF IInv, Local, Settled, CloseHonoured
<1> QED
  BY <1>1, Invariant, PTL

=============================================================================
