--------------------------- MODULE SubscriberProofs ---------------------------
(***************************************************************************)
(* Proofs about Subscriber, for every class of subscriber, every limit of  *)
(* the queue and of the invocations in progress, and every number of       *)
(* events, publishers and resets.                                          *)
(***************************************************************************)
EXTENDS Subscriber, FiniteSetTheorems, SequenceTheorems, TLAPS

-----------------------------------------------------------------------------
(* Sequences of events, which are numbered. *)

Ascending(q) == \A i, j \in DOMAIN q : i < j => q[i] < q[j]
Before(p, q) == \A i \in DOMAIN p, j \in DOMAIN q : p[i] < q[j]
Within(q, n) == \A i \in DOMAIN q : q[i] \in 1 .. n

(* The events of p are events of q. *)
Among(p, q) == \A i \in DOMAIN p : \E j \in DOMAIN q : p[i] = q[j]

(* p is what is left of q when events have been taken out. *)
Part(p, q) == p \in Seq(Nat) /\ Ascending(p) /\ Among(p, q)

LEMMA ConcatFacts ==
  ASSUME NEW p \in Seq(Nat), NEW q \in Seq(Nat)
  PROVE  /\ p \o q \in Seq(Nat) /\ Len(p \o q) = Len(p) + Len(q) /\ Len(p) \in Nat /\ Len(q) \in Nat
         /\ DOMAIN (p \o q) = 1 .. Len(p) + Len(q) /\ DOMAIN p = 1 .. Len(p) /\ DOMAIN q = 1 .. Len(q)
         /\ \A i \in 1 .. Len(p) + Len(q) : (p \o q)[i] = IF i <= Len(p) THEN p[i] ELSE q[i - Len(p)]
         /\ \A i \in DOMAIN p : p[i] \in Nat
         /\ \A i \in DOMAIN q : q[i] \in Nat
BY ConcatProperties

LEMMA ConcatOrder ==
  ASSUME NEW p \in Seq(Nat), NEW q \in Seq(Nat), Ascending(p), Ascending(q), Before(p, q)
  PROVE  p \o q \in Seq(Nat) /\ Ascending(p \o q)
<1> DEFINE c == p \o q
           m == Len(p)
           k == Len(q)
<1>1. /\ m \in Nat /\ k \in Nat
      /\ DOMAIN c = 1 .. m + k /\ DOMAIN p = 1 .. m /\ DOMAIN q = 1 .. k
      /\ \A i \in 1 .. m + k : c[i] = IF i <= m THEN p[i] ELSE q[i - m]
  BY ConcatFacts
<1> HIDE DEF c, m, k
<1>2. ASSUME NEW i \in DOMAIN c, NEW j \in DOMAIN c, i < j PROVE c[i] < c[j]
  <2>1. CASE j <= m
    <3>1. i \in DOMAIN p /\ j \in DOMAIN p /\ c[i] = p[i] /\ c[j] = p[j]
      BY <1>1, <1>2, <2>1
    <3> QED
      BY <1>2, <3>1 DEF Ascending
  <2>2. CASE i <= m /\ j > m
    <3>1. i \in DOMAIN p /\ j - m \in DOMAIN q /\ c[i] = p[i] /\ c[j] = q[j - m]
      BY <1>1, <1>2, <2>2
    <3> QED
      BY <3>1 DEF Before
  <2>3. CASE i > m
    <3>1. /\ i - m \in DOMAIN q /\ j - m \in DOMAIN q /\ i - m < j - m
          /\ c[i] = q[i - m] /\ c[j] = q[j - m]
      BY <1>1, <1>2, <2>3
    <3> QED
      BY <3>1 DEF Ascending
  <2> QED
    BY <1>1, <1>2, <2>1, <2>2, <2>3
<1>3. Ascending(c)
  BY <1>2 DEF Ascending
<1> QED
  BY <1>3, ConcatFacts DEF c

LEMMA ConcatParts ==
  ASSUME NEW p \in Seq(Nat), NEW q \in Seq(Nat)
  PROVE  /\ \A r \in Seq(Nat) : Before(p, r) /\ Before(q, r) => Before(p \o q, r)
         /\ \A r \in Seq(Nat) : Before(r, p) /\ Before(r, q) => Before(r, p \o q)
         /\ \A n \in Nat : Within(p, n) /\ Within(q, n) => Within(p \o q, n)
         /\ Among(p, p \o q) /\ Among(q, p \o q)
<1> DEFINE c == p \o q
           m == Len(p)
           k == Len(q)
<1>0. /\ m \in Nat /\ k \in Nat
      /\ DOMAIN c = 1 .. m + k /\ DOMAIN p = 1 .. m /\ DOMAIN q = 1 .. k
      /\ \A i \in 1 .. m + k : c[i] = IF i <= m THEN p[i] ELSE q[i - m]
  BY ConcatFacts
<1> HIDE DEF c, m, k
<1>1. ASSUME NEW i \in DOMAIN c PROVE (\E j \in DOMAIN p : c[i] = p[j]) \/ (\E j \in DOMAIN q : c[i] = q[j])
  <2>1. CASE i <= m
    <3>1. i \in DOMAIN p /\ c[i] = p[i]
      BY <1>0, <2>1
    <3> QED
      BY <3>1
  <2>2. CASE ~(i <= m)
    <3>1. i - m \in DOMAIN q /\ c[i] = q[i - m]
      BY <1>0, <2>2
    <3> QED
      BY <3>1
  <2> QED
    BY <2>1, <2>2
<1>2. \A j \in DOMAIN p : j \in DOMAIN c /\ c[j] = p[j]
  BY <1>0
<1>3. ASSUME NEW j \in DOMAIN q PROVE m + j \in DOMAIN c /\ c[m + j] = q[j]
  <2> DEFINE i == m + j
  <2>1. i \in 1 .. m + k /\ ~(i <= m) /\ i - m = j
    BY <1>0
  <2> HIDE DEF i
  <2>2. i \in DOMAIN c /\ c[i] = q[j]
    BY <1>0, <2>1
  <2> QED
    BY <2>2 DEF i
<1>4. /\ \A r \in Seq(Nat) : Before(p, r) /\ Before(q, r) => Before(c, r)
      /\ \A r \in Seq(Nat) : Before(r, p) /\ Before(r, q) => Before(r, c)
      /\ \A n \in Nat : Within(p, n) /\ Within(q, n) => Within(c, n)
  BY <1>1 DEF Before, Within
<1>5. Among(p, c) /\ Among(q, c)
  BY <1>2, <1>3 DEF Among
<1> QED
  BY <1>4, <1>5 DEF c

LEMMA ConcatAssoc == \A p, q, r \in Seq(Nat) : p \o q \o r = p \o (q \o r)
<1> SUFFICES ASSUME NEW p \in Seq(Nat), NEW q \in Seq(Nat), NEW r \in Seq(Nat) PROVE (p \o q) \o r = p \o (q \o r)
  OBVIOUS
<1> QED
  BY ConcatAssociative, SMTT(40)

LEMMA ConcatExtends ==
  ASSUME NEW p \in Seq(Nat), NEW q \in Seq(Nat)
  PROVE  Len(p) <= Len(p \o q) /\ SubSeq(p \o q, 1, Len(p)) = p
<1>1. Len(p \o q) = Len(p) + Len(q) /\ Len(p) \in Nat /\ Len(q) \in Nat
      /\ \A i \in 1 .. Len(p) : (p \o q)[i] = p[i]
  BY ConcatProperties
<1>2. /\ SubSeq(p \o q, 1, Len(p)) \in Seq(Nat)
      /\ Len(SubSeq(p \o q, 1, Len(p))) = Len(p)
      /\ \A i \in 1 .. Len(p) : SubSeq(p \o q, 1, Len(p))[i] = p[i]
  BY <1>1, SubSeqProperties
<1>3. SubSeq(p \o q, 1, Len(p)) = p
  BY <1>2, SeqEqual
<1> QED
  BY <1>1, <1>3

LEMMA EmptyParts ==
  ASSUME NEW q \in Seq(Nat), NEW n \in Nat
  PROVE  /\ <<>> \in Seq(Nat) /\ Ascending(<<>>) /\ Part(<<>>, q)
         /\ Before(<<>>, q) /\ Before(q, <<>>) /\ Within(<<>>, n)
BY DEF Ascending, Among, Part, Before, Within

LEMMA PartOrder ==
  ASSUME NEW p, NEW q \in Seq(Nat), Part(p, q)
  PROVE  /\ \A r \in Seq(Nat) : Before(q, r) => Before(p, r)
         /\ \A r \in Seq(Nat) : Before(r, q) => Before(r, p)
         /\ \A n \in Nat : Within(q, n) => Within(p, n)
BY DEF Part, Among, Before, Within

LEMMA AmongTransitive ==
  ASSUME NEW p, NEW q, NEW r, Among(p, q), Among(q, r)
  PROVE  Among(p, r)
BY DEF Among

(* Taking n events from the front. *)
LEMMA PrefixSuffix ==
  ASSUME NEW q \in Seq(Nat), Ascending(q), NEW n \in 0 .. Len(q)
  PROVE  /\ Part(Prefix(q, n), q) /\ Part(Suffix(q, n), q)
         /\ Before(Prefix(q, n), Suffix(q, n))
         /\ Len(Prefix(q, n)) = n /\ Len(Suffix(q, n)) = Len(q) - n
         /\ \A i \in 1 .. n : Prefix(q, n)[i] = q[i]
<1> DEFINE a == Prefix(q, n)
           b == Suffix(q, n)
<1>1. a \in Seq(Nat) /\ Len(a) = n /\ \A i \in 1 .. n : a[i] = q[i]
  BY SubSeqProperties DEF Prefix
<1>2. b \in Seq(Nat) /\ Len(b) = Len(q) - n /\ \A i \in 1 .. Len(q) - n : b[i] = q[n + i]
  <2>1. \A i \in n + 1 .. Len(q) : q[i] \in Nat
    OBVIOUS
  <2>2. /\ SubSeq(q, n + 1, Len(q)) \in Seq(Nat)
        /\ Len(SubSeq(q, n + 1, Len(q))) = IF n + 1 <= Len(q) THEN Len(q) - (n + 1) + 1 ELSE 0
        /\ \A i \in 1 .. Len(q) - (n + 1) + 1 : SubSeq(q, n + 1, Len(q))[i] = q[n + 1 + i - 1]
    BY <2>1, SubSeqProperties
  <2> QED
    BY <2>2 DEF Suffix
<1> HIDE DEF a, b
<1>3. \A i \in DOMAIN a : i \in DOMAIN q /\ i <= n /\ a[i] = q[i]
  BY <1>1
<1>4. \A i \in DOMAIN b : n + i \in DOMAIN q /\ i > 0 /\ b[i] = q[n + i]
  <2>1. DOMAIN b = 1 .. Len(q) - n /\ DOMAIN q = 1 .. Len(q) /\ Len(q) \in Nat
    BY <1>2, LenProperties
  <2>2. ASSUME NEW i \in 1 .. Len(q) - n
        PROVE  n + i \in 1 .. Len(q) /\ i > 0 /\ b[i] = q[n + i]
    BY <1>2, <2>1
  <2> QED
    BY <2>1, <2>2
<1>5. Ascending(a) /\ Among(a, q)
  BY <1>1, <1>3 DEF Ascending, Among
<1>6. Ascending(b)
  <2> SUFFICES ASSUME NEW i \in DOMAIN b, NEW j \in DOMAIN b, i < j PROVE b[i] < b[j]
    BY DEF Ascending
  <2>1. n + i \in DOMAIN q /\ n + j \in DOMAIN q /\ n + i < n + j
    BY <1>2, <1>4
  <2> QED
    BY <1>4, <2>1 DEF Ascending
<1>7. Among(b, q)
  BY <1>2, <1>4 DEF Among
<1>8. Before(a, b)
  BY <1>1, <1>2, <1>3, <1>4 DEF Ascending, Before
<1> QED
  BY <1>1, <1>2, <1>5, <1>6, <1>7, <1>8 DEF a, b, Part

LEMMA TailPart ==
  ASSUME NEW q \in Seq(Nat), Ascending(q), q # <<>>
  PROVE  Part(Tail(q), q) /\ Len(Tail(q)) = Len(q) - 1
<1>1. Tail(q) \in Seq(Nat) /\ Len(Tail(q)) = Len(q) - 1 /\ \A i \in 1 .. Len(Tail(q)) : Tail(q)[i] = q[i + 1]
  BY HeadTailProperties
<1>2. \A i \in DOMAIN Tail(q) : i + 1 \in DOMAIN q /\ Tail(q)[i] = q[i + 1]
  BY <1>1
<1>3. Ascending(Tail(q))
  BY <1>1, <1>2 DEF Ascending
<1>4. Among(Tail(q), q)
  BY <1>1, <1>2 DEF Among
<1> QED
  BY <1>1, <1>3, <1>4 DEF Part

LEMMA PartOfPart ==
  ASSUME NEW p, NEW q, NEW r, Part(p, q), Part(q, r)
  PROVE  Part(p, r)
BY AmongTransitive DEF Part

(* What a link forwards is a part of its queue: the rank of an index among *)
(* those that are kept is a bijection.                                     *)
LEMMA ForwardedPart ==
  ASSUME NEW q \in Seq(Nat), Ascending(q)
  PROVE  Part(Forwarded(q), q)
<1> DEFINE kept == {i \in 1 .. Len(q) : q[i] \notin Costly}
           upTo(i) == {j \in kept : j <= i}
           rank(i) == Cardinality(upTo(i))
           N == Cardinality(kept)
           idx(k) == CHOOSE i \in kept : rank(i) = k
<1>1. Len(q) \in Nat /\ DOMAIN q = 1 .. Len(q) /\ \A i \in 1 .. Len(q) : q[i] \in Nat
  BY LenProperties
<1>2. IsFiniteSet(kept) /\ N \in Nat
  <2>1. IsFiniteSet(1 .. Len(q)) /\ kept \in SUBSET (1 .. Len(q))
    BY <1>1, FS_Interval
  <2> QED
    BY <2>1, FS_Subset, FS_CardinalityType
<1>3. \A i \in kept : IsFiniteSet(upTo(i)) /\ rank(i) \in 1 .. N
  <2> SUFFICES ASSUME NEW i \in kept PROVE IsFiniteSet(upTo(i)) /\ rank(i) \in 1 .. N
    OBVIOUS
  <2>1. IsFiniteSet(upTo(i)) /\ rank(i) <= N
    BY <1>2, FS_Subset
  <2>2. i \in upTo(i)
    BY <1>1
  <2>3. rank(i) \in Nat /\ rank(i) # 0
    BY <2>1, <2>2, FS_CardinalityType, FS_EmptySet
  <2> QED
    BY <1>2, <2>1, <2>3
<1>4. \A i, j \in kept : i < j => rank(i) < rank(j)
  <2> SUFFICES ASSUME NEW i \in kept, NEW j \in kept, i < j PROVE rank(i) < rank(j)
    OBVIOUS
  <2>1. upTo(i) \in SUBSET upTo(j) /\ j \in upTo(j) /\ j \notin upTo(i)
    BY <1>1
  <2>2. rank(i) <= rank(j) /\ rank(i) # rank(j)
    BY <1>3, <2>1, FS_Subset
  <2> HIDE DEF rank, kept, upTo, N
  <2>3. rank(i) \in Int /\ rank(j) \in Int
    BY <1>2, <1>3
  <2> QED
    BY <2>2, <2>3
<1>5. \A k \in 1 .. N : \E i \in kept : rank(i) = k
  <2> DEFINE f == [i \in kept |-> rank(i)]
  <2>1. \A i, j \in kept : rank(i) = rank(j) => i = j
    <3> SUFFICES ASSUME NEW i \in kept, NEW j \in kept, rank(i) = rank(j), i # j PROVE FALSE
      OBVIOUS
    <3>1. i < j \/ j < i
      BY <1>1
    <3>2. rank(i) < rank(j) \/ rank(j) < rank(i)
      BY <1>4, <3>1
    <3> HIDE DEF rank, kept, upTo, N
    <3>3. rank(i) \in Int /\ rank(j) \in Int
      BY <1>2, <1>3
    <3> QED
      BY <3>2, <3>3
  <2> HIDE DEF rank
  <2>2. f \in Injection(kept, 1 .. N)
    BY <1>3, <2>1 DEF Injection, IsInjective
  <2>3. IsFiniteSet(1 .. N) /\ Cardinality(1 .. N) = N
    BY <1>2, FS_Interval
  <2>4. f \in Surjection(kept, 1 .. N)
    BY <2>2, <2>3, FS_Injection
  <2> QED
    BY <2>4 DEF Surjection
<1> HIDE DEF rank, upTo, N
<1>6. \A k \in 1 .. N : idx(k) \in kept /\ rank(idx(k)) = k
  BY <1>5
<1> HIDE DEF idx, kept
<1>7. \A k, l \in 1 .. N : k < l => idx(k) < idx(l)
  <2> SUFFICES ASSUME NEW k \in 1 .. N, NEW l \in 1 .. N, k < l, ~(idx(k) < idx(l)) PROVE FALSE
    OBVIOUS
  <2>1. idx(k) \in Nat /\ idx(l) \in Nat
    BY <1>1, <1>6 DEF kept
  <2>2. idx(k) # idx(l)
    BY <1>2, <1>6
  <2>3. idx(l) < idx(k)
    BY <2>1, <2>2
  <2>4. rank(idx(l)) < rank(idx(k))
    BY <1>4, <1>6, <2>3
  <2> QED
    BY <1>2, <1>6, <2>4
<1>8. Forwarded(q) = [k \in 1 .. N |-> q[idx(k)]]
  BY DEF Forwarded, idx, rank, upTo, N, kept
<1>9. \A k \in 1 .. N : idx(k) \in DOMAIN q /\ q[idx(k)] \in Nat
  BY <1>1, <1>6 DEF kept
<1> QED
  <2> DEFINE v == [k \in 1 .. N |-> q[idx(k)]]
  <2>1. v \in Seq(Nat) /\ DOMAIN v = 1 .. N
    BY <1>2, <1>9
  <2>2. Ascending(v)
    BY <1>7, <1>9 DEF Ascending
  <2>3. Among(v, q)
    BY <1>9 DEF Among
  <2> QED
    BY <1>8, <2>1, <2>2, <2>3 DEF Part

-----------------------------------------------------------------------------
(* What holds of the fields between two calls of the functions of a step,  *)
(* when n events have been queued.                                         *)

Params ==
    /\ kind \in {"batch", "oneway", "twoway", "link"}
    /\ maxOutstanding \in Nat \ {0} /\ retryCount \in Int /\ dropEvents \in BOOLEAN
    /\ kind \in {"batch", "link"} => maxOutstanding = 1

Ordered(t, n) ==
    /\ Ascending(t.sent) /\ Ascending(t.batched) /\ Ascending(t.events)
    /\ Before(t.sent, t.batched) /\ Before(t.sent, t.events) /\ Before(t.batched, t.events)
    /\ Within(t.sent, n) /\ Within(t.batched, n) /\ Within(t.events, n)

CallsSent(t) == \A c \in t.calls : c # <<>> /\ Among(c, t.sent)

Counts(t) ==
    /\ IsFiniteSet(t.calls)
    /\ t.outstanding = Cardinality(t.calls) + (IF t.flusher THEN 1 ELSE 0)
    /\ t.outstanding <= maxOutstanding

OfKind(t) == kind # "batch" => t.flusher = FALSE /\ t.batched = <<>>

Sound(t, n) == t \in Sub /\ Ordered(t, n) /\ CallsSent(t) /\ Counts(t) /\ OfKind(t)

(* A queue that flush() may be called with, and one that it leaves. *)
Waits(t) ==
    /\ QueueSizeMax > 0 => Len(t.events) <= QueueSizeMax
    /\ t.events # <<>> => t.state = "online"
    /\ t.flusher /\ t.state = "online" => t.events # <<>>
Moves(t) == Waits(t) /\ (t.events # <<>> => t.outstanding > 0)

(* From t to u the subscriber sends more, if it is online. *)
Grows(t, u) ==
    /\ Len(t.sent) <= Len(u.sent) /\ SubSeq(u.sent, 1, Len(t.sent)) = t.sent
    /\ Errored(t.state) => Errored(u.state)
    /\ t.state # "online" => u.sent = t.sent /\ u.state # "online"

Outcome(t, u, n) ==
    Sound(u, n) /\ Moves(u) /\ Grows(t, u) /\ (Shutdown /\ Idle(u) => u.notify)

LEMMA SameSent ==
  ASSUME NEW n \in Nat, NEW t, NEW u, Sound(t, n), u.sent = t.sent,
         Errored(t.state) => Errored(u.state), t.state # "online" => u.state # "online"
  PROVE  Grows(t, u)
<1>1. t.sent \in Seq(Nat) /\ Len(t.sent) \in Nat
  BY DEF Sound, Sub
<1> QED
  BY <1>1, SubSeqFull DEF Grows

(* Events may leave the queue. *)
LEMMA EventsTaken ==
  ASSUME NEW n \in Nat, NEW t, Sound(t, n), NEW q, Part(q, t.events)
  PROVE  Sound([t EXCEPT !.events = q], n)
<1> DEFINE u == [t EXCEPT !.events = q]
<1>1. /\ t.sent \in Seq(Nat) /\ t.batched \in Seq(Nat) /\ t.events \in Seq(Nat)
      /\ q \in Seq(Nat) /\ Ascending(q)
  BY DEF Sound, Sub, Part
<1>2. u \in Sub /\ u.events = q /\ u.sent = t.sent /\ u.batched = t.batched /\ u.calls = t.calls
      /\ u.outstanding = t.outstanding /\ u.flusher = t.flusher
  BY <1>1 DEF Sound, Sub
<1>3. Ordered(u, n)
  BY <1>1, <1>2, PartOrder DEF Sound, Ordered
<1> QED
  BY <1>2, <1>3 DEF Sound, CallsSent, Counts, OfKind

LEMMA FailedOutcome ==
  ASSUME Params, NEW n \in Nat, NEW t, Sound(t, n), t.events # <<>> => t.state = "online",
         NEW hard \in BOOLEAN
  PROVE  LET u == Failed(t, hard)
         IN Outcome(t, u, n) /\ u.events = <<>> /\ u.state # "online" /\ u.sent = t.sent
            /\ u.outstanding = t.outstanding /\ (Shutdown => u.notify)
<1> DEFINE u == Failed(t, hard)
           e == [t EXCEPT !.events = <<>>]
<1>1. Part(<<>>, t.events)
  BY EmptyParts DEF Sound, Sub
<1>2. Sound(e, n)
  BY <1>1, EventsTaken
<1>3. /\ u \in Sub /\ u.events = <<>> /\ u.state # "online" /\ u.sent = t.sent /\ u.calls = t.calls
      /\ u.batched = t.batched /\ u.outstanding = t.outstanding /\ u.flusher = t.flusher
      /\ Errored(t.state) => Errored(u.state)
      /\ Shutdown => u.notify
  <2>1. t \in Sub
    BY DEF Sound
  <2>2. CASE Errored(t.state) \/ (~hard /\ t.state = "offline" /\ ~t.due)
    BY <2>1, <2>2 DEF Failed, Sub, Errored, Shutdown
  <2>3. CASE ~(Errored(t.state) \/ (~hard /\ t.state = "offline" /\ ~t.due))
    <3> DEFINE v == IF ~hard /\ (retryCount = -1 \/ t.currentRetry < retryCount)
                    THEN Retry(t) ELSE [t EXCEPT !.events = <<>>, !.state = "error"]
    <3>1. /\ v \in Sub /\ v.events = <<>> /\ v.state # "online" /\ v.sent = t.sent /\ v.calls = t.calls
          /\ v.batched = t.batched /\ v.outstanding = t.outstanding /\ v.flusher = t.flusher
      <4>1. CASE ~hard /\ (retryCount = -1 \/ t.currentRetry < retryCount)
        <5>1. v = Retry(t)
          BY <4>1
        <5> HIDE DEF v
        <5>2. t.currentRetry + 1 \in Nat /\ <<>> \in Seq(Nat)
          BY <2>1, EmptySeq DEF Sub
        <5>3. v = [t EXCEPT !.due = FALSE, !.currentRetry = t.currentRetry + 1, !.events = <<>>, !.state = "offline"]
          BY <5>1 DEF Retry
        <5> QED
          BY <2>1, <5>2, <5>3 DEF Sub, States
      <4>2. CASE ~(~hard /\ (retryCount = -1 \/ t.currentRetry < retryCount))
        <5>1. v = [t EXCEPT !.events = <<>>, !.state = "error"]
          BY <4>2
        <5> HIDE DEF v
        <5> QED
          BY <2>1, <5>1, EmptySeq DEF Sub, States
      <4> QED
        BY <4>1, <4>2
    <3>2. u = [v EXCEPT !.notify = @ \/ (Shutdown /\ v.events = <<>>)]
      BY <2>3 DEF Failed
    <3> HIDE DEF v, u
    <3> QED
      BY <2>3, <3>1, <3>2 DEF Sub, Errored, Shutdown
  <2> QED
    BY <2>2, <2>3
<1> HIDE DEF u
<1>4. Sound(u, n)
  <2>1. t \in Sub /\ e.events = <<>> /\ e.sent = t.sent /\ e.calls = t.calls /\ e.batched = t.batched
        /\ e.outstanding = t.outstanding /\ e.flusher = t.flusher
    BY DEF Sound, Sub
  <2> HIDE DEF e
  <2> QED
    BY <1>2, <1>3, <2>1 DEF Sound, Ordered, CallsSent, Counts, OfKind
<1>5. Grows(t, u)
  BY <1>3, SameSent
<1>6. Moves(u)
  BY <1>3, EmptySeq, SizeAssumption DEF Moves, Waits
<1> QED
  BY <1>3, <1>4, <1>5, <1>6 DEF Outcome, u

(* Every event of an invocation is a new one. *)
LEMMA FreshCalls ==
  ASSUME NEW n \in Nat, NEW t, Sound(t, n),
         NEW m \in 0 .. Len(t.events), NEW async \in SUBSET (1 .. m)
  PROVE  LET fresh == {<<t.events[i]>> : i \in async}
         IN /\ IsFiniteSet(t.calls \cup fresh)
            /\ Cardinality(t.calls \cup fresh) = Cardinality(t.calls) + Cardinality(async)
            /\ Cardinality(async) \in Nat
<1> DEFINE fresh == {<<t.events[i]>> : i \in async}
           f == [i \in async |-> <<t.events[i]>>]
<1>1. /\ t.sent \in Seq(Nat) /\ t.events \in Seq(Nat) /\ Len(t.events) \in Nat
      /\ DOMAIN t.events = 1 .. Len(t.events)
      /\ \A i \in async : i \in DOMAIN t.events /\ t.events[i] \in Nat
  BY DEF Sound, Sub
<1>2. IsFiniteSet(async) /\ Cardinality(async) \in Nat
  <2>1. IsFiniteSet(1 .. m)
    BY <1>1, FS_Interval
  <2> QED
    BY <2>1, FS_Subset, FS_CardinalityType
<1>3. \A i, j \in async : <<t.events[i]>> = <<t.events[j]>> => i = j
  <2> SUFFICES ASSUME NEW i \in async, NEW j \in async, t.events[i] = t.events[j], i # j PROVE FALSE
    OBVIOUS
  <2>1. i < j \/ j < i
    BY <1>1
  <2>2. Ascending(t.events)
    BY DEF Sound, Ordered
  <2>3. t.events[i] < t.events[j] \/ t.events[j] < t.events[i]
    BY <1>1, <2>1, <2>2 DEF Ascending
  <2> QED
    BY <1>1, <2>3
<1>4. IsFiniteSet(fresh) /\ Cardinality(fresh) = Cardinality(async)
  <2>1. f \in Bijection(async, fresh)
    BY <1>3 DEF Bijection, Injection, Surjection, IsInjective
  <2> QED
    BY <1>2, <2>1, FS_Bijection DEF ExistsBijection
<1>5. t.calls \cap fresh = {}
  <2> SUFFICES ASSUME NEW i \in async, <<t.events[i]>> \in t.calls PROVE FALSE
    OBVIOUS
  <2>1. Among(<<t.events[i]>>, t.sent) /\ Before(t.sent, t.events)
    BY DEF Sound, CallsSent, Ordered
  <2>2. PICK j \in DOMAIN t.sent : t.events[i] = t.sent[j]
    BY <2>1 DEF Among
  <2>3. t.sent[j] < t.events[i]
    BY <1>1, <2>1 DEF Before
  <2> QED
    BY <1>1, <2>2, <2>3
<1>6. IsFiniteSet(t.calls) /\ Cardinality(t.calls) \in Nat
  BY FS_CardinalityType DEF Sound, Counts
<1> HIDE DEF fresh
<1>7. /\ IsFiniteSet(t.calls \cup fresh)
      /\ Cardinality(t.calls \cup fresh) = Cardinality(t.calls) + Cardinality(fresh) - Cardinality(t.calls \cap fresh)
  BY <1>4, <1>6, FS_Union
<1>8. Cardinality(t.calls \cap fresh) = 0
  BY <1>5, FS_EmptySet
<1> QED
  BY <1>2, <1>4, <1>6, <1>7, <1>8 DEF fresh

LEMMA InvokedSound ==
  ASSUME Params, kind # "batch", NEW n \in Nat, NEW t, Sound(t, n),
         NEW m \in 0 .. Len(t.events), NEW async \in SUBSET (1 .. m),
         t.outstanding + Cardinality(async) <= maxOutstanding
  PROVE  LET u == Invoked(t, m, async)
         IN /\ Sound(u, n) /\ Cardinality(async) \in Nat
            /\ u.events = Suffix(t.events, m) /\ Len(u.events) = Len(t.events) - m
            /\ u.outstanding = t.outstanding + Cardinality(async)
            /\ u.state = t.state /\ u.flusher = FALSE /\ u.notify = t.notify
            /\ Len(t.sent) <= Len(u.sent) /\ SubSeq(u.sent, 1, Len(t.sent)) = t.sent
<1> DEFINE fresh == {<<t.events[i]>> : i \in async}
           u == Invoked(t, m, async)
           a == Prefix(t.events, m)
           b == Suffix(t.events, m)
<1>1. /\ t \in Sub /\ t.sent \in Seq(Nat) /\ t.events \in Seq(Nat) /\ t.flusher = FALSE /\ t.batched = <<>>
      /\ t.outstanding \in Nat /\ Ordered(t, n) /\ CallsSent(t) /\ Counts(t)
  BY DEF Sound, Sub, OfKind
<1>2. /\ Part(a, t.events) /\ Part(b, t.events) /\ Before(a, b) /\ Len(a) = m /\ Len(b) = Len(t.events) - m
      /\ \A i \in 1 .. m : a[i] = t.events[i]
  BY <1>1, PrefixSuffix DEF Ordered
<1>3. /\ IsFiniteSet(t.calls \cup fresh)
      /\ Cardinality(t.calls \cup fresh) = Cardinality(t.calls) + Cardinality(async)
      /\ Cardinality(async) \in Nat
  BY FreshCalls
<1>4. a \in Seq(Nat) /\ b \in Seq(Nat) /\ t.sent \o a \in Seq(Nat)
  BY <1>1, <1>2, ConcatProperties DEF Part
<1>5. \A i \in async : <<t.events[i]>> \in Seq(Nat) /\ <<t.events[i]>> # <<>>
                      /\ <<t.events[i]>>[1] = t.events[i] /\ DOMAIN <<t.events[i]>> = {1}
  <2>1. \A x \in Nat : <<x>> \in Seq(Nat) /\ <<x>> # <<>> /\ <<x>>[1] = x /\ DOMAIN <<x>> = {1}
    OBVIOUS
  <2>2. \A i \in async : t.events[i] \in Nat
    BY <1>1
  <2> QED
    BY <2>1, <2>2
<1>6. u = [t EXCEPT !.events = b, !.sent = t.sent \o a, !.outstanding = t.outstanding + Cardinality(async),
                    !.calls = t.calls \cup fresh]
  BY DEF Invoked
<1> HIDE DEF u, a, b
<1>7. t.calls \cup fresh \in SUBSET Seq(Nat)
  <2>1. t.calls \in SUBSET Seq(Nat)
    BY <1>1 DEF Sub
  <2> QED
    BY <1>5, <2>1
<1>8. \A c \in fresh : c # <<>> /\ Among(c, a)
  <2> SUFFICES ASSUME NEW i \in async PROVE <<t.events[i]>> # <<>> /\ Among(<<t.events[i]>>, a)
    OBVIOUS
  <2>1. i \in 1 .. m /\ a[i] = t.events[i]
    BY <1>2
  <2>2. DOMAIN a = 1 .. m
    BY <1>2, <1>4
  <2> QED
    BY <1>5, <2>1, <2>2 DEF Among
<1> HIDE DEF fresh
<1>9. /\ u \in Sub /\ u.events = b /\ u.sent = t.sent \o a /\ u.calls = t.calls \cup fresh
      /\ u.outstanding = t.outstanding + Cardinality(async)
      /\ u.state = t.state /\ u.flusher = FALSE /\ u.batched = <<>> /\ u.notify = t.notify
  <2> DEFINE k == t.outstanding + Cardinality(async)
             c == t.calls \cup fresh
             d == t.sent \o a
  <2>1. k \in Nat /\ c \in SUBSET Seq(Nat) /\ d \in Seq(Nat) /\ b \in Seq(Nat)
    BY <1>1, <1>3, <1>4, <1>7
  <2>2. u = [t EXCEPT !.events = b, !.sent = d, !.outstanding = k, !.calls = c]
    BY <1>6
  <2> HIDE DEF k, c, d
  <2>3. /\ u \in Sub /\ u.events = b /\ u.sent = d /\ u.calls = c /\ u.outstanding = k
        /\ u.state = t.state /\ u.flusher = t.flusher /\ u.batched = t.batched /\ u.notify = t.notify
    BY <1>1, <2>1, <2>2 DEF Sub
  <2> QED
    BY <1>1, <2>3 DEF k, c, d
<1>10. Ordered(u, n)
  <2>1. Before(t.sent, a) /\ Before(t.sent, b) /\ Within(a, n) /\ Within(b, n) /\ Ascending(a) /\ Ascending(b)
    BY <1>1, <1>2, PartOrder DEF Ordered, Part
  <2>2. Ascending(t.sent \o a) /\ Before(t.sent \o a, b) /\ Within(t.sent \o a, n)
    BY <1>1, <1>2, <1>4, <2>1, ConcatOrder, ConcatParts DEF Ordered
  <2>3. Ascending(<<>>) /\ Before(t.sent \o a, <<>>) /\ Before(<<>>, b) /\ Within(<<>>, n)
    BY <1>4, EmptyParts
  <2> QED
    BY <1>9, <2>1, <2>2, <2>3 DEF Ordered
<1>11. CallsSent(u)
  <2>1. Among(t.sent, t.sent \o a) /\ Among(a, t.sent \o a)
    BY <1>1, <1>4, ConcatParts
  <2> QED
    BY <1>1, <1>8, <1>9, <2>1, AmongTransitive DEF CallsSent
<1>12. Counts(u)
  <2>1. IsFiniteSet(t.calls) /\ Cardinality(t.calls) \in Nat /\ t.outstanding = Cardinality(t.calls)
    BY <1>1, FS_CardinalityType DEF Counts
  <2> QED
    BY <1>3, <1>9, <2>1 DEF Counts
<1>13. Len(t.sent) <= Len(u.sent) /\ SubSeq(u.sent, 1, Len(t.sent)) = t.sent
  BY <1>1, <1>4, <1>9, ConcatExtends
<1> QED
  BY <1>2, <1>3, <1>9, <1>10, <1>11, <1>12, <1>13 DEF Sound, OfKind, u, b

LEMMA SameRest ==
  ASSUME NEW n \in Nat, NEW t, Sound(t, n), NEW u \in Sub, u.sent = t.sent, u.batched = t.batched,
         u.events = t.events, u.calls = t.calls, u.outstanding = t.outstanding, u.flusher = t.flusher
  PROVE  Sound(u, n)
BY DEF Sound, Ordered, CallsSent, Counts, OfKind

LEMMA NotifyIdleSound ==
  ASSUME NEW n \in Nat, NEW t, Sound(t, n)
  PROVE  LET u == NotifyIdle(t)
         IN /\ Sound(u, n) /\ u.sent = t.sent /\ u.events = t.events /\ u.state = t.state
            /\ u.outstanding = t.outstanding /\ u.flusher = t.flusher
            /\ Shutdown /\ Idle(u) => u.notify
<1> DEFINE u == NotifyIdle(t)
<1>1. t \in Sub
  BY DEF Sound
<1>2. u \in Sub /\ u.sent = t.sent /\ u.events = t.events /\ u.state = t.state /\ u.calls = t.calls
      /\ u.outstanding = t.outstanding /\ u.flusher = t.flusher /\ u.batched = t.batched
      /\ u.notify = (t.notify \/ (Shutdown /\ Idle(t)))
  BY <1>1 DEF NotifyIdle, Sub, Shutdown, Idle
<1> HIDE DEF u
<1>3. Sound(u, n)
  BY <1>2, SameRest
<1> QED
  BY <1>2, <1>3 DEF u, Idle

LEMMA RetryReset ==
  ASSUME NEW n \in Nat, NEW t, Sound(t, n)
  PROVE  LET u == [t EXCEPT !.currentRetry = 0]
         IN /\ Sound(u, n) /\ u.sent = t.sent /\ u.events = t.events /\ u.state = t.state
            /\ u.outstanding = t.outstanding /\ u.flusher = t.flusher /\ u.notify = t.notify
<1> DEFINE u == [t EXCEPT !.currentRetry = 0]
<1>1. t \in Sub
  BY DEF Sound
<1>2. u \in Sub /\ u.sent = t.sent /\ u.events = t.events /\ u.state = t.state /\ u.calls = t.calls
      /\ u.outstanding = t.outstanding /\ u.flusher = t.flusher /\ u.batched = t.batched /\ u.notify = t.notify
  BY <1>1 DEF Sub
<1> HIDE DEF u
<1>3. Sound(u, n)
  BY <1>2, SameRest
<1> QED
  BY <1>2, <1>3 DEF u

-----------------------------------------------------------------------------
(* flush() of each class. *)

FlushPre(t, n) == Params /\ Sound(t, n) /\ Waits(t) /\ ~(Shutdown /\ Idle(t))

LEMMA NothingFlushed ==
  ASSUME NEW n \in Nat, NEW t, FlushPre(t, n), t.state # "online" \/ t.events = <<>> \/ t.outstanding > 0
  PROVE  Outcome(t, t, n)
<1>1. Grows(t, t)
  BY SameSent DEF FlushPre
<1> QED
  BY <1>1 DEF FlushPre, Outcome, Moves, Waits

LEMMA FlushBatchOutcome ==
  ASSUME NEW n \in Nat, NEW t, FlushPre(t, n), kind = "batch", NEW u \in FlushBatch(t)
  PROVE  Outcome(t, u, n)
<1>1. t \in Sub /\ t.outstanding \in Nat
  BY DEF FlushPre, Sound, Sub
<1>2. CASE t.state # "online" \/ t.events = <<>> \/ t.outstanding # 0
  <2>1. u = t
    BY <1>2 DEF FlushBatch
  <2> QED
    BY <1>1, <1>2, <2>1, NothingFlushed
<1>3. CASE ~(t.state # "online" \/ t.events = <<>> \/ t.outstanding # 0)
  <2>1. u = [t EXCEPT !.outstanding = 1, !.flusher = TRUE]
    BY <1>3 DEF FlushBatch
  <2>2. u \in Sub /\ u.sent = t.sent /\ u.events = t.events /\ u.state = t.state /\ u.calls = t.calls
        /\ u.outstanding = 1 /\ u.flusher = TRUE /\ u.batched = t.batched
    BY <1>1, <2>1 DEF Sub
  <2>3. IsFiniteSet(t.calls) /\ Cardinality(t.calls) = 0 /\ maxOutstanding = 1
    <3>1. IsFiniteSet(t.calls) /\ Cardinality(t.calls) \in Nat
      BY FS_CardinalityType DEF FlushPre, Sound, Counts
    <3> QED
      BY <1>1, <1>3, <3>1 DEF FlushPre, Sound, Counts, Params
  <2>4. Sound(u, n)
    BY <2>2, <2>3 DEF FlushPre, Sound, Ordered, CallsSent, Counts, OfKind
  <2>5. Grows(t, u)
    BY <2>2, SameSent DEF FlushPre
  <2> QED
    BY <1>3, <2>2, <2>4, <2>5 DEF FlushPre, Outcome, Moves, Waits, Idle
<1> QED
  BY <1>2, <1>3

(* The invocation that throws after m others. *)
LEMMA ThrownOutcome ==
  ASSUME NEW n \in Nat, NEW t, Params, t.state = "online", NEW u, Sound(u, n),
         u.events # <<>>, u.state = "online",
         Len(t.sent) <= Len(u.sent), SubSeq(u.sent, 1, Len(t.sent)) = t.sent, NEW hard \in BOOLEAN
  PROVE  Outcome(t, Failed(Dropped(u), hard), n)
<1> DEFINE v == [u EXCEPT !.events = Tail(u.events)]
           w == Failed(v, hard)
<1>1. Part(Tail(u.events), u.events)
  BY TailPart DEF Sound, Sub, Ordered
<1>2. Sound(v, n)
  BY <1>1, EventsTaken
<1>3. v.state = "online" /\ v.sent = u.sent
  BY DEF Sound, Sub
<1> HIDE DEF v
<1>4. Outcome(v, w, n) /\ w.sent = v.sent
  BY <1>2, <1>3, FailedOutcome
<1> HIDE DEF w
<1>5. Grows(t, w)
  BY <1>3, <1>4 DEF Grows, Errored
<1>6. Outcome(t, w, n)
  BY <1>4, <1>5 DEF Outcome
<1> QED
  BY <1>6 DEF v, w, Dropped

LEMMA InvokedAll ==
  ASSUME Params, kind # "batch", NEW n \in Nat, NEW t, Sound(t, n),
         NEW k \in 0 .. Len(t.events), t.outstanding + k <= maxOutstanding
  PROVE  LET v == Invoked(t, k, 1 .. k)
         IN /\ Sound(v, n) /\ v.state = t.state /\ v.flusher = FALSE
            /\ v.outstanding = t.outstanding + k /\ Len(v.events) = Len(t.events) - k
            /\ Len(t.sent) <= Len(v.sent) /\ SubSeq(v.sent, 1, Len(t.sent)) = t.sent
<1> DEFINE all == 1 .. k
           v == Invoked(t, k, all)
<1>1. k \in Nat
  BY DEF Sound, Sub
<1>2. all \in SUBSET (1 .. k) /\ Cardinality(all) = k
  BY <1>1, FS_Interval
<1> HIDE DEF all
<1>3. t.outstanding + Cardinality(all) <= maxOutstanding
  BY <1>2
<1>4. /\ Sound(v, n) /\ Len(v.events) = Len(t.events) - k
      /\ v.outstanding = t.outstanding + Cardinality(all)
      /\ v.state = t.state /\ v.flusher = FALSE
      /\ Len(t.sent) <= Len(v.sent) /\ SubSeq(v.sent, 1, Len(t.sent)) = t.sent
  BY <1>2, <1>3, InvokedSound, ZenonT(60)
<1> HIDE DEF v
<1>5. v.outstanding = t.outstanding + k
  BY <1>2, <1>4
<1> QED
  BY <1>4, <1>5 DEF v, all

LEMMA FlushTwowayOutcome ==
  ASSUME NEW n \in Nat, NEW t, FlushPre(t, n), kind = "twoway", NEW u \in FlushTwoway(t)
  PROVE  Outcome(t, u, n)
<1> DEFINE m == IF Len(t.events) < maxOutstanding - t.outstanding
                THEN Len(t.events) ELSE maxOutstanding - t.outstanding
<1>1. /\ t \in Sub /\ t.outstanding \in Nat /\ t.events \in Seq(Nat) /\ Len(t.events) \in Nat
      /\ maxOutstanding \in Nat \ {0} /\ t.outstanding <= maxOutstanding
      /\ Sound(t, n) /\ Params
  BY DEF FlushPre, Sound, Sub, Counts, Params
<1>2. CASE t.state # "online" \/ t.events = <<>> \/ m <= 0
  <2>1. u = t
    BY <1>2 DEF FlushTwoway
  <2>2. t.events # <<>> => Len(t.events) > 0
    BY <1>1
  <2>3. t.state # "online" \/ t.events = <<>> \/ t.outstanding > 0
    BY <1>1, <1>2, <2>2
  <2> QED
    BY <2>1, <2>3, NothingFlushed
<1>3. CASE ~(t.state # "online" \/ t.events = <<>> \/ m <= 0)
  <2>1. m \in 1 .. Len(t.events) /\ t.outstanding + m <= maxOutstanding
        /\ (m = Len(t.events) \/ t.outstanding + m = maxOutstanding)
    BY <1>1, <1>3, SMTT(30)
  <2>2. \/ u = Invoked(t, m, 1 .. m)
        \/ \E k \in 0 .. m - 1, hard \in BOOLEAN :
             u = Failed(Dropped(Invoked(t, k, 1 .. k)), hard)
    BY <1>3 DEF FlushTwoway
  <2> HIDE DEF m
  <2>4. \A k \in 0 .. m : k \in 0 .. Len(t.events) /\ t.outstanding + k <= maxOutstanding
    BY <1>1, <2>1
  <2>5. CASE u = Invoked(t, m, 1 .. m)
    <3>1. /\ Sound(u, n) /\ u.state = "online" /\ u.outstanding = t.outstanding + m /\ u.flusher = FALSE
          /\ Len(u.events) = Len(t.events) - m
          /\ Len(t.sent) <= Len(u.sent) /\ SubSeq(u.sent, 1, Len(t.sent)) = t.sent
      <4>1. m \in 0 .. Len(t.events) /\ t.outstanding + m <= maxOutstanding
        BY <1>1, <2>1
      <4> QED
        BY <1>1, <1>3, <2>5, <4>1, InvokedAll
    <3>2. u.outstanding > 0
      BY <1>1, <2>1, <3>1
    <3>3. Moves(u)
      BY <1>1, <2>1, <3>1, <3>2, SizeAssumption DEF Moves, Waits, FlushPre
    <3>4. Grows(t, u)
      BY <1>3, <3>1 DEF Grows, Errored
    <3> QED
      BY <3>1, <3>2, <3>3, <3>4 DEF Outcome, Idle
  <2>6. ASSUME NEW k \in 0 .. m - 1, NEW hard \in BOOLEAN,
               u = Failed(Dropped(Invoked(t, k, 1 .. k)), hard)
        PROVE  Outcome(t, u, n)
    <3> DEFINE v == Invoked(t, k, 1 .. k)
    <3>1. /\ Sound(v, n) /\ v.state = "online" /\ Len(v.events) = Len(t.events) - k
          /\ Len(t.sent) <= Len(v.sent) /\ SubSeq(v.sent, 1, Len(t.sent)) = t.sent
      <4>1. k \in 0 .. Len(t.events) /\ t.outstanding + k <= maxOutstanding
        BY <2>1, <2>4
      <4> QED
        BY <1>1, <1>3, <4>1, InvokedAll
    <3> HIDE DEF v
    <3>2. Len(v.events) # 0
      BY <1>1, <2>1, <3>1
    <3>3. v.events # <<>>
      BY <3>2
    <3>4. Outcome(t, Failed(Dropped(v), hard), n)
      BY <1>1, <1>3, <3>1, <3>3, ThrownOutcome
    <3> QED
      BY <2>6, <3>4 DEF v
  <2> QED
    BY <2>2, <2>5, <2>6
<1> QED
  BY <1>2, <1>3

LEMMA RoundSound ==
  ASSUME Params, kind # "batch", NEW n \in Nat, NEW t, Sound(t, n),
         NEW m \in 0 .. Len(t.events), NEW async \in SUBSET (1 .. m),
         t.outstanding + Cardinality(async) <= maxOutstanding
  PROVE  LET u == Round(t, m, async)
         IN /\ Sound(u, n) /\ Cardinality(async) \in Nat /\ Len(u.events) = Len(t.events) - m
            /\ u.outstanding = t.outstanding + Cardinality(async)
            /\ u.state = t.state /\ u.flusher = FALSE
            /\ Len(t.sent) <= Len(u.sent) /\ SubSeq(u.sent, 1, Len(t.sent)) = t.sent
<1> DEFINE v == Invoked(t, m, async)
           u == Round(t, m, async)
<1>1. /\ Sound(v, n) /\ Cardinality(async) \in Nat /\ Len(v.events) = Len(t.events) - m
      /\ v.outstanding = t.outstanding + Cardinality(async)
      /\ v.state = t.state /\ v.flusher = FALSE
      /\ Len(t.sent) <= Len(v.sent) /\ SubSeq(v.sent, 1, Len(t.sent)) = t.sent
  BY InvokedSound, ZenonT(60)
<1> HIDE DEF v
<1>2. Sound(u, n) /\ u.sent = v.sent /\ u.events = v.events /\ u.state = v.state
      /\ u.outstanding = v.outstanding /\ u.flusher = v.flusher
  <2>1. u = [v EXCEPT !.currentRetry = 0] \/ u = v
    BY DEF Round, v
  <2> HIDE DEF u
  <2> QED
    BY <1>1, <2>1, RetryReset
<1> HIDE DEF u
<1> QED
  BY <1>1, <1>2 DEF u, v

LEMMA FlushOnewayOutcome ==
  ASSUME NEW n \in Nat, NEW t, FlushPre(t, n), kind = "oneway", NEW u \in FlushOneway(t)
  PROVE  Outcome(t, u, n)
<1> DEFINE len == Len(t.events)
<1>1. /\ t \in Sub /\ t.outstanding \in Nat /\ t.events \in Seq(Nat) /\ len \in Nat
      /\ maxOutstanding \in Nat \ {0} /\ t.outstanding <= maxOutstanding
      /\ Sound(t, n) /\ Params
  BY DEF FlushPre, Sound, Sub, Counts, Params
<1>2. CASE t.state # "online" \/ t.events = <<>> \/ Reached(t, {})
  <2>1. u = t
    BY <1>2 DEF FlushOneway
  <2>2. Cardinality({}) = 0
    BY FS_EmptySet
  <2>3. t.state # "online" \/ t.events = <<>> \/ t.outstanding > 0
    BY <1>1, <1>2, <2>2 DEF Reached
  <2> QED
    BY <2>1, <2>3, NothingFlushed
<1>3. CASE ~(t.state # "online" \/ t.events = <<>> \/ Reached(t, {}))
  <2>0. t.state = "online"
    BY <1>3
  <2>1. \/ \E m \in 0 .. len : \E async \in SUBSET (1 .. m) :
             ~Reached(t, async \ {m}) /\ (m = len \/ Reached(t, async)) /\ u = NotifyIdle(Round(t, m, async))
        \/ \E m \in 0 .. len - 1 : \E async \in SUBSET (1 .. m), hard \in BOOLEAN :
             ~Reached(t, async) /\ u = Failed(Dropped(Round(t, m, async)), hard)
    <3>1. (\E m \in 0 .. len : u \in Whole(t, m)) \/ (\E m \in 0 .. len - 1 : u \in Short(t, m))
      BY <1>3 DEF FlushOneway
    <3>2. ASSUME NEW m \in 0 .. len, u \in Whole(t, m)
          PROVE  \E async \in SUBSET (1 .. m) :
                   ~Reached(t, async \ {m}) /\ (m = len \/ Reached(t, async)) /\ u = NotifyIdle(Round(t, m, async))
      BY <3>2 DEF Whole
    <3>3. ASSUME NEW m \in 0 .. len - 1, u \in Short(t, m)
          PROVE  \E async \in SUBSET (1 .. m), hard \in BOOLEAN :
                   ~Reached(t, async) /\ u = Failed(Dropped(Round(t, m, async)), hard)
      BY <3>3 DEF Short
    <3> QED
      BY <3>1, <3>2, <3>3
  <2>2. \A m \in 0 .. len : \A async \in SUBSET (1 .. m) : IsFiniteSet(async) /\ Cardinality(async) \in Nat
    <3> SUFFICES ASSUME NEW m \in 0 .. len, NEW async \in SUBSET (1 .. m)
                 PROVE  IsFiniteSet(async) /\ Cardinality(async) \in Nat
      OBVIOUS
    <3>1. IsFiniteSet(1 .. m)
      BY <1>1, FS_Interval
    <3> QED
      BY <3>1, FS_Subset, FS_CardinalityType
  <2>3. ASSUME NEW m \in 0 .. len, NEW async \in SUBSET (1 .. m),
               ~Reached(t, async \ {m}), m = len \/ Reached(t, async),
               u = NotifyIdle(Round(t, m, async))
        PROVE  Outcome(t, u, n)
    <3> DEFINE v == Round(t, m, async)
    <3>1. IsFiniteSet(async) /\ Cardinality(async) \in Nat /\ Cardinality(async \ {m}) \in Nat
          /\ Cardinality(async) <= Cardinality(async \ {m}) + 1
      <4>1. IsFiniteSet(async) /\ Cardinality(async) \in Nat
        BY <2>2
      <4>2. IsFiniteSet(async \ {m})
            /\ Cardinality(async \ {m}) = IF m \in async THEN Cardinality(async) - 1 ELSE Cardinality(async)
        BY <4>1, FS_RemoveElement
      <4>3. Cardinality(async \ {m}) \in Nat
        BY <4>2, FS_CardinalityType
      <4> QED
        BY <4>1, <4>2, <4>3
    <3>2. t.outstanding + Cardinality(async) <= maxOutstanding
      BY <1>1, <2>3, <3>1 DEF Reached
    <3>3. /\ Sound(v, n) /\ Len(v.events) = len - m /\ v.outstanding = t.outstanding + Cardinality(async)
          /\ v.state = "online" /\ v.flusher = FALSE
          /\ Len(t.sent) <= Len(v.sent) /\ SubSeq(v.sent, 1, Len(t.sent)) = t.sent
      <4>1. kind # "batch" /\ Sound(t, n) /\ Params
        BY <1>1
      <4> QED
        BY <2>0, <3>2, <4>1, RoundSound
    <3> HIDE DEF v
    <3>4. u = NotifyIdle(v)
      BY <2>3 DEF v
    <3>5. /\ Sound(u, n) /\ u.sent = v.sent /\ u.events = v.events /\ u.state = v.state
          /\ u.outstanding = v.outstanding /\ u.flusher = v.flusher /\ (Shutdown /\ Idle(u) => u.notify)
      BY <3>3, <3>4, NotifyIdleSound
    <3>6. u.events # <<>> => u.outstanding > 0
      <4>1. m = len => u.events = <<>>
        BY <1>1, <3>3, <3>5 DEF Sound, Sub
      <4> QED
        BY <1>1, <2>3, <3>1, <3>3, <3>5, <4>1 DEF Reached
    <3>7. Moves(u)
      BY <1>1, <3>3, <3>5, <3>6, SizeAssumption DEF Moves, Waits, FlushPre
    <3>8. Grows(t, u)
      BY <1>3, <3>3, <3>5 DEF Grows, Errored
    <3> QED
      BY <3>5, <3>7, <3>8 DEF Outcome
  <2>4. ASSUME NEW m \in 0 .. len - 1, NEW async \in SUBSET (1 .. m), NEW hard \in BOOLEAN,
               ~Reached(t, async),
               u = Failed(Dropped(Round(t, m, async)), hard)
        PROVE  Outcome(t, u, n)
    <3> DEFINE v == Round(t, m, async)
    <3>0. m \in 0 .. len /\ m < len
      BY <1>1
    <3>1. t.outstanding + Cardinality(async) <= maxOutstanding
      <4>1. Cardinality(async) \in Nat
        BY <2>2, <3>0
      <4> QED
        BY <1>1, <2>4, <4>1 DEF Reached
    <3>2. /\ Sound(v, n) /\ Len(v.events) = len - m /\ v.state = "online"
          /\ Len(t.sent) <= Len(v.sent) /\ SubSeq(v.sent, 1, Len(t.sent)) = t.sent
      BY <1>1, <2>0, <3>0, <3>1, RoundSound, ZenonT(60)
    <3> HIDE DEF v
    <3>3. Len(v.events) # 0
      BY <1>1, <3>0, <3>2
    <3>4. v.events # <<>>
      BY <3>3
    <3>5. Outcome(t, Failed(Dropped(v), hard), n)
      BY <1>1, <1>3, <3>2, <3>4, ThrownOutcome
    <3> QED
      BY <2>4, <3>5 DEF v
  <2> QED
    BY <2>1, <2>3, <2>4
<1> QED
  BY <1>2, <1>3

LEMMA FlushLinkOutcome ==
  ASSUME NEW n \in Nat, NEW t, FlushPre(t, n), kind = "link", NEW u \in FlushLink(t)
  PROVE  Outcome(t, u, n)
<1> DEFINE v == Forwarded(t.events)
           w == [t EXCEPT !.events = <<>>]
<1>1. /\ t \in Sub /\ t.outstanding \in Nat /\ t.events \in Seq(Nat) /\ t.sent \in Seq(Nat)
      /\ t.flusher = FALSE /\ t.batched = <<>> /\ Sound(t, n) /\ Params /\ maxOutstanding = 1
      /\ Ordered(t, n)
  BY DEF FlushPre, Sound, Sub, OfKind, Params
<1>2. CASE t.state # "online" \/ t.outstanding > 0
  <2>1. u = t
    BY <1>2 DEF FlushLink
  <2> QED
    BY <1>2, <2>1, NothingFlushed
<1>3. CASE ~(t.state # "online" \/ t.outstanding > 0)
  <2>1. Part(v, t.events) /\ Part(<<>>, t.events)
    BY <1>1, ForwardedPart, EmptyParts DEF Ordered
  <2>2. Sound(w, n)
    BY <1>1, <2>1, EventsTaken
  <2>3. w.events = <<>> /\ w.state = "online" /\ w.sent = t.sent /\ w.outstanding = 0 /\ w.flusher = FALSE
    BY <1>1, <1>3 DEF Sub
  <2>4. \/ v = <<>> /\ u = NotifyIdle(w)
        \/ v # <<>> /\ u = [w EXCEPT !.outstanding = 1, !.calls = @ \cup {v}, !.sent = @ \o v]
        \/ \E hard \in BOOLEAN : u = NotifyIdle(Failed(w, hard))
    BY <1>3 DEF FlushLink
  <2> HIDE DEF w, v
  <2>5. CASE u = NotifyIdle(w)
    <3>1. /\ Sound(u, n) /\ u.sent = w.sent /\ u.events = w.events /\ u.state = w.state
          /\ u.outstanding = w.outstanding /\ u.flusher = w.flusher /\ (Shutdown /\ Idle(u) => u.notify)
      BY <2>2, <2>5, NotifyIdleSound
    <3>2. Grows(t, u)
      BY <1>1, <1>3, <2>3, <3>1, SameSent DEF Errored
    <3> QED
      BY <2>3, <3>1, <3>2, EmptySeq, SizeAssumption DEF Outcome, Moves, Waits
  <2>6. ASSUME NEW hard \in BOOLEAN, u = NotifyIdle(Failed(w, hard))
        PROVE  Outcome(t, u, n)
    <3> DEFINE x == Failed(w, hard)
    <3>1. Outcome(w, x, n) /\ x.events = <<>> /\ x.sent = w.sent
      <4>1. Params /\ Sound(w, n) /\ (w.events # <<>> => w.state = "online")
        BY <1>1, <2>2, <2>3
      <4>2. Outcome(w, Failed(w, hard), n) /\ Failed(w, hard).events = <<>> /\ Failed(w, hard).sent = w.sent
        BY <4>1, FailedOutcome, SMTT(30)
      <4> QED
        BY <4>2
    <3> HIDE DEF x
    <3>2. u = NotifyIdle(x)
      BY <2>6 DEF x
    <3>3. /\ Sound(u, n) /\ u.sent = x.sent /\ u.events = x.events /\ u.state = x.state
          /\ u.outstanding = x.outstanding /\ u.flusher = x.flusher /\ (Shutdown /\ Idle(u) => u.notify)
      BY <3>1, <3>2, NotifyIdleSound DEF Outcome
    <3>4. Moves(u)
      BY <3>1, <3>3 DEF Outcome, Moves, Waits
    <3>5. Grows(t, u)
      BY <1>1, <1>3, <2>3, <3>1, <3>3, SameSent DEF Errored
    <3> QED
      BY <3>3, <3>4, <3>5 DEF Outcome
  <2>7. CASE v # <<>> /\ u = [w EXCEPT !.outstanding = 1, !.calls = @ \cup {v}, !.sent = @ \o v]
    <3>1. v \in Seq(Nat) /\ Ascending(v) /\ Before(t.sent, v) /\ Within(v, n) /\ t.sent \o v \in Seq(Nat)
      BY <1>1, <2>1, PartOrder, ConcatProperties DEF Part, Ordered
    <3>2. w \in Sub /\ w.batched = <<>> /\ w.calls \in SUBSET Seq(Nat)
      BY <2>2, <1>1 DEF Sound, Sub, OfKind
    <3>3. w.calls = {}
      <4>1. IsFiniteSet(w.calls) /\ Cardinality(w.calls) \in Nat
        BY <2>2, FS_CardinalityType DEF Sound, Counts
      <4>2. Cardinality(w.calls) = 0
        BY <2>2, <2>3, <4>1 DEF Sound, Counts
      <4> QED
        BY <4>1, <4>2, FS_EmptySet
    <3>4. /\ u \in Sub /\ u.outstanding = 1 /\ u.calls = {v} /\ u.sent = t.sent \o v
          /\ u.events = <<>> /\ u.state = "online" /\ u.flusher = FALSE /\ u.batched = <<>>
      <4> DEFINE d == t.sent \o v
      <4>1. d \in Seq(Nat) /\ {v} \in SUBSET Seq(Nat)
        BY <3>1
      <4>2. u = [w EXCEPT !.outstanding = 1, !.calls = {v}, !.sent = d]
        BY <2>3, <2>7, <3>3
      <4> HIDE DEF d
      <4>3. /\ u \in Sub /\ u.outstanding = 1 /\ u.calls = {v} /\ u.sent = d
            /\ u.events = w.events /\ u.state = w.state /\ u.flusher = w.flusher /\ u.batched = w.batched
        BY <3>2, <4>1, <4>2 DEF Sub
      <4> QED
        BY <2>3, <3>2, <4>3 DEF d
    <3>5. Ordered(u, n)
      <4>1. Ascending(t.sent \o v) /\ Within(t.sent \o v, n)
        BY <1>1, <3>1, ConcatOrder, ConcatParts DEF Ordered
      <4>2. Ascending(<<>>) /\ Before(t.sent \o v, <<>>) /\ Before(<<>>, <<>>) /\ Within(<<>>, n)
        BY <3>1, EmptyParts, EmptySeq
      <4> QED
        BY <3>4, <4>1, <4>2 DEF Ordered
    <3>6. CallsSent(u)
      <4>1. Among(v, t.sent \o v)
        BY <1>1, <3>1, ConcatParts
      <4> QED
        BY <2>7, <3>4, <4>1 DEF CallsSent
    <3>7. Counts(u)
      <4>1. IsFiniteSet({v}) /\ Cardinality({v}) = 1
        BY FS_Singleton
      <4> QED
        BY <1>1, <3>4, <4>1 DEF Counts
    <3>8. Len(t.sent) <= Len(u.sent) /\ SubSeq(u.sent, 1, Len(t.sent)) = t.sent
      BY <1>1, <3>1, <3>4, ConcatExtends
    <3>9. Grows(t, u)
      BY <1>3, <3>4, <3>8 DEF Grows, Errored
    <3>10. Moves(u)
      BY <3>4, EmptySeq, SizeAssumption DEF Moves, Waits
    <3> QED
      BY <3>4, <3>5, <3>6, <3>7, <3>9, <3>10 DEF Outcome, Sound, OfKind, Idle
  <2> QED
    BY <2>4, <2>5, <2>6, <2>7
<1> QED
  BY <1>2, <1>3

LEMMA FlushOutcome ==
  ASSUME NEW n \in Nat, NEW t, FlushPre(t, n), NEW u \in Flush(t)
  PROVE  Outcome(t, u, n)
<1>1. kind \in {"batch", "oneway", "twoway", "link"}
  BY DEF FlushPre, Params
<1>2. CASE kind = "batch"
  BY <1>2, FlushBatchOutcome DEF Flush
<1>3. CASE kind = "oneway"
  BY <1>3, FlushOnewayOutcome DEF Flush
<1>4. CASE kind = "twoway"
  BY <1>4, FlushTwowayOutcome DEF Flush
<1>5. CASE kind = "link"
  BY <1>5, FlushLinkOutcome DEF Flush
<1> QED
  BY <1>1, <1>2, <1>3, <1>4, <1>5

-----------------------------------------------------------------------------
(* The callbacks. *)

(* An invocation ends: it is not counted any more. *)
LEMMA CallEnded ==
  ASSUME Params, NEW n \in Nat, NEW x, Sound(x, n), Moves(x), NEW c \in x.calls
  PROVE  LET t == Dec([x EXCEPT !.calls = @ \ {c}])
         IN Sound(t, n) /\ Waits(t) /\ t.sent = x.sent /\ t.state = x.state /\ t.events = x.events
            /\ t.notify = x.notify
<1> DEFINE d == x.calls \ {c}
           k == x.outstanding - 1
           t == Dec([x EXCEPT !.calls = @ \ {c}])
<1>1. x \in Sub /\ x.calls \in SUBSET Seq(Nat) /\ x.outstanding \in Nat /\ Counts(x) /\ CallsSent(x)
  BY DEF Sound, Sub
<1>2. IsFiniteSet(d) /\ Cardinality(d) = Cardinality(x.calls) - 1 /\ Cardinality(d) \in Nat
      /\ Cardinality(x.calls) \in Nat
  BY <1>1, FS_RemoveElement, FS_CardinalityType DEF Counts
<1>3. k \in Nat /\ k = Cardinality(d) + (IF x.flusher THEN 1 ELSE 0) /\ k <= maxOutstanding
  <2>1. maxOutstanding \in Nat /\ x.flusher \in BOOLEAN
    BY <1>1 DEF Params, Sub
  <2> QED
    BY <1>1, <1>2, <2>1 DEF Counts
<1>4. t = [x EXCEPT !.calls = d, !.outstanding = k]
  BY <1>1 DEF Dec, Sub
<1>5. d \in SUBSET Seq(Nat) /\ \A y \in d : y \in x.calls
  BY <1>1
<1> HIDE DEF d, k, t
<1>6. /\ t \in Sub /\ t.calls = d /\ t.outstanding = k /\ t.sent = x.sent /\ t.state = x.state /\ t.events = x.events
      /\ t.flusher = x.flusher /\ t.batched = x.batched /\ t.notify = x.notify
  BY <1>1, <1>3, <1>4, <1>5 DEF Sub
<1>7. Ordered(t, n) /\ CallsSent(t) /\ Counts(t) /\ OfKind(t)
  BY <1>1, <1>2, <1>3, <1>5, <1>6 DEF Sound, Ordered, CallsSent, Counts, OfKind
<1>8. Waits(t)
  BY <1>6 DEF Moves, Waits
<1> QED
  BY <1>6, <1>7, <1>8 DEF Sound, t

LEMMA CompletedOutcome ==
  ASSUME NEW n \in Nat, NEW t, Params, Sound(t, n), Waits(t), NEW u \in Completed(t)
  PROVE  Outcome(t, u, n)
<1> DEFINE v == [t EXCEPT !.currentRetry = 0]
           goesOn == CASE kind = "oneway" -> v.outstanding <= 0 /\ v.events # <<>>
                       [] kind = "batch"  -> v.events # <<>>
                       [] OTHER           -> TRUE
<1>1. /\ Sound(v, n) /\ v.sent = t.sent /\ v.events = t.events /\ v.state = t.state
      /\ v.outstanding = t.outstanding /\ v.flusher = t.flusher
  BY RetryReset
<1>2. u \in IF Idle(v) /\ Shutdown THEN {NotifyIdle(v)} ELSE IF goesOn THEN Flush(v) ELSE {v}
  BY DEF Completed
<1>3. ~goesOn => v.events = <<>> \/ v.outstanding > 0
  <2>1. v.outstanding \in Nat
    BY <1>1 DEF Sound, Sub
  <2>2. kind \in {"batch", "oneway", "twoway", "link"}
    BY DEF Params
  <2> HIDE DEF v
  <2> QED
    BY <2>1, <2>2
<1> HIDE DEF v, goesOn
<1>4. Waits(v)
  BY <1>1 DEF Waits
<1>5. ASSUME NEW w, Outcome(v, w, n) PROVE Outcome(t, w, n)
  BY <1>1, <1>5 DEF Outcome, Grows
<1>6. CASE Idle(v) /\ Shutdown
  <2>1. u = NotifyIdle(v)
    BY <1>2, <1>6
  <2>2. /\ Sound(u, n) /\ u.sent = v.sent /\ u.events = v.events /\ u.state = v.state
        /\ u.outstanding = v.outstanding /\ u.flusher = v.flusher /\ (Shutdown /\ Idle(u) => u.notify)
    BY <1>1, <2>1, NotifyIdleSound
  <2>3. Moves(u)
    BY <1>4, <1>6, <2>2 DEF Moves, Waits, Idle
  <2>4. Grows(v, u)
    BY <1>1, <2>2, SameSent
  <2> QED
    BY <1>5, <2>2, <2>3, <2>4 DEF Outcome
<1>7. CASE ~(Idle(v) /\ Shutdown) /\ goesOn
  <2>1. u \in Flush(v)
    BY <1>2, <1>7
  <2>2. FlushPre(v, n)
    BY <1>1, <1>4, <1>7 DEF FlushPre
  <2> QED
    BY <1>5, <2>1, <2>2, FlushOutcome
<1>8. CASE ~(Idle(v) /\ Shutdown) /\ ~goesOn
  <2>1. u = v
    BY <1>2, <1>8
  <2>2. Outcome(v, v, n)
    BY <1>1, <1>3, <1>4, <1>8, NothingFlushed DEF FlushPre
  <2> QED
    BY <1>5, <2>1, <2>2
<1> QED
  BY <1>6, <1>7, <1>8

-----------------------------------------------------------------------------
(* The inductive invariant. *)

Counters ==
    /\ kind \in Kinds /\ dropEvents \in Drops
    /\ queued \in Nat /\ publishers \in Nat /\ reapers \in Nat /\ resets \in Nat
    /\ member \in BOOLEAN /\ notified \in BOOLEAN
    /\ waiter \in {"none", "waiting", "done"}

Inv == Params /\ Counters /\ Sound(s, queued) /\ Moves(s) /\ s.notify = FALSE /\ NoLostNotify

(* What every step does to what has been sent. *)
Advances ==
    /\ queued' >= queued
    /\ Len(s.sent) <= Len(s'.sent) /\ SubSeq(s'.sent, 1, Len(s.sent)) = s.sent
    /\ Errored(s.state) => Errored(s'.state) /\ s'.sent = s.sent
    /\ s.state = "offline" /\ ~s.due => s'.state # "online" /\ s'.sent = s.sent

SameParams == UNCHANGED <<kind, maxOutstanding, retryCount, dropEvents>>

LEMMA InvMoves == Inv => QueueMoves
<1> SUFFICES ASSUME Inv PROVE QueueMoves
  OBVIOUS
<1>1. TypeOK
  BY DEF Inv, Params, Counters, Sound, TypeOK
<1>2. OutstandingExact
  BY DEF Inv, Sound, Counts, OutstandingExact
<1> QED
  BY <1>1, <1>2 DEF Inv, Moves, Waits, QueueMoves

LEMMA InvInit == Init => Inv
<1> SUFFICES ASSUME Init PROVE Inv
  OBVIOUS
<1>1. Params /\ Counters
  <2>1. kind \in Kinds /\ kind \in {"batch", "oneway", "twoway", "link"} /\ dropEvents \in Drops /\ dropEvents \in BOOLEAN
    BY KindsAssumption, SizeAssumption DEF Init
  <2>2. maxOutstanding \in Nat \ {0} /\ (kind \in {"batch", "link"} => maxOutstanding = 1)
    BY OutstandingAssumption DEF Init
  <2>3. retryCount \in Int
    BY RetryAssumption DEF Init
  <2> QED
    BY <2>1, <2>2, <2>3 DEF Init, Params, Counters
<1>2. /\ s \in Sub /\ s.sent = <<>> /\ s.batched = <<>> /\ s.events = <<>> /\ s.calls = {}
      /\ s.outstanding = 0 /\ s.flusher = FALSE /\ s.notify = FALSE /\ queued = 0
  BY EmptySeq DEF Init, Sub, States
<1>3. Ordered(s, queued)
  <2>1. <<>> \in Seq(Nat) /\ 0 \in Nat
    BY EmptySeq
  <2>2. Ascending(<<>>) /\ Before(<<>>, <<>>) /\ Within(<<>>, 0)
    BY <2>1, EmptyParts
  <2> QED
    BY <1>2, <2>2 DEF Ordered
<1>4. Counts(s)
  BY <1>1, <1>2, FS_EmptySet DEF Counts, Params
<1>5. Moves(s)
  BY <1>2, SizeAssumption, EmptySeq DEF Moves, Waits
<1>6. NoLostNotify
  BY DEF Init, NoLostNotify
<1> QED
  BY <1>1, <1>2, <1>3, <1>4, <1>5, <1>6 DEF Inv, Sound, CallsSent, OfKind

(* A step that leaves the outcome t. *)
LEMMA BecomesStep ==
  ASSUME Inv, NEW t, SameParams, Counters', waiter' = waiter, Becomes(t), queued' >= queued,
         Sound(t, queued'), Moves(t), Shutdown /\ Idle(t) => t.notify
  PROVE  Inv' /\ s'.sent = t.sent /\ s'.state = t.state
<1>1. t \in Sub
  BY DEF Sound
<1>2. /\ s' \in Sub /\ s'.sent = t.sent /\ s'.state = t.state /\ s'.batched = t.batched /\ s'.events = t.events
      /\ s'.calls = t.calls /\ s'.outstanding = t.outstanding /\ s'.flusher = t.flusher /\ s'.notify = FALSE
  BY <1>1 DEF Becomes, Sub
<1>3. Params'
  BY DEF Inv, Params, SameParams
<1>4. Sound(s, queued)'
  BY <1>2 DEF Sound, Ordered, CallsSent, Counts, OfKind, SameParams
<1>5. Moves(s)'
  BY <1>2 DEF Moves, Waits
<1>6. NoLostNotify'
  BY <1>2 DEF Inv, NoLostNotify, Becomes, Idle, Shutdown
<1> QED
  BY <1>2, <1>3, <1>4, <1>5, <1>6 DEF Inv

(* A step that leaves what is queued and in progress alone. *)
LEMMA QuietStep ==
  ASSUME Inv, SameParams, Counters', s' \in Sub, queued' = queued,
         s'.sent = s.sent, s'.batched = s.batched, s'.events = s.events, s'.calls = s.calls,
         s'.outstanding = s.outstanding, s'.flusher = s.flusher, s'.notify = FALSE,
         s.state = "online" <=> s'.state = "online",
         waiter' = "waiting" /\ ~notified' => ~Idle(s)
  PROVE  Inv'
<1>1. Params'
  BY DEF Inv, Params, SameParams
<1>2. Sound(s, queued)'
  BY DEF Inv, Sound, Ordered, CallsSent, Counts, OfKind, SameParams
<1>3. Moves(s)'
  BY DEF Inv, Moves, Waits
<1>4. NoLostNotify'
  BY DEF NoLostNotify, Idle
<1> QED
  BY <1>1, <1>2, <1>3, <1>4 DEF Inv

-----------------------------------------------------------------------------
(* Every action. *)

Kept == Inv' /\ Advances

LEMMA SentStays ==
  ASSUME Inv, s'.sent = s.sent, queued' >= queued, Errored(s.state) => Errored(s'.state),
         s.state = "offline" /\ ~s.due => s'.state # "online"
  PROVE  Advances
<1>1. s.sent \in Seq(Nat) /\ Len(s.sent) \in Nat
  BY DEF Inv, Sound, Sub
<1>2. SubSeq(s.sent, 1, Len(s.sent)) = s.sent
  BY <1>1, SubSeqFull
<1> QED
  BY <1>1, <1>2 DEF Advances

LEMMA SameSub ==
  ASSUME Inv, SameParams, Counters', s' = s, queued' = queued,
         waiter' = "waiting" /\ ~notified' => ~Idle(s)
  PROVE  Kept
<1>1. s \in Sub /\ s.notify = FALSE /\ queued \in Nat
  BY DEF Inv, Sound, Counters
<1>2. Inv'
  BY <1>1, QuietStep
<1>3. Advances
  BY <1>1, SentStays
<1> QED
  BY <1>2, <1>3 DEF Kept

LEMMA TopicSteps ==
  ASSUME Inv, PublishCopy \/ QueueForwarded \/ Remove
  PROVE  Kept
<1>1. SameParams /\ s' = s /\ queued' = queued /\ waiter' = waiter /\ notified' = notified
  BY DEF PublishCopy, QueueForwarded, Remove, SameParams
<1>2. Counters'
  <2>1. CASE PublishCopy
    BY <2>1 DEF Inv, Counters, PublishCopy
  <2>2. CASE QueueForwarded
    BY <2>2 DEF Inv, Counters, QueueForwarded
  <2>3. CASE Remove
    BY <2>3 DEF Inv, Counters, Remove
  <2> QED
    BY <2>1, <2>2, <2>3
<1>3. waiter' = "waiting" /\ ~notified' => ~Idle(s)
  BY <1>1 DEF Inv, NoLostNotify
<1> QED
  BY <1>1, <1>2, <1>3, SameSub

LEMMA ShutdownSteps ==
  ASSUME Inv, ShutdownBegin \/ ShutdownWake
  PROVE  Kept
<1>1. SameParams /\ s' = s /\ queued' = queued
  BY DEF ShutdownBegin, ShutdownWake, SameParams
<1>2. Counters'
  BY DEF Inv, Counters, ShutdownBegin, ShutdownWake
<1>3. waiter' = "waiting" /\ ~notified' => ~Idle(s)
  BY DEF Inv, NoLostNotify, ShutdownBegin, ShutdownWake
<1> QED
  BY <1>1, <1>2, <1>3, SameSub

LEMMA StateSteps ==
  ASSUME Inv, Reap \/ ResetIfReaped \/ Elapse
  PROVE  Kept
<1>1. SameParams /\ queued' = queued /\ waiter' = waiter /\ notified' = notified
  BY DEF Reap, ResetIfReaped, Elapse, SameParams
<1>2. Counters'
  BY DEF Inv, Counters, Reap, ResetIfReaped, Elapse
<1>3. waiter' = "waiting" /\ ~notified' => ~Idle(s)
  BY <1>1 DEF Inv, NoLostNotify
<1>4. s \in Sub /\ s.notify = FALSE /\ queued \in Nat
  BY DEF Inv, Sound, Counters
<1>5. \/ s' = s
      \/ s.state = "error" /\ s' = [s EXCEPT !.state = "reaped"]
      \/ s.state = "reaped" /\ s' = [s EXCEPT !.state = "error"]
      \/ s.state = "offline" /\ s' = [s EXCEPT !.due = TRUE]
  BY DEF Reap, ResetIfReaped, Elapse
<1>6. /\ s' \in Sub /\ s'.sent = s.sent /\ s'.batched = s.batched /\ s'.events = s.events /\ s'.calls = s.calls
      /\ s'.outstanding = s.outstanding /\ s'.flusher = s.flusher /\ s'.notify = FALSE
      /\ (s.state = "online" <=> s'.state = "online") /\ (Errored(s.state) => Errored(s'.state))
  BY <1>4, <1>5 DEF Sub, States, Errored
<1>7. Inv'
  BY <1>1, <1>2, <1>3, <1>6, QuietStep
<1>8. Advances
  BY <1>1, <1>4, <1>6, SentStays
<1> QED
  BY <1>7, <1>8 DEF Kept

(* From an outcome of a function that has been called with t. *)
LEMMA OutcomeStep ==
  ASSUME Inv, SameParams, Counters', waiter' = waiter, queued' >= queued,
         NEW t, t.sent = s.sent, Errored(s.state) => Errored(t.state),
         s.state = "offline" /\ ~s.due => t.state # "online",
         NEW u, Outcome(t, u, queued'), Becomes(u)
  PROVE  Kept
<1>1. Inv' /\ s'.sent = u.sent /\ s'.state = u.state
  BY BecomesStep DEF Outcome
<1>2. Errored(t.state) => t.state # "online"
  BY DEF Errored
<1>3. Advances
  BY <1>1, <1>2 DEF Advances, Outcome, Grows
<1> QED
  BY <1>1, <1>3 DEF Kept

LEMMA CallbackStep ==
  ASSUME Inv, Callback
  PROVE  Kept
<1>1. PICK c \in s.calls : Reply(c) \/ Exception(c)
  BY DEF Callback
<1> DEFINE t == Dec([s EXCEPT !.calls = @ \ {c}])
<1>2. SameParams /\ waiter' = waiter /\ queued' = queued /\ queued \in Nat
  BY <1>1 DEF Reply, Exception, SameParams, Inv, Counters
<1>3. Counters'
  <2>1. notified' \in BOOLEAN
    BY <1>1 DEF Reply, Exception, Becomes, Inv, Counters
  <2> QED
    BY <1>1, <2>1 DEF Reply, Exception, Inv, Counters
<1>4. Params /\ Sound(s, queued) /\ Moves(s)
  BY DEF Inv
<1>5. Sound(t, queued) /\ Waits(t) /\ t.sent = s.sent /\ t.state = s.state /\ t.events = s.events
  BY <1>2, <1>4, CallEnded
<1>6. \/ \E u \in Completed(t) : Becomes(u)
      \/ \E hard \in BOOLEAN : Becomes(Failed(t, hard))
  BY <1>1 DEF Reply, Exception
<1> HIDE DEF t
<1>7. ASSUME NEW u \in Completed(t), Becomes(u) PROVE Kept
  <2>1. Outcome(t, u, queued)
    BY <1>2, <1>4, <1>5, CompletedOutcome
  <2> QED
    BY <1>2, <1>3, <1>5, <1>7, <2>1, OutcomeStep
<1>8. ASSUME NEW hard \in BOOLEAN, Becomes(Failed(t, hard)) PROVE Kept
  <2>1. t.events # <<>> => t.state = "online"
    BY <1>5 DEF Waits
  <2>2. Outcome(t, Failed(t, hard), queued)
    BY <1>2, <1>4, <1>5, <2>1, FailedOutcome
  <2> QED
    BY <1>2, <1>3, <1>5, <1>8, <2>2, OutcomeStep
<1> QED
  BY <1>6, <1>7, <1>8

(* doFlush() finds events, and no invocation in progress. *)
LEMMA FlusherAlone ==
  ASSUME Params, NEW n \in Nat, NEW x, Sound(x, n), x.flusher = TRUE
  PROVE  x.calls = {} /\ x.outstanding = 1 /\ kind = "batch"
<1>1. kind = "batch"
  BY DEF Sound, OfKind
<1>2. IsFiniteSet(x.calls) /\ Cardinality(x.calls) \in Nat
  BY FS_CardinalityType DEF Sound, Counts
<1>3. Cardinality(x.calls) = 0 /\ x.outstanding = 1
  BY <1>1, <1>2 DEF Sound, Counts, Params
<1> QED
  BY <1>1, <1>2, <1>3, FS_EmptySet

(* The scheduled flush ends: it is not counted any more. *)
Flushed(x, q, b) ==
    [x EXCEPT !.flusher = FALSE, !.outstanding = 0, !.events = q, !.batched = b]

(* What is left fits what has been sent before it. *)
Fits(x, q, b, n) ==
    /\ Part(q, x.events) /\ b \in Seq(Nat) /\ Ascending(b)
    /\ Before(x.sent, b) /\ Before(b, q) /\ Within(b, n)

(* t is x without its scheduled flush. *)
Ended(x, t, q, n) ==
    /\ Sound(t, n) /\ t.sent = x.sent /\ t.state = x.state /\ t.events = q
    /\ t.notify = x.notify /\ t.flusher = FALSE /\ t.outstanding = 0

LEMMA FlusherEnded ==
  ASSUME Params, NEW n \in Nat, NEW x, Sound(x, n), x.flusher = TRUE, NEW q, NEW b, Fits(x, q, b, n)
  PROVE  Ended(x, Flushed(x, q, b), q, n)
<1> DEFINE t == Flushed(x, q, b)
<1>1. x.calls = {} /\ kind = "batch"
  BY FlusherAlone
<1>2. /\ x \in Sub /\ q \in Seq(Nat) /\ Ascending(q) /\ x.sent \in Seq(Nat) /\ x.events \in Seq(Nat)
      /\ Part(q, x.events) /\ b \in Seq(Nat) /\ Ascending(b) /\ Before(x.sent, b) /\ Before(b, q) /\ Within(b, n)
  BY DEF Sound, Sub, Part, Fits
<1>3. /\ t \in Sub /\ t.sent = x.sent /\ t.state = x.state /\ t.events = q /\ t.batched = b /\ t.calls = x.calls
      /\ t.flusher = FALSE /\ t.outstanding = 0 /\ t.notify = x.notify
  BY <1>2 DEF Sub, Flushed
<1> HIDE DEF t
<1>4. Before(x.sent, q) /\ Within(q, n)
  BY <1>2, PartOrder DEF Sound, Ordered
<1>5. Ordered(t, n)
  BY <1>2, <1>3, <1>4 DEF Sound, Ordered
<1>6. Counts(t)
  <2>1. IsFiniteSet({}) /\ Cardinality({}) = 0 /\ maxOutstanding \in Nat
    BY FS_EmptySet DEF Params
  <2> QED
    BY <1>1, <1>3, <2>1 DEF Counts
<1>7. Sound(t, n)
  BY <1>1, <1>3, <1>5, <1>6 DEF Sound, CallsSent, OfKind
<1> QED
  BY <1>3, <1>7 DEF t, Ended

LEMMA DoFlushStep ==
  ASSUME Inv, DoFlush
  PROVE  Kept
<1> DEFINE v == s.events
<1>1. /\ SameParams /\ waiter' = waiter /\ queued' = queued /\ queued \in Nat /\ s.flusher = TRUE
      /\ Params /\ Sound(s, queued) /\ Moves(s) /\ s.notify = FALSE
  BY DEF DoFlush, SameParams, Inv, Counters, Sound, Sub
<1>2. Counters'
  <2>1. notified' \in BOOLEAN
    BY DEF DoFlush, Becomes, Inv, Counters
  <2> QED
    BY <2>1 DEF DoFlush, Inv, Counters
<1>3. /\ s \in Sub /\ v \in Seq(Nat) /\ s.sent \in Seq(Nat) /\ s.batched \in Seq(Nat) /\ Ordered(s, queued)
      /\ Ascending(v)
  BY <1>1 DEF Sound, Sub, Ordered
<1>4. s.calls = {} /\ s.outstanding = 1 /\ kind = "batch" /\ maxOutstanding = 1
  BY <1>1, FlusherAlone DEF Params
<1>5. CASE s.state # "online"
  <2> DEFINE t == [Dec([s EXCEPT !.flusher = FALSE]) EXCEPT !.notify = Shutdown /\ v = <<>>]
             e == Flushed(s, s.events, s.batched)
  <2>1. Becomes(t)
    BY <1>5 DEF DoFlush
  <2>2. v = <<>>
    BY <1>1, <1>5 DEF Moves, Waits
  <2>3. Part(s.events, s.events)
    BY <1>3 DEF Part, Among
  <2>4. Sound(e, queued) /\ e.sent = s.sent /\ e.state = s.state /\ e.events = v /\ e.flusher = FALSE /\ e.outstanding = 0
    <3>1. /\ Ascending(s.batched) /\ Before(s.sent, s.batched) /\ Before(s.batched, s.events)
          /\ Within(s.batched, queued)
      BY <1>3 DEF Ordered
    <3>2. Params /\ queued \in Nat /\ Sound(s, queued) /\ s.flusher = TRUE
      BY <1>1
    <3>3. s.batched \in Seq(Nat)
      BY <1>3
    <3>4. Fits(s, s.events, s.batched, queued)
      BY <2>3, <3>1, <3>3 DEF Fits
    <3>5. Ended(s, e, s.events, queued)
      BY <3>2, <3>4, FlusherEnded
    <3> QED
      BY <3>5 DEF Ended
  <2>5. /\ t \in Sub /\ t.sent = e.sent /\ t.batched = e.batched /\ t.events = e.events /\ t.calls = e.calls
        /\ t.outstanding = e.outstanding /\ t.flusher = e.flusher /\ t.state = s.state /\ (Shutdown => t.notify)
    <3> DEFINE x == [s EXCEPT !.flusher = FALSE]
               y == Dec(x)
    <3>1. /\ x \in Sub /\ x.sent = s.sent /\ x.batched = s.batched /\ x.events = v /\ x.calls = s.calls
          /\ x.outstanding = 1 /\ x.flusher = FALSE /\ x.state = s.state
      BY <1>3, <1>4 DEF Sub
    <3> HIDE DEF x
    <3>2. /\ y \in Sub /\ y.sent = s.sent /\ y.batched = s.batched /\ y.events = v /\ y.calls = s.calls
          /\ y.outstanding = 0 /\ y.flusher = FALSE /\ y.state = s.state
      <4>1. y = [x EXCEPT !.outstanding = 0]
        BY <3>1 DEF Dec
      <4> HIDE DEF y
      <4> QED
        BY <3>1, <4>1 DEF Sub
    <3> HIDE DEF y
    <3>3. t = [y EXCEPT !.notify = Shutdown /\ v = <<>>]
      BY DEF x, y
    <3> HIDE DEF t
    <3>4. /\ t \in Sub /\ t.sent = s.sent /\ t.batched = s.batched /\ t.events = v /\ t.calls = s.calls
          /\ t.outstanding = 0 /\ t.flusher = FALSE /\ t.state = s.state
          /\ t.notify = (Shutdown /\ v = <<>>)
      BY <3>2, <3>3 DEF Sub, Shutdown
    <3>5. e.sent = s.sent /\ e.batched = s.batched /\ e.events = v /\ e.calls = s.calls
          /\ e.outstanding = 0 /\ e.flusher = FALSE
      BY <1>3 DEF Flushed, Sub
    <3> HIDE DEF e
    <3> QED
      BY <2>2, <3>4, <3>5
  <2> HIDE DEF t, e
  <2>6. Sound(t, queued)
    BY <1>1, <2>4, <2>5, SameRest
  <2>7. Moves(t)
    BY <2>2, <2>4, <2>5, EmptySeq, SizeAssumption DEF Moves, Waits
  <2>8. Grows(s, t)
    BY <1>1, <2>4, <2>5, SameSent
  <2>9. Outcome(s, t, queued)
    BY <2>5, <2>6, <2>7, <2>8 DEF Outcome
  <2> QED
    BY <1>1, <1>2, <1>5, <2>1, <2>9, OutcomeStep
<1>6. ASSUME s.state = "online",
             Becomes([[s EXCEPT !.flusher = FALSE, !.events = <<>>] EXCEPT
                        !.batched = <<>>, !.calls = {s.batched \o v}, !.sent = @ \o s.batched \o v])
      PROVE  Kept
  <2> DEFINE c == s.batched \o v
             d == s.sent \o s.batched \o v
             t == [s EXCEPT !.flusher = FALSE, !.events = <<>>, !.batched = <<>>, !.calls = {c}, !.sent = d]
  <2>1. Becomes(t)
    BY <1>3, <1>6 DEF Sub
  <2>2. c \in Seq(Nat) /\ d = s.sent \o c /\ d \in Seq(Nat) /\ {c} \in SUBSET Seq(Nat) /\ <<>> \in Seq(Nat)
    <3>1. c \in Seq(Nat) /\ s.sent \o c \in Seq(Nat)
      BY <1>3, ConcatProperties
    <3>2. d = s.sent \o c
      BY <1>3, ConcatAssoc
    <3> HIDE DEF c, d
    <3> QED
      BY <3>1, <3>2, EmptySeq
  <2>3. Ascending(c) /\ Before(s.sent, c) /\ Within(c, queued)
    BY <1>1, <1>3, ConcatOrder, ConcatParts DEF Ordered
  <2>4. c # <<>>
    <3>1. v # <<>>
      BY <1>1, <1>6 DEF Moves, Waits
    <3> QED
      BY <1>3, <3>1, ConcatEqualIffEmpty
  <2> HIDE DEF c, d
  <2>5. Ascending(d) /\ Within(d, queued) /\ Among(c, d)
    BY <1>1, <1>3, <2>2, <2>3, ConcatOrder, ConcatParts DEF Ordered
  <2>6. /\ t \in Sub /\ t.sent = d /\ t.batched = <<>> /\ t.events = <<>> /\ t.calls = {c}
        /\ t.outstanding = 1 /\ t.flusher = FALSE /\ t.state = "online"
    BY <1>3, <1>4, <1>6, <2>2 DEF Sub
  <2> HIDE DEF t
  <2>7. Ordered(t, queued)
    <3>1. Ascending(<<>>) /\ Before(d, <<>>) /\ Before(<<>>, <<>>) /\ Within(<<>>, queued)
      BY <1>1, <2>2, EmptyParts
    <3> QED
      BY <2>5, <2>6, <3>1 DEF Ordered
  <2>8. Counts(t)
    <3>1. IsFiniteSet({c}) /\ Cardinality({c}) = 1
      BY FS_Singleton
    <3> QED
      BY <1>4, <2>6, <3>1 DEF Counts
  <2>9. Sound(t, queued)
    BY <1>4, <2>4, <2>5, <2>6, <2>7, <2>8 DEF Sound, CallsSent, OfKind
  <2>10. Len(s.sent) <= Len(d) /\ SubSeq(d, 1, Len(s.sent)) = s.sent
    BY <1>3, <2>2, ConcatExtends
  <2>11. Outcome(s, t, queued)
    <3>1. Grows(s, t)
      BY <1>6, <2>6, <2>10 DEF Grows, Errored
    <3>2. Moves(t)
      BY <2>6, EmptySeq, SizeAssumption DEF Moves, Waits
    <3> QED
      BY <2>6, <2>9, <3>1, <3>2 DEF Outcome, Idle
  <2> QED
    BY <1>1, <1>2, <2>1, <2>11, OutcomeStep
<1>7. ASSUME s.state = "online", NEW k \in 0 .. Len(v), NEW hard \in BOOLEAN,
             Becomes(Failed(Dec([[s EXCEPT !.flusher = FALSE, !.events = <<>>] EXCEPT
                                   !.batched = @ \o Prefix(v, k)]), hard))
      PROVE  Kept
  <2> DEFINE b == s.batched \o Prefix(v, k)
             t == Flushed(s, <<>>, b)
  <2>1. Becomes(Failed(t, hard))
    <3>1. Dec([[s EXCEPT !.flusher = FALSE, !.events = <<>>] EXCEPT !.batched = @ \o Prefix(v, k)]) = t
      <4>1. s.outstanding - 1 = 0
        BY <1>4
      <4> QED
        BY <1>3, <4>1 DEF Dec, Sub, Flushed
    <3> QED
      BY <1>7, <3>1
  <2>2. Part(Prefix(v, k), v)
    BY <1>3, PrefixSuffix
  <2>3. Before(s.batched, Prefix(v, k)) /\ Before(s.sent, Prefix(v, k)) /\ Within(Prefix(v, k), queued)
    BY <1>1, <1>3, <2>2, PartOrder DEF Ordered
  <2>4. b \in Seq(Nat) /\ Ascending(b) /\ Before(s.sent, b) /\ Within(b, queued)
    BY <1>1, <1>3, <2>2, <2>3, ConcatOrder, ConcatParts DEF Ordered, Part
  <2> HIDE DEF b
  <2>5. Part(<<>>, v) /\ Before(b, <<>>)
    BY <1>1, <1>3, <2>4, EmptyParts
  <2>6. Sound(t, queued) /\ t.sent = s.sent /\ t.state = s.state /\ t.events = <<>>
    <3>2. Params /\ queued \in Nat /\ Sound(s, queued) /\ s.flusher = TRUE
      BY <1>1
    <3>3. Fits(s, <<>>, b, queued)
      BY <2>4, <2>5 DEF Fits
    <3>4. Ended(s, t, <<>>, queued)
      BY <3>2, <3>3, FlusherEnded
    <3> QED
      BY <3>4 DEF Ended
  <2> HIDE DEF t
  <2>7. Outcome(t, Failed(t, hard), queued)
    BY <1>1, <2>6, FailedOutcome
  <2> QED
    BY <1>1, <1>2, <2>1, <2>6, <2>7, OutcomeStep
<1> QED
  BY <1>5, <1>6, <1>7 DEF DoFlush

(* queue() is called with n more events, numbered from queued + 1 on. *)
LEMMA MoreQueued ==
  ASSUME NEW m \in Nat, NEW n \in Nat, m <= n, NEW t, Sound(t, m)
  PROVE  Sound(t, n)
<1>1. \A q : Within(q, m) => Within(q, n)
  BY DEF Within
<1> QED
  BY <1>1 DEF Sound, Ordered

LEMMA ExtendedQueue ==
  ASSUME queued \in Nat, NEW n \in Nat \ {0}, NEW q \in Seq(Nat), Ascending(q), Within(q, queued)
  PROVE  /\ Extended(q, n) \in Seq(Nat) /\ Ascending(Extended(q, n)) /\ Within(Extended(q, n), queued + n)
         /\ Len(Extended(q, n)) = Len(q) + n /\ Extended(q, n) # <<>>
         /\ \A r \in Seq(Nat) : Within(r, queued) /\ Before(r, q) => Before(r, Extended(q, n))
<1> DEFINE a == [i \in 1 .. n |-> queued + i]
<1>1. a \in Seq(Nat) /\ Len(a) = n /\ DOMAIN a = 1 .. n /\ \A i \in 1 .. n : a[i] = queued + i
  BY IsASeq
<1> HIDE DEF a
<1>2. Ascending(a) /\ Within(a, queued + n) /\ \A r : Within(r, queued) => Before(r, a)
  <2>1. Ascending(a)
    BY <1>1 DEF Ascending
  <2>2. Within(a, queued + n)
    BY <1>1 DEF Within
  <2>3. ASSUME NEW r, Within(r, queued) PROVE Before(r, a)
    BY <1>1, <2>3 DEF Within, Before
  <2> QED
    BY <2>1, <2>2, <2>3
<1>3. Within(q, queued + n)
  BY DEF Within
<1>4. Extended(q, n) = q \o a
  BY DEF Extended, a
<1>5. q \o a \in Seq(Nat) /\ Ascending(q \o a)
  BY <1>1, <1>2, ConcatOrder
<1>6. queued + n \in Nat
  OBVIOUS
<1>7. Within(q \o a, queued + n)
  BY <1>1, <1>2, <1>3, <1>6, ConcatParts
<1>8. ASSUME NEW r \in Seq(Nat), Within(r, queued), Before(r, q) PROVE Before(r, q \o a)
  <2>1. Before(r, a)
    BY <1>2, <1>8
  <2> QED
    BY <1>1, <1>8, <2>1, ConcatParts
<1>9. Len(q \o a) = Len(q) + n /\ Len(q) \in Nat
  <2>1. Len(q \o a) = Len(q) + Len(a)
    BY <1>1, ConcatProperties
  <2> QED
    BY <1>1, <2>1, LenProperties
<1>10. q \o a # <<>>
  BY <1>5, <1>9, EmptySeq
<1> QED
  BY <1>4, <1>5, <1>7, <1>8, <1>9, <1>10

(* The queue that queue() leaves to flush(): the oldest are dropped. *)
Shortened(q) == IF Full(q) THEN Suffix(q, Len(q) - QueueSizeMax) ELSE q

LEMMA ShortenedPart ==
  ASSUME NEW q \in Seq(Nat), Ascending(q), q # <<>>
  PROVE  Part(Shortened(q), q) /\ Shortened(q) # <<>> /\ (QueueSizeMax > 0 => Len(Shortened(q)) <= QueueSizeMax)
<1>1. Len(q) \in Nat /\ QueueSizeMax \in Int
  BY SizeAssumption
<1>2. CASE Full(q)
  <2> DEFINE k == Len(q) - QueueSizeMax
             p == Suffix(q, k)
  <2>1. k \in 0 .. Len(q) /\ Len(q) - k = QueueSizeMax /\ QueueSizeMax > 0
    BY <1>1, <1>2 DEF Full
  <2> HIDE DEF k
  <2>2. Part(p, q) /\ Len(p) = Len(q) - k
    BY <2>1, PrefixSuffix
  <2>3. p \in Seq(Nat) /\ Shortened(q) = p
    BY <1>2, <2>2 DEF Part, Shortened, k
  <2> HIDE DEF p
  <2>4. p # <<>>
    BY <1>1, <2>1, <2>2, <2>3, EmptySeq
  <2> QED
    BY <1>1, <2>1, <2>2, <2>3, <2>4
<1>3. CASE ~Full(q)
  <2>1. Shortened(q) = q
    BY <1>3 DEF Shortened
  <2>2. Part(q, q)
    BY DEF Part, Among
  <2> QED
    BY <1>1, <1>3, <2>1, <2>2 DEF Full
<1> QED
  BY <1>2, <1>3

LEMMA QueueStep ==
  ASSUME Inv, NEW n \in 1 .. 2, Queue(n)
  PROVE  Kept
<1> DEFINE t == [s EXCEPT !.state = "online"]
           q == Extended(t.events, n)
           m == queued + n
<1>1. /\ SameParams /\ waiter' = waiter /\ queued' = m /\ queued \in Nat /\ n \in Nat \ {0} /\ m \in Nat
      /\ m >= queued /\ publishers > 0 /\ publishers' = publishers - 1
  BY DEF Queue, SameParams, Inv, Counters
<1>2. /\ Params /\ Sound(s, queued) /\ Moves(s) /\ s.notify = FALSE /\ s \in Sub
  BY DEF Inv, Sound
<1>3. Counters'
  <2>1. notified' \in BOOLEAN
    BY DEF Queue, Becomes, Inv, Counters
  <2>2. reapers' = reapers + 1 \/ reapers' = reapers
    BY DEF Queue
  <2>3. reapers' \in Nat
    BY <2>2 DEF Inv, Counters
  <2> QED
    BY <1>1, <2>1, <2>3 DEF Queue, Inv, Counters
<1> HIDE DEF m
<1>4. /\ t \in Sub /\ t.sent = s.sent /\ t.batched = s.batched /\ t.events = s.events /\ t.calls = s.calls
      /\ t.outstanding = s.outstanding /\ t.flusher = s.flusher /\ t.state = "online"
  BY <1>2 DEF Sub, States
<1>5. Sound(s, m)
  BY <1>1, <1>2, MoreQueued
<1>6. Sound(t, m)
  BY <1>1, <1>4, <1>5, SameRest
<1>7. /\ \/ (Errored(s.state) \/ (s.state = "offline" /\ ~s.due)) /\ Becomes(s)
         \/ /\ s.state = "online" \/ (s.state = "offline" /\ s.due)
            /\ \/ Becomes(Failed(t, TRUE))
               \/ \E u \in Flush([t EXCEPT !.events = Shortened(q)]) : Becomes(u)
  BY DEF Queue, Shortened
<1>8. CASE (Errored(s.state) \/ (s.state = "offline" /\ ~s.due)) /\ Becomes(s)
  <2>1. /\ s' \in Sub /\ s'.sent = s.sent /\ s'.batched = s.batched /\ s'.events = s.events /\ s'.calls = s.calls
        /\ s'.outstanding = s.outstanding /\ s'.flusher = s.flusher /\ s'.notify = FALSE /\ s'.state = s.state
        /\ notified' = notified
    BY <1>2, <1>8 DEF Becomes, Sub, Inv, Counters
  <2>2. Params'
    BY <1>1, <1>2 DEF Params, SameParams
  <2>3. Sound(s, queued)'
    BY <1>1, <1>5, <2>1 DEF Sound, Ordered, CallsSent, Counts, OfKind, SameParams
  <2>4. Moves(s)'
    BY <1>2, <2>1 DEF Moves, Waits
  <2>5. NoLostNotify'
    BY <1>1, <2>1 DEF Inv, NoLostNotify, Idle
  <2>6. Advances
    BY <1>1, <1>8, <2>1, SentStays DEF Errored
  <2> QED
    BY <1>3, <2>1, <2>2, <2>3, <2>4, <2>5, <2>6 DEF Kept, Inv
<1>9. ASSUME s.state = "online" \/ (s.state = "offline" /\ s.due), Becomes(Failed(t, TRUE)) PROVE Kept
  <2> HIDE DEF t
  <2>1. Outcome(t, Failed(t, TRUE), m)
    BY <1>1, <1>2, <1>4, <1>6, FailedOutcome
  <2>2. Errored(s.state) => Errored(t.state)
    BY <1>9 DEF Errored
  <2> QED
    BY <1>1, <1>3, <1>4, <1>9, <2>1, <2>2, OutcomeStep
<1>10. ASSUME s.state = "online" \/ (s.state = "offline" /\ s.due),
              NEW u \in Flush([t EXCEPT !.events = Shortened(q)]), Becomes(u)
       PROVE  Kept
  <2> DEFINE k == Shortened(q)
             w == [t EXCEPT !.events = k]
  <2>1. /\ s.events \in Seq(Nat) /\ s.sent \in Seq(Nat) /\ s.batched \in Seq(Nat) /\ Ordered(s, queued)
    BY <1>2 DEF Sound, Sub
  <2>2. /\ q \in Seq(Nat) /\ Ascending(q) /\ Within(q, m) /\ q # <<>>
        /\ Before(s.sent, q) /\ Before(s.batched, q)
    BY <1>1, <1>4, <2>1, ExtendedQueue DEF Ordered, m
  <2> HIDE DEF q
  <2>3. Part(k, q) /\ k # <<>> /\ (QueueSizeMax > 0 => Len(k) <= QueueSizeMax)
    BY <2>2, ShortenedPart
  <2>4. /\ k \in Seq(Nat) /\ Ascending(k) /\ Within(k, m) /\ Before(s.sent, k) /\ Before(s.batched, k)
    BY <1>1, <2>1, <2>2, <2>3, PartOrder DEF Part
  <2> HIDE DEF k, t
  <2>5. /\ w \in Sub /\ w.sent = s.sent /\ w.batched = s.batched /\ w.events = k /\ w.calls = s.calls
        /\ w.outstanding = s.outstanding /\ w.flusher = s.flusher /\ w.state = "online"
    BY <1>4, <2>4 DEF Sub
  <2>6. u \in Flush(w) /\ Becomes(u)
    BY <1>10 DEF k
  <2> HIDE DEF w
  <2>7. Ordered(w, m)
    BY <1>5, <2>4, <2>5 DEF Sound, Ordered
  <2>8. Sound(w, m)
    BY <1>5, <2>5, <2>7 DEF Sound, CallsSent, Counts, OfKind
  <2>9. FlushPre(w, m)
    BY <1>2, <2>3, <2>5, <2>8 DEF FlushPre, Waits, Idle
  <2>10. Outcome(w, u, m)
    BY <1>1, <2>6, <2>9, FlushOutcome
  <2>11. Errored(s.state) => Errored(w.state)
    BY <1>10 DEF Errored
  <2> QED
    BY <1>1, <1>3, <1>10, <2>5, <2>6, <2>10, <2>11, OutcomeStep
<1> QED
  BY <1>7, <1>8, <1>9, <1>10

-----------------------------------------------------------------------------
LEMMA StepKeeps == Inv /\ [Next]_vars => Kept
<1> SUFFICES ASSUME Inv, [Next]_vars PROVE Kept
  OBVIOUS
<1>1. CASE UNCHANGED vars
  <2>1. SameParams /\ s' = s /\ queued' = queued /\ waiter' = waiter /\ notified' = notified
    BY <1>1 DEF vars, SameParams
  <2>2. Counters'
    BY <1>1 DEF vars, Inv, Counters
  <2>3. waiter' = "waiting" /\ ~notified' => ~Idle(s)
    BY <2>1 DEF Inv, NoLostNotify
  <2> QED
    BY <2>1, <2>2, <2>3, SameSub
<1>2. CASE PublishCopy \/ QueueForwarded \/ Remove
  BY <1>2, TopicSteps
<1>3. ASSUME NEW n \in 1 .. 2, Queue(n) PROVE Kept
  BY <1>3, QueueStep
<1>4. CASE Reap \/ ResetIfReaped \/ Elapse
  BY <1>4, StateSteps
<1>5. CASE Callback
  BY <1>5, CallbackStep
<1>6. CASE DoFlush
  BY <1>6, DoFlushStep
<1>7. CASE ShutdownBegin \/ ShutdownWake
  BY <1>7, ShutdownSteps
<1> QED
  BY <1>1, <1>2, <1>3, <1>4, <1>5, <1>6, <1>7 DEF Next

LEMMA InvAlways == Spec => []Inv
<1>1. Inv /\ [Next]_vars => Inv'
  BY StepKeeps DEF Kept
<1> QED
  BY InvInit, <1>1, PTL DEF Spec

(* For every class of subscriber, every limit of the queue and any number  *)
(* of publishers: a queue that has events is always on its way, within its *)
(* limit, _outstanding is exact on every path of errors, and a shutdown()  *)
(* that waits has something to wait for or has been notified.              *)
THEOREM QueueAlwaysMoves == Spec => []QueueMoves
  BY InvAlways, InvMoves, PTL

(* An offline subscriber sends nothing, queues nothing and stays offline   *)
(* until its discard interval has passed.                                  *)
THEOREM OfflineDiscarded == Spec => OfflineDiscards
<1>1. Inv /\ [Next]_vars =>
        [s.state = "offline" /\ ~s.due =>
           /\ s'.state # "online" /\ s'.events = <<>>
           /\ s'.sent = s.sent]_vars
  <2> SUFFICES ASSUME Inv, [Next]_vars, s.state = "offline" /\ ~s.due
               PROVE  s'.state # "online" /\ s'.events = <<>> /\ s'.sent = s.sent
    OBVIOUS
  <2>1. Inv' /\ Advances
    BY StepKeeps DEF Kept
  <2>2. s'.state # "online" => s'.events = <<>>
    BY <2>1 DEF Inv, Moves, Waits
  <2> QED
    BY <2>1, <2>2 DEF Advances
<1> QED
  BY InvAlways, <1>1, PTL DEF Spec, OfflineDiscards

(* What the subscriber gives to the transport, through oneway, twoway and  *)
(* batch invocations and through links, with every failure and retry, is   *)
(* what the abstract channel allows: events of the topic, each once, in    *)
(* the order in which they were queued, and none after the subscription    *)
(* has failed.                                                             *)
THEOREM ChannelImplemented == Spec => ImplementsChannel
<1>1. Init => Channel!Init
  BY DEF Init, Channel!Init, Errored
<1>2. Inv /\ [Next]_vars => [Channel!Next]_Channel!vars
  <2> SUFFICES ASSUME Inv, [Next]_vars PROVE Channel!Next
    OBVIOUS
  <2>1. Inv' /\ Advances
    BY StepKeeps DEF Kept
  <2>2. queued' \in Nat /\ queued' >= queued
    BY <2>1 DEF Inv, Counters, Advances
  <2>3. CASE Errored(s.state)
    BY <2>1, <2>2, <2>3 DEF Advances, Channel!Next, Channel!Discard, Errored
  <2>4. CASE ~Errored(s.state)
    <3>1. Ordered(s, queued)'
      BY <2>1 DEF Inv, Sound
    <3>2. Channel!Increasing(s.sent)' /\ \A i \in DOMAIN s'.sent : s'.sent[i] \in 1 .. queued'
      BY <3>1 DEF Ordered, Ascending, Within, Channel!Increasing
    <3>3. Errored(s'.state) \in BOOLEAN
      BY DEF Errored
    <3>4. Len(s'.sent) >= Len(s.sent) /\ SubSeq(s'.sent, 1, Len(s.sent)) = s.sent
      <4>1. Len(s'.sent) \in Nat /\ Len(s.sent) \in Nat
        BY <2>1 DEF Inv, Sound, Sub
      <4> QED
        BY <2>1, <4>1 DEF Advances
    <3> QED
      BY <2>2, <2>4, <3>2, <3>3, <3>4 DEF Channel!Next, Channel!Forward, Channel!Increasing
  <2> QED
    BY <2>3, <2>4
<1> QED
  BY InvAlways, <1>1, <1>2, PTL DEF Spec, ImplementsChannel, Channel!Spec
=============================================================================
