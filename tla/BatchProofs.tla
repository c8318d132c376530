---------------------------- MODULE BatchProofs ----------------------------
(***************************************************************************)
(* The batches of BatchRequestQueue for any number of threads, any size of *)
(* a batch and any number of requests: the stream has one owner, and the   *)
(* batches hold exactly the requests that were finished, in their order.   *)
(*                                                                         *)
(* Wherever the stream is, with the queue or with the thread that writes   *)
(* to it, it begins with the requests that were finished since the last    *)
(* flush, as far as the marker; what follows is at most the request of the *)
(* thread that has it.                                                     *)
(***************************************************************************)
EXTENDS BatchRequestQueue, SequenceTheorems, TLAPS

(* A flush and a failure after the stream was released only come from a    *)
(* thread alone: abort() then takes the stream of nobody else.             *)
OneOwner == Events \subseteq {"write"} \/ \A t, u \in Thread : t = u

(* The batch that is being filled, as a stream. *)
Batch == Filled(Before(Len(sent) + 1), Len(accepted))

(* s begins with the batch; after it is the request of t. *)
Starts(s) == marker <= Len(s) /\ SubSeq(s, 1, marker) = Batch
Adds(s, t) == Starts(s) /\ Len(s) = marker + 1 /\ s[marker + 1] = ThisRequest(t)

(* A thread that has the stream, in os[t]. *)
Writes(t) == pc[t] \in {"write", "finish"} \/ (pc[t] = "abort" /\ os[t] # <<>>)

(* Where the thread t is tells what is in the streams. *)
Place(t) ==
    /\ pc[t] # "idle" => calls[t] > 0
    /\ ~Writes(t) => os[t] = <<>>
    /\ Writes(t) => stream = <<>>
    /\ pc[t] = "write" => os[t] = Batch
    /\ Writes(t) /\ pc[t] # "write" => Adds(os[t], t)
    /\ pc[t] \in {"flush", "intercept"} => Adds(stream, t)
    /\ pc[t] \in {"release", "throw"} => Starts(stream)
    /\ Events \subseteq {"write"} => pc[t] # "throw" /\ (pc[t] = "abort" => os[t] # <<>>)

(* The batches that were flushed. *)
Log ==
    /\ \A i \in 1 .. Len(sent) :
         /\ sent[i].num > 0 /\ sent[i].upto = Before(i) + sent[i].num /\ sent[i].upto <= Len(accepted)
         /\ sent[i].batch = Filled(Before(i), sent[i].upto)
    /\ Len(accepted) = Before(Len(sent) + 1) + num

Inv ==
    /\ TypeOK /\ StreamOwned /\ Log /\ marker = num + 1
    /\ Events \subseteq {"write"} => ~exception
    /\ ~inUse => stream = Batch
    /\ \A t \in Thread : Place(t)

-----------------------------------------------------------------------------
(* Sequences. *)
LEMMA Prefix ==
    ASSUME NEW S, NEW s \in Seq(S), NEW m \in Nat, m <= Len(s)
    PROVE  /\ SubSeq(s, 1, m) \in Seq(S) /\ Len(SubSeq(s, 1, m)) = m
           /\ \A i \in 1 .. m : SubSeq(s, 1, m)[i] = s[i]
<1>1. \A i \in 1 .. m : s[i] \in S
  BY LenProperties, ElementOfSeq
<1> QED
  BY <1>1, SubSeqProperties

LEMMA ResizeIs ==
    ASSUME NEW S, NEW s \in Seq(S), NEW m \in Nat, m <= Len(s)
    PROVE  Resize(s, m) = SubSeq(s, 1, m)
<1>1. /\ SubSeq(s, 1, m) \in Seq(S) /\ Len(SubSeq(s, 1, m)) = m /\ \A i \in 1 .. m : SubSeq(s, 1, m)[i] = s[i]
  BY Prefix
<1>2. Len(s) \in Nat /\ \A i \in 1 .. m : i <= Len(s) /\ s[i] \in S
  BY LenProperties, ElementOfSeq
<1>3. Resize(s, m) = [i \in 1 .. m |-> s[i]]
  BY <1>2 DEF Resize
<1>4. [i \in 1 .. m |-> s[i]] \in Seq(S) /\ Len([i \in 1 .. m |-> s[i]]) = m
  BY <1>2
<1> QED
  BY <1>1, <1>3, <1>4, SeqEqual

(* What follows the first m of a sequence that has one more. *)
LEMMA Rest ==
    ASSUME NEW S, NEW s \in Seq(S), NEW m \in Nat, Len(s) = m + 1
    PROVE  SubSeq(s, m + 1, Len(s)) = <<s[m + 1]>> /\ s[m + 1] \in S
<1>1. s[m + 1] \in S
  BY LenProperties, ElementOfSeq
<1>2. \A i \in m + 1 .. m + 1 : s[i] \in S
  BY <1>1
<1>3. SubSeq(s, m + 1, m + 1) \in Seq(S) /\ Len(SubSeq(s, m + 1, m + 1)) = 1
      /\ \A i \in 1 .. 1 : SubSeq(s, m + 1, m + 1)[i] = s[m + 1 + i - 1]
  BY <1>2, SubSeqProperties
<1> DEFINE t == SubSeq(s, m + 1, m + 1)
           u == <<s[m + 1]>>
<1>4. t \in Seq(S) /\ Len(t) = 1 /\ t[1] = s[m + 1]
  <2>1. m + 1 + 1 - 1 = m + 1 /\ 1 \in 1 .. 1
    OBVIOUS
  <2> QED
    BY <1>3, <2>1
<1>5. u \in Seq(S) /\ Len(u) = 1 /\ u[1] = s[m + 1]
  BY <1>1
<1> HIDE DEF t, u
<1>6. t = u
  <2>1. \A i \in 1 .. Len(t) : t[i] = u[i]
    BY <1>4, <1>5
  <2> QED
    BY <1>4, <1>5, <2>1, SeqEqual
<1> QED
  BY <1>1, <1>6 DEF t, u

LEMMA AddedLast ==
    ASSUME NEW S, NEW B \in Seq(S), NEW s \in Seq(S), Len(s) = Len(B) + 1, SubSeq(s, 1, Len(B)) = B
    PROVE  s = Append(B, s[Len(B) + 1])
<1>1. Len(B) \in Nat /\ s[Len(B) + 1] \in S
  BY LenProperties, ElementOfSeq
<1>2. \A i \in 1 .. Len(B) : B[i] = s[i]
  BY <1>1, Prefix
<1> DEFINE x == s[Len(B) + 1]
<1>3. /\ Append(B, x) \in Seq(S) /\ Len(Append(B, x)) = Len(B) + 1
      /\ \A i \in 1 .. Len(B) : Append(B, x)[i] = B[i]
      /\ Append(B, x)[Len(B) + 1] = x
  BY <1>1, AppendProperties
<1>4. \A i \in 1 .. Len(s) : s[i] = Append(B, x)[i]
  BY <1>1, <1>2, <1>3
<1> QED
  BY <1>3, <1>4, SeqEqual

LEMMA AppendStarts ==
    ASSUME NEW S, NEW B \in Seq(S), NEW x \in S
    PROVE  /\ Append(B, x) \in Seq(S) /\ Len(Append(B, x)) = Len(B) + 1 /\ Append(B, x)[Len(B) + 1] = x
           /\ SubSeq(Append(B, x), 1, Len(B)) = B /\ Append(B, x) # <<>>
<1>1. Len(B) \in Nat
  BY LenProperties
<1>2. /\ Append(B, x) \in Seq(S) /\ Len(Append(B, x)) = Len(B) + 1 /\ Append(B, x)[Len(B) + 1] = x
      /\ Append(B, x) # <<>> /\ \A i \in 1 .. Len(B) : Append(B, x)[i] = B[i]
  BY AppendProperties
<1>3. /\ SubSeq(Append(B, x), 1, Len(B)) \in Seq(S) /\ Len(SubSeq(Append(B, x), 1, Len(B))) = Len(B)
      /\ \A i \in 1 .. Len(B) : SubSeq(Append(B, x), 1, Len(B))[i] = Append(B, x)[i]
  BY <1>1, <1>2, Prefix
<1>4. SubSeq(Append(B, x), 1, Len(B)) = B
  BY <1>2, <1>3, SeqEqual
<1> QED
  BY <1>2, <1>4

(* The stream with what is in q after the first a, up to the first b. *)
Item == Req \cup {Header, Junk}
Fill(q, a, b) == <<Header>> \o SubSeq(q, a + 1, b)

IsFill(f, q, a, b) ==
    f \in Seq(Item) /\ Len(f) = b - a + 1 /\ f[1] = Header /\ \A i \in 1 .. (b - a) : f[i + 1] = q[a + i]

LEMMA FillFacts ==
    ASSUME NEW q \in Seq(Req), NEW a \in Nat, NEW b \in Nat, a <= b, b <= Len(q)
    PROVE  IsFill(Fill(q, a, b), q, a, b)
<1> DEFINE p == SubSeq(q, a + 1, b)
           h == <<Header>>
<1>1. Len(q) \in Nat /\ \A i \in a + 1 .. b : q[i] \in Item
  BY LenProperties, ElementOfSeq DEF Item
<1>2. p \in Seq(Item) /\ Len(p) = b - a /\ \A i \in 1 .. (b - a) : p[i] = q[a + i]
  <2>1. p \in Seq(Item) /\ Len(p) = (IF a + 1 <= b THEN b - (a + 1) + 1 ELSE 0)
        /\ \A i \in 1 .. b - (a + 1) + 1 : p[i] = q[a + 1 + i - 1]
    BY <1>1, SubSeqProperties
  <2> QED
    BY <2>1
<1>3. h \in Seq(Item) /\ Len(h) = 1 /\ h[1] = Header
  BY DEF Item
<1> HIDE DEF p, h
<1>4. h \o p \in Seq(Item) /\ Len(h \o p) = 1 + (b - a)
      /\ \A i \in 1 .. 1 + (b - a) : (h \o p)[i] = IF i <= 1 THEN h[i] ELSE p[i - 1]
  <2>1. h \o p \in Seq(Item) /\ Len(h \o p) = Len(h) + Len(p)
        /\ \A i \in 1 .. Len(h) + Len(p) : (h \o p)[i] = IF i <= Len(h) THEN h[i] ELSE p[i - Len(h)]
    BY <1>2, <1>3, ConcatProperties
  <2> QED
    BY <1>2, <1>3, <2>1
<1>5. Fill(q, a, b) = h \o p
  BY DEF Fill, h, p
<1> DEFINE f == h \o p
<1>6. f[1] = Header
  BY <1>3, <1>4
<1>7. \A i \in 1 .. (b - a) : f[i + 1] = q[a + i]
  <2> TAKE i \in 1 .. (b - a)
  <2>1. i + 1 \in 1 .. 1 + (b - a) /\ ~(i + 1 <= 1) /\ i + 1 - 1 = i
    OBVIOUS
  <2>2. f[i + 1] = p[i]
    BY <1>4, <2>1
  <2> QED
    BY <1>2, <2>2
<1>8. f \in Seq(Item) /\ Len(f) = b - a + 1
  BY <1>4
<1> HIDE DEF f
<1>9. IsFill(f, q, a, b)
  BY <1>6, <1>7, <1>8 DEF IsFill
<1> QED
  BY <1>5, <1>9 DEF f

(* A batch does not change when more requests are finished, *)
LEMMA FillKept ==
    ASSUME NEW q \in Seq(Req), NEW x \in Req, NEW a \in Nat, NEW b \in Nat, a <= b, b <= Len(q)
    PROVE  Fill(Append(q, x), a, b) = Fill(q, a, b)
<1> DEFINE q2 == Append(q, x)
<1>1. q2 \in Seq(Req) /\ Len(q2) = Len(q) + 1 /\ (\A i \in 1 .. Len(q) : q2[i] = q[i]) /\ Len(q) \in Nat
  BY AppendProperties, LenProperties
<1> HIDE DEF q2
<1> DEFINE f == Fill(q, a, b)
           g == Fill(q2, a, b)
<1>2. f \in Seq(Item) /\ Len(f) = b - a + 1 /\ f[1] = Header /\ \A i \in 1 .. (b - a) : f[i + 1] = q[a + i]
  BY FillFacts DEF IsFill
<1>3. g \in Seq(Item) /\ Len(g) = b - a + 1 /\ g[1] = Header /\ \A i \in 1 .. (b - a) : g[i + 1] = q2[a + i]
  <2>1. b <= Len(q2)
    BY <1>1
  <2>2. IsFill(g, q2, a, b)
    BY <1>1, <2>1, FillFacts
  <2> HIDE DEF g
  <2> QED
    BY <2>2 DEF IsFill
<1> HIDE DEF f, g
<1>4. ASSUME NEW i \in 1 .. Len(g) PROVE g[i] = f[i]
  <2>1. CASE i = 1
    BY <1>2, <1>3, <2>1
  <2>2. CASE i # 1
    <3>1. i - 1 \in 1 .. (b - a) /\ (i - 1) + 1 = i /\ a + (i - 1) \in 1 .. Len(q)
      BY <1>1, <1>3, <2>2
    <3>2. f[i] = q[a + (i - 1)] /\ g[i] = q2[a + (i - 1)]
      BY <1>2, <1>3, <3>1
    <3> QED
      BY <1>1, <3>1, <3>2
  <2> QED
    BY <2>1, <2>2
<1>5. g = f
  BY <1>2, <1>3, <1>4, SeqEqual
<1> QED
  BY <1>5 DEF f, g, q2

(* and the one that is filled has each of them at its end. *)
LEMMA FillMore ==
    ASSUME NEW q \in Seq(Req), NEW x \in Req, NEW a \in Nat, a <= Len(q)
    PROVE  Fill(Append(q, x), a, Len(q) + 1) = Append(Fill(q, a, Len(q)), x)
<1> DEFINE q2 == Append(q, x)
           n == Len(q)
<1>1. q2 \in Seq(Req) /\ Len(q2) = n + 1 /\ (\A i \in 1 .. n : q2[i] = q[i]) /\ q2[n + 1] = x /\ n \in Nat
  BY AppendProperties, LenProperties
<1> DEFINE f == Fill(q, a, n)
           g == Fill(q2, a, n + 1)
           h == Append(f, x)
<1>2. f \in Seq(Item) /\ Len(f) = n - a + 1 /\ f[1] = Header /\ \A i \in 1 .. (n - a) : f[i + 1] = q[a + i]
  <2>1. n \in Nat /\ n <= Len(q)
    BY <1>1
  <2>2. IsFill(f, q, a, n)
    BY <2>1, FillFacts
  <2> HIDE DEF f, n
  <2> QED
    BY <2>2 DEF IsFill
<1> HIDE DEF q2
<1>3. g \in Seq(Item) /\ Len(g) = n + 1 - a + 1 /\ g[1] = Header /\ \A i \in 1 .. (n + 1 - a) : g[i + 1] = q2[a + i]
  <2> DEFINE m == n + 1
  <2>1. m \in Nat /\ m <= Len(q2) /\ a <= m /\ g = Fill(q2, a, m)
    BY <1>1
  <2> HIDE DEF m
  <2>2. IsFill(g, q2, a, m)
    BY <1>1, <2>1, FillFacts
  <2> HIDE DEF g
  <2> QED
    BY <2>2 DEF IsFill, m
<1> HIDE DEF f, g
<1>4. x \in Item
  BY DEF Item
<1>5. h \in Seq(Item) /\ Len(h) = Len(f) + 1 /\ (\A i \in 1 .. Len(f) : h[i] = f[i]) /\ h[Len(f) + 1] = x
  BY <1>2, <1>4, AppendProperties
<1> HIDE DEF h
<1>6. ASSUME NEW i \in 1 .. Len(g) PROVE g[i] = h[i]
  <2>1. CASE i = 1
    BY <1>1, <1>2, <1>3, <1>5, <2>1
  <2>2. CASE i # 1 /\ i <= n - a + 1
    <3>1. i - 1 \in 1 .. (n - a) /\ i - 1 \in 1 .. (n + 1 - a) /\ (i - 1) + 1 = i /\ a + (i - 1) \in 1 .. n /\ i \in 1 .. Len(f)
      BY <1>1, <1>2, <1>3, <2>2
    <3>2. f[i] = q[a + (i - 1)] /\ g[i] = q2[a + (i - 1)] /\ h[i] = f[i]
      BY <1>2, <1>3, <1>5, <3>1
    <3> QED
      BY <1>1, <3>1, <3>2
  <2>3. CASE i = n - a + 2
    <3>1. i - 1 \in 1 .. (n + 1 - a) /\ (i - 1) + 1 = i /\ a + (i - 1) = n + 1 /\ i = Len(f) + 1
      BY <1>1, <1>2, <2>3
    <3>2. g[i] = q2[n + 1] /\ h[i] = x
      BY <1>3, <1>5, <3>1
    <3> QED
      BY <1>1, <3>2
  <2>4. i = 1 \/ (i # 1 /\ i <= n - a + 1) \/ i = n - a + 2
    BY <1>1, <1>3
  <2> QED
    BY <2>1, <2>2, <2>3, <2>4
<1>7. g = h
  <2>1. Len(g) = Len(h)
    BY <1>1, <1>2, <1>3, <1>5
  <2> QED
    BY <1>3, <1>5, <1>6, <2>1, SeqEqual
<1> QED
  BY <1>7 DEF f, g, h, q2

LEMMA FillNone ==
    ASSUME NEW q \in Seq(Req)
    PROVE  Fill(q, Len(q), Len(q)) = <<Header>>
<1>1. Len(q) \in Nat
  BY LenProperties
<1>2. SubSeq(q, Len(q) + 1, Len(q)) = <<>>
  BY <1>1, SubSeqEmpty
<1>3. <<Header>> \in Seq({Header})
  OBVIOUS
<1>4. <<Header>> \o <<>> = <<Header>>
  BY <1>3, ConcatEmptySeq
<1> QED
  BY <1>2, <1>4 DEF Fill

-----------------------------------------------------------------------------
(* The batch that is being filled has the length that the marker says. *)
Entry == [batch : Stream, num : Nat, upto : Nat]

LEMMA Bases ==
    ASSUME TypeOK, Log, NEW i \in 1 .. Len(sent) + 1
    PROVE  Before(i) \in Nat /\ Before(i) <= Len(accepted)
<1>1. accepted \in Seq(Req) /\ sent \in Seq(Entry)
  BY DEF TypeOK, Entry
<1>2. Len(accepted) \in Nat /\ Len(sent) \in Nat
  BY <1>1, LenProperties
<1>3. CASE i = 1
  BY <1>2, <1>3 DEF Before
<1>4. CASE i # 1
  <2>1. i - 1 \in 1 .. Len(sent)
    BY <1>2, <1>4
  <2>2. sent[i - 1] \in Entry
    BY <1>1, <2>1, ElementOfSeq
  <2>3. sent[i - 1].upto \in Nat
    BY <2>2 DEF Entry
  <2>4. sent[i - 1].upto <= Len(accepted)
    BY <2>1 DEF Log
  <2> QED
    BY <1>4, <2>3, <2>4 DEF Before
<1> QED
  BY <1>3, <1>4

LEMMA BatchFacts ==
    ASSUME TypeOK, Log, marker = num + 1
    PROVE  Batch \in Seq(Item) /\ Len(Batch) = marker /\ Batch # <<>> /\ marker \in Nat
<1> DEFINE a == Before(Len(sent) + 1)
           n == Len(accepted)
<1>1. accepted \in Seq(Req) /\ sent \in Seq(Entry) /\ num \in Nat
  BY DEF TypeOK, Entry
<1>2. n \in Nat /\ Len(sent) + 1 \in 1 .. Len(sent) + 1
  BY <1>1, LenProperties
<1>3. a \in Nat /\ a <= n
  BY <1>2, Bases
<1>4. n = a + num
  BY DEF Log
<1>5. Batch = Fill(accepted, a, n)
  BY DEF Batch, Filled, Fill
<1> HIDE DEF a
<1>6. IsFill(Fill(accepted, a, n), accepted, a, n)
  BY <1>1, <1>2, <1>3, FillFacts
<1>7. Batch \in Seq(Item) /\ Len(Batch) = n - a + 1
  BY <1>5, <1>6 DEF IsFill
<1>8. n - a + 1 = marker /\ marker # 0 /\ marker \in Nat
  BY <1>1, <1>2, <1>3, <1>4
<1>9. Batch # <<>>
  <2>1. Len(<<>>) = 0
    OBVIOUS
  <2> QED
    BY <1>7, <1>8, <2>1
<1> QED
  BY <1>7, <1>8, <1>9

LEMMA SameBatch ==
    ASSUME sent' = sent, accepted' = accepted
    PROVE  Batch' = Batch /\ (num' = num /\ Log => Log')
BY DEF Batch, Log, Filled, Before

(* The threads that have nothing of the queue keep their places, *)
LEMMA Bystander ==
    ASSUME TypeOK, NEW u \in Thread, Place(u), ~Holds(u), pc'[u] = pc[u], os'[u] = os[u], calls'[u] = calls[u]
    PROVE  Place(u)' /\ ~Holds(u)'
<1>1. pc[u] \in {"idle", "abort"} /\ (pc[u] = "abort" => os[u] = <<>>)
  BY DEF TypeOK, Holds
<1>2. ~Writes(u) /\ ~Writes(u)' /\ ~Holds(u)'
  BY <1>1 DEF Writes, Holds
<1> QED
  BY <1>1, <1>2 DEF Place

(* and of those that have the stream there is one. *)
LEMMA OneHolder ==
    ASSUME StreamOwned, NEW t \in Thread, Holds(t)
    PROVE  inUse /\ \A u \in Thread : u # t => ~Holds(u)
BY DEF StreamOwned

LEMMA Owned ==
    ASSUME NEW t \in Thread, \A u \in Thread : u # t => ~Holds(u)', Holds(t)' <=> inUse', inUse' \in BOOLEAN
    PROVE  StreamOwned'
<1>1. \A u \in Thread : Holds(u)' => u = t
  OBVIOUS
<1>2. \A u, v \in Thread : Holds(u)' /\ Holds(v)' => u = v
  BY <1>1
<1>3. inUse' <=> \E u \in Thread : Holds(u)'
  BY <1>1
<1> QED
  BY <1>2, <1>3 DEF StreamOwned

(* The invariant after a step of t, which no other thread has the stream   *)
(* during.                                                                 *)
LEMMA Whole ==
    ASSUME Inv, NEW t \in Thread, \A u \in Thread : u # t => ~Holds(u),
           \A u \in Thread : u # t => pc'[u] = pc[u] /\ os'[u] = os[u] /\ calls'[u] = calls[u],
           TypeOK', Log', marker' = num' + 1, exception' = exception, ~inUse' => stream' = Batch',
           Place(t)', Holds(t)' <=> inUse'
    PROVE  Inv'
<1>1. \A u \in Thread : u # t => Place(u)' /\ ~Holds(u)'
  <2> TAKE u \in Thread
  <2> HAVE u # t
  <2>1. TypeOK /\ Place(u) /\ ~Holds(u)
    BY DEF Inv
  <2> QED
    BY <2>1, Bystander
<1>2. StreamOwned'
  <2>1. inUse' \in BOOLEAN
    BY DEF TypeOK
  <2> QED
    BY <1>1, <2>1, Owned
<1>3. \A u \in Thread : Place(u)'
  BY <1>1
<1>4. Events \subseteq {"write"} => ~exception'
  BY DEF Inv
<1> QED
  BY <1>2, <1>3, <1>4 DEF Inv

LEMMA Requests ==
    ASSUME TypeOK, NEW t \in Thread, calls[t] > 0
    PROVE  ThisRequest(t) \in Req /\ ThisRequest(t) \in Item
<1>1. calls[t] \in 0 .. MaxCalls
  BY DEF TypeOK
<1>2. calls[t] \in 1 .. MaxCalls
  BY <1>1
<1> QED
  BY <1>2 DEF ThisRequest, Req, Item

-----------------------------------------------------------------------------
LEMMA PrepareKeeps ==
    ASSUME BatchAssumption, OneOwner, Inv, NEW t \in Thread, PrepareBatchRequest(t)
    PROVE  Inv'
<1>1. TypeOK /\ StreamOwned /\ Log /\ marker = num + 1 /\ Place(t)
  BY DEF Inv
<1>2. pc[t] = "idle" /\ calls[t] < MaxCalls /\ calls' = [calls EXCEPT ![t] = @ + 1]
      /\ owner' = owner /\ num' = num /\ marker' = marker /\ exception' = exception /\ sent' = sent /\ accepted' = accepted
  BY DEF PrepareBatchRequest
<1>3. Batch' = Batch /\ Log'
  BY <1>1, <1>2, SameBatch
<1>4. calls' \in [Thread -> 0 .. MaxCalls] /\ calls'[t] > 0
  <2>1. calls \in [Thread -> 0 .. MaxCalls]
    BY <1>1 DEF TypeOK
  <2>2. calls[t] + 1 \in 0 .. MaxCalls /\ calls[t] + 1 > 0
    <3>1. MaxCalls \in Nat /\ calls[t] \in 0 .. MaxCalls
      BY <2>1 DEF BatchAssumption
    <3> QED
      BY <1>2, <3>1
  <2> QED
    BY <1>2, <2>1, <2>2
<1>5. os[t] = <<>>
  BY <1>1, <1>2 DEF Place, Writes
<1>6. CASE exception /\ Goes(t, "abort") /\ UNCHANGED <<stream, inUse, os>>
  <2>1. ~(Events \subseteq {"write"})
    BY <1>6 DEF Inv
  <2>2. \A u \in Thread : u = t
    BY <2>1 DEF OneOwner
  <2>3. pc' \in [Thread -> {"idle", "write", "finish", "flush", "intercept", "release", "throw", "abort"}] /\ pc'[t] = "abort"
    BY <1>1, <1>6 DEF TypeOK, Goes
  <2>4. TypeOK'
    BY <1>1, <1>2, <1>4, <1>6, <2>3 DEF TypeOK
  <2>5. ~Holds(t) /\ ~Holds(t)' /\ ~Writes(t)'
    BY <1>2, <1>5, <1>6, <2>3 DEF Holds, Writes
  <2>6. ~inUse
    BY <1>1, <2>2, <2>5 DEF StreamOwned
  <2>7. Place(t)'
    BY <1>4, <1>5, <1>6, <2>1, <2>3, <2>5 DEF Place
  <2>8. ~inUse' => stream' = Batch'
    BY <1>3, <1>6, <2>6 DEF Inv
  <2> QED
    <3>1. Holds(t)' <=> inUse'
      BY <1>6, <2>5, <2>6
    <3>2. (\A u \in Thread : u # t => ~Holds(u))
          /\ \A u \in Thread : u # t => pc'[u] = pc[u] /\ os'[u] = os[u] /\ calls'[u] = calls[u]
      BY <2>2
    <3> QED
      BY <1>1, <1>2, <1>3, <2>4, <2>7, <2>8, <3>1, <3>2, Whole
<1>7. CASE ~exception /\ ~inUse /\ inUse' = TRUE /\ os' = [os EXCEPT ![t] = stream] /\ stream' = <<>> /\ Goes(t, "write")
  <2>1. \A u \in Thread : ~Holds(u)
    BY <1>1, <1>7 DEF StreamOwned
  <2>2. stream = Batch
    BY <1>7 DEF Inv
  <2>3. pc' \in [Thread -> {"idle", "write", "finish", "flush", "intercept", "release", "throw", "abort"}] /\ pc'[t] = "write"
        /\ \A u \in Thread : u # t => pc'[u] = pc[u]
    BY <1>1, <1>7 DEF TypeOK, Goes
  <2>4. os' \in [Thread -> Stream] /\ os'[t] = stream /\ \A u \in Thread : u # t => os'[u] = os[u]
    BY <1>1, <1>7 DEF TypeOK
  <2>5. stream' \in Stream
    BY <1>7 DEF Stream
  <2>6. TypeOK'
    BY <1>1, <1>2, <1>4, <1>7, <2>3, <2>4, <2>5 DEF TypeOK
  <2>7. Holds(t)' /\ Writes(t)'
    BY <2>3 DEF Holds, Writes
  <2>8. Place(t)'
    BY <1>3, <1>4, <1>7, <2>2, <2>3, <2>4, <2>7 DEF Place
  <2>9. \A u \in Thread : u # t => calls'[u] = calls[u]
    BY <1>1, <1>2 DEF TypeOK
  <2> QED
    BY <1>1, <1>2, <1>3, <1>7, <2>1, <2>3, <2>4, <2>6, <2>7, <2>8, <2>9, Whole
<1> QED
  BY <1>6, <1>7 DEF PrepareBatchRequest

(* What a step of the thread that has the stream starts from. *)
LEMMA Holder ==
    ASSUME Inv, NEW t \in Thread, Holds(t)
    PROVE  /\ TypeOK /\ StreamOwned /\ Log /\ marker = num + 1 /\ Place(t) /\ inUse /\ (\A u \in Thread : u # t => ~Holds(u))
           /\ Batch \in Seq(Item) /\ Len(Batch) = marker /\ Batch # <<>> /\ marker \in Nat
           /\ ThisRequest(t) \in Item /\ ThisRequest(t) \in Req
<1>1. TypeOK /\ StreamOwned /\ Log /\ marker = num + 1 /\ Place(t)
  BY DEF Inv
<1>2. calls[t] > 0
  BY <1>1 DEF Place, Holds
<1> QED
  BY <1>1, <1>2, OneHolder, BatchFacts, Requests

LEMMA NewPc ==
    ASSUME TypeOK, NEW t \in Thread, NEW p \in {"idle", "write", "finish", "flush", "intercept", "release", "throw", "abort"},
           Goes(t, p)
    PROVE  /\ pc' \in [Thread -> {"idle", "write", "finish", "flush", "intercept", "release", "throw", "abort"}]
           /\ pc'[t] = p /\ \A u \in Thread : u # t => pc'[u] = pc[u]
BY DEF TypeOK, Goes

LEMMA WriteKeeps ==
    ASSUME Inv, NEW t \in Thread, Write(t)
    PROVE  Inv'
<1>1. pc[t] = "write" /\ Holds(t) /\ os' = [os EXCEPT ![t] = Append(@, ThisRequest(t))] /\ stream' = stream /\ inUse' = inUse
      /\ owner' = owner /\ num' = num /\ marker' = marker /\ exception' = exception /\ sent' = sent /\ accepted' = accepted
      /\ calls' = calls
  BY DEF Write, Holds
<1>2. /\ TypeOK /\ StreamOwned /\ Log /\ marker = num + 1 /\ Place(t) /\ inUse /\ (\A u \in Thread : u # t => ~Holds(u))
      /\ Batch \in Seq(Item) /\ Len(Batch) = marker /\ Batch # <<>> /\ marker \in Nat
      /\ ThisRequest(t) \in Item /\ ThisRequest(t) \in Req
  BY <1>1, Holder
<1>3. PICK p \in {"finish", "abort"} : Goes(t, p)
  BY DEF Write
<1>4. pc' \in [Thread -> {"idle", "write", "finish", "flush", "intercept", "release", "throw", "abort"}]
      /\ pc'[t] = p /\ \A u \in Thread : u # t => pc'[u] = pc[u]
  BY <1>2, <1>3, NewPc
<1>5. Batch' = Batch /\ Log'
  BY <1>1, <1>2, SameBatch
<1>6. os[t] = Batch /\ stream = <<>>
  BY <1>1, <1>2 DEF Place, Writes
<1> DEFINE s == Append(Batch, ThisRequest(t))
<1>7. s \in Seq(Item) /\ Len(s) = marker + 1 /\ s[marker + 1] = ThisRequest(t) /\ SubSeq(s, 1, marker) = Batch /\ s # <<>>
  BY <1>2, AppendStarts
<1>8. os' = [os EXCEPT ![t] = s]
  BY <1>1, <1>6
<1> HIDE DEF s
<1>9. os' \in [Thread -> Stream] /\ os'[t] = s /\ \A u \in Thread : u # t => os'[u] = os[u]
  BY <1>2, <1>7, <1>8 DEF TypeOK, Stream, Item
<1>10. TypeOK'
  BY <1>1, <1>2, <1>4, <1>9 DEF TypeOK
<1>11. ThisRequest(t)' = ThisRequest(t)
  BY <1>1 DEF ThisRequest
<1>12. Adds(os[t], t)'
  <2>1. marker <= marker + 1
    BY <1>2
  <2> QED
    BY <1>1, <1>5, <1>7, <1>9, <1>11, <2>1 DEF Adds, Starts
<1>13. Writes(t)' /\ Holds(t)'
  BY <1>3, <1>4, <1>7, <1>9 DEF Writes, Holds
<1>14. Place(t)'
  BY <1>1, <1>2, <1>3, <1>4, <1>6, <1>7, <1>9, <1>12, <1>13 DEF Place
<1> QED
  BY <1>1, <1>2, <1>4, <1>5, <1>9, <1>10, <1>13, <1>14, Whole

LEMMA FinishKeeps ==
    ASSUME Inv, NEW t \in Thread, FinishBatchRequest(t)
    PROVE  Inv'
<1>1. pc[t] = "finish" /\ Holds(t) /\ os' = [os EXCEPT ![t] = stream] /\ stream' = os[t] /\ inUse' = inUse
      /\ owner' = t /\ num' = num /\ marker' = marker /\ exception' = exception /\ sent' = sent /\ accepted' = accepted
      /\ calls' = calls
  BY DEF FinishBatchRequest, Holds
<1>2. /\ TypeOK /\ StreamOwned /\ Log /\ marker = num + 1 /\ Place(t) /\ inUse /\ (\A u \in Thread : u # t => ~Holds(u))
  BY <1>1, Holder
<1>3. PICK p \in {"flush", "intercept"} : Goes(t, p)
  BY DEF FinishBatchRequest
<1>4. pc' \in [Thread -> {"idle", "write", "finish", "flush", "intercept", "release", "throw", "abort"}]
      /\ pc'[t] = p /\ \A u \in Thread : u # t => pc'[u] = pc[u]
  BY <1>2, <1>3, NewPc
<1>5. Batch' = Batch /\ Log'
  BY <1>1, <1>2, SameBatch
<1>6. Adds(os[t], t) /\ stream = <<>>
  BY <1>1, <1>2 DEF Place, Writes
<1>7. os' \in [Thread -> Stream] /\ os'[t] = stream /\ stream' \in Stream /\ \A u \in Thread : u # t => os'[u] = os[u]
  BY <1>1, <1>2 DEF TypeOK
<1>8. TypeOK'
  BY <1>1, <1>2, <1>4, <1>7 DEF TypeOK
<1>9. Adds(stream, t)'
  BY <1>1, <1>5, <1>6 DEF Adds, Starts, ThisRequest
<1>10. ~Writes(t)' /\ Holds(t)'
  BY <1>3, <1>4 DEF Writes, Holds
<1>11. Place(t)'
  BY <1>1, <1>2, <1>3, <1>4, <1>6, <1>7, <1>9, <1>10 DEF Place
<1> QED
  BY <1>1, <1>2, <1>4, <1>5, <1>7, <1>8, <1>10, <1>11, Whole

-----------------------------------------------------------------------------
(* swap() takes the batch, and leaves what follows it. *)
Swapped ==
    /\ Log' /\ sent' \in Seq(Entry) /\ num' \in Nat /\ marker' \in Nat \ {0} /\ marker' = num' + 1
    /\ \/ stream' = stream /\ marker' = marker /\ Batch' = Batch
       \/ stream' = <<Header>> \o SubSeq(stream, marker + 1, Len(stream)) /\ marker' = 1 /\ Batch' = <<Header>>

LEMMA SwapFacts ==
    ASSUME TypeOK, Log, marker = num + 1, Starts(stream), Swap, accepted' = accepted
    PROVE  Swapped
<1>1. accepted \in Seq(Req) /\ sent \in Seq(Entry) /\ num \in Nat /\ marker \in Nat \ {0} /\ stream \in Seq(Item)
  BY DEF TypeOK, Entry, Stream, Item
<1> DEFINE n == Len(sent)
           k == Len(accepted)
<1>2. n \in Nat /\ k \in Nat /\ Len(stream) \in Nat
  BY <1>1, LenProperties
<1>3. CASE num = 0
  <2>1. stream' = stream /\ num' = num /\ marker' = marker /\ sent' = sent
    BY <1>3 DEF Swap
  <2>2. Log' /\ Batch' = Batch
    BY <2>1, SameBatch
  <2> QED
    BY <1>1, <2>1, <2>2 DEF Swapped
<1>4. CASE num # 0
  <2> DEFINE b == IF marker < Len(stream) THEN SubSeq(stream, 1, marker) ELSE stream
             e == [batch |-> b, num |-> num, upto |-> k]
  <2>1. sent' = Append(sent, e) /\ stream' = <<Header>> \o SubSeq(stream, marker + 1, Len(stream)) /\ num' = 0 /\ marker' = 1
    BY <1>4 DEF Swap
  <2>2. b = Batch
    <3>1. SubSeq(stream, 1, marker) = Batch /\ marker <= Len(stream)
      BY DEF Starts
    <3>2. CASE marker < Len(stream)
      BY <3>1, <3>2
    <3>3. CASE ~(marker < Len(stream))
      <4>1. marker = Len(stream)
        BY <1>1, <1>2, <3>1, <3>3
      <4>2. /\ SubSeq(stream, 1, marker) \in Seq(Item) /\ Len(SubSeq(stream, 1, marker)) = marker
            /\ \A i \in 1 .. marker : SubSeq(stream, 1, marker)[i] = stream[i]
        BY <1>1, <3>1, Prefix
      <4>3. SubSeq(stream, 1, marker) = stream
        BY <1>1, <4>1, <4>2, SeqEqual
      <4> QED
        BY <3>1, <3>3, <4>3
    <3> QED
      BY <3>2, <3>3
  <2>3. e.batch = Batch /\ e.num = num /\ e.upto = k /\ e \in Entry
    <3>1. Batch \in Stream
      BY BatchFacts DEF Stream, Item
    <3> HIDE DEF b
    <3> QED
      BY <1>1, <1>2, <2>2, <3>1 DEF Entry
  <2> HIDE DEF e
  <2>4. /\ sent' \in Seq(Entry) /\ Len(sent') = n + 1
        /\ (\A i \in 1 .. n : sent'[i] = sent[i]) /\ sent'[n + 1] = e
    BY <1>1, <2>1, <2>3, AppendProperties
  <2>5. \A i \in 1 .. n + 1 : Before(i)' = Before(i)
    <3> TAKE i \in 1 .. n + 1
    <3>1. CASE i = 1
      BY <3>1 DEF Before
    <3>2. CASE i # 1
      <4>1. i - 1 \in 1 .. n
        BY <1>2, <3>2
      <4> QED
        BY <2>4, <3>2, <4>1 DEF Before
    <3> QED
      BY <3>1, <3>2
  <2>6. Before(Len(sent) + 1)' = k
    <3>1. n + 1 + 1 # 1 /\ n + 1 + 1 - 1 = n + 1
      BY <1>2
    <3> QED
      BY <2>3, <2>4, <3>1 DEF Before
  <2>7. Batch' = <<Header>>
    <3>1. Batch' = Fill(accepted, k, k)
      BY <2>6 DEF Batch, Filled, Fill
    <3> QED
      BY <1>1, <3>1, FillNone
  <2>8. Len(accepted)' = Before(Len(sent) + 1)' + num'
    BY <1>2, <2>1, <2>6
  <2>9. ASSUME NEW i \in 1 .. Len(sent')
        PROVE  sent'[i].num > 0 /\ sent'[i].upto = Before(i)' + sent'[i].num /\ sent'[i].upto <= Len(accepted')
               /\ sent'[i].batch = Fill(accepted, Before(i)', sent'[i].upto)
    <3>1. i \in 1 .. n + 1
      BY <2>4
    <3>2. Before(i)' = Before(i)
      BY <2>5, <3>1
    <3>3. CASE i \in 1 .. n
      <4>1. sent'[i] = sent[i]
        BY <2>4, <3>3
      <4>2. sent[i].num > 0 /\ sent[i].upto = Before(i) + sent[i].num /\ sent[i].upto <= Len(accepted)
            /\ sent[i].batch = Filled(Before(i), sent[i].upto)
        BY <3>3 DEF Log
      <4> QED
        BY <3>2, <4>1, <4>2 DEF Filled, Fill
    <3>4. CASE i = n + 1
      <4>1. sent'[i].num = num /\ sent'[i].upto = k /\ sent'[i].batch = Batch
        BY <2>3, <2>4, <3>4
      <4>2. k = Before(i) + num
        BY <3>4 DEF Log
      <4>3. num > 0 /\ k <= Len(accepted')
        BY <1>1, <1>2, <1>4
      <4>4. Batch = Filled(Before(i), k)
        BY <3>4 DEF Batch
      <4> QED
        BY <3>2, <4>1, <4>2, <4>3, <4>4 DEF Filled, Fill
    <3> QED
      BY <1>2, <3>1, <3>3, <3>4
  <2>10. Log'
    BY <2>8, <2>9 DEF Log, Filled, Fill
  <2> QED
    BY <2>1, <2>4, <2>7, <2>10 DEF Swapped
<1> QED
  BY <1>3, <1>4

-----------------------------------------------------------------------------
LEMMA AutoFlushKeeps ==
    ASSUME Inv, NEW t \in Thread, AutoFlush(t)
    PROVE  Inv'
<1>1. pc[t] = "flush" /\ Holds(t) /\ Swap /\ inUse' = inUse /\ owner' = owner /\ exception' = exception /\ os' = os
      /\ calls' = calls /\ accepted' = accepted
  BY DEF AutoFlush, Holds
<1>2. /\ TypeOK /\ StreamOwned /\ Log /\ marker = num + 1 /\ Place(t) /\ inUse /\ (\A u \in Thread : u # t => ~Holds(u))
      /\ marker \in Nat /\ ThisRequest(t) \in Item
  BY <1>1, Holder
<1>3. PICK p \in {"intercept", "throw"} : Goes(t, p) /\ (p = "throw" => "flush" \in Events)
  BY DEF AutoFlush
<1>4. pc' \in [Thread -> {"idle", "write", "finish", "flush", "intercept", "release", "throw", "abort"}]
      /\ pc'[t] = p /\ \A u \in Thread : u # t => pc'[u] = pc[u]
  BY <1>2, <1>3, NewPc
<1>5. Adds(stream, t) /\ os[t] = <<>> /\ stream \in Seq(Item) /\ ThisRequest(t)' = ThisRequest(t)
  BY <1>1, <1>2 DEF Place, Writes, TypeOK, Stream, Item, ThisRequest
<1>6. Swapped
  BY <1>1, <1>2, <1>5, SwapFacts DEF Adds
<1>7. stream' \in Seq(Item) /\ Adds(stream, t)'
  <2>1. CASE stream' = stream /\ marker' = marker /\ Batch' = Batch
    BY <1>5, <2>1 DEF Adds, Starts
  <2>2. CASE stream' = <<Header>> \o SubSeq(stream, marker + 1, Len(stream)) /\ marker' = 1 /\ Batch' = <<Header>>
    <3> DEFINE h == <<Header>>
               s == Append(h, ThisRequest(t))
    <3>1. Len(stream) = marker + 1 /\ stream[marker + 1] = ThisRequest(t)
      BY <1>5 DEF Adds
    <3>2. SubSeq(stream, marker + 1, Len(stream)) = <<ThisRequest(t)>>
      BY <1>2, <1>5, <3>1, Rest
    <3>3. h \in Seq(Item) /\ Len(h) = 1
      BY DEF Item
    <3> HIDE DEF h
    <3>4. h \o <<ThisRequest(t)>> = s
      BY <1>2, <3>3, AppendIsConcat
    <3>5. stream' = s /\ Batch' = h
      BY <2>2, <3>2, <3>4 DEF h
    <3>6. s \in Seq(Item) /\ Len(s) = Len(h) + 1 /\ s[Len(h) + 1] = ThisRequest(t) /\ SubSeq(s, 1, Len(h)) = h
      BY <1>2, <3>3, AppendStarts
    <3>7. marker' = Len(h) /\ Len(h) <= Len(h) + 1
      BY <2>2, <3>3
    <3> HIDE DEF s
    <3>8. Starts(stream)'
      BY <3>5, <3>6, <3>7 DEF Starts
    <3>9. Len(stream)' = marker' + 1 /\ stream'[marker' + 1] = ThisRequest(t)'
      BY <1>5, <3>5, <3>6, <3>7
    <3> QED
      BY <3>5, <3>6, <3>8, <3>9 DEF Adds
  <2> QED
    BY <1>6, <2>1, <2>2 DEF Swapped
<1>8. TypeOK'
  <2>1. stream' \in Stream /\ sent' \in Seq([batch : Stream, num : Nat, upto : Nat]) /\ num' \in Nat /\ marker' \in Nat \ {0}
    BY <1>6, <1>7 DEF Swapped, Entry, Stream, Item
  <2> QED
    BY <1>1, <1>2, <1>4, <2>1 DEF TypeOK
<1>9. ~Writes(t)' /\ Holds(t)'
  BY <1>4 DEF Writes, Holds
<1>10. Starts(stream)'
  BY <1>7 DEF Adds
<1>11. Place(t)'
  <2>1. Events \subseteq {"write"} => p # "throw"
    BY <1>3
  <2> QED
    BY <1>1, <1>2, <1>4, <1>5, <1>7, <1>9, <1>10, <2>1 DEF Place
<1>12. Log' /\ marker' = num' + 1
  BY <1>6 DEF Swapped
<1> QED
  BY <1>1, <1>2, <1>4, <1>8, <1>9, <1>11, <1>12, Whole

(* A request that is finished is the last of the batch. *)
LEMMA AcceptFacts ==
    ASSUME TypeOK, Log, marker = num + 1, NEW x \in Req, accepted' = Append(accepted, x), sent' = sent, num' = num + 1
    PROVE  Log' /\ Batch' = Append(Batch, x) /\ accepted' \in Seq(Req)
<1>1. accepted \in Seq(Req) /\ sent \in Seq(Entry) /\ num \in Nat
  BY DEF TypeOK, Entry
<1> DEFINE n == Len(sent)
           k == Len(accepted)
<1>2. n \in Nat /\ k \in Nat /\ n + 1 \in 1 .. n + 1
  BY <1>1, LenProperties
<1>3. accepted' \in Seq(Req) /\ Len(accepted') = k + 1
  BY <1>1, AppendProperties
<1>4. \A i : Before(i)' = Before(i)
  BY DEF Before
<1>5. Before(n + 1) \in Nat /\ Before(n + 1) <= k
  BY <1>2, Bases
<1>6. Batch' = Append(Batch, x)
  <2> DEFINE a == Before(n + 1)
  <2>1. Batch' = Fill(Append(accepted, x), a, k + 1)
    BY <1>3, <1>4 DEF Batch, Filled, Fill
  <2>2. Batch = Fill(accepted, a, k)
    BY DEF Batch, Filled, Fill
  <2>3. a \in Nat /\ a <= k
    BY <1>5
  <2> HIDE DEF a
  <2> QED
    BY <1>1, <2>1, <2>2, <2>3, FillMore
<1>7. ASSUME NEW i \in 1 .. n
      PROVE  sent[i].num > 0 /\ sent[i].upto = Before(i) + sent[i].num /\ sent[i].upto <= Len(accepted')
             /\ sent[i].batch = Fill(accepted', Before(i), sent[i].upto)
  <2> DEFINE a == Before(i)
             b == sent[i].upto
  <2>1. sent[i].num > 0 /\ b = a + sent[i].num /\ b <= k /\ sent[i].batch = Fill(accepted, a, b)
    BY DEF Log, Filled, Fill
  <2>2. i \in 1 .. Len(sent) + 1 /\ sent[i] \in Entry
    BY <1>1, <1>2, ElementOfSeq
  <2>3. b \in Nat /\ sent[i].num \in Nat
    BY <2>2 DEF Entry
  <2>4. a \in Nat
    BY <2>2, Bases
  <2> HIDE DEF a, b
  <2>5. a <= b /\ b <= Len(accepted')
    BY <1>2, <1>3, <2>1, <2>3, <2>4
  <2>6. Fill(accepted', a, b) = Fill(accepted, a, b)
    BY <1>1, <2>1, <2>3, <2>4, <2>5, FillKept
  <2> QED
    BY <2>1, <2>5, <2>6 DEF a, b
<1>8. Len(accepted') = Before(n + 1) + num'
  <2>1. k = Before(n + 1) + num
    BY DEF Log
  <2> QED
    BY <1>1, <1>3, <1>5, <2>1
<1>9. Log'
  BY <1>4, <1>7, <1>8 DEF Log, Filled, Fill
<1> QED
  BY <1>3, <1>6, <1>9

-----------------------------------------------------------------------------
LEMMA InterceptKeeps ==
    ASSUME Inv, NEW t \in Thread, Intercept(t)
    PROVE  Inv'
<1>1. pc[t] = "intercept" /\ Holds(t) /\ stream' = stream /\ inUse' = inUse /\ owner' = owner /\ exception' = exception
      /\ os' = os /\ calls' = calls /\ sent' = sent
  BY DEF Intercept, Holds
<1>2. /\ TypeOK /\ StreamOwned /\ Log /\ marker = num + 1 /\ Place(t) /\ inUse /\ (\A u \in Thread : u # t => ~Holds(u))
      /\ Batch \in Seq(Item) /\ Len(Batch) = marker /\ Batch # <<>> /\ marker \in Nat
      /\ ThisRequest(t) \in Item /\ ThisRequest(t) \in Req
  BY <1>1, Holder
<1>3. PICK p \in {"release", "throw"} : Goes(t, p) /\ (p = "throw" => "interceptor" \in Events)
  BY DEF Intercept
<1>4. pc' \in [Thread -> {"idle", "write", "finish", "flush", "intercept", "release", "throw", "abort"}]
      /\ pc'[t] = p /\ \A u \in Thread : u # t => pc'[u] = pc[u]
  BY <1>2, <1>3, NewPc
<1>5. Adds(stream, t) /\ os[t] = <<>> /\ stream \in Seq(Item)
  BY <1>1, <1>2 DEF Place, Writes, TypeOK, Stream, Item
<1>6. /\ Log' /\ marker' = num' + 1 /\ Starts(stream)'
      /\ num' \in Nat /\ marker' \in Nat \ {0} /\ accepted' \in Seq(Req)
  <2>1. CASE marker' = Len(stream) /\ num' = num + 1 /\ accepted' = Append(accepted, ThisRequest(t))
    <3>1. Log' /\ Batch' = Append(Batch, ThisRequest(t)) /\ accepted' \in Seq(Req)
      BY <1>1, <1>2, <2>1, AcceptFacts
    <3>2. Len(stream) = marker + 1 /\ stream[marker + 1] = ThisRequest(t) /\ SubSeq(stream, 1, marker) = Batch
      BY <1>5 DEF Adds, Starts
    <3>3. stream = Append(Batch, ThisRequest(t))
      BY <1>2, <1>5, <3>2, AddedLast
    <3>4. SubSeq(stream, 1, Len(stream)) = stream
      BY <1>5, SubSeqFull
    <3>5. num \in Nat /\ Len(stream) <= Len(stream)
      BY <1>2, <3>2 DEF TypeOK
    <3>6. Starts(stream)'
      BY <1>1, <2>1, <3>1, <3>3, <3>4, <3>5 DEF Starts
    <3>7. marker' = num' + 1 /\ num' \in Nat /\ marker' \in Nat \ {0}
      BY <1>2, <2>1, <3>2, <3>5
    <3> QED
      BY <3>1, <3>6, <3>7
  <2>2. CASE UNCHANGED <<marker, num, accepted>>
    <3>1. Log' /\ Batch' = Batch
      BY <1>1, <1>2, <2>2, SameBatch
    <3>2. Starts(stream)'
      BY <1>1, <1>5, <2>2, <3>1 DEF Adds, Starts
    <3> QED
      BY <1>2, <2>2, <3>1, <3>2 DEF TypeOK
  <2> QED
    BY <2>1, <2>2 DEF Intercept
<1>7. TypeOK'
  BY <1>1, <1>2, <1>4, <1>6 DEF TypeOK
<1>8. ~Writes(t)' /\ Holds(t)'
  BY <1>4 DEF Writes, Holds
<1>9. Place(t)'
  <2>1. Events \subseteq {"write"} => p # "throw"
    BY <1>3
  <2> QED
    BY <1>1, <1>2, <1>4, <1>5, <1>6, <1>8, <2>1 DEF Place
<1> QED
  BY <1>1, <1>2, <1>4, <1>6, <1>7, <1>8, <1>9, Whole

(* resize() to the marker leaves the batch. *)
LEMMA Resized ==
    ASSUME NEW s \in Seq(Item), marker \in Nat, Starts(s)
    PROVE  Resize(s, marker) = Batch
BY ResizeIs DEF Starts

LEMMA ReleaseKeeps ==
    ASSUME Inv, NEW t \in Thread, Release(t)
    PROVE  Inv'
<1>1. pc[t] \in {"release", "throw"} /\ Holds(t) /\ stream' = Resize(stream, marker) /\ inUse' = FALSE /\ owner' = None
      /\ num' = num /\ marker' = marker /\ exception' = exception /\ calls' = calls /\ sent' = sent /\ accepted' = accepted
      /\ Goes(t, IF pc[t] = "throw" THEN "abort" ELSE "idle")
      /\ os' = IF pc[t] = "throw" THEN os ELSE [os EXCEPT ![t] = <<>>]
  BY DEF Release, Holds
<1>2. /\ TypeOK /\ StreamOwned /\ Log /\ marker = num + 1 /\ Place(t) /\ inUse /\ (\A u \in Thread : u # t => ~Holds(u))
      /\ Batch \in Seq(Item) /\ marker \in Nat
  BY <1>1, Holder
<1> DEFINE p == IF pc[t] = "throw" THEN "abort" ELSE "idle"
<1>3. p \in {"idle", "abort"} /\ Goes(t, p) /\ (p = "abort" => pc[t] = "throw")
  BY <1>1
<1> HIDE DEF p
<1>4. pc' \in [Thread -> {"idle", "write", "finish", "flush", "intercept", "release", "throw", "abort"}]
      /\ pc'[t] = p /\ \A u \in Thread : u # t => pc'[u] = pc[u]
  BY <1>2, <1>3, NewPc
<1>5. Starts(stream) /\ os[t] = <<>> /\ stream \in Seq(Item)
  BY <1>1, <1>2 DEF Place, Writes, TypeOK, Stream, Item
<1>6. stream' = Batch
  BY <1>1, <1>2, <1>5, Resized
<1>7. Batch' = Batch /\ Log'
  BY <1>1, <1>2, SameBatch
<1>8. os' = os
  BY <1>1, <1>2, <1>5 DEF TypeOK
<1>9. TypeOK'
  BY <1>1, <1>2, <1>4, <1>6, <1>8 DEF TypeOK, Stream, Item
<1>10. ~Writes(t)' /\ ~Holds(t)'
  BY <1>3, <1>4, <1>5, <1>8 DEF Writes, Holds
<1>11. Place(t)'
  <2>1. Events \subseteq {"write"} => p # "abort"
    BY <1>2, <1>3 DEF Place
  <2>2. calls'[t] > 0
    BY <1>1, <1>2 DEF Place
  <2> QED
    BY <1>3, <1>4, <1>5, <1>8, <1>10, <2>1, <2>2 DEF Place
<1> QED
  BY <1>1, <1>2, <1>4, <1>6, <1>7, <1>8, <1>9, <1>10, <1>11, Whole

LEMMA AbortKeeps ==
    ASSUME OneOwner, Inv, NEW t \in Thread, AbortBatchRequest(t)
    PROVE  Inv'
<1>1. pc[t] = "abort" /\ owner' = owner /\ num' = num /\ marker' = marker /\ exception' = exception /\ calls' = calls
      /\ sent' = sent /\ accepted' = accepted /\ os' = [os EXCEPT ![t] = <<>>] /\ Goes(t, "idle")
  BY DEF AbortBatchRequest
<1>2. TypeOK /\ StreamOwned /\ Log /\ marker = num + 1 /\ Place(t)
  BY DEF Inv
<1>3. Batch \in Seq(Item) /\ marker \in Nat
  BY <1>2, BatchFacts
<1>4. pc' \in [Thread -> {"idle", "write", "finish", "flush", "intercept", "release", "throw", "abort"}]
      /\ pc'[t] = "idle" /\ \A u \in Thread : u # t => pc'[u] = pc[u]
  BY <1>1, <1>2, NewPc
<1>5. Batch' = Batch /\ Log'
  BY <1>1, <1>2, SameBatch
<1>6. os' \in [Thread -> Stream] /\ os'[t] = <<>> /\ \A u \in Thread : u # t => os'[u] = os[u]
  <2>1. <<>> \in Stream
    BY DEF Stream
  <2> QED
    BY <1>1, <1>2, <2>1 DEF TypeOK
<1>7. stream' = Batch /\ inUse' = FALSE /\ \A u \in Thread : u # t => ~Holds(u)
  <2>1. CASE os[t] # <<>>
    <3>1. Holds(t) /\ Writes(t)
      BY <1>1, <2>1 DEF Holds, Writes
    <3>2. inUse /\ \A u \in Thread : u # t => ~Holds(u)
      BY <1>2, <3>1, OneHolder
    <3>3. Starts(os[t]) /\ os[t] \in Seq(Item)
      BY <1>1, <1>2, <3>1 DEF Place, Adds, TypeOK, Stream, Item
    <3>4. Resize(os[t], marker) = Batch
      BY <1>3, <3>3, Resized
    <3> QED
      BY <3>2, <3>4 DEF AbortBatchRequest
  <2>2. CASE os[t] = <<>>
    <3>1. \A u \in Thread : u = t
      BY <1>1, <1>2, <2>2 DEF Place, OneOwner
    <3>2. ~Holds(t)
      BY <1>1, <2>2 DEF Holds
    <3>3. ~inUse /\ inUse \in BOOLEAN
      BY <1>2, <3>1, <3>2 DEF StreamOwned, TypeOK
    <3>4. stream' = stream /\ inUse' = inUse
      BY <3>3 DEF AbortBatchRequest
    <3> QED
      BY <3>1, <3>3, <3>4 DEF Inv
  <2> QED
    BY <2>1, <2>2
<1>8. TypeOK'
  BY <1>1, <1>2, <1>3, <1>4, <1>6, <1>7 DEF TypeOK, Stream, Item
<1>9. ~Writes(t)' /\ ~Holds(t)'
  BY <1>4 DEF Writes, Holds
<1>10. Place(t)'
  BY <1>4, <1>6, <1>9 DEF Place
<1> QED
  BY <1>1, <1>2, <1>4, <1>5, <1>6, <1>7, <1>8, <1>9, <1>10, Whole

LEMMA FlushKeeps ==
    ASSUME Inv, NEW t \in Thread, Flush(t)
    PROVE  Inv'
<1>1. ~inUse /\ Swap /\ inUse' = inUse /\ owner' = owner /\ exception' = exception /\ os' = os /\ pc' = pc
      /\ calls' = calls /\ accepted' = accepted
  BY DEF Flush
<1>2. TypeOK /\ StreamOwned /\ Log /\ marker = num + 1 /\ Place(t) /\ stream = Batch
  BY <1>1 DEF Inv
<1>3. Batch \in Seq(Item) /\ Len(Batch) = marker /\ marker \in Nat
  BY <1>2, BatchFacts
<1>4. \A u \in Thread : ~Holds(u)
  BY <1>1, <1>2 DEF StreamOwned
<1>5. Starts(stream)
  <2>1. SubSeq(Batch, 1, marker) = Batch
    BY <1>3, SubSeqFull
  <2>2. marker <= marker
    BY <1>3
  <2> QED
    BY <1>2, <1>3, <2>1, <2>2 DEF Starts
<1>6. Swapped
  BY <1>1, <1>2, <1>5, SwapFacts
<1>7. stream' = Batch' /\ stream' \in Seq(Item)
  <2>1. CASE stream' = stream /\ Batch' = Batch
    BY <1>2, <1>3, <2>1
  <2>2. CASE stream' = <<Header>> \o SubSeq(stream, marker + 1, Len(stream)) /\ Batch' = <<Header>>
    <3>1. SubSeq(stream, marker + 1, Len(stream)) = <<>>
      BY <1>2, <1>3, SubSeqEmpty
    <3>2. <<Header>> \in Seq(Item)
      BY DEF Item
    <3>3. <<Header>> \o <<>> = <<Header>>
      BY <3>2, ConcatEmptySeq
    <3> QED
      BY <2>2, <3>1, <3>2, <3>3
  <2> QED
    BY <1>6, <2>1, <2>2 DEF Swapped
<1>8. TypeOK'
  <2>1. stream' \in Stream /\ sent' \in Seq([batch : Stream, num : Nat, upto : Nat]) /\ num' \in Nat /\ marker' \in Nat \ {0}
    BY <1>6, <1>7 DEF Swapped, Entry, Stream, Item
  <2> QED
    BY <1>1, <1>2, <2>1 DEF TypeOK
<1>9. Place(t)' /\ ~Holds(t)'
  BY <1>1, <1>2, <1>4, Bystander
<1>10. Log' /\ marker' = num' + 1
  BY <1>6 DEF Swapped
<1> QED
  BY <1>1, <1>4, <1>7, <1>8, <1>9, <1>10, Whole

LEMMA DestroyKeeps ==
    ASSUME Inv, Destroy
    PROVE  Inv'
<1>1. ~(Events \subseteq {"write"}) /\ exception' = TRUE
  BY DEF Destroy
<1>2. stream' = stream /\ inUse' = inUse /\ owner' = owner /\ num' = num /\ marker' = marker /\ os' = os /\ pc' = pc
      /\ calls' = calls /\ sent' = sent /\ accepted' = accepted
  BY DEF Destroy
<1>3. TypeOK' /\ StreamOwned'
  BY <1>1, <1>2 DEF Inv, TypeOK, StreamOwned, Holds
<1>4. Log' /\ Batch' = Batch
  BY <1>2, SameBatch DEF Inv
<1>5. \A t \in Thread : Place(t)'
  BY <1>2, <1>4 DEF Inv, Place, Writes, Adds, Starts, ThisRequest
<1> QED
  BY <1>1, <1>2, <1>3, <1>4, <1>5 DEF Inv

LEMMA InitKeeps ==
    ASSUME BatchAssumption, Init
    PROVE  Inv
<1>1. Len(sent) = 0 /\ Len(accepted) = 0 /\ sent = <<>> /\ accepted = <<>>
  BY DEF Init
<1>2. accepted \in Seq(Req) /\ sent \in Seq([batch : Stream, num : Nat, upto : Nat])
  BY <1>1
<1>3. Before(Len(sent) + 1) = 0
  BY <1>1 DEF Before
<1>4. Batch = <<Header>>
  <2>1. Batch = Fill(accepted, Len(accepted), Len(accepted))
    BY <1>1, <1>3 DEF Batch, Filled, Fill
  <2> QED
    BY <1>2, <2>1, FillNone
<1>5. stream \in Stream /\ <<>> \in Stream
  BY DEF Init, Stream
<1>6. TypeOK
  <2>1. os \in [Thread -> Stream]
    BY <1>5 DEF Init
  <2>2. calls \in [Thread -> 0 .. MaxCalls]
    BY DEF Init, BatchAssumption
  <2>3. num \in Nat /\ marker \in Nat \ {0}
    BY DEF Init
  <2> QED
    BY <1>2, <1>5, <2>1, <2>2, <2>3 DEF Init, TypeOK
<1>7. Log /\ marker = num + 1
  BY <1>1, <1>3 DEF Log, Init
<1>8. StreamOwned
  BY DEF StreamOwned, Holds, Init
<1>9. \A t \in Thread : Place(t)
  BY DEF Place, Writes, Init
<1> QED
  BY <1>4, <1>6, <1>7, <1>8, <1>9 DEF Init, Inv

LEMMA StepKeeps ==
    ASSUME BatchAssumption, OneOwner, Inv, [Next]_vars
    PROVE  Inv'
<1>1. CASE UNCHANGED vars
  <2>1. TypeOK' /\ StreamOwned'
    BY <1>1 DEF vars, Inv, TypeOK, StreamOwned, Holds
  <2>2. Log' /\ Batch' = Batch
    BY <1>1, SameBatch DEF vars, Inv
  <2>3. \A t \in Thread : Place(t)'
    BY <1>1, <2>2 DEF vars, Inv, Place, Writes, Adds, Starts, ThisRequest
  <2> QED
    BY <1>1, <2>1, <2>2, <2>3 DEF vars, Inv
<1>2. CASE \E t \in Thread : PrepareBatchRequest(t) \/ Step(t) \/ Flush(t)
  BY <1>2, PrepareKeeps, WriteKeeps, FinishKeeps, AutoFlushKeeps, InterceptKeeps, ReleaseKeeps, AbortKeeps, FlushKeeps
     DEF Step
<1>3. CASE Destroy
  BY <1>3, DestroyKeeps
<1> QED
  BY <1>1, <1>2, <1>3 DEF Next

-----------------------------------------------------------------------------
(* What is in the stream up to the marker, wherever it is, is the batch. *)
LEMMA CurrentIs ==
    ASSUME Inv
    PROVE  Current = Batch
<1>1. TypeOK /\ StreamOwned /\ Log /\ marker = num + 1 /\ \A t \in Thread : Place(t)
  BY DEF Inv
<1>2. Batch \in Seq(Item) /\ Len(Batch) = marker /\ Batch # <<>> /\ marker \in Nat
  BY <1>1, BatchFacts
<1>3. SubSeq(Batch, 1, marker) = Batch
  BY <1>2, SubSeqFull
<1> DEFINE Has(t) == pc[t] \in {"write", "finish", "abort"} /\ os[t] # <<>>
<1>4. CASE \E t \in Thread : Has(t)
  <2> DEFINE c == CHOOSE t \in Thread : Has(t)
  <2>1. c \in Thread /\ Has(c)
    BY <1>4
  <2>2. Current = SubSeq(os[c], 1, marker)
    BY <1>4 DEF Current
  <2> HIDE DEF c
  <2>3. Place(c) /\ Writes(c)
    BY <1>1, <2>1 DEF Writes
  <2>4. CASE pc[c] = "write"
    BY <1>3, <2>2, <2>3, <2>4 DEF Place
  <2>5. CASE pc[c] # "write"
    BY <2>2, <2>3, <2>5 DEF Place, Adds, Starts
  <2> QED
    BY <2>4, <2>5
<1>5. CASE ~\E t \in Thread : Has(t)
  <2>1. Current = SubSeq(stream, 1, marker)
    BY <1>5 DEF Current
  <2>2. CASE ~inUse
    BY <1>3, <2>1, <2>2 DEF Inv
  <2>3. CASE inUse
    <3>1. PICK t \in Thread : Holds(t)
      BY <1>1, <2>3 DEF StreamOwned
    <3>2. Place(t)
      BY <1>1
    <3>3. pc[t] \notin {"write", "finish"}
      <4>1. os[t] = <<>> \/ pc[t] \notin {"write", "finish"}
        BY <1>5
      <4>2. CASE pc[t] = "write"
        BY <1>2, <3>2, <4>1, <4>2 DEF Place
      <4>3. CASE pc[t] = "finish" /\ os[t] = <<>>
        <5>1. Len(os[t]) = marker + 1
          BY <3>2, <4>3 DEF Place, Writes, Adds
        <5>2. Len(os[t]) = 0
          BY <4>3
        <5> QED
          BY <1>2, <5>1, <5>2
      <4> QED
        BY <4>1, <4>2, <4>3
    <3>4. pc[t] \in {"flush", "intercept", "release", "throw"}
      BY <1>5, <3>1, <3>3 DEF Holds
    <3>5. Starts(stream)
      BY <3>2, <3>4 DEF Place, Adds
    <3> QED
      BY <2>1, <3>5 DEF Starts
  <2> QED
    BY <2>2, <2>3
<1> QED
  BY <1>4, <1>5

(* finishBatchRequest(), abortBatchRequest() and swap(), from any number   *)
(* of threads: the stream is with one thread at a time, and no flush and   *)
(* no failure loses a request, sends one twice or in part, changes their   *)
(* order or announces another number of them.  The threads are several     *)
(* when what fails is the marshalling of a request; when a flush or an     *)
(* interceptor throws, or the connection is closed, abortBatchRequest()    *)
(* takes the stream of whoever has it, and the theorem is about one thread.*)
THEOREM BatchesAlwaysExact ==
    ASSUME BatchAssumption, OneOwner
    PROVE  Spec => [](TypeOK /\ StreamOwned /\ BatchesExact)
<1>1. Init => Inv
  BY InitKeeps
<1>2. Inv /\ [Next]_vars => Inv'
  BY StepKeeps
<1>3. Inv => TypeOK /\ StreamOwned /\ BatchesExact
  <2> SUFFICES ASSUME Inv PROVE BatchesExact
    BY DEF Inv
  <2>1. Current = Filled(Before(Len(sent) + 1), Len(accepted))
    BY CurrentIs DEF Batch
  <2>2. DOMAIN sent = 1 .. Len(sent)
    BY LenProperties DEF Inv, TypeOK
  <2> QED
    BY <2>1, <2>2 DEF Inv, Log, BatchesExact
<1> QED
  BY <1>1, <1>2, <1>3, PTL DEF Spec
=============================================================================
