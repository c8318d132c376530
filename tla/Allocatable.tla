----------------------------- MODULE Allocatable -----------------------------
(***************************************************************************)
(* The allocation of objects and servers by the sessions of an IceGrid     *)
(* registry: IceGrid/Allocatable.cpp, with the objects of                  *)
(* AllocatableObjectCache.cpp and the sessions of SessionI.cpp.            *)
(*                                                                         *)
(* Every thread runs one operation; one step is one critical section.  The *)
(* operations call each other (a release serves the requests that wait,    *)
(* which allocate, and may release again), so that a thread has a stack    *)
(* of calls.  All objects have one type, and are enabled.                  *)
(***************************************************************************)
EXTENDS Naturals, Sequences, SequencesExt

CONSTANTS
    Thread, Session, Object,
    Server,     \* the server of the objects
    HasParent,  \* whether the server is allocatable too
    Op,         \* the operation of each thread: [op, s, x]
    After,      \* the threads that have returned before a thread begins
    Untimed,    \* threads whose requests have no timeout
    Impatient   \* threads whose requests have a timeout of zero

(* A thread that allocates has one request, which has its name. *)
Allocates(c) == Op[c].op \in {"allocateById", "allocateByType"}

(* What the constants have to be. *)
AllocatableAssumption ==
    /\ \A c \in Thread : Op[c].op \in {"allocateById", "allocateByType", "release", "destroy", "add", "remove"}
    /\ After \in [Thread -> SUBSET Thread]
    /\ \A c, d \in Thread : Op[c].op = "add" /\ c # d => Op[d].x # Op[c].x  \* an object added is asked for by type
    /\ HasParent \in BOOLEAN /\ Server \notin Object /\ Untimed \cap Impatient = {}

VARIABLES
    alloc,    \* the members of the allocatables
    ses,      \* the members of the sessions
    req,      \* the requests
    cache,    \* the members of AllocatableObjectCache: its mutex, its objects and the requests by type
    thread,   \* the stack of each thread, and the result of the call that returned
    asserted  \* an assertion has failed

vars == <<alloc, ses, req, cache, thread, asserted>>

None == "none"
Results == {None, "true", "false", "destroyed", "notRegistered", "allocation"}

TypeOK ==
    /\ \A x \in Object \cup {Server} :
         /\ alloc[x].session \in Session \cup {None} /\ alloc[x].count \in Nat
         /\ alloc[x].releasing \in BOOLEAN /\ alloc[x].locked \in BOOLEAN /\ alloc[x].destroyed \in BOOLEAN
         /\ alloc[x].requests \in Seq(Object \X (Thread \cup {None}))
    /\ ses \in [Session -> [destroyed : BOOLEAN, requests : SUBSET Thread, allocations : SUBSET Object]]
    /\ req \in [Thread -> [state : {"initial", "pending", "canceled", "allocated"}, answers : Nat]]
    /\ cache.owner \in Thread \cup {None} /\ cache.queue \in Seq(Thread) /\ cache.objects \subseteq Object
    /\ \A c \in Thread : thread[c].ret \in Results
    /\ asserted \in BOOLEAN

-----------------------------------------------------------------------------
(* The stack of a thread. *)
Frame(fn, pc, x, r, s) == [fn |-> fn, pc |-> pc, x |-> x, r |-> r, s |-> s, try |-> FALSE, from |-> FALSE,
                           i |-> 1, set |-> {}, v |-> None]
AllocateFrame(x, r, try, from) ==
    [Frame("allocate", IF HasParent THEN "parent" ELSE "enter", x, r, Op[r].s) EXCEPT !.try = try, !.from = from]
ReleaseFrame(x, s, from) == [Frame("release", "enter", x, None, s) EXCEPT !.from = from]
TryFrame(x) == [Frame("canTryAllocate", "lock", x, None, None) EXCEPT !.from = TRUE]

Top(c) == Head(thread[c].stack)
At(c, fn, pc) == thread[c].stack # <<>> /\ Top(c).fn = fn /\ Top(c).pc = pc
Stay(c, f) == thread' = [thread EXCEPT ![c] = [stack |-> <<f>> \o Tail(@.stack), ret |-> None]]
Call(c, f, g) == thread' = [thread EXCEPT ![c] = [stack |-> <<g, f>> \o Tail(@.stack), ret |-> None]]
Return(c, v) == thread' = [thread EXCEPT ![c] = [stack |-> Tail(@.stack), ret |-> v]]
To(c, pc) == [Top(c) EXCEPT !.pc = pc]

(* The requests: what each of them becomes, with its session. *)
Answer(r, state) == [req EXCEPT ![r] = [state |-> state, answers |-> @.answers + 1]]
Forget(r) == [ses EXCEPT ![Op[r].s].requests = IF ses[Op[r].s].destroyed THEN @ ELSE @ \ {r}]

(* AllocationRequest::pending() *)
CanWait(r) == r \notin Impatient /\ ~ses[Op[r].s].destroyed
Pending(r) ==
    IF CanWait(r)
    THEN req' = [req EXCEPT ![r].state = "pending"] /\ ses' = [ses EXCEPT ![Op[r].s].requests = @ \cup {r}]
    ELSE req' = Answer(r, "canceled") /\ UNCHANGED ses

(* AllocationRequest::cancel() *)
Cancel(r) ==
    IF req[r].state \in {"canceled", "allocated"} THEN UNCHANGED <<req, ses>>
    ELSE req' = Answer(r, "canceled") /\ ses' = Forget(r)

(* queueAllocationAttempt(), on x; pending() asserts that the request has  *)
(* not been queued before.                                                 *)
QueuedAgain(r, try) == ~try /\ req[r].state # "initial"
QueueAttempt(x, child, r, try) ==
    /\ IF try THEN UNCHANGED <<req, ses>> ELSE Pending(r)
    /\ alloc' = [alloc EXCEPT ![x].requests =
         IF try THEN Append(@, <<child, None>>) ELSE IF CanWait(r) THEN Append(@, <<child, r>>) ELSE @]

-----------------------------------------------------------------------------
(* allocate(): first the server, in allocateFromChild(). *)
AllocateFromChild(c) ==
    /\ At(c, "allocate", "parent")
    /\ LET f == Top(c) p == alloc[Server]
       IN  IF p.session \in {None, f.s} /\ (f.from \/ ~p.releasing)
           THEN /\ alloc' = [alloc EXCEPT ![Server].session = f.s, ![Server].count = @ + 1]
                /\ Stay(c, To(c, "enter")) /\ UNCHANGED <<req, ses, asserted>>
           ELSE /\ QueueAttempt(Server, f.x, f.r, f.try) /\ Return(c, "false")
                /\ asserted' = (asserted \/ QueuedAgain(f.r, f.try))
    /\ UNCHANGED cache

(* allocate() ends with v; the server that was allocated is released.      *)
(* allocate() of a request turns SessionDestroyedException into false.     *)
Undo(c, v) ==
    IF HasParent THEN Stay(c, [To(c, "undo") EXCEPT !.v = v])
    ELSE Return(c, IF v = "destroyed" /\ ~Top(c).try THEN "false" ELSE v)

Free(f) == alloc[f.x].session = None /\ (f.from \/ ~alloc[f.x].releasing)

(* AllocationRequest::allocate() is refused when it has been cancelled. *)
Allocate(c) ==
    /\ At(c, "allocate", "enter") /\ ~alloc[Top(c).x].locked
    /\ LET f == Top(c) a == alloc[f.x]
       IN  \/ /\ a.destroyed
              /\ Undo(c, "notRegistered") /\ UNCHANGED <<alloc, req, ses, asserted>>
           \/ /\ ~a.destroyed /\ (Free(f) \/ (a.session = f.s /\ ~f.try)) /\ req[f.r].state = "canceled"
              /\ Undo(c, "false") /\ UNCHANGED <<alloc, req, ses, asserted>>
           \/ /\ ~a.destroyed /\ Free(f) /\ req[f.r].state # "canceled"
              /\ asserted' = (asserted \/ req[f.r].state = "allocated")
              /\ req' = [req EXCEPT ![f.r].state = "allocated"] /\ ses' = Forget(f.r)
              /\ alloc' = [alloc EXCEPT ![f.x].locked = TRUE]
              /\ Stay(c, To(c, "commit"))
           \/ /\ ~a.destroyed /\ ~Free(f) /\ a.session = f.s /\ ~f.try /\ req[f.r].state # "canceled"
              /\ asserted' = (asserted \/ req[f.r].state = "allocated")
              /\ req' = Answer(f.r, "canceled") /\ ses' = Forget(f.r)
              /\ Undo(c, "false") /\ UNCHANGED alloc
           \/ /\ ~a.destroyed /\ ~Free(f) /\ a.session = f.s /\ f.try
              /\ IF HasParent THEN Stay(c, To(c, "queueWithParent")) ELSE Return(c, "false")
              /\ UNCHANGED <<alloc, req, ses, asserted>>
           \/ /\ ~a.destroyed /\ ~Free(f) /\ a.session # f.s
              /\ QueueAttempt(f.x, f.x, f.r, f.try)
              /\ asserted' = (asserted \/ HasParent \/ QueuedAgain(f.r, f.try))
              /\ Undo(c, "false")
    /\ UNCHANGED cache

(* allocated(): the session may have been destroyed meanwhile. *)
Allocated(c) ==
    /\ At(c, "allocate", "commit")
    /\ LET f == Top(c)
       IN  /\ req' = [req EXCEPT ![f.r].answers = @ + 1]
           /\ IF ses[f.s].destroyed
              THEN alloc' = [alloc EXCEPT ![f.x].locked = FALSE] /\ Undo(c, "destroyed") /\ UNCHANGED ses
              ELSE /\ ses' = [ses EXCEPT ![f.s].allocations = @ \cup {f.x}]
                   /\ alloc' = [alloc EXCEPT ![f.x] = [@ EXCEPT !.locked = FALSE, !.session = f.s, !.count = @ + 1]]
                   /\ Return(c, "true")
    /\ UNCHANGED <<cache, asserted>>

(* queueAllocationAttemptFromChild() *)
QueueWithParent(c) ==
    /\ At(c, "allocate", "queueWithParent")
    /\ alloc' = [alloc EXCEPT ![Server].requests = Append(@, <<Top(c).x, None>>)]
    /\ Stay(c, [To(c, "undo") EXCEPT !.v = "false"])
    /\ UNCHANGED <<req, ses, cache, asserted>>

ReleaseParent(c) ==
    /\ \/ /\ At(c, "allocate", "undo")
          /\ Call(c, To(c, "undone"), ReleaseFrame(Server, Top(c).s, Top(c).from))
       \/ /\ At(c, "allocate", "undone")
          /\ Return(c, IF Top(c).v = "destroyed" /\ ~Top(c).try THEN "false" ELSE Top(c).v)
    /\ UNCHANGED <<alloc, req, ses, cache, asserted>>

-----------------------------------------------------------------------------
(* release() *)
Release(c) ==
    /\ At(c, "release", "enter") /\ ~alloc[Top(c).x].locked /\ (Top(c).from \/ ~alloc[Top(c).x].releasing)
    /\ LET f == Top(c) a == alloc[f.x]
           released == a.count = 1
           drain == released /\ ~f.from /\ a.requests # <<>>
       IN  IF a.session # f.s THEN Return(c, "allocation") /\ UNCHANGED <<alloc, ses>>
           ELSE /\ alloc' = [alloc EXCEPT ![f.x] = [@ EXCEPT !.count = a.count - 1, !.releasing = a.releasing \/ drain,
                                                             !.session = IF released THEN None ELSE f.s]]
                /\ ses' = [ses EXCEPT ![f.s].allocations = IF released /\ ~ses[f.s].destroyed THEN @ \ {f.x} ELSE @]
                /\ IF HasParent /\ f.x # Server THEN Call(c, To(c, "end"), ReleaseFrame(Server, f.s, f.from))
                   ELSE IF drain THEN Stay(c, To(c, "drain"))
                   ELSE IF released /\ ~f.from /\ f.x # Server
                   THEN Call(c, To(c, "end"), TryFrame(f.x))
                   ELSE Return(c, "true")
    /\ UNCHANGED <<req, cache, asserted>>

(* dequeueAllocationAttempt(); the allocatable is free for all when        *)
(* nobody waits.                                                           *)
Dequeue(c) ==
    /\ At(c, "release", "drain") /\ ~alloc[Top(c).x].locked
    /\ LET f == Top(c) q == alloc[f.x].requests
       IN  IF q = <<>>
           THEN /\ alloc' = [alloc EXCEPT ![f.x].releasing = FALSE]
                /\ asserted' = (asserted \/ alloc[f.x].count # 0)
                /\ Return(c, "true")
           ELSE /\ alloc' = [alloc EXCEPT ![f.x].requests = Tail(q)]
                /\ Call(c, [To(c, "drained") EXCEPT !.r = Head(q)[2]],
                        IF Head(q)[2] # None THEN AllocateFrame(Head(q)[1], Head(q)[2], FALSE, TRUE)
                        ELSE TryFrame(Head(q)[1]))
                /\ UNCHANGED asserted
    /\ UNCHANGED <<req, ses, cache>>

(* The result of the attempt; a request that fails is cancelled. *)
Drained(c) ==
    /\ At(c, "release", "drained") \/ At(c, "release", "sameDone")
    /\ IF thread[c].ret = "notRegistered" /\ Top(c).r # None THEN Cancel(Top(c).r) ELSE UNCHANGED <<req, ses>>
    /\ Stay(c, To(c, IF Top(c).pc = "sameDone" \/ thread[c].ret = "true" THEN "same" ELSE "drain"))
    /\ UNCHANGED <<alloc, cache, asserted>>

(* The other requests of the session that has the allocatable now. *)
SameSession(c) ==
    /\ At(c, "release", "same") /\ ~alloc[Top(c).x].locked
    /\ LET f == Top(c) a == alloc[f.x]
           mine == {i \in DOMAIN a.requests : a.requests[i][2] # None /\ Op[a.requests[i][2]].s = a.session}
           first == CHOOSE i \in mine : \A j \in mine : i <= j
       IN  /\ asserted' = (asserted \/ a.count = 0)
           /\ IF mine = {}
              THEN alloc' = [alloc EXCEPT ![f.x].releasing = FALSE] /\ Return(c, "true")
              ELSE /\ alloc' = [alloc EXCEPT ![f.x].requests = RemoveAt(@, first)]
                   /\ Call(c, [To(c, "sameDone") EXCEPT !.r = a.requests[first][2]],
                           AllocateFrame(a.requests[first][1], a.requests[first][2], FALSE, TRUE))
    /\ UNCHANGED <<req, ses, cache>>

ReleaseEnd(c) ==
    /\ At(c, "release", "end")
    /\ Return(c, thread[c].ret)
    /\ UNCHANGED <<alloc, req, ses, cache, asserted>>

-----------------------------------------------------------------------------
(* AllocatableObjectCache: canTryAllocate() offers an object that has been *)
(* released to the requests by type.                                       *)
LockCache(c) == cache.owner = None /\ cache' = [cache EXCEPT !.owner = c]
Unlocked(q) == [cache EXCEPT !.owner = None, !.queue = q]

CanTryAllocate(c) ==
    /\ At(c, "canTryAllocate", "lock") /\ LockCache(c)
    /\ Stay(c, To(c, "loop"))
    /\ UNCHANGED <<alloc, req, ses, asserted>>

NextRequest(c) ==
    /\ At(c, "canTryAllocate", "loop")
    /\ LET f == Top(c)
       IN  IF f.i > Len(cache.queue) THEN cache' = Unlocked(cache.queue) /\ Return(c, "false")
           ELSE IF req[cache.queue[f.i]].state = "canceled"
           THEN cache' = [cache EXCEPT !.queue = RemoveAt(@, f.i)] /\ UNCHANGED thread
           ELSE Call(c, To(c, "tried"), AllocateFrame(f.x, cache.queue[f.i], TRUE, f.from)) /\ UNCHANGED cache
    /\ UNCHANGED <<alloc, req, ses, asserted>>

TriedRequest(c) ==
    /\ At(c, "canTryAllocate", "tried") /\ ~alloc[Top(c).x].locked
    /\ LET f == Top(c) ret == thread[c].ret without == RemoveAt(cache.queue, f.i)
       IN  \/ ret = "true" /\ cache' = Unlocked(without) /\ Return(c, "true")
           \/ ret = "destroyed" /\ cache' = [cache EXCEPT !.queue = without] /\ Stay(c, To(c, "loop"))
           \/ ret = "notRegistered" /\ cache' = Unlocked(cache.queue) /\ Return(c, ret)
           \/ ret = "false" /\ IF alloc[f.x].session # None THEN cache' = Unlocked(cache.queue) /\ Return(c, "false")
                               ELSE UNCHANGED cache /\ Stay(c, [To(c, "loop") EXCEPT !.i = @ + 1])
    /\ UNCHANGED <<alloc, req, ses, asserted>>

(* allocateByType(): every object is tried, in any order. *)
AllocateByType(c) ==
    /\ At(c, "allocateByType", "lock")
    /\ IF cache.objects = {} THEN cache.owner = None /\ UNCHANGED cache /\ Return(c, "allocation")
       ELSE LockCache(c) /\ Stay(c, [To(c, "loop") EXCEPT !.set = cache.objects])
    /\ UNCHANGED <<alloc, req, ses, asserted>>

TryObject(c) ==
    /\ At(c, "allocateByType", "loop")
    /\ \E x \in Top(c).set :
         Call(c, [To(c, "tried") EXCEPT !.set = @ \ {x}], AllocateFrame(x, Top(c).r, TRUE, FALSE))
    /\ UNCHANGED <<alloc, req, ses, cache, asserted>>

TriedObject(c) ==
    /\ At(c, "allocateByType", "tried")
    /\ IF thread[c].ret = "false" THEN Stay(c, To(c, "loop")) /\ UNCHANGED cache
       ELSE cache' = Unlocked(cache.queue) /\ Return(c, thread[c].ret)
    /\ UNCHANGED <<alloc, req, ses, asserted>>

(* TypeEntry::addAllocationRequest() *)
AddAllocationRequest(c) ==
    /\ At(c, "allocateByType", "loop") /\ Top(c).set = {}
    /\ Pending(Top(c).r)
    /\ cache' = Unlocked(IF CanWait(Top(c).r) THEN Append(cache.queue, Top(c).r) ELSE cache.queue)
    /\ Return(c, "true")
    /\ asserted' = (asserted \/ QueuedAgain(Top(c).r, FALSE))
    /\ UNCHANGED alloc

(* add() of an object: it is offered to the requests by type, with the     *)
(* mutex of the cache.                                                     *)
AddObject(c) ==
    /\ At(c, "add", "lock") /\ cache.owner = None
    /\ LET with == [cache EXCEPT !.objects = @ \cup {Top(c).x}]
       IN  IF cache.queue = <<>> THEN cache' = with /\ Return(c, "true")
           ELSE cache' = [with EXCEPT !.owner = c] /\ Stay(c, [To(c, "loop") EXCEPT !.fn = "canTryAllocate"])
    /\ UNCHANGED <<alloc, req, ses, asserted>>

(* remove() of an object: the requests by type are cancelled with the last *)
(* object, and the object is released.                                     *)
RemoveObject(c) ==
    /\ At(c, "remove", "lock") /\ cache.owner = None
    /\ LET last == cache.objects = {Top(c).x}
           waiting == {r \in Range(cache.queue) : last /\ req[r].state = "pending"}
       IN  /\ cache' = [cache EXCEPT !.objects = @ \ {Top(c).x}, !.queue = IF last THEN <<>> ELSE @]
           /\ req' = [r \in Thread |-> IF r \in waiting THEN Answer(r, "canceled")[r] ELSE req[r]]
           /\ ses' = [s \in Session |-> IF ses[s].destroyed THEN ses[s] ELSE [ses[s] EXCEPT !.requests = @ \ waiting]]
    /\ Stay(c, To(c, "destroy"))
    /\ UNCHANGED <<alloc, asserted>>

DestroyObject(c) ==
    /\ At(c, "remove", "destroy") /\ ~alloc[Top(c).x].locked
    /\ LET x == Top(c).x
       IN  /\ alloc' = [alloc EXCEPT ![x].destroyed = TRUE]
           /\ IF alloc[x].session = None THEN Return(c, "true")
              ELSE Call(c, To(c, "end"), ReleaseFrame(x, alloc[x].session, FALSE))
    /\ UNCHANGED <<req, ses, cache, asserted>>

-----------------------------------------------------------------------------
(* SessionI::destroyImpl() *)
DestroySession(c) ==
    /\ At(c, "destroy", "mark")
    /\ IF ses[Top(c).s].destroyed THEN Return(c, "true") /\ UNCHANGED ses
       ELSE /\ ses' = [ses EXCEPT ![Top(c).s].destroyed = TRUE]
            /\ Stay(c, To(c, "cancel"))
    /\ UNCHANGED <<alloc, req, cache, asserted>>

CancelRequests(c) ==
    /\ At(c, "destroy", "cancel")
    /\ LET s == Top(c).s
       IN  \/ \E r \in ses[s].requests :
                /\ req' = IF req[r].state \in {"canceled", "allocated"} THEN req ELSE Answer(r, "canceled")
                /\ ses' = [ses EXCEPT ![s].requests = @ \ {r}] /\ UNCHANGED thread
           \/ /\ ses[s].requests = {}
              /\ Stay(c, [To(c, "release") EXCEPT !.set = ses[s].allocations]) /\ UNCHANGED <<req, ses>>
    /\ UNCHANGED <<alloc, cache, asserted>>

(* The loop catches AllocationException only: where the release before has *)
(* thrown ObjectNotRegisteredException, what is left is not released.      *)
ReleaseAllocations(c) ==
    /\ At(c, "destroy", "release")
    /\ LET thrown == thread[c].ret = "notRegistered"
       IN  \/ thrown /\ Return(c, "notRegistered") /\ UNCHANGED ses
           \/ \E x \in Top(c).set :
                /\ ~thrown /\ Call(c, [Top(c) EXCEPT !.set = @ \ {x}], ReleaseFrame(x, Top(c).s, FALSE))
                /\ UNCHANGED ses
           \/ /\ ~thrown /\ Top(c).set = {}
              /\ ses' = [ses EXCEPT ![Top(c).s].allocations = {}] /\ Return(c, "true")
    /\ UNCHANGED <<alloc, req, cache, asserted>>

(* Mutant of RunTimerTask: the state is not checked. *)
RunTimerTaskLate(r) ==
    /\ r \notin Untimed /\ req[r].state \in {"pending", "allocated"}
    /\ req' = Answer(r, "canceled") /\ ses' = Forget(r)
    /\ UNCHANGED <<alloc, cache, thread, asserted>>

(* AllocationRequest::runTimerTask() *)
RunTimerTask(r) ==
    /\ r \notin Untimed /\ req[r].state = "pending"
    /\ req' = Answer(r, "canceled") /\ ses' = Forget(r)
    /\ UNCHANGED <<alloc, cache, thread, asserted>>

(* An operation ends; the exception of an allocation is its answer. *)
Finish(c) ==
    /\ IF At(c, "remove", "end")
       THEN Return(c, IF thread[c].ret = "notRegistered" THEN "notRegistered" ELSE "true") /\ UNCHANGED req
       ELSE /\ thread[c].stack = <<>> /\ Allocates(c) /\ thread[c].ret \in {"notRegistered", "allocation"}
            /\ req' = [req EXCEPT ![c].answers = @ + 1]
            /\ thread' = [thread EXCEPT ![c].ret = None]
    /\ UNCHANGED <<alloc, ses, cache, asserted>>

-----------------------------------------------------------------------------
Start(c) ==
    LET o == Op[c]
    IN  CASE o.op = "allocateById" -> AllocateFrame(o.x, c, FALSE, FALSE)
          [] o.op = "allocateByType" -> Frame("allocateByType", "lock", None, c, o.s)
          [] o.op = "release" -> ReleaseFrame(o.x, o.s, FALSE)
          [] o.op = "destroy" -> Frame("destroy", "mark", None, None, o.s)
          [] OTHER -> Frame(o.op, "lock", o.x, None, None)

Init ==
    /\ alloc = [x \in Object \cup {Server} |-> [session |-> None, count |-> 0, releasing |-> FALSE,
                                                locked |-> FALSE, destroyed |-> FALSE, requests |-> <<>>]]
    /\ ses = [s \in Session |-> [destroyed |-> FALSE, requests |-> {}, allocations |-> {}]]
    /\ req = [c \in Thread |-> [state |-> "initial", answers |-> 0]]
    /\ cache = [owner |-> None, queue |-> <<>>, objects |-> {x \in Object : \A c \in Thread : Op[c] # [op |-> "add", s |-> None, x |-> x]}]
    /\ thread = [c \in Thread |-> [stack |-> <<Start(c)>>, ret |-> None]]
    /\ asserted = FALSE

Operation(c) ==
    \/ AllocateFromChild(c) \/ Allocate(c) \/ Allocated(c) \/ QueueWithParent(c) \/ ReleaseParent(c)
    \/ Release(c) \/ Dequeue(c) \/ Drained(c) \/ SameSession(c) \/ ReleaseEnd(c)
    \/ CanTryAllocate(c) \/ NextRequest(c) \/ TriedRequest(c)
    \/ AllocateByType(c) \/ TryObject(c) \/ TriedObject(c) \/ AddAllocationRequest(c)
    \/ AddObject(c) \/ RemoveObject(c) \/ DestroyObject(c) \/ DestroySession(c) \/ CancelRequests(c) \/ ReleaseAllocations(c)
    \/ Finish(c)

Step(c) == (\A d \in After[c] : thread[d].stack = <<>>) /\ Operation(c)

Next == \E c \in Thread : Step(c) \/ RunTimerTask(c)

Spec == Init /\ [][Next]_vars

-----------------------------------------------------------------------------
Quiet == \A c \in Thread : thread[c].stack = <<>>
Root(x) == IF HasParent THEN Server ELSE x

(* A request is answered once: a timeout, the destruction of the session   *)
(* or of the object, and the release that serves it, meet.                 *)
AnsweredOnce == \A c \in Thread : req[c].answers <= 1

(* The assertions of pending(), allocate() and release() hold. *)
AssertsHold == ~asserted

(* No request is forgotten: an allocatable that is free, and that no       *)
(* thread is releasing, has nobody waiting for it.                         *)
NoneForgotten ==
    \A x \in Object : alloc[Root(x)].session = None /\ ~alloc[Root(x)].releasing => alloc[Root(x)].requests = <<>>

(* "Try to allocate the allocatable with the request or if there's no      *)
(* request, just notify the allocatable that it can be allocated again":   *)
(* who waits for an object of the type when the operations have returned   *)
(* waits because all of them are taken.                                    *)
TypeServed ==
    Quiet /\ (\E i \in DOMAIN cache.queue : req[cache.queue[i]].state = "pending") =>
      \A x \in cache.objects : alloc[Root(x)].session # None

(* destroyImpl() of the session has been left by an exception of           *)
(* release().                                                              *)
Thrown(s) == \E c \in Thread : Op[c].op = "destroy" /\ Op[c].s = s /\ thread[c].ret = "notRegistered"

(* A session that has been destroyed keeps nothing, unless destroyImpl()   *)
(* was left by ObjectNotRegisteredException, for an object that was being  *)
(* removed: then it keeps at most what it still has in _allocations.       *)
NothingKept ==
    Quiet => \A s \in Session : ses[s].destroyed =>
      \A x \in Object \cup {Server} : alloc[x].session = s =>
        /\ x \in ses[s].allocations /\ Thrown(s)
        /\ \E y \in ses[s].allocations \ {x} : alloc[y].destroyed /\ alloc[y].session # s

(* "The object will be released once the session is destroyed."  Not kept: *)
(* release() of an object that is being removed throws, and destroyImpl()  *)
(* does not release the others.                                            *)
ReleasedOnceDestroyed ==
    Quiet => \A s \in Session : ses[s].destroyed => \A x \in Object : alloc[x].session # s

(* The server belongs to the session that has one of its objects, and is   *)
(* counted once for each when the threads have returned.                   *)
ServerHeld ==
    HasParent => /\ \A x \in Object : alloc[x].session # None => alloc[Server].session = alloc[x].session
                 /\ Quiet => alloc[Server].count = Len(SelectSeq(SetToSeq(Object), LAMBDA x : alloc[x].session # None))

(* "This must be done outside the synchronization because destroy might    *)
(* release the object and release might try to callback on the cache": no  *)
(* thread asks for the mutex of the cache that it has.                     *)
NoSelfDeadlock == \A c \in Thread : At(c, "canTryAllocate", "lock") => cache.owner # c

=============================================================================
