------------------------------ MODULE IoExecutor ------------------------------
(***************************************************************************)
(* The bounded IO lane (engine/shared/Jobs.cppm:268, Jobs.cpp:361): a      *)
(* queue of limited length behind one mutex, two condition variables, and  *)
(* worker threads that outlive every accepted piece of work.               *)
(*                                                                         *)
(* A step is one critical section of `mutex_` or one notification sent     *)
(* outside it.  Waiting on a condition variable is being "asleep"          *)
(* (work_cv_) or "blocked" (space_cv_); waking only leads back to the      *)
(* test, and may happen for no reason.                                     *)
(***************************************************************************)
EXTENDS Integers, Sequences, FiniteSets

CONSTANTS
    Worker,    \* worker_count_ threads, at least one
    Client,    \* threads that call Post and TryPost
    Work,      \* the functions posted, each of them once
    Capacity,  \* capacity_, at least one
    Posts,     \* <<i, j>>: the body of i may post j
    None

Thread == Worker \cup Client

ASSUME IoConstants ==
    /\ Worker # {} /\ Worker \cap Client = {}
    /\ IsFiniteSet(Work) /\ None \notin Work
    /\ Capacity \in Nat \ {0}
    /\ Posts \subseteq Work \X Work

VARIABLES
    queue,     \* queue_
    stopping,  \* stopping_
    pc,        \* what a thread does next
    body,      \* the work a worker executes, or None
    posting,   \* the work a thread is posting, or None
    dtor,      \* how far ~IoExecutor is: "live" while it was not called
    state,     \* what became of each piece of work
    starts     \* how often its body was started

vars == <<queue, stopping, pc, body, posting, dtor, state, starts>>

Pc == {"loop", "asleep", "notify_space", "run", "exited",
       "post", "blocked", "notify_work"}
Calling == {"post", "blocked", "notify_work"}   \* inside Post

\* Types; the bounds are that a body starts at most once and that the queue never
\* holds more than capacity_ entries, whatever the threads that passed the test
\* together; and a thread has work in hand exactly where its position needs it.
TypeOK ==
    /\ queue \in Seq(Work) /\ stopping \in BOOLEAN
    /\ pc \in [Thread -> Pc]
    /\ body \in [Thread -> Work \cup {None}]
    /\ posting \in [Thread -> Work \cup {None}]
    /\ dtor \in {"live", "notify_work", "notify_space", "join", "gone"}
    /\ state \in [Work -> {"new", "posting", "queued", "running", "done",
                           "dropped"}]
    /\ starts \in [Work -> 0 .. 1] /\ Len(queue) <= Capacity
    /\ \A t \in Thread : posting[t] # None <=> pc[t] \in {"post", "blocked"}
    /\ \A t \in Thread : body[t] # None <=>
          t \in Worker /\ pc[t] \in {"notify_space", "run"} \cup Calling

Init ==
    /\ queue = <<>> /\ stopping = FALSE
    /\ pc = [t \in Thread |-> IF t \in Worker THEN "loop" ELSE "run"]
    /\ body = [t \in Thread |-> None] /\ posting = [t \in Thread |-> None]
    /\ dtor = "live"
    /\ state = [i \in Work |-> "new"] /\ starts = [i \in Work |-> 0]

Goto(t, p) == pc' = [pc EXCEPT ![t] = p]
Becomes(i, s) == state' = [state EXCEPT ![i] = s]

HasRoom == Len(queue) < Capacity

\* Clients, and bodies that are allowed to, may post; nobody calls an executor
\* whose destruction has begun, but a call may be under way when it begins.
MayPost(t, i) ==
    /\ pc[t] = "run" /\ state[i] = "new"
    /\ IF t \in Client THEN dtor = "live" ELSE <<body[t], i>> \in Posts

-----------------------------------------------------------------------------
(* Posting *)

Post(t, i) ==
    /\ MayPost(t, i)
    /\ Goto(t, "post") /\ Becomes(i, "posting")
    /\ posting' = [posting EXCEPT ![t] = i]
    /\ UNCHANGED <<queue, stopping, body, dtor, starts>>

\* The predicate of space_cv_.wait is false: the thread goes to sleep.
PostBlocks(t) ==
    /\ pc[t] = "post" /\ ~HasRoom /\ ~stopping
    /\ Goto(t, "blocked")
    /\ UNCHANGED <<queue, stopping, body, posting, dtor, state, starts>>

\* Once stopping_ is set, Post returns and its work is destroyed unrun.
PostDrops(t) ==
    /\ pc[t] = "post" /\ stopping
    /\ Goto(t, "run") /\ Becomes(posting[t], "dropped")
    /\ posting' = [posting EXCEPT ![t] = None]
    /\ UNCHANGED <<queue, stopping, body, dtor, starts>>

\* A push is followed by a notification.
AfterAccept == "notify_work"

PostAccepts(t) ==
    /\ pc[t] = "post" /\ HasRoom /\ ~stopping
    /\ queue' = Append(queue, posting[t])
    /\ Becomes(posting[t], "queued")
    /\ Goto(t, AfterAccept)
    /\ posting' = [posting EXCEPT ![t] = None]
    /\ UNCHANGED <<stopping, body, dtor, starts>>

Sleepers(p) == {t \in Thread : pc[t] = p}

\* notify_one on work_cv_: some sleeping worker wakes, if there is one.
WakesOne(next) ==
    IF Sleepers("asleep") = {} THEN pc' = next
    ELSE \E w \in Sleepers("asleep") : pc' = [next EXCEPT ![w] = "loop"]

NotifyWork(t) ==
    /\ pc[t] = "notify_work"
    /\ WakesOne([pc EXCEPT ![t] = "run"])
    /\ UNCHANGED <<queue, stopping, body, posting, dtor, state, starts>>

\* TryPost pushes and notifies under the lock; when it refuses, nothing changes.
TryPost(t, i) ==
    /\ MayPost(t, i) /\ ~stopping /\ HasRoom
    /\ queue' = Append(queue, i)
    /\ Becomes(i, "queued")
    /\ WakesOne(pc)
    /\ UNCHANGED <<stopping, body, posting, dtor, starts>>

-----------------------------------------------------------------------------
(* Workers *)

WorkerTake(w) ==
    /\ pc[w] = "loop" /\ queue # <<>>
    /\ queue' = Tail(queue)
    /\ body' = [body EXCEPT ![w] = Head(queue)]
    /\ Becomes(Head(queue), "running")
    /\ Goto(w, "notify_space")
    /\ UNCHANGED <<stopping, posting, dtor, starts>>

MutMayExit == stopping   \* mutation: leaves with work still queued
MayExit == stopping /\ queue = <<>>

WorkerExits(w) ==
    /\ pc[w] = "loop" /\ MayExit
    /\ Goto(w, "exited")
    /\ UNCHANGED <<queue, stopping, body, posting, dtor, state, starts>>

WorkerSleeps(w) ==
    /\ pc[w] = "loop" /\ queue = <<>> /\ ~stopping
    /\ Goto(w, "asleep")
    /\ UNCHANGED <<queue, stopping, body, posting, dtor, state, starts>>

\* notify_all on space_cv_, after which the worker calls the body.  Mutations:
\* it wakes nobody; both waits share one condition variable.
MutWokenBySpace(t) == FALSE
WokenBySpace(t) == pc[t] = "blocked"

NotifySpace(w) ==
    /\ pc[w] = "notify_space"
    /\ pc' = [t \in Thread |-> IF t = w THEN "run"
                               ELSE IF WokenBySpace(t) THEN "post" ELSE pc[t]]
    /\ starts' = [starts EXCEPT ![body[w]] = @ + 1]
    /\ UNCHANGED <<queue, stopping, body, posting, dtor, state>>

\* The body returns or throws; both end in the next turn of the loop.
FinishBody(w) ==
    /\ w \in Worker /\ pc[w] = "run"
    /\ Becomes(body[w], "done")
    /\ body' = [body EXCEPT ![w] = None]
    /\ Goto(w, "loop")
    /\ UNCHANGED <<queue, stopping, posting, dtor, starts>>

SpuriousWakeup(t) ==
    /\ \/ pc[t] = "asleep" /\ Goto(t, "loop")
       \/ pc[t] = "blocked" /\ Goto(t, "post")
    /\ UNCHANGED <<queue, stopping, body, posting, dtor, state, starts>>

-----------------------------------------------------------------------------
(* Destruction *)

Stop ==
    /\ dtor = "live"
    /\ stopping' = TRUE /\ dtor' = "notify_work"
    /\ UNCHANGED <<queue, pc, body, posting, state, starts>>

\* notify_all on work_cv_; mutation: no notification.
MutWokenByStop(t) == FALSE
WokenByStop(t) == pc[t] = "asleep"

StopNotifiesWork ==
    /\ dtor = "notify_work" /\ dtor' = "notify_space"
    /\ pc' = [t \in Thread |-> IF WokenByStop(t) THEN "loop" ELSE pc[t]]
    /\ UNCHANGED <<queue, stopping, body, posting, state, starts>>

StopNotifiesSpace ==
    /\ dtor = "notify_space" /\ dtor' = "join"
    /\ pc' = [t \in Thread |-> IF pc[t] = "blocked" THEN "post" ELSE pc[t]]
    /\ UNCHANGED <<queue, stopping, body, posting, state, starts>>

\* workers_.clear() joins the workers; mutation: it only waits for one.
Joinable == \A w \in Worker : pc[w] = "exited"

Join ==
    /\ dtor = "join" /\ Joinable /\ dtor' = "gone"
    /\ UNCHANGED <<queue, stopping, pc, body, posting, state, starts>>

-----------------------------------------------------------------------------
PostStep(t) == \/ PostBlocks(t) \/ PostDrops(t) \/ PostAccepts(t)
               \/ NotifyWork(t)
WorkerStep(w) == \/ WorkerTake(w) \/ WorkerExits(w) \/ WorkerSleeps(w)
                 \/ NotifySpace(w) \/ FinishBody(w)
StopStep == StopNotifiesWork \/ StopNotifiesSpace \/ Join

Next ==
    \/ \E t \in Thread, i \in Work : Post(t, i) \/ TryPost(t, i)
    \/ \E t \in Thread : PostStep(t) \/ SpuriousWakeup(t)
    \/ \E w \in Worker : WorkerStep(w)
    \/ Stop \/ StopStep

Spec == Init /\ [][Next]_vars

\* Every started thread is scheduled again, and bodies end: what the lane is
\* handed are loads and reads, which return.
FairSpec == /\ Spec
            /\ \A t \in Thread : WF_vars(PostStep(t))
            /\ \A w \in Worker : WF_vars(WorkerStep(w))
            /\ WF_vars(StopStep)

-----------------------------------------------------------------------------
(* Properties *)

\* Queued work always has somebody on the way to it: a worker that is up, or a
\* notification still to be sent.
WorkNotStranded ==
    queue # <<>> =>
        \/ \E w \in Worker : pc[w] \notin {"asleep", "exited"}
        \/ \E t \in Thread : pc[t] = "notify_work"

\* With bodies that do not post, work accepted is eventually done, destructor
\* or not.
AcceptedRuns == \A i \in Work : state[i] = "queued" ~> state[i] = "done"

\* A blocked Post returns, because a worker makes room or the executor stops.
PostReturns == \A t \in Client : pc[t] = "blocked" ~> pc[t] = "run"

\* The destructor returns, though workers sleep and threads are blocked in Post
\* when it begins.
DestructorReturns == dtor = "notify_work" ~> dtor = "gone"
=============================================================================
