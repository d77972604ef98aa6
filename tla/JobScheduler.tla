---------------------------- MODULE JobScheduler ----------------------------
(***************************************************************************)
(* The engine's compute scheduler (engine/shared/Jobs.cppm, Jobs.cpp):     *)
(* three priority queues behind one mutex, worker threads, dependency-     *)
(* counted jobs, barriers, and waits that execute queued work themselves.  *)
(*                                                                         *)
(* A step is one critical section of `mutex_`, of a job's `mutex` or of a  *)
(* barrier's `mutex_`, or one access to an atomic.  What a job's body or a *)
(* client does between two calls of the scheduler is not modelled: a       *)
(* thread that is executing code ("run") may call any operation its        *)
(* contract allows, in any order.                                          *)
(***************************************************************************)
EXTENDS Integers, Sequences, FiniteSets

CONSTANTS
    Worker,       \* threads the pool may start
    Client,       \* threads outside the pool that call the scheduler
    Job,          \* dependency-counted jobs
    Raw,          \* fire-and-forget work items
    Barrier,      \* barriers
    TierOf,       \* tier of each item: 0 Realtime, 1 Compute, 2 Background
    MaxDeps,      \* bound on the dependency count a job is created with
    Limit,        \* background_starvation_limit_, already clamped to >= 1
    JobWaits,     \* <<i, j>>: the body of item i may wait for job j
    Budgets,      \* worker sets Configure may start; {} when it is not called
    StoreBuffer,  \* may a store to `queued` be delayed past later loads?
    None, Main, Idle

Thread == Worker \cup Client
Item == Job \cup Raw
Tier == 0..2
Background == 2

\* The pieces of a thread's position, see Where below.
QueueingPc == {"load_queued", "load_pending", "claim", "submit"}
ConfigurePc == {"notify_all", "join"}
Pc == {"off", "loop", "asleep", "run", "check", "try", "notify", "signal",
       "retire", "destroy"} \cup QueueingPc \cup ConfigurePc

ASSUME SchedulerConstants ==
    /\ IsFiniteSet(Worker) /\ IsFiniteSet(Client)
    /\ IsFiniteSet(Job) /\ IsFiniteSet(Raw) /\ IsFiniteSet(Barrier)
    /\ Worker \cap Client = {}
    /\ Job \cap Raw = {} /\ Job \cap Barrier = {}
    /\ None \notin Thread \cup Job \cup Barrier /\ Main \notin Item
    /\ Idle \notin Job \cup Barrier \cup {None}
    /\ TierOf \in [Item -> Tier]
    /\ MaxDeps \in Nat /\ Limit \in Nat \ {0}
    /\ JobWaits \subseteq Item \X Job
    /\ Budgets \subseteq SUBSET Worker
    /\ StoreBuffer \in BOOLEAN

VARIABLES
    (* JobScheduler *)
    queues,       \* tier -> items in submission order
    served,       \* served_since_background_
    inFlight,     \* in_flight_
    stopping,     \* stopping_
    (* JobControl, one per job *)
    pending, queued, submitted, done, failed, barrier,
    handle,       \* "none" before CreateJob, then "held", "freed" by FreeJob
    (* Barrier *)
    count,        \* pending_
    owner,        \* the client that created it; None while in the free list
    (* Where a work item is, and how often its body was started *)
    phase, starts,
    (* Threads *)
    pc,           \* what the thread does next
    arg,          \* the job or barrier that step is about
    stack,        \* what the thread executes, innermost first
    buffer        \* the job whose `queued` store is not yet visible, or None

schedVars == <<queues, served, inFlight, stopping>>
jobVars == <<pending, queued, submitted, done, failed, barrier, handle>>
barrierVars == <<count, owner>>
itemVars == <<phase, starts>>
threadVars == <<pc, arg, stack, buffer>>
vars == <<queues, served, inFlight, stopping,
          pending, queued, submitted, done, failed, barrier, handle,
          count, owner, phase, starts, pc, arg, stack, buffer>>

Phase == {"new", "claimed", "queued", "running", "retired"}
WaitTarget == Job \cup Barrier \cup {Idle, None}

\* A frame of a thread: the item whose body it executes (Main for a client's
\* own code) and what that code waits for (None while it is not waiting).
Frame == [item : Item \cup {Main}, on : WaitTarget]

SchedTypeOK ==
    /\ queues \in [Tier -> Seq(Item)]
    /\ served \in Nat /\ inFlight \in Int /\ stopping \in BOOLEAN
JobTypeOK ==
    /\ pending \in [Job -> 0..MaxDeps]
    /\ queued \in [Job -> BOOLEAN] /\ submitted \in [Job -> BOOLEAN]
    /\ done \in [Job -> BOOLEAN] /\ failed \in [Job -> BOOLEAN]
    /\ barrier \in [Job -> Barrier \cup {None}]
    /\ handle \in [Job -> {"none", "held", "freed"}]
BarrierTypeOK ==
    /\ count \in [Barrier -> Nat]
    /\ owner \in [Barrier -> Client \cup {None}]
ItemTypeOK ==
    /\ phase \in [Item -> Phase]
    /\ starts \in [Item -> Nat]
ThreadTypeOK ==
    /\ pc \in [Thread -> Pc]
    /\ arg \in [Thread -> Job \cup Barrier \cup {None}]
    /\ stack \in [Thread -> Seq(Frame)]
    /\ buffer \in [Thread -> Job \cup {None}]

\* Types of all parts; no job waits for more dependencies than it was created with.
TypeOK == /\ SchedTypeOK /\ JobTypeOK /\ BarrierTypeOK
          /\ ItemTypeOK /\ ThreadTypeOK

Init ==
    /\ queues = [r \in Tier |-> <<>>]
    /\ served = 0 /\ inFlight = 0 /\ stopping = FALSE
    /\ pending = [j \in Job |-> 0]
    /\ queued = [j \in Job |-> FALSE] /\ submitted = [j \in Job |-> FALSE]
    /\ done = [j \in Job |-> FALSE] /\ failed = [j \in Job |-> FALSE]
    /\ barrier = [j \in Job |-> None]
    /\ handle = [j \in Job |-> "none"]
    /\ count = [b \in Barrier |-> 0] /\ owner = [b \in Barrier |-> None]
    /\ phase = [i \in Item |-> "new"] /\ starts = [i \in Item |-> 0]
    /\ \E started \in {Worker} \cup Budgets :
          pc = [t \in Thread |->
                  IF t \in Client THEN "run"
                  ELSE IF t \in started THEN "loop" ELSE "off"]
    /\ arg = [t \in Thread |-> None]
    /\ stack = [t \in Thread |->
                  IF t \in Client THEN <<[item |-> Main, on |-> None]>>
                  ELSE <<>>]
    /\ buffer = [t \in Thread |-> None]

-----------------------------------------------------------------------------
(* Positions and guards *)

Executes(t) == pc[t] = "run"
InMain(t) == pc[t] = "run" /\ Head(stack[t]).item = Main
Drained(t) == buffer[t] = None   \* an RMW or a lock first drains the buffer
Alive == {w \in Worker : pc[w] # "off"}

Goto(t, p) == pc' = [pc EXCEPT ![t] = p]
With(t, x) == arg' = [arg EXCEPT ![t] = x]

\* The step changes nothing but the threads' positions.
OnlyMoves == UNCHANGED <<schedVars, jobVars, barrierVars, itemVars, arg, stack,
                         buffer>>

HasWork == \E r \in Tier : queues[r] # <<>>

-----------------------------------------------------------------------------
(* Dependency-counted jobs *)

InitialCount(n) == n

CreateJob(t, j) ==
    /\ Executes(t) /\ handle[j] = "none"
    /\ handle' = [handle EXCEPT ![j] = "held"]
    /\ \E n \in 0..MaxDeps : pending' = [pending EXCEPT ![j] = InitialCount(n)]
    /\ UNCHANGED <<schedVars, queued, submitted, done, failed, barrier,
                   barrierVars, itemVars, threadVars>>

\* `queued.store(true)`; the first test of MaybeQueue then reads the thread's
\* own store, so the thread goes on to the second one.
QueueJob(t, j) ==
    /\ Executes(t) /\ handle[j] = "held" /\ Drained(t)
    /\ IF StoreBuffer
       THEN buffer' = [buffer EXCEPT ![t] = j] /\ UNCHANGED queued
       ELSE queued' = [queued EXCEPT ![j] = TRUE] /\ UNCHANGED buffer
    /\ Goto(t, "load_pending") /\ With(t, j)
    /\ UNCHANGED <<schedVars, pending, submitted, done, failed, barrier,
                   handle, barrierVars, itemVars, stack>>

\* The store of QueueJob becomes visible to the other threads.
DrainBuffer(t) ==
    /\ buffer[t] # None
    /\ queued' = [queued EXCEPT ![buffer[t]] = TRUE]
    /\ buffer' = [buffer EXCEPT ![t] = None]
    /\ UNCHANGED <<schedVars, pending, submitted, done, failed, barrier,
                   handle, barrierVars, itemVars, pc, arg, stack>>

MutLastRelease(j) == pending[j] = 2   \* mutation: off by one
LastRelease(j) == pending[j] = 1

\* `pending.fetch_sub(1) == 1` decides who calls MaybeQueue.  Callers release
\* a dependency at most as often as the job was created with.
RemoveDependency(t, j) ==
    /\ Executes(t) /\ handle[j] = "held" /\ Drained(t)
    /\ pending[j] > 0
    /\ pending' = [pending EXCEPT ![j] = @ - 1]
    /\ IF LastRelease(j)
       THEN Goto(t, "load_queued") /\ With(t, j)
       ELSE UNCHANGED <<pc, arg>>
    /\ UNCHANGED <<schedVars, queued, submitted, done, failed, barrier,
                   handle, barrierVars, itemVars, stack, buffer>>

\* The three tests of MaybeQueue, each an access to another atomic.
\* Mutations: the test is not made.
MutSeesQueued(t) == TRUE
SeesQueued(t) == queued[arg[t]] \/ buffer[t] = arg[t]

LoadQueued(t) ==
    /\ pc[t] = "load_queued"
    /\ Goto(t, IF SeesQueued(t) THEN "load_pending" ELSE "run")
    /\ OnlyMoves

SeesReleased(t) == pending[arg[t]] = 0

LoadPending(t) ==
    /\ pc[t] = "load_pending"
    /\ Goto(t, IF SeesReleased(t) THEN "claim" ELSE "run")
    /\ OnlyMoves

SeesSubmitted(t) == submitted[arg[t]]

Claim(t) ==
    /\ pc[t] = "claim" /\ Drained(t)
    /\ submitted' = [submitted EXCEPT ![arg[t]] = TRUE]
    /\ IF SeesSubmitted(t)
       THEN Goto(t, "run") /\ UNCHANGED phase
       ELSE Goto(t, "submit") /\ phase' = [phase EXCEPT ![arg[t]] = "claimed"]
    /\ UNCHANGED <<schedVars, pending, queued, done, failed, barrier, handle,
                   barrierVars, starts, arg, stack, buffer>>

\* FreeJob drops the caller's reference, which no other call may be using.
FreeJob(t, j) ==
    /\ Executes(t) /\ handle[j] = "held"
    /\ \A u \in Thread :
          /\ pc[u] \in QueueingPc => arg[u] # j
          /\ \A k \in 1..Len(stack[u]) : stack[u][k].on # j
    /\ handle' = [handle EXCEPT ![j] = "freed"]
    /\ UNCHANGED <<schedVars, pending, queued, submitted, done, failed,
                   barrier, barrierVars, itemVars, threadVars>>

-----------------------------------------------------------------------------
(* Submitting and taking work *)

Push(i) ==
    /\ queues' = [queues EXCEPT ![TierOf[i]] = Append(@, i)]
    /\ phase' = [phase EXCEPT ![i] = "queued"]

\* Every push is followed by a notification.
MutAfterPush == "run"   \* mutation: no notification
AfterPush == "notify"

\* The Submit call at the end of MaybeQueue.
SubmitJob(t) ==
    /\ pc[t] = "submit" /\ Drained(t)
    /\ Push(arg[t])
    /\ Goto(t, AfterPush)
    /\ UNCHANGED <<served, inFlight, stopping, jobVars, barrierVars, starts,
                   arg, stack, buffer>>

\* A direct Submit of a fire-and-forget body.
Submit(t, i) ==
    /\ Executes(t) /\ Drained(t) /\ phase[i] = "new"
    /\ Push(i)
    /\ Goto(t, AfterPush)
    /\ UNCHANGED <<served, inFlight, stopping, jobVars, barrierVars, starts,
                   arg, stack, buffer>>

Asleep == {w \in Worker : pc[w] = "asleep"}
Wakes(t, w) == pc' = [pc EXCEPT ![t] = "run", ![w] = "loop"]

\* work_cv_.notify_one(), after the lock is released.
NotifyOne(t) ==
    /\ pc[t] = "notify"
    /\ \/ \E w \in Asleep : Wakes(t, w)
       \/ Asleep = {} /\ Goto(t, "run")
    /\ OnlyMoves

\* The tier PopLocked serves: the most urgent one, unless Background waits
\* and the starvation guard is due.
Urgent == CHOOSE r \in Tier :
            queues[r] # <<>> /\ \A s \in Tier : queues[s] # <<>> => r <= s
GuardDue == queues[Background] # <<>> /\ served >= Limit
Served == IF Urgent # Background /\ GuardDue THEN Background ELSE Urgent

\* PopLocked by thread t, and the start of the item's body on t.
Pop(t) ==
    /\ HasWork
    /\ LET i == Head(queues[Served])
       IN /\ queues' = [queues EXCEPT ![Served] = Tail(@)]
          /\ served' = IF Served = Background THEN 0 ELSE served + 1
          /\ phase' = [phase EXCEPT ![i] = "running"]
          /\ starts' = [starts EXCEPT ![i] = @ + 1]
          /\ stack' = [stack EXCEPT ![t] =
                         <<[item |-> i, on |-> None]>> \o @]
    /\ inFlight' = inFlight + 1
    /\ Goto(t, "run")
    /\ UNCHANGED <<stopping, jobVars, barrierVars, arg, buffer>>

\* WorkerMain under the lock: take work, or leave when stopping, or sleep.
WorkerTake(w) == pc[w] = "loop" /\ Pop(w)

WorkerExitOrSleep(w) ==
    /\ pc[w] = "loop" /\ ~HasWork
    /\ Goto(w, IF stopping THEN "off" ELSE "asleep")
    /\ OnlyMoves

SpuriousWakeup(w) ==
    /\ pc[w] = "asleep"
    /\ Goto(w, "loop")
    /\ OnlyMoves

\* The public TryExecuteOne, called by a client's own code.
TryExecuteOne(t) == InMain(t) /\ Drained(t) /\ Pop(t)

-----------------------------------------------------------------------------
(* The end of an item: the wrapper MaybeQueue submits, then RunItem *)

Unlink(j) == barrier' = [barrier EXCEPT ![j] = None]

\* The body returns or throws; under the job's lock the wrapper sets `done`
\* and takes the barrier the job was added to.
FinishBody(t) ==
    /\ Executes(t) /\ Drained(t)
    /\ LET i == Head(stack[t]).item
       IN \/ /\ i \in Raw
             /\ Goto(t, "retire")
             /\ UNCHANGED <<arg, done, failed, barrier>>
          \/ /\ i \in Job
             /\ done' = [done EXCEPT ![i] = TRUE]
             /\ \E threw \in BOOLEAN : failed' = [failed EXCEPT ![i] = threw]
             /\ Unlink(i)
             /\ With(t, barrier[i])
             /\ Goto(t, IF barrier[i] = None THEN "retire" ELSE "signal")
    /\ UNCHANGED <<schedVars, pending, queued, submitted, handle,
                   barrierVars, itemVars, stack, buffer>>

\* Barrier::OnJobFinished
OnJobFinished(t) ==
    /\ pc[t] = "signal"
    /\ count' = [count EXCEPT ![arg[t]] = IF @ > 0 THEN @ - 1 ELSE @]
    /\ Goto(t, "retire")
    /\ UNCHANGED <<schedVars, jobVars, owner, itemVars, arg, stack, buffer>>

LeaveFlight == inFlight' = inFlight - 1

\* RunItem's epilogue: in_flight_ goes down and the thread returns to the
\* worker loop, to the wait it executed the item in, or to TryExecuteOne's
\* caller.
Retire(t) ==
    /\ pc[t] = "retire"
    /\ LeaveFlight
    /\ phase' = [phase EXCEPT ![Head(stack[t]).item] = "retired"]
    /\ stack' = [stack EXCEPT ![t] = Tail(@)]
    /\ Goto(t, IF Len(stack[t]) = 1 THEN "loop"
               ELSE IF stack[t][2].on = None THEN "run" ELSE "check")
    /\ UNCHANGED <<queues, served, stopping, jobVars, barrierVars, starts,
                   arg, buffer>>

-----------------------------------------------------------------------------
(* Barriers *)

CreateBarrier(t, b) ==
    /\ InMain(t) /\ t \in Client /\ owner[b] = None
    /\ owner' = [owner EXCEPT ![b] = t]
    /\ UNCHANGED <<schedVars, jobVars, count, itemVars, threadVars>>

MutCountMember(b) == UNCHANGED count   \* mutation: linked but not counted
CountMember(b) == count' = [count EXCEPT ![b] = @ + 1]

\* Added by the barrier's creator, or by a job that is itself in the barrier.
\* A job that is done or already in a barrier is skipped.
AddJob(t, b, j) ==
    /\ Executes(t) /\ Drained(t) /\ handle[j] = "held"
    /\ \/ InMain(t) /\ owner[b] = t
       \/ Head(stack[t]).item \in Job /\ barrier[Head(stack[t]).item] = b
    /\ ~done[j] /\ barrier[j] = None
    /\ barrier' = [barrier EXCEPT ![j] = b]
    /\ CountMember(b)
    /\ UNCHANGED <<schedVars, pending, queued, submitted, done, failed,
                   handle, owner, itemVars, threadVars>>

MutMayDestroy(b) == TRUE   \* mutation: no test of Pending()
MayDestroy(b) == count[b] = 0

\* DestroyBarrier throws unless Pending() is 0, then resets and pools it.
DestroyBarrier(t, b) ==
    /\ InMain(t) /\ Drained(t) /\ owner[b] = t /\ MayDestroy(b)
    /\ Goto(t, "destroy") /\ With(t, b)
    /\ UNCHANGED <<schedVars, jobVars, barrierVars, itemVars, stack, buffer>>

ReturnBarrier(t) ==
    /\ pc[t] = "destroy"
    /\ count' = [count EXCEPT ![arg[t]] = 0]
    /\ owner' = [owner EXCEPT ![arg[t]] = None]
    /\ Goto(t, "run")
    /\ UNCHANGED <<schedVars, jobVars, itemVars, arg, stack, buffer>>

-----------------------------------------------------------------------------
(* Participating waits: test the target, else execute one queued item *)

BeginWait(t, x) ==
    /\ stack' = [stack EXCEPT ![t] = <<[Head(@) EXCEPT !.on = x]>> \o Tail(@)]
    /\ Goto(t, "check")
    /\ UNCHANGED <<schedVars, jobVars, barrierVars, itemVars, arg, buffer>>

Wait(t, j) ==
    /\ Executes(t) /\ handle[j] = "held"
    /\ InMain(t) \/ <<Head(stack[t]).item, j>> \in JobWaits
    /\ BeginWait(t, j)

WaitForJobs(t, b) == InMain(t) /\ owner[b] = t /\ BeginWait(t, b)

WaitForIdle(t) == InMain(t) /\ BeginWait(t, Idle)

MutPoolIdle == ~HasWork   \* mutation: work in hand is forgotten
PoolIdle == ~HasWork /\ inFlight = 0

Reached(x) ==
    \/ x \in Job /\ done[x]
    \/ x \in Barrier /\ count[x] = 0
    \/ x = Idle /\ PoolIdle

CheckWait(t) ==
    /\ pc[t] = "check"
    /\ Head(stack[t]).on \in Job \/ Drained(t)
    /\ IF Reached(Head(stack[t]).on)
       THEN /\ stack' = [stack EXCEPT ![t] =
                           <<[Head(@) EXCEPT !.on = None]>> \o Tail(@)]
            /\ Goto(t, "run")
       ELSE Goto(t, "try") /\ UNCHANGED stack
    /\ UNCHANGED <<schedVars, jobVars, barrierVars, itemVars, arg, buffer>>

ExecutesQueued(t) == Pop(t)

\* TryExecuteOne inside a wait: execute an item, or doze and test again.
TryInWait(t) ==
    /\ pc[t] = "try" /\ Drained(t)
    /\ \/ ExecutesQueued(t)
       \/ ~HasWork /\ Goto(t, "check") /\ OnlyMoves

-----------------------------------------------------------------------------
(* Configure: stop and join the workers, then start the new ones *)

Configure(t) ==
    /\ Budgets # {} /\ InMain(t) /\ Drained(t)
    /\ \A u \in Thread : pc[u] \notin ConfigurePc
    /\ stopping' = TRUE
    /\ Goto(t, "notify_all")
    /\ UNCHANGED <<queues, served, inFlight, jobVars, barrierVars, itemVars,
                   arg, stack, buffer>>

MutWoken == {}   \* mutation: the workers are joined without being woken
Woken == Asleep

NotifyAll(t) ==
    /\ pc[t] = "notify_all"
    /\ pc' = [u \in Thread |-> IF u = t THEN "join"
                               ELSE IF u \in Woken THEN "loop" ELSE pc[u]]
    /\ OnlyMoves

\* Only workers read stopping_, so clearing it, resetting the guard's counter
\* and starting the new workers is one step.
JoinAndRestart(t) ==
    /\ pc[t] = "join" /\ Alive = {}
    /\ stopping' = FALSE /\ served' = 0
    /\ \E started \in Budgets :
          pc' = [u \in Thread |-> IF u = t THEN "run"
                                  ELSE IF u \in started THEN "loop" ELSE pc[u]]
    /\ UNCHANGED <<queues, inFlight, jobVars, barrierVars, itemVars, arg,
                   stack, buffer>>

-----------------------------------------------------------------------------
(* Calls are the callers' choice; the other steps are the scheduler's own. *)

CallOn(t) ==
    \/ \E j \in Job : \/ CreateJob(t, j)
                      \/ QueueJob(t, j)
                      \/ RemoveDependency(t, j)
                      \/ FreeJob(t, j)
                      \/ Wait(t, j)
    \/ \E i \in Raw : Submit(t, i)
    \/ \E b \in Barrier : \/ CreateBarrier(t, b)
                          \/ \E j \in Job : AddJob(t, b, j)
                          \/ DestroyBarrier(t, b)
                          \/ WaitForJobs(t, b)
    \/ TryExecuteOne(t)
    \/ WaitForIdle(t)
    \/ Configure(t)

\* What a thread does next without being asked.
Proceed(t) ==
    \/ LoadQueued(t)
    \/ LoadPending(t)
    \/ Claim(t)
    \/ SubmitJob(t)
    \/ NotifyOne(t)
    \/ WorkerTake(t)
    \/ WorkerExitOrSleep(t)
    \/ FinishBody(t)
    \/ OnJobFinished(t)
    \/ Retire(t)
    \/ ReturnBarrier(t)
    \/ CheckWait(t)
    \/ TryInWait(t)
    \/ NotifyAll(t)
    \/ JoinAndRestart(t)

Next == \E t \in Thread : \/ CallOn(t)
                          \/ Proceed(t)
                          \/ DrainBuffer(t)
                          \/ SpuriousWakeup(t)

Spec == Init /\ [][Next]_vars

\* The operating system runs every thread that can run, a store reaches
\* memory, and every body returns however many calls it makes first.  No call
\* is ever promised.
Fairness == \A t \in Thread : /\ WF_vars(Proceed(t))
                              /\ WF_vars(DrainBuffer(t))
                              /\ SF_vars(FinishBody(t))

FairSpec == Spec /\ Fairness

-----------------------------------------------------------------------------
(* Safety *)

\* in_flight_ counts exactly the items popped and not yet retired, on workers
\* and inside waits alike: what makes "queues empty and in_flight_ = 0" mean
\* that nothing runs.
InFlightCount == inFlight = Cardinality({i \in Item : phase[i] = "running"})

\* A queue holds an item once and exactly while the item waits to be popped;
\* two callers of MaybeQueue that both see the job ready submit it once.
QueuesExact ==
    /\ \A r \in Tier : \A k \in 1..Len(queues[r]) :
          phase[queues[r][k]] = "queued" /\ TierOf[queues[r][k]] = r
    /\ \A r \in Tier : \A k, l \in 1..Len(queues[r]) :
          queues[r][k] = queues[r][l] => k = l
    /\ \A i \in Item : phase[i] = "queued" =>
          \E k \in 1..Len(queues[TierOf[i]]) : queues[TierOf[i]][k] = i

\* Threads that took barrier b from a finished job but have not yet
\* decremented its count.
Signalling(b) == {t \in Thread : pc[t] = "signal" /\ arg[t] = b}
Members(b) == {j \in Job : barrier[j] = b}

\* Barrier::pending_ is the number of unfinished members plus the finished
\* ones whose decrement is on its way, however AddJobs races with completion.
BarrierAccount ==
    \A b \in Barrier :
       count[b] = Cardinality(Members(b)) + Cardinality(Signalling(b))

\* A barrier in the free list is referenced by no job and by no thread about
\* to signal it, so its next user never sees a count changed behind its back.
PooledBarrierUnused ==
    \A b \in Barrier :
       owner[b] = None => count[b] = 0 /\ Members(b) = {} /\ Signalling(b) = {}

\* A job is submitted only after it was queued and its last dependency was
\* released, whichever came last and whoever submits it.
ReadyBeforeSubmit ==
    \A j \in Job : phase[j] # "new" => queued[j] /\ pending[j] = 0

\* Whoever completes the second of the two conditions submits the job: when
\* both hold, it is submitted or some thread is still on its way to do it.
NoLostJob ==
    \A j \in Job :
       (queued[j] /\ pending[j] = 0 /\ ~submitted[j])
          => \E t \in Thread : pc[t] \in QueueingPc /\ arg[t] = j

\* Work in a queue never leaves every worker asleep with nobody about to
\* notify one.
NoLostWakeup ==
    (HasWork /\ Alive # {})
       => \/ \E w \in Alive : pc[w] # "asleep"
          \/ \E t \in Thread : pc[t] \in {"notify", "notify_all"}

\* The scheduler implements JobContract: a job is asked for once its `queued`
\* store was made, visible or not, and done once `done` is set.
Asked(i) == IF i \in Job THEN queued[i] \/ \E t \in Thread : buffer[t] = i
                         ELSE phase[i] # "new"
StateOf(i) == IF phase[i] = "retired" \/ (i \in Job /\ done[i]) THEN "done"
              ELSE IF phase[i] = "running" THEN "running" ELSE "waiting"

Contract == INSTANCE JobContract
              WITH deps <- pending,
                   asked <- [i \in Item |-> Asked(i)],
                   runs <- starts,
                   state <- [i \in Item |-> StateOf(i)]

\* Every body starts at most once, and only when it may.
ImplementsContract == Contract!Spec

\* The threads whose wait for x returns in this step.
Returns(t, x) == pc[t] = "check" /\ pc'[t] = "run" /\ Head(stack[t]).on = x

\* WaitForIdle returns only at an instant when no item is queued or running.
IdleMeansIdle ==
    [][\A t \in Thread : Returns(t, Idle) =>
          \A i \in Item : phase[i] \notin {"queued", "running"}]_vars

\* WaitForJobs returns only when no unfinished job is in the barrier, those
\* added while it waited included, and no finished one has still to signal it:
\* the caller may destroy the barrier at once.
BarrierWaitSound ==
    [][\A t \in Thread, b \in Barrier : Returns(t, b) =>
          Members(b) = {} /\ Signalling(b) = {}]_vars

-----------------------------------------------------------------------------
(* Liveness, under FairSpec *)

\* No body waits for a job whose own body waits.  With such a chain a wait of
\* Jobs.cpp:314-321 may execute the very item that waits for what lies below it
\* on the same stack, and neither ever finishes.
NoWaitChain == \A x, y \in JobWaits : x[2] # y[1]

\* Where no wait chains to another, Configure returns: a worker asleep when
\* stopping_ is set is woken, and every worker leaves once the queues are empty
\* and no body waits for a job that nobody has yet queued and released.  (A worker
\* whose stack waits for itself would never be joined.)
ConfigureReturns ==
    NoWaitChain => (stopping /\ (\A j \in Job : queued[j] /\ pending[j] = 0) ~> ~stopping)

\* Job j was queued and released, and so was every job its body may wait for.
Ready(j) == \A i \in {j} \cup {k \in Job : <<j, k>> \in JobWaits} : queued[i] /\ pending[i] = 0


\* The same with chains of waits, which the participating waits of Jobs.cppm:18-21
\* do not rule out.  Fails: a worker takes j1, whose body waits for j2; that wait
\* takes an item whose body waits for j1.
EveryReadyJobFinishes == \A j \in Job : Ready(j) ~> done[j]
=============================================================================
