------------------------- MODULE JobScheduler_proofs ------------------------
(***************************************************************************)
(* Proofs about JobScheduler: its inductive invariant and what follows.    *)
(***************************************************************************)
EXTENDS JobInvariant, FiniteSetTheorems, SequenceTheorems, TLAPS

-----------------------------------------------------------------------------
(* Sequences: a frame is pushed at the head of a stack, an item is appended *)
(* to a queue, and both are taken from the head.                            *)

\* A sequence with an element put in front.
LEMMA PushFacts ==
    ASSUME NEW S, NEW s \in Seq(S), NEW x \in S
    PROVE  /\ <<x>> \o s \in Seq(S)
           /\ Len(<<x>> \o s) = Len(s) + 1
           /\ <<x>> \o s # <<>>
           /\ Head(<<x>> \o s) = x
           /\ \A k \in 1..Len(s) + 1 :
                 (<<x>> \o s)[k] = IF k = 1 THEN x ELSE s[k - 1]
  OBVIOUS

\* Head and tail of a sequence that is not empty.
LEMMA TailFacts ==
    ASSUME NEW S, NEW s \in Seq(S), s # <<>>
    PROVE  /\ Tail(s) \in Seq(S)
           /\ Len(s) \in Nat \ {0}
           /\ Head(s) \in S /\ Head(s) = s[1]
           /\ Len(Tail(s)) = Len(s) - 1
           /\ \A k \in 1..Len(s) - 1 : Tail(s)[k] = s[k + 1]
  OBVIOUS

\* A sequence of more than one element has a tail that is not empty.
LEMMA LongTail ==
    ASSUME NEW S, NEW s \in Seq(S), s # <<>>, Len(s) # 1
    PROVE  Tail(s) # <<>>
<1>1. Len(Tail(s)) = Len(s) - 1 /\ Len(s) \in Nat
  BY TailFacts
<1> QED
  BY <1>1, TailFacts, EmptySeq

\* A sequence with an element put at the end.
LEMMA AppendFacts ==
    ASSUME NEW S, NEW s \in Seq(S), NEW x \in S
    PROVE  /\ Append(s, x) \in Seq(S)
           /\ Len(Append(s, x)) = Len(s) + 1
           /\ \A k \in 1..Len(s) + 1 :
                 Append(s, x)[k] = IF k = Len(s) + 1 THEN x ELSE s[k]
  OBVIOUS

\* The queue PopLocked takes from is not empty.
LEMMA ServedFacts ==
    ASSUME TypeOK, HasWork
    PROVE  Served \in Tier /\ queues[Served] # <<>>
<1>1. Urgent \in Tier /\ queues[Urgent] # <<>>
  <2>1. PICK r \in Tier : queues[r] # <<>>
    BY DEF HasWork
  <2>2. \E m \in Tier : queues[m] # <<>> /\ \A s \in Tier : queues[s] # <<>> => m <= s
    BY <2>1 DEF Tier
  <2> QED
    BY <2>2 DEF Urgent
<1> QED
  BY <1>1 DEF Served, GuardDue, Background, Tier

-----------------------------------------------------------------------------
(* Type correctness *)

\* The positions by name, so that Pc need not be expanded.
LEMMA PcFacts ==
    {"off", "loop", "asleep", "run", "check", "try", "notify", "signal",
     "retire", "destroy", "load_queued", "load_pending", "claim", "submit",
     "notify_all", "join"} \subseteq Pc
  BY DEF Pc, QueueingPc, ConfigurePc

\* A group of variables a step leaves alone keeps its types.
LEMMA TypeFrame ==
    /\ SchedTypeOK /\ UNCHANGED schedVars => SchedTypeOK'
    /\ JobTypeOK /\ UNCHANGED jobVars => JobTypeOK'
    /\ BarrierTypeOK /\ UNCHANGED barrierVars => BarrierTypeOK'
    /\ ItemTypeOK /\ UNCHANGED itemVars => ItemTypeOK'
    /\ ThreadTypeOK /\ UNCHANGED threadVars => ThreadTypeOK'
  BY DEF SchedTypeOK, JobTypeOK, BarrierTypeOK, ItemTypeOK, ThreadTypeOK,
         schedVars, jobVars, barrierVars, itemVars, threadVars

\* Moving a thread needs only a legal position.
LEMMA MoveTypes ==
    ASSUME ThreadTypeOK, NEW t \in Thread, NEW p \in Pc, Goto(t, p)
    PROVE  pc' \in [Thread -> Pc]
  BY DEF ThreadTypeOK, Goto

\* Pushing an item onto its queue.
LEMMA PushTypes ==
    ASSUME TypeOK, NEW i \in Item, Push(i), UNCHANGED <<served, inFlight, stopping, starts>>
    PROVE  SchedTypeOK' /\ ItemTypeOK'
<1>1. TierOf[i] \in Tier /\ queues[TierOf[i]] \in Seq(Item)
  BY SchedulerConstants DEF TypeOK, SchedTypeOK
<1>2. Append(queues[TierOf[i]], i) \in Seq(Item)
  BY <1>1, AppendFacts
<1>3. SchedTypeOK'
  BY <1>1, <1>2 DEF TypeOK, SchedTypeOK, Push
<1>4. ItemTypeOK'
  BY DEF TypeOK, ItemTypeOK, Phase, Push
<1> QED
  BY <1>3, <1>4

\* Popping an item onto a thread's stack.
LEMMA PopTypes ==
    ASSUME TypeOK, NEW t \in Thread, Pop(t)
    PROVE  /\ TypeOK'
           /\ stack' = [stack EXCEPT ![t] = stack'[t]] /\ stack'[t] # <<>>
<1> DEFINE i == Head(queues[Served])
           f == [item |-> i, on |-> None]
<1>1. Served \in Tier /\ queues[Served] # <<>>
  BY ServedFacts DEF Pop
<1>2. queues[Served] \in Seq(Item) /\ i \in Item /\ Tail(queues[Served]) \in Seq(Item)
  BY <1>1, TailFacts DEF TypeOK, SchedTypeOK
<1>3. f \in Frame
  BY <1>2 DEF Frame, WaitTarget
<1>4. <<f>> \o stack[t] \in Seq(Frame) /\ <<f>> \o stack[t] # <<>>
  BY <1>3, PushFacts, stack[t] \in Seq(Frame) DEF TypeOK, ThreadTypeOK
<1>5. /\ queues' = [queues EXCEPT ![Served] = Tail(@)]
      /\ stack' = [stack EXCEPT ![t] = <<f>> \o @]
      /\ phase' = [phase EXCEPT ![i] = "running"]
      /\ starts' = [starts EXCEPT ![i] = @ + 1]
      /\ served' \in Nat /\ inFlight' = inFlight + 1
      /\ Goto(t, "run")
      /\ UNCHANGED <<stopping, jobVars, barrierVars, arg, buffer>>
  BY DEF Pop, TypeOK, SchedTypeOK
<1>6. SchedTypeOK'
  BY <1>1, <1>2, <1>5 DEF TypeOK, SchedTypeOK
<1>7. ItemTypeOK'
  BY <1>2, <1>5 DEF TypeOK, ItemTypeOK, Phase
<1>8. ThreadTypeOK'
  BY <1>4, <1>5, PcFacts, MoveTypes DEF TypeOK, ThreadTypeOK
<1> QED
  BY <1>4, <1>5, <1>6, <1>7, <1>8, TypeFrame DEF TypeOK, ThreadTypeOK

\* A wait begins or ends: only what the innermost frame waits for changes.
LEMMA RetargetFacts ==
    ASSUME NEW s \in Seq(Frame), s # <<>>, NEW x \in WaitTarget
    PROVE  LET r == <<[Head(s) EXCEPT !.on = x]>> \o Tail(s)
           IN  /\ r \in Seq(Frame) /\ r # <<>>
               /\ Len(r) = Len(s)
               /\ \A k \in 1..Len(s) : r[k].item = s[k].item
<1> DEFINE f == [Head(s) EXCEPT !.on = x]
<1>1. Head(s) \in Frame
  BY TailFacts
<1>2. f \in Frame /\ f.item = Head(s).item
  BY <1>1 DEF Frame
<1>3. /\ Tail(s) \in Seq(Frame)
      /\ Len(s) \in Nat \ {0} /\ Len(Tail(s)) = Len(s) - 1
      /\ Head(s) = s[1]
      /\ \A k \in 1..Len(s) - 1 : Tail(s)[k] = s[k + 1]
  BY TailFacts
<1>4. /\ <<f>> \o Tail(s) \in Seq(Frame) /\ <<f>> \o Tail(s) # <<>>
      /\ Len(<<f>> \o Tail(s)) = Len(Tail(s)) + 1
      /\ \A k \in 1..Len(Tail(s)) + 1 :
            (<<f>> \o Tail(s))[k] = IF k = 1 THEN f ELSE Tail(s)[k - 1]
  BY <1>2, <1>3, PushFacts
<1>5. ASSUME NEW k \in 1..Len(s)
      PROVE  (<<f>> \o Tail(s))[k].item = s[k].item
  <2>1. CASE k = 1
    <3>1. (<<f>> \o Tail(s))[1] = f
      BY <1>3, <1>4
    <3> QED
      BY <2>1, <3>1, <1>2, <1>3
  <2>2. CASE k # 1
    <3>1. k - 1 \in 1..Len(s) - 1 /\ k \in 1..Len(Tail(s)) + 1
      BY <2>2, <1>3
    <3> QED
      BY <2>2, <3>1, <1>3, <1>4
  <2> QED
    BY <2>1, <2>2
<1> QED
  BY <1>3, <1>4, <1>5

\* Every step preserves the types, one case per operation.
LEMMA TypeStep ==
    ASSUME TypeOK, ThreadInv, [Next]_vars
    PROVE  TypeOK'
<1> USE PcFacts, TypeFrame, MoveTypes DEF TypeOK, Executes, InMain
<1>1. CASE UNCHANGED vars
  BY <1>1 DEF vars, schedVars, jobVars, barrierVars, itemVars, threadVars
<1>2. ASSUME NEW t \in Thread, NEW p \in Pc, Goto(t, p), OnlyMoves
      PROVE  TypeOK'
  BY <1>2 DEF OnlyMoves, ThreadTypeOK
<1>3. ASSUME NEW t \in Thread, NEW j \in Job, CreateJob(t, j)
      PROVE  TypeOK'
  BY <1>3 DEF CreateJob, InitialCount, JobTypeOK
<1>4. ASSUME NEW t \in Thread, NEW j \in Job, QueueJob(t, j)
      PROVE  TypeOK'
  BY <1>4 DEF QueueJob, With, JobTypeOK, ThreadTypeOK
<1>5. ASSUME NEW t \in Thread, NEW j \in Job, RemoveDependency(t, j)
      PROVE  TypeOK'
  <2>1. pending[j] \in 1..MaxDeps /\ pending[j] - 1 \in 0..MaxDeps
    BY <1>5, SchedulerConstants DEF RemoveDependency, JobTypeOK
  <2>3. JobTypeOK'
    BY <1>5, <2>1 DEF RemoveDependency, JobTypeOK
  <2>2. ThreadTypeOK'
    BY <1>5 DEF RemoveDependency, With, ThreadTypeOK
  <2> QED
    BY <1>5, <2>2, <2>3 DEF RemoveDependency
<1>6. ASSUME NEW t \in Thread, NEW j \in Job, FreeJob(t, j)
      PROVE  TypeOK'
  BY <1>6 DEF FreeJob, JobTypeOK
<1>7. ASSUME NEW t \in Thread, NEW x \in WaitTarget, Executes(t), BeginWait(t, x)
      PROVE  TypeOK'
  <2>1. LET s == <<[Head(stack[t]) EXCEPT !.on = x]>> \o Tail(stack[t])
        IN  s \in Seq(Frame)
    BY <1>7, RetargetFacts DEF ThreadInv, ThreadTypeOK
  <2> QED
    BY <1>7, <2>1 DEF BeginWait, ThreadTypeOK
<1>8. ASSUME NEW t \in Thread, DrainBuffer(t)
      PROVE  TypeOK'
  BY <1>8 DEF DrainBuffer, JobTypeOK, ThreadTypeOK
<1>9. ASSUME NEW t \in Thread, LoadQueued(t) \/ LoadPending(t)
      PROVE  TypeOK'
  BY <1>9, <1>2 DEF LoadQueued, LoadPending
<1>10. ASSUME NEW t \in Thread, Claim(t)
       PROVE  TypeOK'
  <2>1. arg[t] \in Item
    BY <1>10 DEF Claim, ThreadInv, QueueingPc, Item
  <2>2. JobTypeOK'
    BY <1>10 DEF Claim, JobTypeOK
  <2>3. ItemTypeOK'
    BY <1>10, <2>1 DEF Claim, ItemTypeOK, Phase
  <2>4. ThreadTypeOK'
    BY <1>10 DEF Claim, ThreadTypeOK
  <2> QED
    BY <1>10, <2>2, <2>3, <2>4 DEF Claim
<1>11. ASSUME NEW t \in Thread, SubmitJob(t)
       PROVE  TypeOK'
  <2>1. arg[t] \in Item
    BY <1>11 DEF SubmitJob, ThreadInv, QueueingPc, Item
  <2> QED
    BY <1>11, <2>1, PushTypes DEF SubmitJob, AfterPush, ThreadTypeOK
<1>12. ASSUME NEW t \in Thread, NEW i \in Raw, Submit(t, i)
       PROVE  TypeOK'
  BY <1>12, PushTypes DEF Submit, AfterPush, ThreadTypeOK, Item
<1>13. ASSUME NEW t \in Thread, NotifyOne(t)
       PROVE  TypeOK'
  BY <1>13, <1>2 DEF NotifyOne, Asleep, Wakes, OnlyMoves, ThreadTypeOK, Thread
<1>14. ASSUME NEW t \in Thread, WorkerExitOrSleep(t) \/ SpuriousWakeup(t)
       PROVE  TypeOK'
  BY <1>14, <1>2 DEF WorkerExitOrSleep, SpuriousWakeup
<1>15. ASSUME NEW t \in Thread, FinishBody(t)
       PROVE  TypeOK'
  <2>1. JobTypeOK'
    BY <1>15 DEF FinishBody, Unlink, JobTypeOK
  <2>2. ThreadTypeOK'
    <3>1. arg' \in [Thread -> Job \cup Barrier \cup {None}]
      BY <1>15 DEF FinishBody, With, ThreadTypeOK, JobTypeOK
    <3>2. pc' \in [Thread -> Pc]
      BY <1>15 DEF FinishBody, ThreadTypeOK
    <3> QED
      BY <1>15, <3>1, <3>2 DEF FinishBody, ThreadTypeOK
  <2> QED
    BY <1>15, <2>1, <2>2 DEF FinishBody
<1>16. ASSUME NEW t \in Thread, OnJobFinished(t)
       PROVE  TypeOK'
  BY <1>16 DEF OnJobFinished, ThreadInv, BarrierTypeOK, ThreadTypeOK
<1>17. ASSUME NEW t \in Thread, Retire(t)
       PROVE  TypeOK'
  <2>1. /\ stack[t] \in Seq(Frame) /\ stack[t] # <<>> /\ Head(stack[t]).item \in Item
        /\ Tail(stack[t]) \in Seq(Frame)
    BY <1>17, TailFacts DEF Retire, ThreadTypeOK, ThreadInv
  <2>2. SchedTypeOK'
    BY <1>17 DEF Retire, LeaveFlight, SchedTypeOK
  <2>3. ItemTypeOK'
    BY <1>17, <2>1 DEF Retire, ItemTypeOK, Phase
  <2>4. ThreadTypeOK'
    BY <1>17, <2>1 DEF Retire, ThreadTypeOK
  <2> QED
    BY <1>17, <2>2, <2>3, <2>4 DEF Retire
<1>18. ASSUME NEW t \in Thread, NEW b \in Barrier, CreateBarrier(t, b)
       PROVE  TypeOK'
  BY <1>18 DEF CreateBarrier, BarrierTypeOK, barrierVars
<1>19. ASSUME NEW t \in Thread, NEW b \in Barrier, DestroyBarrier(t, b)
       PROVE  TypeOK'
  BY <1>19 DEF DestroyBarrier, With, ThreadTypeOK
<1>20. ASSUME NEW t \in Thread, NEW b \in Barrier, NEW j \in Job, AddJob(t, b, j)
       PROVE  TypeOK'
  BY <1>20 DEF AddJob, CountMember, JobTypeOK, BarrierTypeOK
<1>21. ASSUME NEW t \in Thread, ReturnBarrier(t)
       PROVE  TypeOK'
  BY <1>21 DEF ReturnBarrier, ThreadInv, BarrierTypeOK, ThreadTypeOK
<1>22. ASSUME NEW t \in Thread, CheckWait(t)
       PROVE  TypeOK'
  <2>1. LET s == <<[Head(stack[t]) EXCEPT !.on = None]>> \o Tail(stack[t])
        IN  s \in Seq(Frame)
    BY <1>22, RetargetFacts DEF CheckWait, ThreadInv, ThreadTypeOK, WaitTarget
  <2> QED
    BY <1>22, <2>1 DEF CheckWait, ThreadTypeOK
<1>23. ASSUME NEW t \in Thread, Configure(t)
       PROVE  TypeOK'
  BY <1>23 DEF Configure, SchedTypeOK, ThreadTypeOK
<1>24. ASSUME NEW t \in Thread, NotifyAll(t)
       PROVE  TypeOK'
  BY <1>24 DEF NotifyAll, OnlyMoves, ThreadTypeOK
<1>25. ASSUME NEW t \in Thread, JoinAndRestart(t)
       PROVE  TypeOK'
  BY <1>25 DEF JoinAndRestart, SchedTypeOK, ThreadTypeOK
<1> QED
  BY <1>1, <1>2, <1>3, <1>4, <1>5, <1>6, <1>7, <1>8, <1>9, <1>10, <1>11, <1>12, <1>13, <1>14, <1>15,
     <1>16, <1>17, <1>18, <1>19, <1>20, <1>21, <1>22, <1>23, <1>24, <1>25, PopTypes
  DEF Next, CallOn, Proceed, Wait, WaitForJobs, WaitForIdle, WaitTarget, WorkerTake, TryExecuteOne,
      TryInWait, ExecutesQueued

\* The threads a step does not name keep their position and what it is about,
\* or move inside the worker loop.
LEMMA ThreadStep ==
    ASSUME TypeOK, ThreadInv, [Next]_vars
    PROVE  ThreadInv'
<1> USE DEF TypeOK, ThreadTypeOK, ThreadInv, Executes, InMain, QueueingPc, Goto, With
<1>1. CASE UNCHANGED vars
  BY <1>1 DEF vars
<1>2. ASSUME NEW t \in Thread, LoadQueued(t) \/ LoadPending(t) \/ WorkerExitOrSleep(t)
                               \/ SpuriousWakeup(t)
      PROVE  ThreadInv'
  BY <1>2 DEF LoadQueued, LoadPending, WorkerExitOrSleep, SpuriousWakeup, OnlyMoves
<1>3. ASSUME NEW t \in Thread, NEW j \in Job, CreateJob(t, j) \/ FreeJob(t, j)
      PROVE  ThreadInv'
  BY <1>3 DEF CreateJob, FreeJob, threadVars
<1>4. ASSUME NEW t \in Thread, NEW j \in Job, QueueJob(t, j) \/ RemoveDependency(t, j)
      PROVE  ThreadInv'
  BY <1>4 DEF QueueJob, RemoveDependency
<1>5. ASSUME NEW t \in Thread, NEW x \in WaitTarget, Executes(t), BeginWait(t, x)
      PROVE  ThreadInv'
  <2>1. LET s == <<[Head(stack[t]) EXCEPT !.on = x]>> \o Tail(stack[t])
        IN  s # <<>>
    BY <1>5, RetargetFacts
  <2> QED
    BY <1>5, <2>1 DEF BeginWait
<1>6. ASSUME NEW t \in Thread, DrainBuffer(t)
      PROVE  ThreadInv'
  BY <1>6 DEF DrainBuffer
<1>7. ASSUME NEW t \in Thread, Claim(t)
      PROVE  ThreadInv'
  BY <1>7 DEF Claim
<1>8. ASSUME NEW t \in Thread, SubmitJob(t) \/ \E i \in Raw : Submit(t, i)
      PROVE  ThreadInv'
  BY <1>8 DEF SubmitJob, Submit, AfterPush
<1>9. ASSUME NEW t \in Thread, NotifyOne(t)
      PROVE  ThreadInv'
  BY <1>9 DEF NotifyOne, Asleep, Wakes, OnlyMoves, Thread
<1>10. ASSUME NEW t \in Thread, FinishBody(t)
       PROVE  ThreadInv'
  <2>1. Head(stack[t]).item \in Item
    BY <1>10 DEF FinishBody, Item
  <2>2. Head(stack[t]).item \in Job =>
           barrier[Head(stack[t]).item] \in Barrier \cup {None}
    BY DEF JobTypeOK
  <2> QED
    BY <1>10, <2>1, <2>2, SchedulerConstants DEF FinishBody
<1>11. ASSUME NEW t \in Thread, OnJobFinished(t)
       PROVE  ThreadInv'
  BY <1>11 DEF OnJobFinished
<1>12. ASSUME NEW t \in Thread, Retire(t)
       PROVE  ThreadInv'
  <2>1. Len(stack[t]) # 1 => Tail(stack[t]) # <<>>
    BY <1>12, LongTail DEF Retire
  <2> QED
    BY <1>12, <2>1 DEF Retire
<1>13. ASSUME NEW t \in Thread, NEW b \in Barrier,
              CreateBarrier(t, b) \/ DestroyBarrier(t, b) \/ \E j \in Job : AddJob(t, b, j)
       PROVE  ThreadInv'
  BY <1>13 DEF CreateBarrier, DestroyBarrier, AddJob, threadVars
<1>14. ASSUME NEW t \in Thread, ReturnBarrier(t)
       PROVE  ThreadInv'
  BY <1>14 DEF ReturnBarrier
<1>15. ASSUME NEW t \in Thread, CheckWait(t)
       PROVE  ThreadInv'
  <2>1. LET s == <<[Head(stack[t]) EXCEPT !.on = None]>> \o Tail(stack[t])
        IN  s # <<>>
    BY <1>15, RetargetFacts DEF CheckWait, WaitTarget
  <2> QED
    BY <1>15, <2>1 DEF CheckWait
<1>16. ASSUME NEW t \in Thread, Pop(t)
       PROVE  ThreadInv'
  BY <1>16, PopTypes DEF Pop
<1>17. ASSUME NEW t \in Thread, pc[t] = "try", Goto(t, "check"), OnlyMoves
       PROVE  ThreadInv'
  BY <1>17 DEF OnlyMoves
<1>18. ASSUME NEW t \in Thread, Configure(t)
       PROVE  ThreadInv'
  BY <1>18 DEF Configure
<1>19. ASSUME NEW t \in Thread, NotifyAll(t)
       PROVE  ThreadInv'
  BY <1>19 DEF NotifyAll, OnlyMoves, Woken, Asleep
<1>20. ASSUME NEW t \in Thread, JoinAndRestart(t)
       PROVE  ThreadInv'
  BY <1>20 DEF JoinAndRestart
<1> QED
  BY <1>1, <1>2, <1>3, <1>4, <1>5, <1>6, <1>7, <1>8, <1>9, <1>10, <1>11, <1>12, <1>13, <1>14,
     <1>15, <1>16, <1>17, <1>18, <1>19, <1>20
  DEF Next, CallOn, Proceed, Wait, WaitForJobs, WaitForIdle, WaitTarget, WorkerTake,
      TryExecuteOne, TryInWait, ExecutesQueued

\* The initial state satisfies the types and ThreadInv.
LEMMA TypeInit == Init => TypeOK /\ ThreadInv
<1> SUFFICES ASSUME Init
             PROVE  TypeOK /\ ThreadInv
  OBVIOUS
<1>1. PICK started \in {Worker} \cup Budgets :
        pc = [t \in Thread |-> IF t \in Client THEN "run"
                               ELSE IF t \in started THEN "loop" ELSE "off"]
  BY DEF Init
<1>2. \A t \in Thread : t \in Client \/ pc[t] \in {"loop", "off"}
  BY <1>1
<1>3. pc \in [Thread -> Pc]
  BY <1>1, PcFacts
<1>4. /\ [item |-> Main, on |-> None] \in Frame
      /\ <<[item |-> Main, on |-> None]>> \in Seq(Frame)
      /\ <<[item |-> Main, on |-> None]>> # <<>>
  BY DEF Frame, WaitTarget
<1>5. stack \in [Thread -> Seq(Frame)]
  BY <1>4 DEF Init
<1>6. TypeOK
  <2>1. SchedTypeOK
    <3>1. <<>> \in Seq(Item)
      OBVIOUS
    <3>2. queues \in [Tier -> Seq(Item)]
      BY <3>1 DEF Init
    <3>3. served \in Nat /\ inFlight \in Int
      BY DEF Init
    <3>4. stopping \in BOOLEAN
      BY Zenon DEF Init
    <3> QED
      BY <3>2, <3>3, <3>4 DEF SchedTypeOK
  <2>2. JobTypeOK
    BY SchedulerConstants DEF Init, JobTypeOK
  <2>3. BarrierTypeOK /\ ItemTypeOK
    BY DEF Init, BarrierTypeOK, ItemTypeOK, Phase
  <2>4. ThreadTypeOK
    BY <1>3, <1>5 DEF Init, ThreadTypeOK
  <2> QED
    BY <2>1, <2>2, <2>3, <2>4 DEF TypeOK
<1>7. ThreadInv
  BY <1>1, <1>2, <1>4 DEF Init, ThreadInv, QueueingPc
<1> QED
  BY <1>6, <1>7

\* The scheduler's state is well typed, and a thread never acts on a job, a
\* barrier or a frame it does not have.
THEOREM TypeCorrect == Spec => []TypeOK
<1>1. TypeOK /\ ThreadInv /\ [Next]_vars => TypeOK' /\ ThreadInv'
  BY TypeStep, ThreadStep
<1> QED
  BY <1>1, TypeInit, PTL DEF Spec

-----------------------------------------------------------------------------
(* Every step preserves the invariant, in three parts that change for       *)
(* different reasons: where the items are, who asks for a job, and what the *)
(* barriers count.                                                          *)

-----------------------------------------------------------------------------
(* Where the items are *)

\* A step that leaves every item and every frame where it is.
Still ==
    /\ UNCHANGED <<queues, phase, starts, inFlight, submitted>>
    /\ \A t \in Thread :
          /\ pc'[t] = "submit" => pc[t] = "submit" /\ arg'[t] = arg[t]
          /\ Len(stack'[t]) = Len(stack[t])
          /\ \A k \in 1..Len(stack[t]) : stack'[t][k].item = stack[t][k].item

\* Only the claim of a job, a submission, a pop and a retirement move items.
LEMMA ItemSteps ==
    ASSUME TypeOK, ThreadInv, [Next]_vars
    PROVE  \/ Still
           \/ \E t \in Thread : \/ Claim(t) \/ SubmitJob(t) \/ Retire(t)
                                \/ pc[t] # "submit" /\ Pop(t)
                                \/ \E i \in Raw : Submit(t, i)
<1> USE DEF TypeOK, ThreadTypeOK, Executes, InMain, Goto, With, schedVars, itemVars, jobVars
<1>1. CASE UNCHANGED vars
  BY <1>1 DEF vars, Still
<1>2. ASSUME NEW t \in Thread, LoadQueued(t) \/ LoadPending(t) \/ WorkerExitOrSleep(t)
                               \/ SpuriousWakeup(t) \/ NotifyOne(t) \/ NotifyAll(t)
      PROVE  Still
  BY <1>2 DEF LoadQueued, LoadPending, WorkerExitOrSleep, SpuriousWakeup, NotifyOne, Asleep,
              Wakes, NotifyAll, Woken, OnlyMoves, Still, Thread
<1>3. ASSUME NEW t \in Thread, NEW j \in Job,
             CreateJob(t, j) \/ FreeJob(t, j) \/ QueueJob(t, j) \/ RemoveDependency(t, j)
      PROVE  Still
  BY <1>3 DEF CreateJob, FreeJob, QueueJob, RemoveDependency, threadVars, Still
<1>4. ASSUME NEW t \in Thread, NEW x \in WaitTarget, NEW s,
             stack[t] # <<>>, s = <<[Head(stack[t]) EXCEPT !.on = x]>> \o Tail(stack[t]),
             stack' = [stack EXCEPT ![t] = s], NEW p \in {"check", "run"}, Goto(t, p),
             UNCHANGED <<schedVars, jobVars, itemVars, arg>>
      PROVE  Still
  <2>1. /\ Len(s) = Len(stack[t])
        /\ \A k \in 1..Len(stack[t]) : s[k].item = stack[t][k].item
    BY <1>4, RetargetFacts
  <2> QED
    BY <1>4, <2>1 DEF Still
<1>5. ASSUME NEW t \in Thread, NEW x \in WaitTarget, Executes(t), BeginWait(t, x)
      PROVE  Still
  BY <1>5, <1>4 DEF BeginWait, ThreadInv
<1>6. ASSUME NEW t \in Thread, CheckWait(t)
      PROVE  Still
  <2>1. CASE Reached(Head(stack[t]).on)
    BY <1>6, <2>1, <1>4, None \in WaitTarget DEF CheckWait, ThreadInv, WaitTarget
  <2>2. CASE ~Reached(Head(stack[t]).on)
    BY <1>6, <2>2 DEF CheckWait, Still
  <2> QED
    BY <2>1, <2>2
<1>7. ASSUME NEW t \in Thread, DrainBuffer(t) \/ FinishBody(t) \/ OnJobFinished(t)
                               \/ ReturnBarrier(t) \/ Configure(t) \/ JoinAndRestart(t)
      PROVE  Still
  BY <1>7 DEF DrainBuffer, FinishBody, OnJobFinished, ReturnBarrier, Configure, JoinAndRestart, Still
<1>8. ASSUME NEW t \in Thread, NEW b \in Barrier,
             CreateBarrier(t, b) \/ DestroyBarrier(t, b) \/ \E j \in Job : AddJob(t, b, j)
      PROVE  Still
  BY <1>8 DEF CreateBarrier, DestroyBarrier, AddJob, threadVars, Still
<1>9. ASSUME NEW t \in Thread, pc[t] = "try", Goto(t, "check"), OnlyMoves
      PROVE  Still
  BY <1>9 DEF OnlyMoves, Still
<1> QED
  BY <1>1, <1>2, <1>3, <1>5, <1>6, <1>7, <1>8, <1>9
  DEF Next, CallOn, Proceed, Wait, WaitForJobs, WaitForIdle, WaitTarget, WorkerTake,
      TryExecuteOne, TryInWait, ExecutesQueued

ItemInv == SubmitInv /\ FrameInv /\ StartsInv /\ QueuesExact /\ InFlightCount

Running == {i \in Item : phase[i] = "running"}

\* The items, and those that run, are finitely many, so they can be counted.
LEMMA RunningFinite == IsFiniteSet(Item) /\ IsFiniteSet(Running)
<1>1. IsFiniteSet(Item)
  BY SchedulerConstants, FS_Union DEF Item
<1> QED
  BY <1>1, FS_Subset DEF Running

\* FrameInv for two places on stacks: the same item is at the same place.
LEMMA OneFrame ==
    ASSUME FrameInv, NEW t \in Thread, NEW u \in Thread,
           NEW k \in 1..Len(stack[t]), NEW l \in 1..Len(stack[u]),
           stack[t][k].item \in Item, stack[t][k].item = stack[u][l].item
    PROVE  t = u /\ k = l
  BY DEF FrameInv

\* QueuesExact for two places in a queue: the same item is at the same place.
LEMMA OnePlace ==
    ASSUME QueuesExact, NEW r \in Tier, NEW k \in 1..Len(queues[r]), NEW l \in 1..Len(queues[r]),
           queues[r][k] = queues[r][l]
    PROVE  k = l
  BY DEF QueuesExact

\* Frames stay where they are, and what was running still is.
LEMMA FrameKept ==
    ASSUME FrameInv, \A t \in Thread : Len(stack'[t]) = Len(stack[t]),
           \A t \in Thread : \A k \in 1..Len(stack[t]) : stack'[t][k].item = stack[t][k].item,
           \A i \in Item : phase[i] = "running" => phase'[i] = "running"
    PROVE  FrameInv'
<1>1. ASSUME NEW t \in Thread, NEW k \in 1..Len(stack'[t])
      PROVE  k \in 1..Len(stack[t]) /\ stack'[t][k].item = stack[t][k].item
  <2>1. k \in 1..Len(stack[t])
    OBVIOUS
  <2> QED
    BY <2>1
<1>2. ASSUME NEW t \in Thread, NEW k \in 1..Len(stack'[t]), stack'[t][k].item \in Item
      PROVE  phase'[stack'[t][k].item] = "running"
  <2>1. k \in 1..Len(stack[t]) /\ stack'[t][k].item = stack[t][k].item
    BY <1>1
  <2>2. phase[stack[t][k].item] = "running"
    BY <1>2, <2>1 DEF FrameInv
  <2> QED
    BY <1>2, <2>1, <2>2
<1>3. ASSUME NEW t \in Thread, NEW u \in Thread,
             NEW k \in 1..Len(stack'[t]), NEW l \in 1..Len(stack'[u]),
             stack'[t][k].item \in Item, stack'[t][k].item = stack'[u][l].item
      PROVE  t = u /\ k = l
  <2>1. /\ k \in 1..Len(stack[t]) /\ stack'[t][k].item = stack[t][k].item
        /\ l \in 1..Len(stack[u]) /\ stack'[u][l].item = stack[u][l].item
    BY <1>1
  <2>2. stack[t][k].item \in Item /\ stack[t][k].item = stack[u][l].item
    BY <1>3, <2>1
  <2> QED
    BY <2>1, <2>2, OneFrame
<1> QED
  BY <1>2, <1>3 DEF FrameInv

\* Steps that touch no queue, stack or phase preserve ItemInv.
LEMMA StillItems ==
    ASSUME TypeOK, ItemInv, Still
    PROVE  ItemInv'
<1> USE DEF ItemInv, Still
<1>1. SubmitInv'
  BY DEF SubmitInv
<1>2. FrameInv'
  BY FrameKept
<1>3. StartsInv' /\ QueuesExact'
  BY DEF StartsInv, QueuesExact
<1>4. InFlightCount'
  BY DEF InFlightCount
<1> QED
  BY <1>1, <1>2, <1>3, <1>4

\* The winner of `submitted` holds a job that was in no queue and on no stack.
LEMMA ClaimItems ==
    ASSUME TypeOK, ThreadInv, ItemInv, NEW t \in Thread, Claim(t)
    PROVE  ItemInv'
<1> DEFINE j == arg[t]
<1>1. j \in Job /\ j \in Item
  BY DEF Claim, ThreadInv, QueueingPc, Item
<1>2. CASE submitted[j]
  <2>1. Still
    <3>1. submitted' = submitted
      BY <1>1, <1>2 DEF Claim, SeesSubmitted, TypeOK, JobTypeOK
    <3>2. UNCHANGED <<queues, phase, starts, inFlight, stack, arg>> /\ Goto(t, "run")
      BY <1>2 DEF Claim, SeesSubmitted, schedVars
    <3> QED
      BY <3>1, <3>2 DEF Still, Goto, TypeOK, ThreadTypeOK
  <2> QED
    BY <2>1, StillItems
<1>3. CASE ~submitted[j]
  <2>1. /\ phase[j] = "new"
        /\ phase' = [phase EXCEPT ![j] = "claimed"]
        /\ submitted' = [submitted EXCEPT ![j] = TRUE]
        /\ pc' = [pc EXCEPT ![t] = "submit"] /\ pc[t] = "claim"
        /\ UNCHANGED <<queues, starts, inFlight, stack, arg>>
    BY <1>1, <1>3 DEF Claim, SeesSubmitted, ItemInv, SubmitInv, Goto, schedVars
  <2>2. SubmitInv'
    <3>1. \A k \in Job : ~submitted'[k] => k # j /\ phase'[k] = phase[k]
      BY <2>1, <1>1 DEF TypeOK, JobTypeOK, ItemTypeOK, Item
    <3>2. ASSUME NEW u \in Thread, pc'[u] = "submit", u # t
          PROVE  pc[u] = "submit" /\ arg[u] # j /\ arg[u] \in Item /\ phase[arg[u]] = "claimed"
      <4>1. pc[u] = "submit"
        BY <2>1, <3>2 DEF TypeOK, ThreadTypeOK
      <4> QED
        BY <2>1, <4>1 DEF ItemInv, SubmitInv, ThreadInv, QueueingPc, Item
    <3>3. \A u \in Thread : pc'[u] = "submit" => phase'[arg'[u]] = "claimed"
      BY <2>1, <3>2, <1>1 DEF TypeOK, ItemTypeOK
    <3>4. ASSUME NEW u \in Thread, NEW v \in Thread,
                 pc'[u] = "submit", pc'[v] = "submit", arg'[u] = arg'[v]
          PROVE  u = v
      BY <2>1, <3>2, <3>4 DEF ItemInv, SubmitInv
    <3> QED
      BY <3>1, <3>3, <3>4, <2>1 DEF ItemInv, SubmitInv
  <2>3. FrameInv'
    <3>1. stack' = stack /\ \A i \in Item : phase[i] = "running" => phase'[i] = "running"
      BY <2>1, <1>1 DEF TypeOK, ItemTypeOK
    <3> QED
      BY <3>1, FrameKept DEF ItemInv
  <2>4. StartsInv'
    BY <2>1, <1>1 DEF ItemInv, StartsInv, TypeOK, ItemTypeOK
  <2>5. QueuesExact'
    BY <2>1, <1>1 DEF ItemInv, QueuesExact, TypeOK, ItemTypeOK
  <2>6. InFlightCount'
    <3>1. Running' = Running
      BY <2>1, <1>1 DEF Running, TypeOK, ItemTypeOK
    <3> QED
      BY <2>1, <3>1 DEF ItemInv, InFlightCount, Running
  <2> QED
    BY <2>2, <2>3, <2>4, <2>5, <2>6 DEF ItemInv
<1> QED
  BY <1>2, <1>3

\* An item that was neither queued nor running joins the end of its queue.
LEMMA PushItems ==
    ASSUME TypeOK, ItemInv, NEW i \in Item, phase[i] \in {"new", "claimed"}, Push(i),
           UNCHANGED <<starts, inFlight, stack>>
    PROVE  FrameInv' /\ StartsInv' /\ QueuesExact' /\ InFlightCount'
<1> DEFINE r == TierOf[i]
           q == queues[r]
<1>1. /\ r \in Tier /\ q \in Seq(Item) /\ queues \in [Tier -> Seq(Item)]
      /\ Len(q) \in Nat
  BY SchedulerConstants DEF TypeOK, SchedTypeOK
<1>2. /\ queues' = [queues EXCEPT ![r] = Append(q, i)]
      /\ phase' = [phase EXCEPT ![i] = "queued"]
      /\ phase \in [Item -> Phase]
  BY DEF Push, TypeOK, ItemTypeOK
<1>3. FrameInv'
  BY <1>2 DEF ItemInv, FrameInv
<1>4. StartsInv'
  BY <1>2 DEF ItemInv, StartsInv
<1>5. InFlightCount'
  <2>1. Running' = Running
    BY <1>2 DEF Running
  <2> QED
    BY <2>1 DEF ItemInv, InFlightCount, Running
<1>6. /\ queues'[r] = Append(q, i)
      /\ \A s \in Tier : s # r => queues'[s] = queues[s]
      /\ \A x \in Item : x # i => phase'[x] = phase[x]
      /\ phase'[i] = "queued"
  BY <1>1, <1>2
<1>7. /\ Len(Append(q, i)) = Len(q) + 1
      /\ \A k \in 1..Len(q) + 1 : Append(q, i)[k] = IF k = Len(q) + 1 THEN i ELSE q[k]
  BY <1>1, AppendFacts
<1>8. \A s \in Tier : \A k \in 1..Len(queues[s]) : queues[s][k] \in Item /\ queues[s][k] # i
  BY <1>1 DEF ItemInv, QueuesExact
<1>9. \A s \in Tier : \A k \in 1..Len(queues'[s]) :
         phase'[queues'[s][k]] = "queued" /\ TierOf[queues'[s][k]] = s
  <2> SUFFICES ASSUME NEW s \in Tier, NEW k \in 1..Len(queues'[s])
               PROVE  phase'[queues'[s][k]] = "queued" /\ TierOf[queues'[s][k]] = s
    OBVIOUS
  <2>1. CASE s = r /\ k = Len(q) + 1
    BY <2>1, <1>1, <1>6, <1>7
  <2>2. CASE ~(s = r /\ k = Len(q) + 1)
    <3>1. k \in 1..Len(queues[s]) /\ queues'[s][k] = queues[s][k]
      <4>1. CASE s = r
        BY <4>1, <2>2, <1>1, <1>6, <1>7
      <4>2. CASE s # r
        BY <4>2, <1>6
      <4> QED
        BY <4>1, <4>2
    <3> QED
      BY <3>1, <1>6, <1>8 DEF ItemInv, QueuesExact
  <2> QED
    BY <2>1, <2>2
<1>10. \A s \in Tier : \A k, l \in 1..Len(queues'[s]) : queues'[s][k] = queues'[s][l] => k = l
  <2> SUFFICES ASSUME NEW s \in Tier, NEW k \in 1..Len(queues'[s]), NEW l \in 1..Len(queues'[s]),
                      queues'[s][k] = queues'[s][l]
               PROVE  k = l
    OBVIOUS
  <2>1. CASE s = r
    BY <2>1, <1>1, <1>6, <1>7, <1>8 DEF ItemInv, QueuesExact
  <2>2. CASE s # r
    BY <2>2, <1>6 DEF ItemInv, QueuesExact
  <2> QED
    BY <2>1, <2>2
<1>11. \A x \in Item : phase'[x] = "queued" =>
          \E k \in 1..Len(queues'[TierOf[x]]) : queues'[TierOf[x]][k] = x
  <2> SUFFICES ASSUME NEW x \in Item, phase'[x] = "queued"
               PROVE  \E k \in 1..Len(queues'[TierOf[x]]) : queues'[TierOf[x]][k] = x
    OBVIOUS
  <2>1. CASE x = i
    <3>1. Len(q) + 1 \in 1..Len(queues'[r]) /\ queues'[r][Len(q) + 1] = i
      BY <1>1, <1>6, <1>7
    <3> QED
      BY <2>1, <3>1
  <2>2. CASE x # i
    <3>1. TierOf[x] \in Tier
      BY SchedulerConstants
    <3>2. PICK k \in 1..Len(queues[TierOf[x]]) : queues[TierOf[x]][k] = x
      BY <2>2, <1>6 DEF ItemInv, QueuesExact
    <3>3. k \in 1..Len(queues'[TierOf[x]]) /\ queues'[TierOf[x]][k] = x
      <4>1. CASE TierOf[x] = r
        BY <4>1, <3>2, <1>1, <1>6, <1>7
      <4>2. CASE TierOf[x] # r
        BY <4>2, <3>1, <3>2, <1>6
      <4> QED
        BY <4>1, <4>2
    <3> QED
      BY <3>3
  <2> QED
    BY <2>1, <2>2
<1> QED
  BY <1>3, <1>4, <1>5, <1>9, <1>10, <1>11 DEF QueuesExact

\* A submission: the thread holds the only claim on a job, or the body is new.
LEMMA SubmitItems ==
    ASSUME TypeOK, ThreadInv, ItemInv, NEW t \in Thread, SubmitJob(t)
    PROVE  ItemInv'
<1> DEFINE j == arg[t]
<1>1. j \in Job /\ j \in Item /\ phase[j] = "claimed" /\ pc[t] = "submit"
  BY DEF SubmitJob, ThreadInv, QueueingPc, Item, ItemInv, SubmitInv
<1>2. /\ Push(j) /\ pc' = [pc EXCEPT ![t] = "notify"]
      /\ UNCHANGED <<starts, inFlight, stack, submitted, arg>>
  BY DEF SubmitJob, AfterPush, Goto, jobVars
<1>3. FrameInv' /\ StartsInv' /\ QueuesExact' /\ InFlightCount'
  BY <1>1, <1>2, PushItems
<1>4. phase' = [phase EXCEPT ![j] = "queued"] /\ phase \in [Item -> Phase]
  BY <1>2 DEF Push, TypeOK, ItemTypeOK
<1>5. \A k \in Job : ~submitted'[k] => phase'[k] = "new"
  BY <1>1, <1>2, <1>4 DEF ItemInv, SubmitInv, Item
<1>6. ASSUME NEW u \in Thread, pc'[u] = "submit"
      PROVE  pc[u] = "submit" /\ arg'[u] = arg[u] /\ u # t /\ phase'[arg[u]] = "claimed"
  <2>1. u # t /\ pc[u] = "submit"
    BY <1>2, <1>6 DEF TypeOK, ThreadTypeOK
  <2>2. arg[u] # j /\ phase[arg[u]] = "claimed" /\ arg[u] \in Item
    BY <1>1, <2>1 DEF ItemInv, SubmitInv, ThreadInv, QueueingPc, Item
  <2> QED
    BY <2>1, <2>2, <1>2, <1>4
<1>7. SubmitInv'
  BY <1>5, <1>6 DEF ItemInv, SubmitInv
<1> QED
  BY <1>3, <1>7 DEF ItemInv

\* The push of a fire-and-forget body preserves ItemInv: it was in no queue.
LEMMA SubmitRawItems ==
    ASSUME TypeOK, ThreadInv, ItemInv, NEW t \in Thread, NEW i \in Raw, Submit(t, i)
    PROVE  ItemInv'
<1>1. i \in Item /\ i \notin Job /\ phase[i] = "new"
  BY SchedulerConstants DEF Submit, Item
<1>2. /\ Push(i) /\ pc' = [pc EXCEPT ![t] = "notify"]
      /\ UNCHANGED <<starts, inFlight, stack, submitted, arg>>
  BY DEF Submit, AfterPush, Goto, jobVars
<1>3. FrameInv' /\ StartsInv' /\ QueuesExact' /\ InFlightCount'
  BY <1>1, <1>2, PushItems
<1>4. phase' = [phase EXCEPT ![i] = "queued"] /\ phase \in [Item -> Phase]
  BY <1>2 DEF Push, TypeOK, ItemTypeOK
<1>5. \A k \in Job : phase'[k] = phase[k]
  BY <1>1, <1>4 DEF Item
<1>6. ASSUME NEW u \in Thread, pc'[u] = "submit"
      PROVE  pc[u] = "submit" /\ arg'[u] = arg[u] /\ arg[u] \in Job
  BY <1>2, <1>6 DEF TypeOK, ThreadTypeOK, ThreadInv, QueueingPc
<1>7. SubmitInv'
  BY <1>2, <1>5, <1>6 DEF ItemInv, SubmitInv
<1> QED
  BY <1>3, <1>7 DEF ItemInv

\* An item leaves the head of its queue for the head of a stack.
LEMMA PopItems ==
    ASSUME TypeOK, ThreadInv, ItemInv, NEW t \in Thread, pc[t] # "submit", Pop(t)
    PROVE  ItemInv'
<1> DEFINE q == queues[Served]
           i == Head(q)
           f == [item |-> i, on |-> None]
<1>1. /\ Served \in Tier /\ q \in Seq(Item) /\ q # <<>>
      /\ queues \in [Tier -> Seq(Item)]
  BY ServedFacts DEF Pop, TypeOK, SchedTypeOK
<1>2. /\ Len(q) \in Nat \ {0} /\ i \in Item /\ i = q[1]
      /\ Len(Tail(q)) = Len(q) - 1 /\ Tail(q) \in Seq(Item)
      /\ \A k \in 1..Len(q) - 1 : Tail(q)[k] = q[k + 1]
  BY <1>1, TailFacts
<1>3. phase[i] = "queued" /\ TierOf[i] = Served
  <2>1. 1 \in 1..Len(q)
    BY <1>2
  <2> QED
    BY <1>1, <1>2, <2>1 DEF ItemInv, QueuesExact
<1>4. /\ queues' = [queues EXCEPT ![Served] = Tail(q)]
      /\ phase' = [phase EXCEPT ![i] = "running"]
      /\ starts' = [starts EXCEPT ![i] = @ + 1]
      /\ stack' = [stack EXCEPT ![t] = <<f>> \o @]
      /\ inFlight' = inFlight + 1 /\ pc' = [pc EXCEPT ![t] = "run"]
      /\ UNCHANGED <<submitted, arg>>
  BY DEF Pop, Goto, jobVars
<1>5. /\ phase \in [Item -> Phase] /\ starts \in [Item -> Nat]
      /\ stack \in [Thread -> Seq(Frame)] /\ pc \in [Thread -> Pc]
  BY DEF TypeOK, ItemTypeOK, ThreadTypeOK
<1>6. SubmitInv'
  <2>1. \A k \in Job : ~submitted'[k] => phase'[k] = "new"
    BY <1>2, <1>3, <1>4, <1>5 DEF ItemInv, SubmitInv, Item
  <2>2. ASSUME NEW u \in Thread, pc'[u] = "submit"
        PROVE  pc[u] = "submit" /\ arg'[u] = arg[u] /\ phase'[arg[u]] = "claimed"
    <3>1. pc[u] = "submit" /\ arg'[u] = arg[u]
      BY <2>2, <1>4, <1>5
    <3>2. arg[u] # i /\ phase[arg[u]] = "claimed" /\ arg[u] \in Item
      BY <3>1, <1>3 DEF ItemInv, SubmitInv, ThreadInv, QueueingPc, Item
    <3> QED
      BY <3>1, <3>2, <1>4, <1>5
  <2> QED
    BY <2>1, <2>2 DEF ItemInv, SubmitInv
<1>7. FrameInv'
  <2> DEFINE old(u, k) == IF u = t THEN k - 1 ELSE k
  <2>1. f \in Frame /\ f.item = i
    BY <1>2 DEF Frame, WaitTarget
  <2>2. /\ stack[t] \in Seq(Frame) /\ Len(stack[t]) \in Nat
        /\ Len(<<f>> \o stack[t]) = Len(stack[t]) + 1
        /\ \A k \in 1..Len(stack[t]) + 1 :
              (<<f>> \o stack[t])[k] = IF k = 1 THEN f ELSE stack[t][k - 1]
    BY <1>5, <2>1, PushFacts
  <2>3. stack'[t] = <<f>> \o stack[t] /\ \A u \in Thread : u # t => stack'[u] = stack[u]
    BY <1>4, <1>5
  <2>4. ASSUME NEW u \in Thread, NEW k \in 1..Len(stack'[u])
        PROVE  \/ u = t /\ k = 1 /\ stack'[u][k].item = i
               \/ /\ old(u, k) \in 1..Len(stack[u]) /\ ~(u = t /\ k = 1)
                  /\ stack'[u][k].item = stack[u][old(u, k)].item
    <3>1. CASE u = t
      BY <3>1, <2>1, <2>2, <2>3
    <3>2. CASE u # t
      BY <3>2, <2>3
    <3> QED
      BY <3>1, <3>2
  <2> HIDE DEF old
  <2>5. \A u \in Thread : \A k \in 1..Len(stack[u]) : stack[u][k].item # i
    BY <1>2, <1>3 DEF ItemInv, FrameInv
  <2>6. ASSUME NEW u \in Thread, NEW k \in 1..Len(stack'[u]), stack'[u][k].item \in Item
        PROVE  phase'[stack'[u][k].item] = "running"
    BY <2>4, <2>6, <1>2, <1>4, <1>5 DEF ItemInv, FrameInv
  <2>7. ASSUME NEW u \in Thread, NEW v \in Thread,
               NEW k \in 1..Len(stack'[u]), NEW l \in 1..Len(stack'[v]),
               stack'[u][k].item \in Item, stack'[u][k].item = stack'[v][l].item
        PROVE  u = v /\ k = l
    <3>2. CASE u = t /\ k = 1
      BY <3>2, <2>4, <2>5, <2>7
    <3>3. CASE v = t /\ l = 1
      BY <3>3, <2>4, <2>5, <2>7
    <3>4. CASE ~(u = t /\ k = 1) /\ ~(v = t /\ l = 1)
      <4>1. /\ old(u, k) \in 1..Len(stack[u]) /\ stack'[u][k].item = stack[u][old(u, k)].item
            /\ old(v, l) \in 1..Len(stack[v]) /\ stack'[v][l].item = stack[v][old(v, l)].item
        BY <3>4, <2>4
      <4>2. u = v /\ old(u, k) = old(v, l)
        <5>1. /\ stack[u][old(u, k)].item \in Item
              /\ stack[u][old(u, k)].item = stack[v][old(v, l)].item
          BY <4>1, <2>7
        <5> QED
          BY <4>1, <5>1, OneFrame DEF ItemInv
      <4> QED
        BY <4>2 DEF old
    <3> QED
      BY <3>2, <3>3, <3>4
  <2> QED
    BY <2>6, <2>7 DEF FrameInv
<1>8. StartsInv'
  BY <1>2, <1>3, <1>4, <1>5 DEF ItemInv, StartsInv
<1>9. /\ queues'[Served] = Tail(q)
      /\ \A s \in Tier : s # Served => queues'[s] = queues[s]
      /\ phase'[i] = "running"
      /\ \A x \in Item : x # i => phase'[x] = phase[x]
  BY <1>1, <1>2, <1>4, <1>5
<1>10. QueuesExact'
  <2>1. ASSUME NEW s \in Tier, NEW k \in 1..Len(queues'[s])
        PROVE  /\ s = Served => k + 1 \in 1..Len(q) /\ queues'[s][k] = q[k + 1]
               /\ s # Served => k \in 1..Len(queues[s]) /\ queues'[s][k] = queues[s][k]
    <3>1. CASE s = Served
      BY <3>1, <1>2, <1>9
    <3>2. CASE s # Served
      BY <3>2, <1>9
    <3> QED
      BY <3>1, <3>2
  <2>2. ASSUME NEW s \in Tier, NEW k \in 1..Len(queues[s])
        PROVE  /\ queues[s][k] \in Item /\ phase[queues[s][k]] = "queued" /\ TierOf[queues[s][k]] = s
               /\ queues[s][k] = i => s = Served /\ k = 1
    <3>1. queues[s][k] \in Item
      BY <1>1
    <3>2. phase[queues[s][k]] = "queued" /\ TierOf[queues[s][k]] = s
      BY DEF ItemInv, QueuesExact
    <3>3. queues[s][k] = i => k = 1
      BY <1>1, <1>2, <1>3, <3>2 DEF ItemInv, QueuesExact
    <3> QED
      BY <3>1, <3>2, <3>3, <1>3
  <2>3. ASSUME NEW s \in Tier, NEW k \in 1..Len(queues'[s])
        PROVE  phase'[queues'[s][k]] = "queued" /\ TierOf[queues'[s][k]] = s
    <3>1. CASE s = Served
      <4>1. k + 1 \in 1..Len(queues[s]) /\ queues'[s][k] = queues[s][k + 1] /\ k + 1 # 1
        BY <2>1, <3>1
      <4> QED
        BY <4>1, <2>2, <1>9
    <3>2. CASE s # Served
      BY <3>2, <2>1, <2>2, <1>9
    <3> QED
      BY <3>1, <3>2
  <2>4. ASSUME NEW s \in Tier, NEW k \in 1..Len(queues'[s]), NEW l \in 1..Len(queues'[s]),
               queues'[s][k] = queues'[s][l]
        PROVE  k = l
    <3>1. CASE s = Served
      <4>1. /\ k + 1 \in 1..Len(q) /\ queues'[s][k] = q[k + 1]
            /\ l + 1 \in 1..Len(q) /\ queues'[s][l] = q[l + 1]
        BY <2>1, <3>1
      <4>2. k + 1 = l + 1
        BY <4>1, <2>4, <1>1, OnePlace DEF ItemInv
      <4> QED
        BY <4>1, <4>2
    <3>2. CASE s # Served
      <4>1. /\ k \in 1..Len(queues[s]) /\ queues'[s][k] = queues[s][k]
            /\ l \in 1..Len(queues[s]) /\ queues'[s][l] = queues[s][l]
        BY <2>1, <3>2
      <4> QED
        BY <4>1, <2>4, OnePlace DEF ItemInv
    <3> QED
      BY <3>1, <3>2
  <2>5. ASSUME NEW x \in Item, phase'[x] = "queued"
        PROVE  \E k \in 1..Len(queues'[TierOf[x]]) : queues'[TierOf[x]][k] = x
    <3>1. x # i /\ phase[x] = "queued" /\ TierOf[x] \in Tier
      BY <2>5, <1>9, SchedulerConstants
    <3>2. PICK k \in 1..Len(queues[TierOf[x]]) : queues[TierOf[x]][k] = x
      BY <3>1 DEF ItemInv, QueuesExact
    <3>3. CASE TierOf[x] = Served
      <4>1. k # 1 /\ k - 1 \in 1..Len(q) - 1
        BY <3>1, <3>2, <3>3, <1>2
      <4>2. Tail(q)[k - 1] = q[k - 1 + 1] /\ k - 1 + 1 = k
        BY <4>1, <1>2
      <4>3. k - 1 \in 1..Len(queues'[TierOf[x]]) /\ queues'[TierOf[x]][k - 1] = x
        BY <4>1, <4>2, <3>2, <3>3, <1>2, <1>9
      <4> QED
        BY <4>3
    <3>4. CASE TierOf[x] # Served
      BY <3>1, <3>2, <3>4, <1>9
    <3> QED
      BY <3>3, <3>4
  <2> QED
    BY <2>3, <2>4, <2>5 DEF QueuesExact
<1>11. InFlightCount'
  <2>1. i \notin Running /\ Running' = Running \cup {i}
    BY <1>2, <1>3, <1>9 DEF Running
  <2>2. Cardinality(Running') = Cardinality(Running) + 1
    BY <2>1, RunningFinite, FS_AddElement
  <2> QED
    BY <2>2, <1>4 DEF ItemInv, InFlightCount, Running
<1> QED
  BY <1>6, <1>7, <1>8, <1>10, <1>11 DEF ItemInv

\* The innermost item of a stack leaves it for good.
LEMMA RetireItems ==
    ASSUME TypeOK, ThreadInv, ItemInv, NEW t \in Thread, Retire(t)
    PROVE  ItemInv'
<1> DEFINE i == Head(stack[t]).item
<1>1. /\ stack[t] \in Seq(Frame) /\ stack[t] # <<>>
      /\ i \in Item /\ pc[t] = "retire"
  BY DEF Retire, ThreadInv, TypeOK, ThreadTypeOK
<1>2. /\ Len(stack[t]) \in Nat \ {0} /\ Head(stack[t]) = stack[t][1]
      /\ Len(Tail(stack[t])) = Len(stack[t]) - 1
      /\ \A k \in 1..Len(stack[t]) - 1 : Tail(stack[t])[k] = stack[t][k + 1]
  BY <1>1, TailFacts
<1>3. 1 \in 1..Len(stack[t]) /\ stack[t][1].item = i
  BY <1>2
<1>4. phase[i] = "running"
  BY <1>1, <1>3 DEF ItemInv, FrameInv
<1>5. /\ phase' = [phase EXCEPT ![i] = "retired"]
      /\ stack' = [stack EXCEPT ![t] = Tail(@)] /\ inFlight' = inFlight - 1
      /\ \E p \in {"loop", "run", "check"} : pc' = [pc EXCEPT ![t] = p]
      /\ UNCHANGED <<queues, starts, submitted, arg>>
  BY DEF Retire, LeaveFlight, Goto, jobVars
<1>6. /\ phase \in [Item -> Phase]
      /\ stack \in [Thread -> Seq(Frame)] /\ pc \in [Thread -> Pc]
  BY DEF TypeOK, ItemTypeOK, ThreadTypeOK
<1>7. /\ phase'[i] = "retired" /\ \A x \in Item : x # i => phase'[x] = phase[x]
      /\ stack'[t] = Tail(stack[t]) /\ \A u \in Thread : u # t => stack'[u] = stack[u]
  BY <1>1, <1>5, <1>6
<1>8. SubmitInv'
  <2>1. \A k \in Job : ~submitted'[k] => phase'[k] = "new"
    BY <1>4, <1>5, <1>7 DEF ItemInv, SubmitInv, Item
  <2>2. ASSUME NEW u \in Thread, pc'[u] = "submit"
        PROVE  pc[u] = "submit" /\ arg'[u] = arg[u] /\ phase'[arg[u]] = "claimed"
    <3>1. pc[u] = "submit" /\ arg'[u] = arg[u]
      BY <2>2, <1>5, <1>6
    <3>2. arg[u] # i /\ phase[arg[u]] = "claimed" /\ arg[u] \in Item
      BY <3>1, <1>4 DEF ItemInv, SubmitInv, ThreadInv, QueueingPc, Item
    <3> QED
      BY <3>1, <3>2, <1>7
  <2> QED
    BY <2>1, <2>2 DEF ItemInv, SubmitInv
<1>9. FrameInv'
  <2> DEFINE old(u, k) == IF u = t THEN k + 1 ELSE k
  <2>1. ASSUME NEW u \in Thread, NEW k \in 1..Len(stack'[u])
        PROVE  /\ old(u, k) \in 1..Len(stack[u]) /\ ~(u = t /\ old(u, k) = 1)
               /\ stack'[u][k] = stack[u][old(u, k)]
    <3>1. CASE u = t
      BY <3>1, <1>2, <1>7
    <3>2. CASE u # t
      BY <3>2, <1>7
    <3> QED
      BY <3>1, <3>2
  <2> HIDE DEF old
  <2>2. ASSUME NEW u \in Thread, NEW k \in 1..Len(stack[u]), stack[u][k].item = i
        PROVE  u = t /\ k = 1
    BY <2>2, <1>1, <1>3, OneFrame DEF ItemInv
  <2>3. ASSUME NEW u \in Thread, NEW k \in 1..Len(stack'[u]), stack'[u][k].item \in Item
        PROVE  phase'[stack'[u][k].item] = "running"
    <3> DEFINE k0 == old(u, k)
    <3>1. k0 \in 1..Len(stack[u]) /\ stack'[u][k] = stack[u][k0] /\ ~(u = t /\ k0 = 1)
      BY <2>1
    <3>2. stack[u][k0].item # i /\ phase[stack[u][k0].item] = "running"
      BY <2>2, <2>3, <3>1 DEF ItemInv, FrameInv
    <3> QED
      BY <2>3, <3>1, <3>2, <1>7
  <2>4. ASSUME NEW u \in Thread, NEW v \in Thread,
               NEW k \in 1..Len(stack'[u]), NEW l \in 1..Len(stack'[v]),
               stack'[u][k].item \in Item, stack'[u][k].item = stack'[v][l].item
        PROVE  u = v /\ k = l
    <3>1. /\ old(u, k) \in 1..Len(stack[u]) /\ stack'[u][k].item = stack[u][old(u, k)].item
          /\ old(v, l) \in 1..Len(stack[v]) /\ stack'[v][l].item = stack[v][old(v, l)].item
      BY <2>1
    <3>2. u = v /\ old(u, k) = old(v, l)
      <4>1. /\ stack[u][old(u, k)].item \in Item
            /\ stack[u][old(u, k)].item = stack[v][old(v, l)].item
        BY <3>1, <2>4
      <4> QED
        BY <3>1, <4>1, OneFrame DEF ItemInv
    <3> QED
      BY <3>2 DEF old
  <2> QED
    BY <2>3, <2>4 DEF FrameInv
<1>10. StartsInv'
  BY <1>4, <1>5, <1>7 DEF ItemInv, StartsInv
<1>11. QueuesExact'
  <2>1. \A s \in Tier : \A k \in 1..Len(queues[s]) : queues[s][k] \in Item
    BY DEF TypeOK, SchedTypeOK
  <2> QED
    BY <2>1, <1>4, <1>5, <1>7 DEF ItemInv, QueuesExact
<1>12. InFlightCount'
  <2>1. i \in Running /\ Running' = Running \ {i}
    BY <1>1, <1>4, <1>7 DEF Running
  <2>2. Cardinality(Running') = Cardinality(Running) - 1
    BY <2>1, RunningFinite, FS_RemoveElement
  <2> QED
    BY <2>2, <1>5 DEF ItemInv, InFlightCount, Running
<1> QED
  BY <1>8, <1>9, <1>10, <1>11, <1>12 DEF ItemInv

\* Every step preserves ItemInv.
LEMMA ItemStep ==
    ASSUME TypeOK, ThreadInv, ItemInv, [Next]_vars
    PROVE  ItemInv'
  BY ItemSteps, StillItems, ClaimItems, SubmitItems, SubmitRawItems, PopItems, RetireItems

-----------------------------------------------------------------------------
(* Who asks for a job *)

AskAll == AskInv /\ BufferInv /\ ReadyBeforeSubmit /\ (~StoreBuffer => NoLostJob)

\* A step in which nobody enters or leaves MaybeQueue.
AskStill ==
    /\ UNCHANGED <<pending, queued, submitted, handle, buffer>>
    /\ \A j \in Job : phase'[j] = "new" <=> phase[j] = "new"
    /\ \A t \in Thread :
          /\ pc'[t] \in QueueingPc <=> pc[t] \in QueueingPc
          /\ pc[t] \in QueueingPc => pc'[t] = pc[t] /\ arg'[t] = arg[t]

\* The steps that touch a job's flags or a thread inside MaybeQueue; all others
\* leave what AskInv, ReadyBeforeSubmit and NoLostJob are about.
LEMMA AskSteps ==
    ASSUME TypeOK, ThreadInv, ItemInv, [Next]_vars
    PROVE  \/ AskStill
           \/ \E t \in Thread :
                 \/ \E j \in Job : \/ CreateJob(t, j) \/ QueueJob(t, j)
                                   \/ RemoveDependency(t, j) \/ FreeJob(t, j)
                 \/ DrainBuffer(t) \/ LoadQueued(t) \/ LoadPending(t)
                 \/ Claim(t) \/ SubmitJob(t)
<1> USE DEF TypeOK, ThreadTypeOK, Executes, InMain, Goto, With, QueueingPc, schedVars, itemVars,
            jobVars
<1>1. CASE UNCHANGED vars
  BY <1>1 DEF vars, AskStill
<1>2. ASSUME NEW t \in Thread, WorkerExitOrSleep(t) \/ SpuriousWakeup(t) \/ NotifyOne(t)
                               \/ NotifyAll(t)
      PROVE  AskStill
  BY <1>2 DEF WorkerExitOrSleep, SpuriousWakeup, NotifyOne, Asleep, Wakes, NotifyAll, Woken,
              OnlyMoves, AskStill, Thread
<1>3. ASSUME NEW t \in Thread, NEW i \in Raw, Submit(t, i)
      PROVE  AskStill
  <2>1. i \notin Job
    BY SchedulerConstants
  <2> QED
    BY <1>3, <2>1 DEF Submit, Push, AfterPush, AskStill, ItemTypeOK, Item
<1>4. ASSUME NEW t \in Thread, NEW x \in WaitTarget, Executes(t), BeginWait(t, x)
      PROVE  AskStill
  BY <1>4 DEF BeginWait, AskStill
<1>5. ASSUME NEW t \in Thread, CheckWait(t)
      PROVE  AskStill
  BY <1>5 DEF CheckWait, AskStill
<1>6. ASSUME NEW t \in Thread, FinishBody(t) \/ OnJobFinished(t) \/ ReturnBarrier(t)
                               \/ Configure(t) \/ JoinAndRestart(t)
      PROVE  AskStill
  <2>1. CASE FinishBody(t)
    BY <2>1 DEF FinishBody, AskStill
  <2>2. CASE OnJobFinished(t) \/ ReturnBarrier(t) \/ Configure(t)
    BY <2>2 DEF OnJobFinished, ReturnBarrier, Configure, AskStill
  <2>3. CASE JoinAndRestart(t)
    <3>1. PICK started \in Budgets :
            pc' = [u \in Thread |-> IF u = t THEN "run"
                                    ELSE IF u \in started THEN "loop" ELSE pc[u]]
      BY <2>3 DEF JoinAndRestart
    <3>2. \A u \in started : u \in Worker /\ pc[u] = "off"
      BY <2>3, SchedulerConstants DEF JoinAndRestart, Alive
    <3> QED
      BY <2>3, <3>1, <3>2 DEF JoinAndRestart, AskStill
  <2> QED
    BY <1>6, <2>1, <2>2, <2>3
<1>7. ASSUME NEW t \in Thread, NEW b \in Barrier,
             CreateBarrier(t, b) \/ DestroyBarrier(t, b) \/ \E j \in Job : AddJob(t, b, j)
      PROVE  AskStill
  BY <1>7 DEF CreateBarrier, DestroyBarrier, AddJob, threadVars, AskStill
<1>8. ASSUME NEW t \in Thread, pc[t] \notin QueueingPc, Pop(t)
      PROVE  AskStill
  <2>1. Served \in Tier /\ queues[Served] # <<>> /\ queues[Served] \in Seq(Item)
    BY <1>8, ServedFacts DEF Pop, SchedTypeOK
  <2>2. Head(queues[Served]) = queues[Served][1] /\ 1 \in 1..Len(queues[Served])
    BY <2>1, TailFacts
  <2>3. phase[Head(queues[Served])] = "queued" /\ Head(queues[Served]) \in Item
    BY <2>1, <2>2 DEF ItemInv, QueuesExact
  <2> QED
    BY <1>8, <2>3 DEF Pop, AskStill, ItemTypeOK, Item
<1>9. ASSUME NEW t \in Thread, Retire(t)
      PROVE  AskStill
  <2>0. stack[t] \in Seq(Frame) /\ stack[t] # <<>>
    BY <1>9 DEF Retire, ThreadInv
  <2>1. Head(stack[t]) = stack[t][1] /\ 1 \in 1..Len(stack[t])
    BY <2>0, TailFacts
  <2>2. phase[Head(stack[t]).item] = "running" /\ Head(stack[t]).item \in Item
    BY <1>9, <2>1 DEF Retire, ThreadInv, ItemInv, FrameInv
  <2> QED
    BY <1>9, <2>2 DEF Retire, AskStill, ItemTypeOK, Item
<1>10. ASSUME NEW t \in Thread, pc[t] = "try", Goto(t, "check"), OnlyMoves
       PROVE  AskStill
  BY <1>10 DEF OnlyMoves, AskStill
<1> QED
  BY <1>1, <1>2, <1>3, <1>4, <1>5, <1>6, <1>7, <1>8, <1>9, <1>10
  DEF Next, CallOn, Proceed, Wait, WaitForJobs, WaitForIdle, WaitTarget, WorkerTake,
      TryExecuteOne, TryInWait, ExecutesQueued

\* Those others preserve AskAll.
LEMMA StillAsks ==
    ASSUME TypeOK, ThreadInv, AskAll, AskStill
    PROVE  AskAll'
<1> USE DEF AskAll, AskStill
<1>1. AskInv'
  BY DEF AskInv, QueueingPc
<1>2. BufferInv' /\ ReadyBeforeSubmit'
  BY DEF BufferInv, ReadyBeforeSubmit
<1>3. NoLostJob => NoLostJob'
  BY DEF NoLostJob
<1> QED
  BY <1>1, <1>2, <1>3

\* A thread that starts to ask for job j, whose other fields may change as
\* long as nobody has claimed it meanwhile.
LEMMA AskCalls ==
    ASSUME TypeOK, ThreadInv, AskInv, NEW j \in Job, handle[j] = "held",
           UNCHANGED <<handle, buffer, phase>>,
           \A k \in Job : k # j => queued'[k] = queued[k] /\ pending'[k] = pending[k],
           queued[j] => queued'[j], pending[j] = 0 => pending'[j] = 0,
           \A u \in Thread :
              \/ pc'[u] = pc[u] /\ arg'[u] = arg[u]
              \/ pc'[u] = "load_queued" /\ arg'[u] = j
              \/ pc'[u] = "load_pending" /\ arg'[u] = j /\ queued'[j]
    PROVE  AskInv'
<1>1. ASSUME NEW u \in Thread, pc'[u] = pc[u], arg'[u] = arg[u]
      PROVE  /\ pc'[u] \in {"load_pending", "claim"} => queued'[arg'[u]] \/ buffer'[u] = arg'[u]
             /\ pc'[u] = "claim" => pending'[arg'[u]] = 0
             /\ pc'[u] \in QueueingPc => handle'[arg'[u]] # "none"
  BY <1>1 DEF AskInv, ThreadInv, QueueingPc
<1>2. ASSUME NEW u \in Thread,
             \/ pc'[u] = "load_queued" /\ arg'[u] = j
             \/ pc'[u] = "load_pending" /\ arg'[u] = j /\ queued'[j]
      PROVE  /\ pc'[u] \in {"load_pending", "claim"} => queued'[arg'[u]] \/ buffer'[u] = arg'[u]
             /\ pc'[u] = "claim" => pending'[arg'[u]] = 0
             /\ pc'[u] \in QueueingPc => handle'[arg'[u]] # "none"
  BY <1>2
<1>3. \A u \in Thread : buffer'[u] # None => handle'[buffer'[u]] # "none"
  BY DEF AskInv
<1>4. \A k \in Job : handle'[k] = "none" => ~queued'[k] /\ pending'[k] = 0 /\ phase'[k] = "new"
  BY DEF AskInv
<1> QED
  BY <1>1, <1>2, <1>3, <1>4 DEF AskInv

\* The calls that change what a job waits for.
LEMMA CallAsks ==
    ASSUME TypeOK, ThreadInv, ItemInv, AskAll, NEW t \in Thread, NEW j \in Job,
           \/ CreateJob(t, j) \/ QueueJob(t, j) \/ RemoveDependency(t, j) \/ FreeJob(t, j)
    PROVE  AskAll'
<1> USE DEF TypeOK, JobTypeOK, ThreadTypeOK, AskAll, Executes, Goto, With, QueueingPc
<1>1. CASE CreateJob(t, j)
  <2>1. AskInv'
    BY <1>1 DEF CreateJob, AskInv, threadVars, itemVars, ThreadInv
  <2>2. BufferInv' /\ ReadyBeforeSubmit'
    BY <1>1 DEF CreateJob, BufferInv, ReadyBeforeSubmit, AskInv, threadVars, itemVars
  <2>3. NoLostJob => NoLostJob'
    BY <1>1 DEF CreateJob, NoLostJob, AskInv, threadVars
  <2> QED
    BY <2>1, <2>2, <2>3
<1>2. CASE QueueJob(t, j)
  <2>1. AskInv'
    <3>1. CASE StoreBuffer
      BY <1>2, <3>1 DEF QueueJob, AskInv, itemVars, ThreadInv
    <3>2. CASE ~StoreBuffer
      <4>1. /\ UNCHANGED <<pending, handle, buffer, phase>>
            /\ \A k \in Job : k # j => queued'[k] = queued[k]
            /\ queued'[j] /\ handle[j] = "held"
        BY <1>2, <3>2 DEF QueueJob, itemVars
      <4>2. \A u \in Thread : \/ pc'[u] = pc[u] /\ arg'[u] = arg[u]
                              \/ pc'[u] = "load_pending" /\ arg'[u] = j
        BY <1>2 DEF QueueJob
      <4> QED
        BY <4>1, <4>2, AskCalls
    <3> QED
      BY <3>1, <3>2
  <2>2. BufferInv' /\ ReadyBeforeSubmit'
    <3>1. BufferInv'
      BY <1>2 DEF QueueJob, BufferInv
    <3>2. \A k \in Job : queued[k] => queued'[k]
      BY <1>2 DEF QueueJob
    <3>3. ReadyBeforeSubmit'
      BY <1>2, <3>2 DEF QueueJob, ReadyBeforeSubmit, itemVars
    <3> QED
      BY <3>1, <3>3
  <2>3. ~StoreBuffer /\ NoLostJob => NoLostJob'
    <3>1. ASSUME ~StoreBuffer, NoLostJob, NEW k \in Job, queued'[k], pending'[k] = 0, ~submitted'[k]
          PROVE  \E u \in Thread : pc'[u] \in QueueingPc /\ arg'[u] = k
      <4>1. CASE k = j
        BY <1>2, <4>1 DEF QueueJob
      <4>2. CASE k # j
        <5>1. queued[k] /\ pending[k] = 0 /\ ~submitted[k]
          BY <1>2, <3>1, <4>2 DEF QueueJob
        <5>2. PICK u \in Thread : pc[u] \in QueueingPc /\ arg[u] = k
          BY <3>1, <5>1 DEF NoLostJob
        <5>3. u # t /\ pc'[u] = pc[u] /\ arg'[u] = arg[u]
          BY <1>2, <5>2 DEF QueueJob
        <5> QED
          BY <5>2, <5>3
      <4> QED
        BY <4>1, <4>2
    <3> QED
      BY <3>1 DEF NoLostJob
  <2> QED
    BY <2>1, <2>2, <2>3
<1>3. CASE RemoveDependency(t, j)
  <2>1. AskInv'
    <3>1. /\ UNCHANGED <<queued, handle, buffer, phase>>
          /\ \A k \in Job : k # j => pending'[k] = pending[k]
          /\ pending[j] # 0 /\ handle[j] = "held"
      BY <1>3 DEF RemoveDependency, itemVars
    <3>2. \A u \in Thread : \/ pc'[u] = pc[u] /\ arg'[u] = arg[u]
                            \/ pc'[u] = "load_queued" /\ arg'[u] = j
      BY <1>3 DEF RemoveDependency
    <3> QED
      BY <3>1, <3>2, AskCalls
  <2>2. BufferInv' /\ ReadyBeforeSubmit'
    BY <1>3 DEF RemoveDependency, BufferInv, ReadyBeforeSubmit, itemVars
  <2>3. NoLostJob => NoLostJob'
    BY <1>3 DEF RemoveDependency, LastRelease, NoLostJob
  <2> QED
    BY <2>1, <2>2, <2>3
<1>4. CASE FreeJob(t, j)
  <2>1. AskInv'
    BY <1>4 DEF FreeJob, AskInv, threadVars, itemVars, ThreadInv
  <2>2. BufferInv' /\ ReadyBeforeSubmit'
    BY <1>4 DEF FreeJob, BufferInv, ReadyBeforeSubmit, threadVars, itemVars
  <2>3. NoLostJob => NoLostJob'
    BY <1>4 DEF FreeJob, NoLostJob, threadVars
  <2> QED
    BY <2>1, <2>2, <2>3
<1> QED
  BY <1>1, <1>2, <1>3, <1>4

\* So does a delayed store that becomes visible: the thread that made it has
\* acted on it already, and without delayed stores there is none.
LEMMA DrainAsks ==
    ASSUME TypeOK, ThreadInv, ItemInv, AskAll, NEW t \in Thread, DrainBuffer(t)
    PROVE  AskAll'
<1> USE DEF TypeOK, JobTypeOK, ThreadTypeOK, AskAll, QueueingPc, DrainBuffer, itemVars
<1>1. AskInv'
  BY SchedulerConstants DEF AskInv, ThreadInv
<1>2. BufferInv' /\ ReadyBeforeSubmit'
  BY DEF BufferInv, ReadyBeforeSubmit
<1>3. StoreBuffer
  BY DEF BufferInv
<1> QED
  BY <1>1, <1>2, <1>3

\* The value of an updated function: the new one at the updated place, else the old.
LEMMA UpdateFacts ==
    ASSUME NEW S, NEW T, NEW f \in [S -> T], NEW t \in S, NEW p, NEW u \in S,
           NEW g, g = [f EXCEPT ![t] = p]
    PROVE  g[u] = f[u] \/ (u = t /\ g[u] = p)
  OBVIOUS

\* The steps of MaybeQueue.
LEMMA MaybeQueueAsks ==
    ASSUME TypeOK, ThreadInv, ItemInv, AskAll, NEW t \in Thread,
           LoadQueued(t) \/ LoadPending(t) \/ Claim(t) \/ SubmitJob(t)
    PROVE  AskAll'
<1> USE DEF TypeOK, JobTypeOK, ThreadTypeOK, AskAll, Goto, QueueingPc
<1>1. CASE LoadQueued(t) \/ LoadPending(t)
  <2>1. UNCHANGED <<pending, queued, submitted, handle, phase, buffer, arg>>
    BY <1>1 DEF LoadQueued, LoadPending, OnlyMoves, jobVars, itemVars
  <2>2. AskInv'
    BY <1>1, <2>1 DEF LoadQueued, LoadPending, SeesQueued, SeesReleased, AskInv
  <2>3. BufferInv' /\ ReadyBeforeSubmit'
    BY <2>1 DEF BufferInv, ReadyBeforeSubmit
  <2>4. ~StoreBuffer /\ NoLostJob => NoLostJob'
    <3>1. ASSUME NEW j \in Job, queued[j], pending[j] = 0, pc[t] \in QueueingPc, arg[t] = j
          PROVE  pc'[t] \in QueueingPc
      BY <1>1, <3>1 DEF LoadQueued, LoadPending, SeesQueued, SeesReleased
    <3>2. \A u \in Thread : u # t => pc'[u] = pc[u]
      BY <1>1 DEF LoadQueued, LoadPending
    <3>3. ASSUME NoLostJob, NEW j \in Job, queued'[j], pending'[j] = 0, ~submitted'[j]
          PROVE  \E u \in Thread : pc'[u] \in QueueingPc /\ arg'[u] = j
      <4>1. queued[j] /\ pending[j] = 0 /\ ~submitted[j]
        BY <2>1, <3>3
      <4>2. PICK u \in Thread : pc[u] \in QueueingPc /\ arg[u] = j
        BY <3>3, <4>1 DEF NoLostJob
      <4>3. pc'[u] \in QueueingPc
        BY <4>1, <4>2, <3>1, <3>2
      <4> QED
        BY <2>1, <4>2, <4>3
    <3> QED
      BY <3>3 DEF NoLostJob
  <2> QED
    BY <2>2, <2>3, <2>4
<1>2. CASE Claim(t)
  <2>1. arg[t] \in Job /\ queued[arg[t]] /\ pending[arg[t]] = 0 /\ handle[arg[t]] # "none"
    BY <1>2, SchedulerConstants DEF Claim, Drained, AskInv, ThreadInv
  <2>2. /\ UNCHANGED <<pending, queued, handle, buffer, arg>>
        /\ submitted' = [submitted EXCEPT ![arg[t]] = TRUE]
        /\ \A j \in Job : j # arg[t] => phase'[j] = phase[j]
        /\ pc' = [pc EXCEPT ![t] = "run"] \/ pc' = [pc EXCEPT ![t] = "submit"]
    BY <1>2 DEF Claim, ItemTypeOK, Item
  <2>3. AskInv'
    <3>1. ASSUME NEW u \in Thread
          PROVE  /\ arg'[u] = arg[u]
                 /\ pc'[u] = pc[u] \/ (u = t /\ pc'[u] \in {"run", "submit"})
      <4>1. arg'[u] = arg[u] /\ pc \in [Thread -> Pc]
        BY <2>2
      <4>2. ASSUME NEW p \in {"run", "submit"}, pc' = [pc EXCEPT ![t] = p]
            PROVE  pc'[u] = pc[u] \/ (u = t /\ pc'[u] = p)
        BY <4>1, <4>2, UpdateFacts
      <4> QED
        BY <2>2, <4>1, <4>2
    <3>2. ASSUME NEW u \in Thread
          PROVE  /\ pc'[u] \in {"load_pending", "claim"} => queued'[arg'[u]] \/ buffer'[u] = arg'[u]
                 /\ pc'[u] = "claim" => pending'[arg'[u]] = 0
                 /\ pc'[u] \in QueueingPc => handle'[arg'[u]] # "none"
                 /\ buffer'[u] # None => handle'[buffer'[u]] # "none"
      BY <2>1, <2>2, <3>1 DEF AskInv
    <3>3. ASSUME NEW j \in Job, handle'[j] = "none"
          PROVE  ~queued'[j] /\ pending'[j] = 0 /\ phase'[j] = "new"
      BY <2>1, <2>2, <3>3 DEF AskInv
    <3> QED
      BY <3>2, <3>3 DEF AskInv
  <2>4. BufferInv' /\ ReadyBeforeSubmit'
    BY <2>1, <2>2 DEF BufferInv, ReadyBeforeSubmit
  <2>5. NoLostJob => NoLostJob'
    <3>1. ASSUME NoLostJob, NEW j \in Job, queued'[j], pending'[j] = 0, ~submitted'[j]
          PROVE  \E u \in Thread : pc'[u] \in QueueingPc /\ arg'[u] = j
      <4>1. j # arg[t] /\ queued[j] /\ pending[j] = 0 /\ ~submitted[j]
        BY <3>1, <2>1, <2>2
      <4>2. PICK u \in Thread : pc[u] \in QueueingPc /\ arg[u] = j
        BY <3>1, <4>1 DEF NoLostJob
      <4> QED
        BY <4>1, <4>2, <2>2
    <3> QED
      BY <3>1 DEF NoLostJob
  <2> QED
    BY <2>3, <2>4, <2>5
<1>3. CASE SubmitJob(t)
  <2>1. arg[t] \in Job /\ submitted[arg[t]] /\ phase[arg[t]] = "claimed"
    BY <1>3 DEF SubmitJob, ItemInv, SubmitInv, ThreadInv
  <2>2. /\ UNCHANGED <<pending, queued, submitted, handle, buffer, arg>>
        /\ phase' = [phase EXCEPT ![arg[t]] = "queued"]
        /\ pc' = [pc EXCEPT ![t] = "notify"]
    BY <1>3 DEF SubmitJob, Push, AfterPush, jobVars
  <2>3. AskInv'
    BY <2>1, <2>2 DEF AskInv, ItemTypeOK, Item
  <2>4. BufferInv' /\ ReadyBeforeSubmit'
    BY <2>1, <2>2 DEF BufferInv, ReadyBeforeSubmit, ItemTypeOK, Item
  <2>5. NoLostJob => NoLostJob'
    BY <2>1, <2>2 DEF NoLostJob
  <2> QED
    BY <2>3, <2>4, <2>5
<1> QED
  BY <1>1, <1>2, <1>3

\* Every step preserves AskAll.
LEMMA AskStep ==
    ASSUME TypeOK, ThreadInv, ItemInv, AskAll, [Next]_vars
    PROVE  AskAll'
  BY AskSteps, StillAsks, CallAsks, DrainAsks, MaybeQueueAsks

-----------------------------------------------------------------------------
(* What the barriers count *)

BarrierAll == BarrierAccount /\ PoolInv

BarrierStill ==
    /\ UNCHANGED <<barrier, count, owner>>
    /\ \A t \in Thread :
          /\ pc'[t] = "signal" <=> pc[t] = "signal"
          /\ pc'[t] = "destroy" => pc[t] = "destroy"
          /\ pc[t] \in {"signal", "destroy"} => arg'[t] = arg[t]

\* The steps that touch a barrier, its members or a thread about to signal it.
LEMMA BarrierSteps ==
    ASSUME TypeOK, ThreadInv, [Next]_vars
    PROVE  \/ BarrierStill
           \/ \E t \in Thread :
                 \/ FinishBody(t) \/ OnJobFinished(t) \/ ReturnBarrier(t)
                 \/ \E b \in Barrier : \/ CreateBarrier(t, b) \/ DestroyBarrier(t, b)
                                       \/ \E j \in Job : AddJob(t, b, j)
<1> USE DEF TypeOK, ThreadTypeOK, Executes, InMain, Goto, With, barrierVars, jobVars
<1>1. CASE UNCHANGED vars
  BY <1>1 DEF vars, BarrierStill
<1>2. ASSUME NEW t \in Thread, LoadQueued(t) \/ LoadPending(t) \/ WorkerExitOrSleep(t)
                               \/ SpuriousWakeup(t) \/ NotifyOne(t) \/ NotifyAll(t)
      PROVE  BarrierStill
  BY <1>2 DEF LoadQueued, LoadPending, WorkerExitOrSleep, SpuriousWakeup, NotifyOne, Asleep,
              Wakes, NotifyAll, Woken, OnlyMoves, BarrierStill, Thread
<1>3. ASSUME NEW t \in Thread, NEW j \in Job,
             CreateJob(t, j) \/ FreeJob(t, j) \/ QueueJob(t, j) \/ RemoveDependency(t, j)
      PROVE  BarrierStill
  BY <1>3 DEF CreateJob, FreeJob, QueueJob, RemoveDependency, threadVars, BarrierStill
<1>4. ASSUME NEW t \in Thread, NEW x \in WaitTarget, Executes(t), BeginWait(t, x)
      PROVE  BarrierStill
  BY <1>4 DEF BeginWait, BarrierStill
<1>5. ASSUME NEW t \in Thread, CheckWait(t) \/ Configure(t) \/ DrainBuffer(t)
      PROVE  BarrierStill
  BY <1>5 DEF CheckWait, Configure, DrainBuffer, BarrierStill
<1>6. ASSUME NEW t \in Thread, JoinAndRestart(t)
      PROVE  BarrierStill
  <2>1. PICK started \in Budgets :
          pc' = [u \in Thread |-> IF u = t THEN "run"
                                  ELSE IF u \in started THEN "loop" ELSE pc[u]]
    BY <1>6 DEF JoinAndRestart
  <2>2. \A u \in started : u \in Worker /\ pc[u] = "off"
    BY <1>6, SchedulerConstants DEF JoinAndRestart, Alive
  <2> QED
    BY <1>6, <2>1, <2>2 DEF JoinAndRestart, BarrierStill
<1>7. ASSUME NEW t \in Thread, Claim(t) \/ SubmitJob(t) \/ Retire(t) \/ \E i \in Raw : Submit(t, i)
      PROVE  BarrierStill
  BY <1>7 DEF Claim, SubmitJob, Submit, AfterPush, Retire, BarrierStill
<1>8. ASSUME NEW t \in Thread, pc[t] \notin {"signal", "destroy"}, Pop(t)
      PROVE  BarrierStill
  BY <1>8 DEF Pop, BarrierStill
<1>9. ASSUME NEW t \in Thread, pc[t] = "try", Goto(t, "check"), OnlyMoves
      PROVE  BarrierStill
  BY <1>9 DEF OnlyMoves, BarrierStill
<1> QED
  BY <1>1, <1>2, <1>3, <1>4, <1>5, <1>6, <1>7, <1>8, <1>9
  DEF Next, CallOn, Proceed, Wait, WaitForJobs, WaitForIdle, WaitTarget, WorkerTake,
      TryExecuteOne, TryInWait, ExecutesQueued

\* Members and signalling threads are finitely many, so they can be counted.
LEMMA PartiesFinite ==
    ASSUME NEW b
    PROVE  /\ IsFiniteSet(Members(b)) /\ Cardinality(Members(b)) \in Nat
           /\ IsFiniteSet(Signalling(b)) /\ Cardinality(Signalling(b)) \in Nat
<1>1. IsFiniteSet(Job) /\ IsFiniteSet(Thread)
  BY SchedulerConstants, FS_Union DEF Thread
<1> QED
  BY <1>1, FS_Subset, FS_CardinalityType DEF Members, Signalling

\* A barrier somebody is a member of, or about to signal, counts at least one.
LEMMA PartiesCount ==
    ASSUME BarrierAccount, NEW b \in Barrier, Members(b) # {} \/ Signalling(b) # {}
    PROVE  count[b] > 0
<1>1. Cardinality(Members(b)) # 0 \/ Cardinality(Signalling(b)) # 0
  BY PartiesFinite, FS_EmptySet
<1> QED
  BY <1>1, PartiesFinite DEF BarrierAccount

\* A finished member becomes a thread about to signal.
LEMMA FinishBarrier ==
    ASSUME TypeOK, ThreadInv, BarrierAll, NEW t \in Thread, FinishBody(t)
    PROVE  BarrierAll'
<1> DEFINE i == Head(stack[t]).item
<1> USE DEF TypeOK, JobTypeOK, ThreadTypeOK, BarrierAll
<1>1. /\ pc[t] = "run" /\ UNCHANGED <<count, owner>>
      /\ \A u \in Thread : u # t => pc'[u] = pc[u] /\ arg'[u] = arg[u]
      /\ pc'[t] # "destroy"
  BY DEF FinishBody, Executes, Goto, With, barrierVars
<1>2. PoolInv'
  BY <1>1 DEF PoolInv
<1>3. CASE UNCHANGED barrier /\ pc'[t] = "retire"
  <2>1. \A b \in Barrier : Members(b)' = Members(b) /\ Signalling(b)' = Signalling(b)
    BY <1>1, <1>3 DEF Members, Signalling
  <2> QED
    BY <1>1, <1>2, <2>1 DEF BarrierAccount
<1>4. CASE /\ i \in Job /\ barrier[i] # None /\ barrier' = [barrier EXCEPT ![i] = None]
           /\ arg'[t] = barrier[i] /\ pc'[t] = "signal"
  <2> DEFINE c == barrier[i]
  <2>1. c \in Barrier /\ None \notin Barrier
    BY <1>4, SchedulerConstants
  <2>2. ASSUME NEW b \in Barrier
        PROVE  count[b] = Cardinality(Members(b)') + Cardinality(Signalling(b)')
    <3>1. CASE b = c
      <4>1. i \in Members(b) /\ Members(b)' = Members(b) \ {i}
        BY <1>4, <2>1, <3>1 DEF Members
      <4>2. t \notin Signalling(b) /\ Signalling(b)' = Signalling(b) \cup {t}
        BY <1>1, <1>4, <3>1 DEF Signalling
      <4>3. /\ Cardinality(Members(b)') = Cardinality(Members(b)) - 1
            /\ Cardinality(Signalling(b)') = Cardinality(Signalling(b)) + 1
        <5>1. Cardinality(Members(b) \ {i}) = Cardinality(Members(b)) - 1
          <6> HIDE DEF i
          <6>1. i \in Members(b) /\ IsFiniteSet(Members(b))
            BY <4>1, PartiesFinite
          <6> QED
            BY <6>1, FS_RemoveElement
        <5>2. Cardinality(Signalling(b) \cup {t}) = Cardinality(Signalling(b)) + 1
          BY <4>2, PartiesFinite, FS_AddElement
        <5> QED
          BY <4>1, <4>2, <5>1, <5>2
      <4> QED
        BY <4>3, PartiesFinite DEF BarrierAccount
    <3>2. CASE b # c
      <4>1. Members(b)' = Members(b) /\ Signalling(b)' = Signalling(b)
        BY <1>1, <1>4, <2>1, <3>2 DEF Members, Signalling
      <4> QED
        BY <4>1 DEF BarrierAccount
    <3> QED
      BY <3>1, <3>2
  <2> QED
    BY <1>1, <1>2, <2>2 DEF BarrierAccount
<1>5. CASE i \in Job /\ barrier[i] = None /\ barrier' = [barrier EXCEPT ![i] = None]
           /\ pc'[t] = "retire"
  BY <1>3, <1>5
<1> QED
  BY <1>3, <1>4, <1>5 DEF FinishBody, Unlink, Executes, Goto, With

\* The signal arrives: the count it was owed is positive, so it goes down.
LEMMA SignalBarrier ==
    ASSUME TypeOK, ThreadInv, BarrierAll, NEW t \in Thread, OnJobFinished(t)
    PROVE  BarrierAll'
<1> DEFINE c == arg[t]
<1> USE DEF TypeOK, BarrierTypeOK, ThreadTypeOK, BarrierAll
<1>1. /\ pc[t] = "signal" /\ c \in Barrier /\ t \in Signalling(c)
      /\ pc' = [pc EXCEPT ![t] = "retire"] /\ UNCHANGED <<arg, owner, barrier>>
  BY DEF OnJobFinished, ThreadInv, Goto, jobVars, Signalling
<1>2. count[c] > 0
  BY <1>1, PartiesCount
<1>3. count' = [count EXCEPT ![c] = @ - 1]
  BY <1>1, <1>2 DEF OnJobFinished
<1>4. PoolInv'
  <2>1. \A b \in Barrier : count[b] = 0 => count'[b] = 0
    BY <1>2, <1>3
  <2>2. \A u \in Thread : pc'[u] = "destroy" => pc[u] = "destroy" /\ arg[u] \in Barrier
    BY <1>1 DEF ThreadInv
  <2> QED
    BY <1>1, <2>1, <2>2 DEF PoolInv
<1>5. ASSUME NEW b \in Barrier
      PROVE  count'[b] = Cardinality(Members(b)') + Cardinality(Signalling(b)')
  <2>1. Members(b)' = Members(b)
    BY <1>1 DEF Members
  <2>2. CASE b = c
    <3>1. Signalling(b)' = Signalling(b) \ {t}
      BY <1>1, <2>2 DEF Signalling
    <3>2. t \in Signalling(b)
      BY <1>1, <2>2
    <3>3. Cardinality(Signalling(b) \ {t}) = Cardinality(Signalling(b)) - 1
      BY <3>2, PartiesFinite, FS_RemoveElement
    <3> QED
      BY <1>3, <2>1, <2>2, <3>1, <3>3, PartiesFinite DEF BarrierAccount
  <2>3. CASE b # c
    <3>1. Signalling(b)' = Signalling(b)
      BY <1>1, <2>3 DEF Signalling
    <3> QED
      BY <1>3, <2>1, <2>3, <3>1 DEF BarrierAccount
  <2> QED
    BY <2>2, <2>3
<1> QED
  BY <1>4, <1>5 DEF BarrierAccount

\* A job joins: its barrier is in use, by its creator or by another member.
LEMMA AddBarrier ==
    ASSUME TypeOK, ThreadInv, BarrierAll,
           NEW t \in Thread, NEW c \in Barrier, NEW j \in Job, AddJob(t, c, j)
    PROVE  BarrierAll'
<1> USE DEF TypeOK, JobTypeOK, BarrierTypeOK, ThreadTypeOK, BarrierAll
<1>1. /\ pc[t] = "run" /\ barrier[j] = None
      /\ barrier' = [barrier EXCEPT ![j] = c] /\ count' = [count EXCEPT ![c] = @ + 1]
      /\ UNCHANGED <<owner, pc, arg>>
  BY DEF AddJob, Executes, CountMember, threadVars
<1>2. owner[c] = t \/ Members(c) # {}
  BY DEF AddJob, Members
<1>3. PoolInv'
  <2>1. owner[c] # None /\ \A u \in Thread : pc[u] = "destroy" => arg[u] # c
    <3>1. CASE owner[c] = t
      BY <3>1, <1>1, SchedulerConstants DEF PoolInv
    <3>2. CASE Members(c) # {}
      <4>1. count[c] > 0
        BY <3>2, PartiesCount
      <4> QED
        BY <4>1 DEF PoolInv
    <3> QED
      BY <1>2, <3>1, <3>2
  <2> QED
    BY <1>1, <2>1 DEF PoolInv, ThreadInv
<1>4. ASSUME NEW b \in Barrier
      PROVE  count'[b] = Cardinality(Members(b)') + Cardinality(Signalling(b)')
  <2>1. Signalling(b)' = Signalling(b)
    BY <1>1 DEF Signalling
  <2>2. CASE b = c
    <3>1. j \notin Members(b) /\ Members(b)' = Members(b) \cup {j}
      BY <1>1, <2>2, SchedulerConstants DEF Members
    <3>2. Cardinality(Members(b) \cup {j}) = Cardinality(Members(b)) + 1
      BY <3>1, PartiesFinite, FS_AddElement
    <3> QED
      BY <1>1, <2>1, <2>2, <3>1, <3>2, PartiesFinite DEF BarrierAccount
  <2>3. CASE b # c
    <3>1. Members(b)' = Members(b)
      BY <1>1, <2>3, SchedulerConstants DEF Members
    <3> QED
      BY <1>1, <2>1, <2>3, <3>1 DEF BarrierAccount
  <2> QED
    BY <2>2, <2>3
<1> QED
  BY <1>3, <1>4 DEF BarrierAccount

\* Every step preserves BarrierAll.
LEMMA BarrierStep ==
    ASSUME TypeOK, ThreadInv, BarrierAll, [Next]_vars
    PROVE  BarrierAll'
<1> USE DEF TypeOK, BarrierTypeOK, ThreadTypeOK, BarrierAll
<1>1. CASE BarrierStill
  <2>1. \A b \in Barrier : Members(b)' = Members(b) /\ Signalling(b)' = Signalling(b)
    BY <1>1 DEF BarrierStill, Members, Signalling
  <2> QED
    BY <1>1, <2>1 DEF BarrierStill, BarrierAccount, PoolInv
<1>2. ASSUME NEW t \in Thread, NEW c \in Barrier, CreateBarrier(t, c)
      PROVE  BarrierAll'
  <2>1. /\ owner[c] = None /\ owner' = [owner EXCEPT ![c] = t]
        /\ UNCHANGED <<barrier, count, pc, arg>>
    BY <1>2 DEF CreateBarrier, jobVars, threadVars
  <2>2. \A b \in Barrier : Members(b)' = Members(b) /\ Signalling(b)' = Signalling(b)
    BY <2>1 DEF Members, Signalling
  <2>3. PoolInv'
    BY <2>1, SchedulerConstants DEF PoolInv, ThreadInv
  <2> QED
    BY <2>1, <2>2, <2>3 DEF BarrierAccount
<1>3. ASSUME NEW t \in Thread, NEW c \in Barrier, DestroyBarrier(t, c)
      PROVE  BarrierAll'
  <2>1. /\ owner[c] = t /\ count[c] = 0 /\ pc[t] = "run" /\ UNCHANGED <<barrier, count, owner>>
        /\ pc' = [pc EXCEPT ![t] = "destroy"] /\ arg' = [arg EXCEPT ![t] = c]
    BY <1>3 DEF DestroyBarrier, InMain, MayDestroy, Goto, With, jobVars, barrierVars
  <2>2. \A b \in Barrier : Members(b)' = Members(b) /\ Signalling(b)' = Signalling(b)
    BY <2>1 DEF Members, Signalling
  <2>3. PoolInv'
    BY <2>1 DEF PoolInv, ThreadInv
  <2> QED
    BY <2>1, <2>2, <2>3 DEF BarrierAccount
<1>4. ASSUME NEW t \in Thread, ReturnBarrier(t)
      PROVE  BarrierAll'
  <2>1. /\ arg[t] \in Barrier /\ pc[t] = "destroy" /\ UNCHANGED <<barrier, arg>>
        /\ pc' = [pc EXCEPT ![t] = "run"] /\ owner' = [owner EXCEPT ![arg[t]] = None]
        /\ owner[arg[t]] = t /\ count[arg[t]] = 0 /\ count' = [count EXCEPT ![arg[t]] = 0]
    BY <1>4 DEF ReturnBarrier, ThreadInv, PoolInv, Goto, jobVars
  <2>2. \A b \in Barrier : Members(b)' = Members(b) /\ Signalling(b)' = Signalling(b)
    BY <2>1 DEF Members, Signalling
  <2>3. count' = count
    BY <2>1
  <2>4. PoolInv'
    BY <2>1, <2>3 DEF PoolInv, ThreadInv
  <2> QED
    BY <2>2, <2>3, <2>4 DEF BarrierAccount
<1> QED
  BY <1>1, <1>2, <1>3, <1>4, BarrierSteps, FinishBarrier, SignalBarrier, AddBarrier

-----------------------------------------------------------------------------
(* The invariant, and what the code may rely on *)

\* The initial state satisfies the inductive invariant.
LEMMA InvInit == Init => IInv
<1> SUFFICES ASSUME Init
             PROVE  IInv
  OBVIOUS
<1>1. TypeOK /\ ThreadInv
  BY TypeInit
<1>2. /\ \A i \in Item : phase[i] = "new" /\ starts[i] = 0
      /\ \A r \in Tier : queues[r] = <<>>
      /\ inFlight = 0 /\ \A j \in Job : barrier[j] = None /\ ~queued[j] /\ handle[j] = "none"
      /\ \A j \in Job : pending[j] = 0 /\ ~submitted[j] /\ phase[j] = "new"
      /\ \A b \in Barrier : count[b] = 0
      /\ \A t \in Thread : /\ pc[t] \in {"run", "loop", "off"} /\ buffer[t] = None
                           /\ \/ stack[t] = <<>>
                              \/ stack[t] = <<[item |-> Main, on |-> None]>>
  BY DEF Init, Item
<1>3. ItemInv
  <2>1. SubmitInv /\ StartsInv
    BY <1>2 DEF SubmitInv, StartsInv
  <2>2. FrameInv
    <3>1. \A t \in Thread : \A k \in 1..Len(stack[t]) : stack[t][k].item = Main
      BY <1>2
    <3> QED
      BY <3>1, SchedulerConstants DEF FrameInv
  <2>3. QueuesExact
    BY <1>2 DEF QueuesExact
  <2>4. InFlightCount
    <3>1. Running = {}
      BY <1>2 DEF Running
    <3> QED
      BY <1>2, <3>1, FS_EmptySet DEF InFlightCount, Running
  <2> QED
    BY <2>1, <2>2, <2>3, <2>4 DEF ItemInv
<1>4. AskAll
  BY <1>2 DEF AskAll, AskInv, BufferInv, ReadyBeforeSubmit, NoLostJob, QueueingPc
<1>5. BarrierAll
  <2>1. \A b \in Barrier : Members(b) = {} /\ Signalling(b) = {}
    BY <1>2, SchedulerConstants DEF Members, Signalling
  <2>2. \A b \in Barrier : Cardinality(Members(b)) = 0 /\ Cardinality(Signalling(b)) = 0
    BY <2>1, FS_EmptySet
  <2>3. BarrierAccount
    BY <1>2, <2>2 DEF BarrierAccount
  <2>4. PoolInv
    BY <1>2 DEF PoolInv
  <2> QED
    BY <2>3, <2>4 DEF BarrierAll
<1> QED
  BY <1>1, <1>3, <1>4, <1>5 DEF IInv, ItemInv, AskAll, BarrierAll

\* Every reachable state of the scheduler satisfies the inductive invariant.
THEOREM Invariant == Spec => []IInv
<1>1. IInv <=> TypeOK /\ ThreadInv /\ ItemInv /\ AskAll /\ BarrierAll
  BY DEF IInv, ItemInv, AskAll, BarrierAll
<1>2. ASSUME IInv, [Next]_vars
      PROVE  IInv'
  <2>1. TypeOK /\ ThreadInv /\ ItemInv /\ AskAll /\ BarrierAll
    BY <1>1, <1>2
  <2>2. TypeOK' /\ ThreadInv'
    BY <1>2, <2>1, TypeStep, ThreadStep
  <2>3. ItemInv' /\ AskAll' /\ BarrierAll'
    BY <1>2, <2>1, ItemStep, AskStep, BarrierStep
  <2> QED
    BY <2>2, <2>3 DEF IInv, ItemInv, AskAll, BarrierAll
<1> QED
  BY InvInit, <1>2, PTL DEF Spec

\* in_flight_ counts the running items, for every pool and every client.
THEOREM InFlightExact == Spec => []InFlightCount
<1>1. IInv => InFlightCount
  BY DEF IInv
<1> QED
  BY Invariant, <1>1, PTL

\* No item is in a queue twice, and none that waits to run is missing from it.
THEOREM QueuesAreExact == Spec => []QueuesExact
<1>1. IInv => QueuesExact
  BY DEF IInv
<1> QED
  BY Invariant, <1>1, PTL

\* A job is submitted only once it is queued and released.
THEOREM SubmittedWhenReady == Spec => []ReadyBeforeSubmit
<1>1. IInv => ReadyBeforeSubmit
  BY DEF IInv
<1> QED
  BY Invariant, <1>1, PTL

\* If stores to `queued` are not delayed, no job falls between QueueJob and the
\* last RemoveDependency.  The assumption is the one the code does not meet.
THEOREM NoJobLost == ~StoreBuffer => (Spec => []NoLostJob)
<1> SUFFICES ASSUME ~StoreBuffer
             PROVE  Spec => []NoLostJob
  OBVIOUS
<1>1. IInv => NoLostJob
  BY DEF IInv
<1> QED
  BY Invariant, <1>1, PTL

\* A barrier's count is exact, whoever adds to it while members finish.
THEOREM BarrierCountExact == Spec => []BarrierAccount
<1>1. IInv => BarrierAccount
  BY DEF IInv
<1> QED
  BY Invariant, <1>1, PTL

\* A pooled barrier is referenced by nobody.
THEOREM PooledIsUnused == Spec => []PooledBarrierUnused
<1>1. IInv => PooledBarrierUnused
  <2> SUFFICES ASSUME IInv, NEW b \in Barrier, owner[b] = None
               PROVE  count[b] = 0 /\ Members(b) = {} /\ Signalling(b) = {}
    BY DEF PooledBarrierUnused
  <2>1. count[b] = 0 /\ BarrierAccount
    BY DEF IInv, PoolInv
  <2> QED
    BY <2>1, PartiesCount
<1> QED
  BY Invariant, <1>1, PTL

\* Only the test inside its wait lets a thread return from the wait.
LEMMA OnlyCheckReturns ==
    ASSUME TypeOK, [Next]_vars, NEW t \in Thread, NEW x, Returns(t, x)
    PROVE  CheckWait(t) /\ Reached(x)
<1> USE DEF TypeOK, ThreadTypeOK, Returns, Goto, Executes, InMain
<1>1. pc[t] = "check" /\ pc'[t] = "run" /\ ~UNCHANGED vars
  BY DEF vars
<1>2. ASSUME NEW u \in Thread, CallOn(u)
      PROVE  FALSE
  BY <1>1, <1>2 DEF CallOn, CreateJob, QueueJob, RemoveDependency, FreeJob, Wait, Submit, AfterPush,
     CreateBarrier, AddJob, DestroyBarrier, WaitForJobs, WaitForIdle, BeginWait, TryExecuteOne, Pop,
     Configure, threadVars
<1>3. ASSUME NEW u \in Thread, LoadQueued(u) \/ LoadPending(u) \/ Claim(u) \/ SubmitJob(u)
                               \/ FinishBody(u) \/ OnJobFinished(u) \/ Retire(u) \/ ReturnBarrier(u)
      PROVE  FALSE
  BY <1>1, <1>3 DEF LoadQueued, LoadPending, Claim, SubmitJob, FinishBody, OnJobFinished, Retire,
     ReturnBarrier
<1>4. ASSUME NEW u \in Thread, NotifyOne(u) \/ NotifyAll(u) \/ JoinAndRestart(u)
                               \/ WorkerExitOrSleep(u) \/ SpuriousWakeup(u) \/ DrainBuffer(u)
      PROVE  FALSE
  BY <1>1, <1>4 DEF NotifyOne, Asleep, Wakes, NotifyAll, Woken, JoinAndRestart, WorkerExitOrSleep,
     SpuriousWakeup, DrainBuffer
<1>5. ASSUME NEW u \in Thread, WorkerTake(u) \/ TryInWait(u)
      PROVE  FALSE
  BY <1>1, <1>5 DEF WorkerTake, TryInWait, ExecutesQueued, Pop
<1>6. ASSUME NEW u \in Thread, CheckWait(u)
      PROVE  u = t /\ Reached(x)
  BY <1>1, <1>6 DEF CheckWait
<1> QED
  BY <1>1, <1>2, <1>3, <1>4, <1>5, <1>6 DEF Next, Proceed

\* When WaitForIdle returns, nothing is queued or running, for every pool.
THEOREM IdleIsIdle == Spec => IdleMeansIdle
<1>1. ASSUME IInv, [Next]_vars, NEW t \in Thread, Returns(t, Idle), NEW i \in Item
      PROVE  phase[i] \notin {"queued", "running"}
  <2>1. ~HasWork /\ inFlight = 0
    BY <1>1, OnlyCheckReturns, SchedulerConstants DEF IInv, Reached, PoolIdle
  <2>2. phase[i] # "queued"
    <3>1. TierOf[i] \in Tier /\ queues[TierOf[i]] = <<>>
      BY <2>1, SchedulerConstants DEF HasWork
    <3> QED
      BY <1>1, <3>1, EmptySeq DEF IInv, QueuesExact
  <2>3. phase[i] # "running"
    BY <1>1, <2>1, RunningFinite, FS_EmptySet DEF IInv, InFlightCount, Running
  <2> QED
    BY <2>2, <2>3
<1>2. IInv /\ [Next]_vars =>
        [\A t \in Thread : Returns(t, Idle) =>
            \A i \in Item : phase[i] \notin {"queued", "running"}]_vars
  BY <1>1
<1> QED
  BY Invariant, <1>2, PTL DEF Spec, IdleMeansIdle

\* When WaitForJobs returns, the barrier is over, for every pool.
THEOREM BarrierWaitIsSound == Spec => BarrierWaitSound
<1>1. ASSUME IInv, [Next]_vars, NEW t \in Thread, NEW b \in Barrier, Returns(t, b)
      PROVE  Members(b) = {} /\ Signalling(b) = {}
  <2>1. count[b] = 0
    BY <1>1, OnlyCheckReturns, SchedulerConstants DEF IInv, Reached
  <2> QED
    BY <1>1, <2>1, PartiesCount DEF IInv
<1>2. IInv /\ [Next]_vars =>
        [\A t \in Thread, b \in Barrier : Returns(t, b) =>
            Members(b) = {} /\ Signalling(b) = {}]_vars
  BY <1>1
<1> QED
  BY Invariant, <1>2, PTL DEF Spec, BarrierWaitSound

-----------------------------------------------------------------------------
(* No wakeup is lost.  NoLostWakeup is inductive with the types: who pushes *)
(* work goes on to notify, and a worker falls asleep only when it saw,      *)
(* under the lock, that there is none.                                      *)

\* A thread that is not about to notify goes on awake, or is about to notify now:
\* nobody else moves, and work appears only in the second case.
LEMMA MoveWakes ==
    ASSUME TypeOK, NoLostWakeup, NEW t \in Thread, NEW p \in Pc, Goto(t, p),
           p \notin {"off", "asleep"},
           pc[t] \notin {"notify", "notify_all"} \/ p = "notify_all",
           HasWork' => HasWork \/ p = "notify"
    PROVE  NoLostWakeup'
<1>1. /\ pc \in [Thread -> Pc] /\ pc'[t] = p
      /\ \A u \in Thread : u # t => pc'[u] = pc[u]
  BY DEF TypeOK, ThreadTypeOK, Goto
<1> SUFFICES ASSUME HasWork', NEW v \in Alive', p # "notify", p # "notify_all"
             PROVE  \/ \E w \in Alive' : pc'[w] # "asleep"
                    \/ \E u \in Thread : pc'[u] \in {"notify", "notify_all"}
  BY <1>1 DEF NoLostWakeup
<1>2. v \in Worker /\ Worker \subseteq Thread /\ (t \in Worker => t \in Alive')
  BY <1>1 DEF Alive, Thread
<1>3. CASE v = t
  BY <1>1, <1>3
<1>4. CASE v # t
  <2>1. v \in Alive
    BY <1>1, <1>2, <1>4 DEF Alive
  <2>2. CASE \E w \in Alive : pc[w] # "asleep"
    <3>1. PICK w \in Alive : pc[w] # "asleep"
      BY <2>2
    <3>2. w \in Worker /\ w \in Alive' /\ pc'[w] # "asleep"
      BY <1>1, <1>2, <3>1 DEF Alive
    <3> QED BY <3>2
  <2>3. CASE \E u \in Thread : pc[u] \in {"notify", "notify_all"}
    BY <1>1, <2>3
  <2> QED BY <2>1, <2>2, <2>3 DEF NoLostWakeup
<1> QED BY <1>3, <1>4

\* An item taken by a thread that does not notify.
LEMMA PopWakes ==
    ASSUME TypeOK, NoLostWakeup, NEW t \in Thread, Pop(t),
           pc[t] \notin {"notify", "notify_all"}
    PROVE  NoLostWakeup'
<1>1. HasWork /\ Goto(t, "run")
  BY DEF Pop
<1> QED BY <1>1, MoveWakes DEF Pc

\* A step that moves nobody and pushes nothing.
LEMMA StillWakes ==
    ASSUME NoLostWakeup, UNCHANGED <<pc, queues>>
    PROVE  NoLostWakeup'
  BY DEF NoLostWakeup, HasWork, Alive

\* The calls: only Submit and Configure move the notifications.
LEMMA CallWakes ==
    ASSUME TypeOK, NoLostWakeup, NEW t \in Thread, CallOn(t)
    PROVE  NoLostWakeup'
<1>1. pc[t] = "run"
  BY DEF CallOn, CreateJob, QueueJob, RemoveDependency, FreeJob, Wait, Submit,
         CreateBarrier, AddJob, DestroyBarrier, WaitForJobs, TryExecuteOne,
         WaitForIdle, Configure, Executes, InMain
<1>2. ASSUME NEW p \in Pc, Goto(t, p), p \notin {"off", "asleep"},
             queues' = queues \/ p = "notify"
      PROVE  NoLostWakeup'
  BY <1>1, <1>2, MoveWakes DEF HasWork
<1>3. CASE \E j \in Job : CreateJob(t, j) \/ FreeJob(t, j)
  BY <1>3, StillWakes DEF CreateJob, FreeJob, schedVars, threadVars
<1>4. CASE \E j \in Job : QueueJob(t, j)
  BY <1>2, <1>4 DEF QueueJob, schedVars, Pc, QueueingPc
<1>5. CASE \E j \in Job : RemoveDependency(t, j)
  <2>1. PICK j \in Job : RemoveDependency(t, j)
    BY <1>5
  <2>2. CASE LastRelease(j)
    BY <1>2, <2>1, <2>2 DEF RemoveDependency, schedVars, Pc, QueueingPc
  <2>3. CASE ~ LastRelease(j)
    BY <2>1, <2>3, StillWakes DEF RemoveDependency, schedVars
  <2> QED BY <2>2, <2>3
<1>6. CASE \E x \in Job \cup Barrier \cup {Idle} : BeginWait(t, x)
  BY <1>2, <1>6 DEF BeginWait, schedVars, Pc
<1>7. CASE \E i \in Raw : Submit(t, i)
  BY <1>2, <1>7 DEF Submit, AfterPush, Pc
<1>8. CASE \E b \in Barrier : CreateBarrier(t, b) \/ \E j \in Job : AddJob(t, b, j)
  BY <1>8, StillWakes DEF CreateBarrier, AddJob, schedVars, threadVars
<1>9. CASE \E b \in Barrier : DestroyBarrier(t, b)
  BY <1>2, <1>9 DEF DestroyBarrier, schedVars, Pc
<1>10. CASE TryExecuteOne(t)
  BY <1>1, <1>10, PopWakes DEF TryExecuteOne
<1>11. CASE Configure(t)
  BY <1>2, <1>11 DEF Configure, Pc, ConfigurePc
<1> QED
  BY <1>3, <1>4, <1>5, <1>6, <1>7, <1>8, <1>9, <1>10, <1>11
  DEF CallOn, Wait, WaitForJobs, WaitForIdle

\* A notification leaves somebody awake, or there was nobody to wake.
LEMMA NotifyWakes ==
    ASSUME TypeOK, NoLostWakeup, NEW t \in Thread, NotifyOne(t) \/ NotifyAll(t)
    PROVE  NoLostWakeup'
<1>1. pc \in [Thread -> Pc] /\ UNCHANGED queues /\ Worker \subseteq Thread
  BY DEF TypeOK, ThreadTypeOK, NotifyOne, NotifyAll, OnlyMoves, schedVars, Thread
<1> SUFFICES ASSUME Alive' # {}
             PROVE  \E w \in Alive' : pc'[w] # "asleep"
  BY DEF NoLostWakeup
<1>2. CASE \E w \in Asleep : pc[t] = "notify" /\ Wakes(t, w)
  <2>1. PICK w \in Asleep : pc[t] = "notify" /\ Wakes(t, w)
    BY <1>2
  <2>2. w \in Worker /\ w # t /\ pc'[w] = "loop"
    BY <1>1, <2>1 DEF Asleep, Wakes
  <2> QED BY <2>2 DEF Alive
<1>3. CASE pc[t] = "notify" /\ Asleep = {} /\ Goto(t, "run")
  <2>1. PICK v \in Alive' : TRUE
    OBVIOUS
  <2>2. v \in Worker /\ pc[v] # "asleep" /\ pc'[v] \in {pc[v], "run"}
    BY <1>1, <1>3, <2>1 DEF Alive, Asleep, Goto
  <2> QED BY <2>1, <2>2
<1>4. CASE NotifyAll(t)
  <2>1. PICK v \in Alive' : TRUE
    OBVIOUS
  <2>2. v \in Worker /\ pc'[v] # "asleep"
    BY <1>1, <1>4, <2>1 DEF NotifyAll, Alive, Woken, Asleep
  <2> QED BY <2>1, <2>2
<1> QED BY <1>2, <1>3, <1>4 DEF NotifyOne

\* What the threads do next unasked.
LEMMA ProceedWakes ==
    ASSUME TypeOK, NoLostWakeup, NEW t \in Thread, Proceed(t)
    PROVE  NoLostWakeup'
<1> DEFINE q == pc[t]
<1>1. ASSUME NEW p \in Pc, Goto(t, p), p \notin {"off", "asleep"},
             q \notin {"notify", "notify_all"}, queues' = queues \/ p = "notify"
      PROVE  NoLostWakeup'
  BY <1>1, MoveWakes DEF HasWork
<1>2. CASE LoadQueued(t)
  BY <1>1, <1>2 DEF LoadQueued, OnlyMoves, schedVars, Pc, QueueingPc
<1>3. CASE LoadPending(t)
  BY <1>1, <1>3 DEF LoadPending, OnlyMoves, schedVars, Pc, QueueingPc
<1>4. CASE Claim(t)
  BY <1>1, <1>4 DEF Claim, schedVars, Pc, QueueingPc
<1>5. CASE SubmitJob(t)
  BY <1>1, <1>5 DEF SubmitJob, AfterPush, Pc
<1>6. CASE NotifyOne(t) \/ NotifyAll(t)
  BY <1>6, NotifyWakes
<1>7. CASE WorkerTake(t)
  BY <1>7, PopWakes DEF WorkerTake
<1>8. CASE WorkerExitOrSleep(t)
  BY <1>8 DEF WorkerExitOrSleep, OnlyMoves, schedVars, NoLostWakeup, HasWork
<1>9. CASE FinishBody(t)
  <2>1. q = "run" /\ queues' = queues
    BY <1>9 DEF FinishBody, Executes, schedVars
  <2>2. Goto(t, "retire") \/ Goto(t, "signal")
    BY <1>9 DEF FinishBody
  <2> QED BY <1>1, <2>1, <2>2 DEF Pc
<1>10. CASE OnJobFinished(t)
  BY <1>1, <1>10 DEF OnJobFinished, schedVars, Pc
<1>11. CASE Retire(t)
  <2>1. q = "retire" /\ queues' = queues
    BY <1>11 DEF Retire
  <2>2. Goto(t, "loop") \/ Goto(t, "run") \/ Goto(t, "check")
    BY <1>11 DEF Retire
  <2> QED BY <1>1, <2>1, <2>2 DEF Pc
<1>12. CASE ReturnBarrier(t)
  BY <1>1, <1>12 DEF ReturnBarrier, schedVars, Pc
<1>13. CASE CheckWait(t)
  <2>1. q = "check" /\ queues' = queues
    BY <1>13 DEF CheckWait, schedVars
  <2>2. Goto(t, "run") \/ Goto(t, "try")
    BY <1>13 DEF CheckWait
  <2> QED BY <1>1, <2>1, <2>2 DEF Pc
<1>14. CASE TryInWait(t)
  <2>1. q = "try"
    BY <1>14 DEF TryInWait
  <2>2. CASE Pop(t)
    BY <2>1, <2>2, PopWakes
  <2>3. CASE Goto(t, "check") /\ OnlyMoves
    BY <1>1, <2>1, <2>3 DEF OnlyMoves, schedVars, Pc
  <2> QED BY <1>14, <2>2, <2>3 DEF TryInWait, ExecutesQueued
<1>15. CASE JoinAndRestart(t)
  <2>1. pc \in [Thread -> Pc] /\ Alive = {} /\ Worker \subseteq Thread
    BY <1>15 DEF JoinAndRestart, TypeOK, ThreadTypeOK, Thread
  <2>2. \A w \in Worker : pc'[w] # "asleep"
    BY <1>15, <2>1 DEF JoinAndRestart, Alive
  <2> QED BY <2>2 DEF NoLostWakeup, Alive
<1> QED
  BY <1>2, <1>3, <1>4, <1>5, <1>6, <1>7, <1>8, <1>9, <1>10, <1>11, <1>12, <1>13,
     <1>14, <1>15
  DEF Proceed

\* Work in a queue never leaves every worker asleep with nobody about to notify
\* one, though the notification follows the push outside the lock.
THEOREM NoWakeupLost == Spec => []NoLostWakeup
<1>1. Init => NoLostWakeup
  BY DEF Init, NoLostWakeup, HasWork
<1>2. ASSUME TypeOK, NoLostWakeup, [Next]_vars
      PROVE  NoLostWakeup'
  <2>1. CASE UNCHANGED vars
    BY <1>2, <2>1, StillWakes DEF vars
  <2>2. ASSUME NEW t \in Thread, DrainBuffer(t)
        PROVE  NoLostWakeup'
    BY <1>2, <2>2, StillWakes DEF DrainBuffer, schedVars
  <2>3. ASSUME NEW t \in Thread, SpuriousWakeup(t)
        PROVE  NoLostWakeup'
    BY <1>2, <2>3, MoveWakes DEF SpuriousWakeup, OnlyMoves, schedVars, HasWork, Pc
  <2> QED BY <1>2, <2>1, <2>2, <2>3, CallWakes, ProceedWakes DEF Next
<1>3. TypeOK /\ NoLostWakeup /\ [Next]_vars => NoLostWakeup'
  BY <1>2
<1> QED BY <1>1, <1>3, TypeCorrect, PTL DEF Spec

-----------------------------------------------------------------------------
(* JobScheduler implements JobContract: a body starts at most once, and a   *)
(* job's only after it was queued and its last dependency was released.     *)

\* A job is done only if its body was started.
DoneInv == \A j \in Job : done[j] => phase[j] \in {"running", "retired"}

\* Only the end of a body sets `done`.
LEMMA DoneSteps ==
    ASSUME [Next]_vars
    PROVE  UNCHANGED done \/ \E t \in Thread : FinishBody(t)
<1> USE DEF jobVars
<1>1. CASE UNCHANGED vars
  BY <1>1 DEF vars
<1>2. ASSUME NEW t \in Thread, CallOn(t) \/ DrainBuffer(t) \/ SpuriousWakeup(t)
      PROVE  UNCHANGED done
  BY <1>2 DEF CallOn, CreateJob, QueueJob, RemoveDependency, FreeJob, Wait, Submit, CreateBarrier,
     AddJob, DestroyBarrier, WaitForJobs, WaitForIdle, BeginWait, TryExecuteOne, Pop, Configure,
     DrainBuffer, SpuriousWakeup, OnlyMoves
<1>3. ASSUME NEW t \in Thread, Proceed(t), ~FinishBody(t)
      PROVE  UNCHANGED done
  BY <1>3 DEF Proceed, LoadQueued, LoadPending, Claim, SubmitJob, NotifyOne, WorkerTake,
     WorkerExitOrSleep, OnJobFinished, Retire, ReturnBarrier, CheckWait, TryInWait, NotifyAll,
     JoinAndRestart, ExecutesQueued, Pop, OnlyMoves
<1> QED
  BY <1>1, <1>2, <1>3 DEF Next

\* What Pop, FinishBody and Retire know of the item they act on.
LEMMA PopItem ==
    ASSUME IInv, HasWork
    PROVE  LET i == Head(queues[Served]) IN i \in Item /\ phase[i] = "queued"
<1>1. Served \in Tier /\ queues[Served] # <<>> /\ queues[Served] \in Seq(Item)
  BY ServedFacts DEF IInv, TypeOK, SchedTypeOK
<1>2. /\ Head(queues[Served]) = queues[Served][1] /\ 1 \in 1..Len(queues[Served])
      /\ Head(queues[Served]) \in Item
  BY <1>1, TailFacts
<1> QED
  BY <1>1, <1>2 DEF IInv, QueuesExact

\* The item a thread executes is running.
LEMMA HeadItem ==
    ASSUME IInv, NEW t \in Thread, stack[t] # <<>>, Head(stack[t]).item \in Item
    PROVE  phase[Head(stack[t]).item] = "running"
<1>1. stack[t] \in Seq(Frame)
  BY DEF IInv, TypeOK, ThreadTypeOK
<1>2. Head(stack[t]) = stack[t][1] /\ 1 \in 1..Len(stack[t])
  BY <1>1, TailFacts
<1> QED
  BY <1>2 DEF IInv, FrameInv

\* Every step preserves DoneInv: FinishBody marks the running item of its thread,
\* and no running or retired item goes back to the queues.
LEMMA DoneStep ==
    ASSUME IInv, DoneInv, [Next]_vars
    PROVE  DoneInv'
<1> USE DEF IInv, TypeOK, ItemTypeOK, JobTypeOK, Item
<1>1. TypeOK /\ ThreadInv /\ ItemInv
  BY DEF ItemInv
<1>2. ASSUME NEW t \in Thread, FinishBody(t)
      PROVE  DoneInv'
  <2>1. Head(stack[t]).item \in Item => phase[Head(stack[t]).item] = "running"
    BY <1>2, HeadItem DEF FinishBody, Executes, ThreadInv
  <2> QED
    BY <1>2, <2>1 DEF FinishBody, DoneInv, itemVars
<1>3. ASSUME UNCHANGED done
      PROVE  DoneInv'
  <2>1. CASE Still
    BY <2>1, <1>3 DEF Still, DoneInv
  <2>2. ASSUME NEW t \in Thread, Claim(t)
        PROVE  DoneInv'
    <3>1. arg[t] \in Job /\ (~submitted[arg[t]] => phase[arg[t]] = "new")
      BY <2>2 DEF Claim, ThreadInv, QueueingPc, SubmitInv
    <3> QED
      BY <2>2, <3>1, <1>3 DEF Claim, SeesSubmitted, DoneInv
  <2>3. ASSUME NEW t \in Thread, SubmitJob(t)
        PROVE  DoneInv'
    <3>1. phase[arg[t]] = "claimed" /\ arg[t] \in Job
      BY <2>3 DEF SubmitJob, SubmitInv, ThreadInv, QueueingPc
    <3> QED
      BY <2>3, <3>1, <1>3 DEF SubmitJob, Push, DoneInv
  <2>4. ASSUME NEW t \in Thread, Retire(t)
        PROVE  DoneInv'
    BY <2>4, <1>3 DEF Retire, DoneInv
  <2>5. ASSUME NEW t \in Thread, Pop(t)
        PROVE  DoneInv'
    BY <2>5, <1>3 DEF Pop, DoneInv
  <2>6. ASSUME NEW t \in Thread, NEW i \in Raw, Submit(t, i)
        PROVE  DoneInv'
    BY <2>6, <1>3, SchedulerConstants DEF Submit, Push, DoneInv
  <2> QED
    BY <1>1, <2>1, <2>2, <2>3, <2>4, <2>5, <2>6, ItemSteps
<1> QED
  BY <1>2, <1>3, DoneSteps

-----------------------------------------------------------------------------
(* Each step of the scheduler is a step of the contract, or none. *)

asked == [i \in Item |-> Asked(i)]
state == [i \in Item |-> StateOf(i)]

\* The contract's variables change only with these.
LEMMA Stutters ==
    ASSUME UNCHANGED <<pending, starts, asked, state>>
    PROVE  UNCHANGED Contract!vars
  BY DEF Contract!vars, asked, state

\* What was asked for is the same when no flag, no buffered store and no raw item
\* changed its answer.
LEMMA SameAsked ==
    ASSUME UNCHANGED <<queued, buffer>>, \A i \in Raw : phase'[i] = "new" <=> phase[i] = "new"
    PROVE  asked' = asked
  BY DEF asked, Asked, Item

\* The contract does not see whether an unstarted item is new, claimed or queued.
LEMMA SameState ==
    ASSUME UNCHANGED done,
           \A i \in Item : \/ phase'[i] = phase[i]
                           \/ {phase'[i], phase[i]} \subseteq {"new", "claimed", "queued"}
    PROVE  state' = state
  BY DEF state, StateOf

\* The mapped `asked`, applied to an item.
LEMMA AskedOf == \A i \in Item : asked[i] = Asked(i)
  BY DEF asked

\* The mapped `state`, applied to an item.
LEMMA StateOfItem == \A i \in Item : state[i] = StateOf(i)
  BY DEF state

\* CreateJob gives the job its dependency count: Create.
LEMMA CreateMaps ==
    ASSUME IInv, NEW t \in Thread, NEW j \in Job, CreateJob(t, j)
    PROVE  Contract!Create(j)
<1>1. ~queued[j] /\ pending[j] = 0 /\ \A u \in Thread : buffer[u] # j
  BY SchedulerConstants DEF CreateJob, IInv, AskInv
<1>2. ~asked[j]
  BY <1>1 DEF asked, Asked, Item
<1>3. asked' = asked /\ state' = state
  BY SameAsked, SameState DEF CreateJob, itemVars, threadVars
<1>4. \E n \in 0..MaxDeps : pending' = [pending EXCEPT ![j] = n]
  BY DEF CreateJob, InitialCount
<1> QED
  BY <1>1, <1>2, <1>3, <1>4 DEF Contract!Create, CreateJob, itemVars, asked, state

\* The store of QueueJob, visible or delayed, is the contract's Ask; a job that was
\* queued before stutters.
LEMMA QueueMaps ==
    ASSUME IInv, NEW t \in Thread, NEW j \in Job, QueueJob(t, j)
    PROVE  Contract!Ask(j) \/ UNCHANGED Contract!vars
<1> USE DEF IInv, TypeOK, JobTypeOK, ThreadTypeOK
<1>1. state' = state
  BY SameState DEF QueueJob, itemVars
<1>2. asked' = [asked EXCEPT ![j] = TRUE]
  <2>1. ASSUME NEW i \in Item, i # j
        PROVE  Asked(i)' = Asked(i)
    <3>1. CASE i \in Job
      <4>1. queued'[i] = queued[i] /\ \A u \in Thread : buffer'[u] = i <=> buffer[u] = i
        BY <2>1, <3>1, SchedulerConstants DEF QueueJob, Drained
      <4> QED
        BY <3>1, <4>1 DEF Asked
    <3>2. CASE i \notin Job
      BY <3>2 DEF Asked, QueueJob, itemVars
    <3> QED
      BY <3>1, <3>2
  <2>2. Asked(j)' = TRUE
    <3>1. queued'[j] \/ buffer'[t] = j
      BY DEF QueueJob
    <3> QED
      BY <3>1 DEF Asked
  <2> QED
    BY <2>1, <2>2 DEF asked, Item
<1>3. CASE asked[j]
  <2>1. asked' = asked
    BY <1>2, <1>3 DEF asked, Asked, Item
  <2> QED
    BY <1>1, <2>1, Stutters DEF QueueJob, itemVars
<1>4. CASE ~asked[j]
  BY <1>1, <1>2, <1>4 DEF Contract!Ask, QueueJob, itemVars, asked, state
<1> QED
  BY <1>3, <1>4

\* RemoveDependency, whether or not it goes on to MaybeQueue, is Release.
LEMMA ReleaseMaps ==
    ASSUME IInv, NEW t \in Thread, NEW j \in Job, RemoveDependency(t, j)
    PROVE  Contract!Release(j)
<1>1. asked' = asked /\ state' = state
  BY SameAsked, SameState DEF RemoveDependency, itemVars
<1> QED
  BY <1>1 DEF Contract!Release, RemoveDependency, itemVars, asked, state

\* That a delayed store becomes visible is a stutter: the job was asked for already.
LEMMA DrainMaps ==
    ASSUME IInv, NEW t \in Thread, DrainBuffer(t)
    PROVE  UNCHANGED Contract!vars
<1> USE DEF IInv, TypeOK, JobTypeOK, ThreadTypeOK
<1>1. state' = state
  BY SameState DEF DrainBuffer, itemVars
<1>2. ASSUME NEW i \in Item
      PROVE  Asked(i)' = Asked(i)
  <2>1. CASE i \in Job /\ i = buffer[t]
    BY <2>1 DEF Asked, DrainBuffer
  <2>2. CASE i \in Job /\ i # buffer[t]
    <3>1. queued'[i] = queued[i] /\ \A u \in Thread : buffer'[u] = i <=> buffer[u] = i
      BY <2>2, SchedulerConstants DEF DrainBuffer
    <3> QED
      BY <2>2, <3>1 DEF Asked
  <2>3. CASE i \notin Job
    BY <2>3 DEF Asked, DrainBuffer, itemVars
  <2> QED
    BY <2>1, <2>2, <2>3
<1>3. asked' = asked
  BY <1>2 DEF asked
<1> QED
  BY <1>1, <1>3, Stutters DEF DrainBuffer, itemVars

\* A direct Submit is the contract's Ask of a fire-and-forget body.
LEMMA SubmitMaps ==
    ASSUME IInv, NEW t \in Thread, NEW i \in Raw, Submit(t, i)
    PROVE  Contract!Ask(i)
<1> USE DEF IInv, TypeOK, ItemTypeOK
<1>1. i \in Item /\ i \notin Job /\ phase[i] = "new" /\ phase' = [phase EXCEPT ![i] = "queued"]
  BY SchedulerConstants DEF Submit, Push, Item
<1>2. state' = state
  BY <1>1, SameState DEF Submit, jobVars
<1>3. ~asked[i] /\ asked' = [asked EXCEPT ![i] = TRUE]
  <2>1. ASSUME NEW k \in Item, k # i
        PROVE  Asked(k)' = Asked(k)
    BY <1>1, <2>1 DEF Asked, Submit, jobVars
  <2>2. ~Asked(i) /\ Asked(i)'
    BY <1>1 DEF Asked
  <2> QED
    BY <1>1, <2>1, <2>2 DEF asked, Asked
<1> QED
  BY <1>1, <1>2, <1>3 DEF Contract!Ask, Contract!Item, Submit, jobVars, asked, state, Item

\* PopLocked, on a worker or inside a wait, starts an item that the contract calls
\* ready and that never ran: Start.
LEMMA StartMaps ==
    ASSUME IInv, DoneInv, NEW t \in Thread, Pop(t)
    PROVE  \E i \in Item : Contract!Start(i)
<1> USE DEF IInv, TypeOK, ItemTypeOK
<1>0. PICK i \in Item : i = Head(queues[Served]) /\ phase[i] = "queued"
  BY PopItem DEF Pop
<1>1. /\ i \in Item /\ phase[i] = "queued"
      /\ phase' = [phase EXCEPT ![i] = "running"] /\ starts' = [starts EXCEPT ![i] = @ + 1]
      /\ UNCHANGED <<pending, queued, done, buffer>>
  BY <1>0 DEF Pop, jobVars
<1>2. starts[i] = 0 /\ starts' = [starts EXCEPT ![i] = 1]
  <2>1. starts[i] = 0
    BY <1>1 DEF StartsInv
  <2> QED
    BY <1>1, <2>1
<1>3. asked' = asked
  BY <1>1, SameAsked DEF Item
<1>4. i \in Job => ~done[i] /\ queued[i] /\ pending[i] = 0
  BY <1>1 DEF DoneInv, ReadyBeforeSubmit
<1>5. state[i] = "waiting" /\ state' = [state EXCEPT ![i] = "running"]
  <2>1. StateOf(i) = "waiting" /\ StateOf(i)' = "running"
    BY <1>1, <1>4 DEF StateOf
  <2>2. ASSUME NEW k \in Item, k # i
        PROVE  StateOf(k)' = StateOf(k)
    BY <1>1, <2>2 DEF StateOf
  <2> QED
    BY <1>1, <2>1, <2>2 DEF state
<1>6. asked[i] /\ (i \in Job => pending[i] = 0)
  BY <1>1, <1>4 DEF asked, Asked
<1>7. Contract!Start(i)
  BY <1>1, <1>2, <1>3, <1>5, <1>6 DEF Contract!Start, Contract!Ready, asked, state
<1> QED
  BY <1>1, <1>7

\* One item goes from running to done, or was done before.
LEMMA FinishMaps ==
    ASSUME NEW i \in Item, StateOf(i) \in {"running", "done"}, StateOf(i)' = "done",
           \A k \in Item \ {i} : StateOf(k)' = StateOf(k),
           UNCHANGED <<pending, starts, asked>>
    PROVE  Contract!Finish(i) \/ UNCHANGED Contract!vars
<1>1. state' = [state EXCEPT ![i] = "done"]
  BY DEF state
<1>2. CASE StateOf(i) = "running"
  BY <1>1, <1>2 DEF Contract!Finish, asked, state
<1>3. CASE StateOf(i) = "done"
  <2>1. state' = state
    BY <1>3 DEF state
  <2> QED
    BY <2>1, Stutters
<1> QED
  BY <1>2, <1>3

\* The wrapper sets `done`, which the contract sees as Finish; a raw body ends only
\* when it is retired.
LEMMA FinishBodyMaps ==
    ASSUME IInv, NEW t \in Thread, FinishBody(t)
    PROVE  UNCHANGED Contract!vars \/ \E i \in Item : Contract!Finish(i)
<1> USE DEF IInv, TypeOK, JobTypeOK
<1>1. UNCHANGED <<pending, queued, buffer, phase, starts>>
  BY DEF FinishBody, itemVars
<1>2. asked' = asked
  BY <1>1, SameAsked
<1>3. CASE UNCHANGED done
  <2>1. state' = state
    BY <1>1, <1>3, SameState
  <2> QED
    BY <1>1, <1>2, <2>1, Stutters
<1>4. ASSUME NEW i \in Job, i = Head(stack[t]).item, done' = [done EXCEPT ![i] = TRUE]
      PROVE  UNCHANGED Contract!vars \/ \E k \in Item : Contract!Finish(k)
  <2>1. i \in Item /\ phase[i] = "running"
    BY <1>4, HeadItem DEF FinishBody, Executes, ThreadInv, Item
  <2>2. StateOf(i) \in {"running", "done"} /\ StateOf(i)' = "done"
    BY <1>1, <1>4, <2>1 DEF StateOf
  <2>3. \A k \in Item \ {i} : StateOf(k)' = StateOf(k)
    BY <1>1, <1>4 DEF StateOf
  <2> QED
    BY <1>1, <1>2, <2>1, <2>2, <2>3, FinishMaps
<1> QED
  BY <1>3, <1>4 DEF FinishBody

\* RunItem's epilogue is Finish for a raw body and a stutter for a job.
LEMMA RetireMaps ==
    ASSUME IInv, NEW t \in Thread, Retire(t)
    PROVE  UNCHANGED Contract!vars \/ \E i \in Item : Contract!Finish(i)
<1> USE DEF IInv, TypeOK, ItemTypeOK
<1>1. PICK i \in Item : phase[i] = "running" /\ phase' = [phase EXCEPT ![i] = "retired"]
  BY HeadItem DEF Retire, ThreadInv
<1>2. UNCHANGED <<pending, queued, done, buffer, starts>>
  BY DEF Retire, jobVars
<1>3. asked' = asked
  BY <1>1, <1>2, SameAsked DEF Item
<1>4. StateOf(i) \in {"running", "done"} /\ StateOf(i)' = "done"
  BY <1>1 DEF StateOf
<1>5. \A k \in Item \ {i} : StateOf(k)' = StateOf(k)
  BY <1>1, <1>2 DEF StateOf
<1> QED
  BY <1>1, <1>2, <1>3, <1>4, <1>5, FinishMaps

\* The steps between a call and the pop are invisible to the contract.
LEMMA HiddenSteps ==
    ASSUME IInv,
           \/ Still /\ AskStill /\ UNCHANGED done
           \/ \E t \in Thread : \/ Claim(t) \/ SubmitJob(t) \/ LoadQueued(t) \/ LoadPending(t)
                                \/ \E j \in Job : FreeJob(t, j)
    PROVE  UNCHANGED Contract!vars
<1> USE DEF IInv, TypeOK, ItemTypeOK, jobVars, itemVars
<1>1. CASE Still /\ AskStill /\ UNCHANGED done
  <2>1. asked' = asked /\ state' = state
    BY <1>1, SameAsked, SameState DEF Still, AskStill
  <2> QED
    BY <1>1, <2>1, Stutters DEF Still, AskStill
<1>2. ASSUME NEW t \in Thread,
             LoadQueued(t) \/ LoadPending(t) \/ \E j \in Job : FreeJob(t, j)
      PROVE  UNCHANGED Contract!vars
  <2>1. UNCHANGED <<pending, queued, done, buffer, phase, starts>>
    BY <1>2 DEF LoadQueued, LoadPending, FreeJob, OnlyMoves, threadVars
  <2>2. asked' = asked /\ state' = state
    BY <2>1, SameAsked, SameState
  <2> QED
    BY <2>1, <2>2, Stutters
<1>3. ASSUME NEW t \in Thread, Claim(t) \/ SubmitJob(t)
      PROVE  UNCHANGED Contract!vars
  <2>1. arg[t] \in Job /\ arg[t] \notin Raw
    BY <1>3, SchedulerConstants DEF Claim, SubmitJob, ThreadInv, QueueingPc
  <2>2. /\ UNCHANGED <<pending, queued, done, buffer, starts>>
        /\ \/ phase' = phase
           \/ /\ phase[arg[t]] \in {"new", "claimed"}
              /\ \E p \in {"claimed", "queued"} : phase' = [phase EXCEPT ![arg[t]] = p]
    BY <1>3, <2>1 DEF Claim, SubmitJob, Push, SubmitInv, SeesSubmitted
  <2>3. asked' = asked /\ state' = state
    BY <2>1, <2>2, SameAsked, SameState DEF Item
  <2> QED
    BY <2>2, <2>3, Stutters
<1> QED
  BY <1>1, <1>2, <1>3

\* Every step of the scheduler is a step of the contract or a stutter.
LEMMA StepMaps ==
    ASSUME IInv, DoneInv, [Next]_vars
    PROVE  [Contract!Next]_(Contract!vars)
<1> USE CreateMaps, QueueMaps, ReleaseMaps, DrainMaps, SubmitMaps, StartMaps, FinishBodyMaps,
        RetireMaps, HiddenSteps DEF Contract!Next, Contract!Item, Item
<1>1. TypeOK /\ ThreadInv /\ ItemInv
  BY DEF IInv, ItemInv
<1>2. CASE UNCHANGED done
  BY <1>1, <1>2, ItemSteps, AskSteps
<1>3. CASE \E t \in Thread : FinishBody(t)
  BY <1>3
<1> QED
  BY <1>2, <1>3, DoneSteps

\* Initial states map to initial states.
LEMMA InitMaps == Init => Contract!Init /\ DoneInv
<1> SUFFICES ASSUME Init
             PROVE  Contract!Init /\ DoneInv
  OBVIOUS
<1>1. /\ \A i \in Item : phase[i] = "new"
      /\ \A j \in Job : ~queued[j] /\ ~done[j]
      /\ \A t \in Thread : buffer[t] = None
      /\ None \notin Job
  BY SchedulerConstants DEF Init
<1>2. \A i \in Item : Asked(i) = FALSE /\ StateOf(i) = "waiting"
  BY <1>1 DEF Asked, StateOf
<1> QED
  BY <1>1, <1>2 DEF Contract!Init, Contract!Item, Item, Init, DoneInv

\* Every run of the scheduler, for any pool, clients and jobs, is a run of the
\* contract: each body starts at most once, a job's only once it was queued and
\* released, a fire-and-forget body's only once it was submitted.
THEOREM Implements == Spec => ImplementsContract
<1>1. IInv /\ DoneInv /\ [Next]_vars => DoneInv'
  BY DoneStep
<1>2. Spec => []DoneInv
  BY InitMaps, Invariant, <1>1, PTL DEF Spec
<1>3. IInv /\ DoneInv /\ [Next]_vars => [Contract!Next]_(Contract!vars)
  BY StepMaps
<1> QED
  BY Invariant, InitMaps, <1>2, <1>3, PTL DEF Spec, ImplementsContract, Contract!Spec
=============================================================================
