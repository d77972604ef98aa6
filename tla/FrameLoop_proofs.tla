--------------------------- MODULE FrameLoop_proofs ---------------------------
(***************************************************************************)
(* The frame loop keeps the frame gate's promises for every number of      *)
(* frames in flight, every set of images and either present policy: a      *)
(* frame is built on a quiet slot, and a frame reported complete has       *)
(* finished.                                                               *)
(*                                                                         *)
(* Neither is inductive.  A fence does not know whose submission signaled  *)
(* it, so IInv says that the frames that run are among the last FIF, which *)
(* have different slots; the bound is strict from the acquire, which       *)
(* waited for the fence, to EndFrame, which advances the frame.            *)
(***************************************************************************)
EXTENDS FrameLoop, TLAPS, FiniteSetTheorems

-----------------------------------------------------------------------------
(* The frame gate: slots modulo FIF, and what a submission, its end and an *)
(* idle device do to the fences. *)

\* Quotient and remainder of a natural number: the lemmas below work with these.
LEMMA DivMod ==
    ASSUME NEW n \in Nat \ {0}, NEW a \in Nat
    PROVE  a \div n \in Int /\ a % n \in 0 .. n - 1 /\ a = n * (a \div n) + (a % n)
  BY SMT

\* A positive multiple of n is at least n.
LEMMA Times ==
    ASSUME NEW n \in Nat \ {0}, NEW k \in Int, k >= 1
    PROVE  n * k >= n
  BY SMT

\* The only multiple of n between -n and n is 0.
LEMMA Small ==
    ASSUME NEW n \in Nat \ {0}, NEW k \in Int, n * k < n, n * k > -n
    PROVE  k = 0
<1>1. k < 1
  BY Times
<1>2. -k < 1
  <2>1. n * (-k) = -(n * k)
    BY SMT
  <2>. QED BY <2>1, Times
<1>. QED BY <1>1, <1>2

\* Multiplication distributes over a difference: the solver is told so once.
LEMMA Dist ==
    ASSUME NEW n \in Int, NEW q \in Int, NEW p \in Int
    PROVE  n * (q - p) = n * q - n * p
  BY SMT

\* Two frames less than FIF apart have different slots.
LEMMA ModClose ==
    ASSUME NEW n \in Nat \ {0}, NEW a \in Nat, NEW b \in Nat, a < b, b - a < n
    PROVE  a % n # b % n
<1> SUFFICES ASSUME a % n = b % n PROVE FALSE
  OBVIOUS
<1>1. PICK q \in Int, p \in Int, r \in 0 .. n - 1 : b = n * q + r /\ a = n * p + r
  BY DivMod
<1>2. n * (q - p) = b - a
  BY <1>1, Dist
<1>3. q - p = 0
  BY <1>2, Small
<1>. QED BY <1>1, <1>3

\* A frame has the slot of the one FIF before it.
LEMMA ModPlus ==
    ASSUME NEW n \in Nat \ {0}, NEW a \in Nat
    PROVE  (a + n) % n = a % n
<1>1. PICK q \in Int, p \in Int, r \in 0 .. n - 1, s \in 0 .. n - 1 :
          a + n = n * q + r /\ a = n * p + s /\ r = (a + n) % n /\ s = a % n
  <2>1. a + n \in Nat
    OBVIOUS
  <2>. QED BY <2>1, DivMod
<1>2. n * ((q - p) - 1) = s - r
  <2>1. n * ((q - p) - 1) = n * (q - p) - n * 1
    BY Dist
  <2>2. n * (q - p) = n * q - n * p
    BY Dist
  <2>3. n * q \in Int /\ n * p \in Int
    OBVIOUS
  <2>. QED BY <2>1, <2>2, <1>1, <2>3
<1>3. (q - p) - 1 = 0
  BY <1>2, Small
<1>4. n * ((q - p) - 1) = 0
  BY <1>3
<1>. QED BY <1>1, <1>2, <1>4

\* The slot of a frame is an index of the fences and of the record.
LEMMA SlotRange ==
    ASSUME FIF \in Nat \ {0}, NEW f \in Nat
    PROVE  Slot(f) \in 0 .. FIF - 1
  BY DivMod DEF Slot

\* Frames that may run at one time have different slots.
LEMMA SlotsDiffer ==
    ASSUME FIF \in Nat \ {0}, NEW f \in Nat, NEW g \in Nat, f # g,
           f - g < FIF, g - f < FIF
    PROVE  Slot(f) # Slot(g)
<1>1. CASE f < g
  <2>1. f % FIF # g % FIF
    BY <1>1, ModClose
  <2>. QED BY <2>1 DEF Slot
<1>2. CASE g < f
  <2>1. g % FIF # f % FIF
    BY <1>2, ModClose
  <2>. QED BY <2>1 DEF Slot
<1>. QED BY <1>1, <1>2

\* AcquireNextImage: once the fence of the frame's slot is signaled, the frame
\* that used the slot before it has finished.
LEMMA AfterWait ==
    ASSUME FIF \in Nat \ {0}, GateTypeOK, FencesExact, FenceWaited,
           NEW g \in running, g >= frame - FIF
    PROVE  g > frame - FIF
<1>1. frame \in Nat /\ g \in Nat
  BY DEF GateTypeOK
<1> SUFFICES ASSUME g + FIF = frame PROVE FALSE
  BY <1>1
<1>2. Slot(frame) = Slot(g)
  BY <1>1, ModPlus DEF Slot
<1>3. fence[Slot(frame)] /\ Slot(frame) \in 0 .. FIF - 1
  BY <1>1, SlotRange DEF FenceWaited, Signaled
<1>. QED BY <1>2, <1>3 DEF FencesExact

\* SubmitFrame: the fence it resets is that of the slot whose frame runs now.
LEMMA SubmitKeeps ==
    ASSUME FIF \in Nat \ {0}, GateTypeOK, FencesExact,
           NEW success \in BOOLEAN, Submit(success), frame' \in Nat, frame' >= frame
    PROVE  GateTypeOK' /\ FencesExact'
<1>1. frame \in Nat /\ Slot(frame) \in 0 .. FIF - 1
  BY SlotRange DEF GateTypeOK
<1>2. GateTypeOK'
  BY <1>1 DEF GateTypeOK, Submit
<1>3. ASSUME NEW s \in 0 .. FIF - 1
      PROVE  fence'[s] <=> \A g \in running' : Slot(g) # s
  <2>1. CASE s = Slot(frame)
    BY <1>1, <2>1 DEF Submit, GateTypeOK
  <2>2. CASE s # Slot(frame)
    <3>1. fence'[s] = fence[s]
      BY <2>2 DEF Submit, GateTypeOK
    <3>2. (\A g \in running' : Slot(g) # s) <=> (\A g \in running : Slot(g) # s)
      BY <2>2 DEF Submit
    <3>. QED BY <3>1, <3>2 DEF FencesExact
  <2>. QED BY <2>1, <2>2
<1>. QED BY <1>2, <1>3 DEF FencesExact, Slot

\* The fence that the end of a submission signals is not that of another one:
\* the frames that run are less than FIF apart.
LEMMA FinishKeeps ==
    ASSUME FIF \in Nat \ {0}, GateTypeOK, FencesExact, NEW f, Finish(f),
           \A g \in running : f - g < FIF /\ g - f < FIF
    PROVE  GateTypeOK' /\ FencesExact'
<1>1. f \in Nat /\ f \in running /\ running \subseteq Nat /\ Slot(f) \in 0 .. FIF - 1
  BY SlotRange DEF GateTypeOK, Finish
<1>2. GateTypeOK'
  BY <1>1 DEF GateTypeOK, Finish
<1>3. ASSUME NEW s \in 0 .. FIF - 1
      PROVE  fence'[s] <=> \A g \in running' : Slot(g) # s
  <2>1. CASE s = Slot(f)
    <3>1. fence'[s] = TRUE
      BY <2>1 DEF Finish, GateTypeOK
    <3>2. ASSUME NEW g \in running' PROVE Slot(g) # s
      <4>1. g \in Nat /\ g # f /\ f - g < FIF /\ g - f < FIF
        BY <1>1 DEF Finish
      <4>. QED BY <4>1, <1>1, <2>1, SlotsDiffer
    <3>. QED BY <3>1, <3>2
  <2>2. CASE s # Slot(f)
    <3>1. fence'[s] = fence[s]
      BY <2>2 DEF Finish, GateTypeOK
    <3>2. (\A g \in running' : Slot(g) # s) <=> (\A g \in running : Slot(g) # s)
      BY <2>2 DEF Finish
    <3>. QED BY <3>1, <3>2 DEF FencesExact
  <2>. QED BY <2>1, <2>2
<1>. QED BY <1>2, <1>3 DEF FencesExact, Slot

\* WaitDeviceIdle: nothing runs and every fence is signaled.
LEMMA IdleKeeps ==
    ASSUME GateTypeOK, Idle
    PROVE  GateTypeOK' /\ FencesExact'
<1>1. fence' = [s \in 0 .. FIF - 1 |-> TRUE]
  BY DEF GateTypeOK, Idle
<1>. QED BY <1>1 DEF GateTypeOK, FencesExact, Idle, Slot

\* Nothing but submissions, their ends and an idle device touches a fence.
LEMMA SameKeeps ==
    ASSUME GateTypeOK, FencesExact, UNCHANGED gpuVars, frame' \in Nat, frame' >= frame
    PROVE  GateTypeOK' /\ FencesExact'
  BY DEF GateTypeOK, FencesExact, gpuVars, Slot

\* A frame reported complete has finished, whatever its slot's record says.
LEMMA CompleteFinished ==
    ASSUME FIF \in Nat \ {0}, GateTypeOK, FencesExact
    PROVE  CompleteHasFinished
<1> SUFFICES ASSUME NEW f \in 0 .. frame, IsFrameComplete(f), f \in running
             PROVE FALSE
  BY DEF CompleteHasFinished
<1>1. f \in Nat /\ Slot(f) \in 0 .. FIF - 1
  BY SlotRange DEF GateTypeOK
<1>2. fence[Slot(f)]
  BY DEF IsFrameComplete, Signaled
<1>. QED BY <1>1, <1>2 DEF FencesExact

-----------------------------------------------------------------------------
\* The number of frames in flight, from the assumptions on the constants.
LEMMA FifPositive == FIF \in Nat \ {0}
  BY GateConstants

\* The initial state: nothing runs, every fence was created signaled.
LEMMA InitIInv == Init => IInv
<1> SUFFICES ASSUME Init PROVE IInv
  OBVIOUS
<1> USE DEF Init, GateInit
<1>1. GateTypeOK
  BY FifPositive DEF GateTypeOK
<1>2. TypeOK
  <2>1. pending \in Seq(Pending)
    OBVIOUS
  <2>2. images \in [Image -> {"free", "held", "shown"}] /\ swapchain \in 0 .. MaxSwapchains
    BY LoopConstants
  <2>3. discardStale \in BOOLEAN /\ minimized \in BOOLEAN /\ outOfDate \in BOOLEAN
    BY LoopConstants, Zenon
  <2> QED BY <1>1, <2>1, <2>2, <2>3 DEF TypeOK, Stage
<1>3. FencesExact /\ RunningRecent(Built, Submitted)
  BY DEF FencesExact, RunningRecent
<1> QED BY <1>2, <1>3 DEF IInv, Built

-----------------------------------------------------------------------------
(* The parts of the gate under the loop's actions *)

\* Frames that run are less than FIF apart.
LEMMA RunningClose ==
    ASSUME IInv, NEW f \in running, NEW g \in running
    PROVE  f - g < FIF /\ g - f < FIF
<1>1. f \in Nat /\ g \in Nat /\ frame \in Nat
  BY DEF IInv, TypeOK, GateTypeOK
<1>2. CASE stage \in Built
  BY <1>1, <1>2, FifPositive DEF IInv, RunningRecent
<1>3. CASE stage \notin Built
  BY <1>1, <1>3, FifPositive DEF IInv, RunningRecent, Built, Submitted
<1> QED BY <1>2, <1>3

\* The gate's types and fences, whatever the step.
LEMMA GateStep ==
    ASSUME IInv, Next
    PROVE  GateTypeOK' /\ FencesExact'
<1>1. GateTypeOK /\ FencesExact /\ frame \in Nat
  BY DEF IInv, TypeOK, GateTypeOK
<1>2. ASSUME UNCHANGED gpuVars, frame' \in {frame, frame + 1}
      PROVE  GateTypeOK' /\ FencesExact'
  BY <1>1, <1>2, SameKeeps
<1>3. CASE Test
  BY <1>2, <1>3 DEF Test
<1>4. CASE Begin
  BY <1>2, <1>4 DEF Begin
<1>5. CASE Drain
  BY <1>2, <1>5 DEF Drain
<1>6. CASE Recreate
  BY <1>1, <1>6, IdleKeeps DEF Recreate
<1>7. CASE Acquire
  BY <1>2, <1>7 DEF Acquire
<1>8. CASE AcquireFails
  BY <1>2, <1>8 DEF AcquireFails
<1>9. CASE \E success \in BOOLEAN : SubmitFrame(success)
  <2>1. PICK success \in BOOLEAN : Submit(success) /\ frame' = frame
    BY <1>9 DEF SubmitFrame
  <2> QED BY <1>1, <2>1, FifPositive, SubmitKeeps
<1>10. CASE Present
  BY <1>2, <1>10 DEF Present
<1>11. CASE EndFrame
  BY <1>2, <1>11 DEF EndFrame
<1>12. CASE RequestShutdown
  BY <1>2, <1>12 DEF RequestShutdown, gateVars
<1>13. CASE GpuFinishes
  <2>1. PICK f \in running : Finish(f)
    BY <1>13 DEF GpuFinishes
  <2> QED BY <1>1, <2>1, FifPositive, RunningClose, FinishKeeps
<1>14. CASE \E i \in Image : Release(i)
  BY <1>2, <1>14 DEF Release, gateVars
<1> QED
  BY <1>3, <1>4, <1>5, <1>6, <1>7, <1>8, <1>9, <1>10, <1>11, <1>12, <1>13, <1>14
  DEF Next, Loop

\* Where running frames lie, under each step.  Only four steps move the bounds:
\* the acquire, the submission, the end of the frame, and the end of a submission.
LEMMA RecentStep ==
    ASSUME IInv, Next
    PROVE  RunningRecent(Built, Submitted)'
<1> DEFINE R == RunningRecent(Built, Submitted)
<1>1. R /\ GateTypeOK /\ FencesExact /\ frame \in Nat /\ running \subseteq Nat
  BY DEF IInv, TypeOK, GateTypeOK
<1>2. ASSUME frame' = frame, running' \subseteq running,
             stage' \in Built => stage \in Built,
             stage \in Submitted => stage' \in Submitted
      PROVE  R'
  BY <1>1, <1>2 DEF RunningRecent, Built, Submitted
<1>3. CASE Test
  BY <1>2, <1>3 DEF Test, gpuVars, Built, Submitted
<1>4. CASE Begin
  BY <1>2, <1>4 DEF Begin, gpuVars, Built, Submitted
<1>5. CASE Drain
  BY <1>2, <1>5 DEF Drain, gpuVars, Built, Submitted
<1>6. CASE Recreate
  BY <1>2, <1>6 DEF Recreate, Idle, Built, Submitted
<1>7. CASE Acquire
  <2>1. FenceWaited /\ stage' = "update" /\ stage = "bootstrap"
        /\ frame' = frame /\ running' = running
    BY <1>7 DEF Acquire, gpuVars
  <2>2. ASSUME NEW g \in running
        PROVE  g <= frame /\ g # frame /\ g > frame - FIF
    BY <1>1, <2>1, <2>2, FifPositive, AfterWait DEF RunningRecent, Submitted
  <2> QED BY <2>1, <2>2, <1>1, FifPositive DEF RunningRecent
<1>8. CASE AcquireFails
  BY <1>2, <1>8 DEF AcquireFails, gpuVars, Built, Submitted
<1>9. CASE \E success \in BOOLEAN : SubmitFrame(success)
  <2>1. /\ running' = running \cup {frame} /\ frame' = frame
        /\ stage = "update" /\ stage' \in Submitted
    BY <1>9 DEF SubmitFrame, Submit, Submitted
  <2> QED BY <1>1, <2>1, FifPositive DEF RunningRecent, Built, Submitted
<1>10. CASE Present
  BY <1>2, <1>10 DEF Present, gpuVars, Built, Submitted
<1>11. CASE EndFrame
  <2>1. /\ running' = running /\ frame' = frame + 1
        /\ stage = "end" /\ stage' = "test"
    BY <1>11 DEF EndFrame, gpuVars
  <2> QED BY <1>1, <2>1, FifPositive DEF RunningRecent, Built, Submitted
<1>12. CASE RequestShutdown
  BY <1>2, <1>12 DEF RequestShutdown, gateVars, gpuVars
<1>13. CASE GpuFinishes
  BY <1>2, <1>13 DEF GpuFinishes, Finish
<1>14. CASE \E i \in Image : Release(i)
  BY <1>2, <1>14 DEF Release, gateVars, gpuVars
<1> QED
  BY <1>3, <1>4, <1>5, <1>6, <1>7, <1>8, <1>9, <1>10, <1>11, <1>12, <1>13, <1>14
  DEF Next, Loop

-----------------------------------------------------------------------------
\* The loop's own variables: an image is at hand while a frame is built, so a
\* deferred present names one.
LEMMA LoopTypeStep ==
    ASSUME IInv, Next
    PROVE  /\ stage' \in Stage /\ status' \in {"Ok", "ShutdownRequested"}
           /\ discardStale' \in BOOLEAN /\ minimized' \in BOOLEAN /\ outOfDate' \in BOOLEAN
           /\ swapchain' \in 0 .. MaxSwapchains
           /\ images' \in [Image -> {"free", "held", "shown"}]
           /\ image' \in Image \cup {None} /\ pending' \in Seq(Pending)
           /\ stage' \in Built => image' \in Image
<1> DEFINE Flags == /\ discardStale \in BOOLEAN /\ minimized \in BOOLEAN
                    /\ outOfDate \in BOOLEAN
           Rest == /\ stage \in Stage /\ status \in {"Ok", "ShutdownRequested"}
                   /\ swapchain \in 0 .. MaxSwapchains
                   /\ images \in [Image -> {"free", "held", "shown"}]
                   /\ image \in Image \cup {None} /\ pending \in Seq(Pending)
                   /\ stage \in Built => image \in Image
<1>1. Flags /\ Rest /\ frame \in Nat /\ MaxSwapchains \in Nat
  BY LoopConstants DEF IInv, TypeOK, GateTypeOK
<1> SUFFICES Flags' /\ Rest'
  OBVIOUS
<1>2. CASE Test
  <2>1. Flags'
    BY <1>1, <1>2, Zenon DEF Test
  <2> QED BY <1>1, <1>2, <2>1 DEF Test, Stage, Built
<1>3. CASE Begin
  <2>1. Flags'
    BY <1>1, <1>3, Zenon DEF Begin
  <2> QED BY <1>1, <1>3, <2>1 DEF Begin, StatusAfterBegin, Stage, Built
<1>4. CASE Drain
  <2>1. Flags'
    BY <1>1, <1>4, Zenon DEF Drain
  <2>2. /\ UNCHANGED <<status, swapchain, image>> /\ stage' \in {"drain", "bootstrap"}
    BY <1>4 DEF Drain
  <2>3. pending' \in Seq(Pending)
    BY <1>1, <1>4 DEF Drain
  <2>4. images' \in [Image -> {"free", "held", "shown"}]
    BY <1>1, <1>4 DEF Drain, Show
  <2> QED BY <1>1, <2>1, <2>2, <2>3, <2>4 DEF Stage, Built
<1>5. CASE Recreate
  <2>1. Flags'
    BY <1>1, <1>5, Zenon DEF Recreate
  <2>2. swapchain' \in 0 .. MaxSwapchains
    <3>1. swapchain < MaxSwapchains /\ swapchain' \in {swapchain, swapchain + 1}
      BY <1>5, Zenon DEF Recreate
    <3> QED BY <1>1, <3>1
  <2>3. images' \in [Image -> {"free", "held", "shown"}]
    BY <1>1, <1>5 DEF Recreate
  <2>4. UNCHANGED <<status, image, pending>> /\ stage' \in {"test", "failed"}
    BY <1>5 DEF Recreate
  <2> QED BY <1>1, <2>1, <2>2, <2>3, <2>4 DEF Stage, Built
<1>6. CASE Acquire
  <2>1. Flags'
    BY <1>1, <1>6, Zenon DEF Acquire
  <2> QED BY <1>1, <1>6, <2>1 DEF Acquire, Stage, Built
<1>7. CASE AcquireFails
  <2>1. Flags'
    BY <1>1, <1>7, Zenon DEF AcquireFails
  <2> QED BY <1>1, <1>7, <2>1 DEF AcquireFails, Stage, Built
<1>8. CASE \E success \in BOOLEAN : SubmitFrame(success)
  <2>1. PICK success \in BOOLEAN : SubmitFrame(success)
    BY <1>8
  <2>2. Flags'
    BY <1>1, <2>1, Zenon DEF SubmitFrame
  <2>3. /\ UNCHANGED <<status, swapchain, images, image>>
        /\ stage = "update" /\ stage' \in {"present", "end"}
    BY <2>1 DEF SubmitFrame
  <2>4. Pushed \in Pending
    BY <1>1, <2>3 DEF Pushed, Pending, Built, TypeOK
  <2>5. pending' \in Seq(Pending)
    BY <1>1, <2>1, <2>4 DEF SubmitFrame, Deferred
  <2> QED BY <1>1, <2>2, <2>3, <2>5 DEF Stage, Built
<1>9. CASE Present
  <2>1. Flags'
    BY <1>1, <1>9, Zenon DEF Present
  <2> QED BY <1>1, <1>9, <2>1 DEF Present, Show, Stage, Built
<1>10. CASE EndFrame
  <2>1. Flags'
    BY <1>1, <1>10, Zenon DEF EndFrame
  <2> QED BY <1>1, <1>10, <2>1 DEF EndFrame, Stage, Built
<1>11. CASE RequestShutdown
  <2>1. Flags'
    BY <1>1, <1>11, Zenon DEF RequestShutdown
  <2> QED BY <1>1, <1>11, <2>1 DEF RequestShutdown, gateVars
<1>12. CASE GpuFinishes
  <2>1. Flags'
    BY <1>1, <1>12, Zenon DEF GpuFinishes, loopVars
  <2> QED BY <1>1, <1>12, <2>1 DEF GpuFinishes, Finish, loopVars
<1>13. CASE \E i \in Image : Release(i)
  <2>1. Flags'
    BY <1>1, <1>13, Zenon DEF Release
  <2> QED BY <1>1, <1>13, <2>1 DEF Release, gateVars
<1> QED
  BY <1>2, <1>3, <1>4, <1>5, <1>6, <1>7, <1>8, <1>9, <1>10, <1>11, <1>12, <1>13
  DEF Next, Loop

\* Every step preserves the inductive invariant.
LEMMA StepIInv == IInv /\ [Next]_vars => IInv'
<1> SUFFICES ASSUME IInv, [Next]_vars PROVE IInv'
  OBVIOUS
<1>1. CASE Next
  BY <1>1, GateStep, RecentStep, LoopTypeStep DEF IInv, TypeOK
<1>2. CASE UNCHANGED vars
  BY <1>2 DEF IInv, TypeOK, GateTypeOK, FencesExact, RunningRecent, Slot,
              vars, gateVars, gpuVars, loopVars
<1> QED BY <1>1, <1>2

\* The inductive invariant holds in every reachable state.
LEMMA Inductive == Spec => []IInv
  BY InitIInv, StepIInv, PTL DEF Spec

-----------------------------------------------------------------------------
\* Types of the loop and of the gate: in particular a present is deferred only
\* with an image that was acquired.
THEOREM TypeCorrect == Spec => []TypeOK
<1>1. IInv => TypeOK
  BY DEF IInv
<1> QED BY <1>1, Inductive, PTL

\* AcquireNextImage's wait suffices: while the hooks build frame f, no frame of
\* its slot and none of FIF or more frames before it runs, whatever acquires,
\* presents, renders and recreations failed before.
THEOREM BuiltOnQuietSlots == Spec => []BuildsOnQuietSlot
<1>1. IInv => BuildsOnQuietSlot
  BY DEF IInv, RunningRecent, BuildsOnQuietSlot, SlotQuiet, Built
<1> QED BY <1>1, Inductive, PTL

\* IsFrameComplete never reports a frame that still runs, although it may read
\* the record and the fence of a later frame of the slot.
THEOREM CompleteIsFinished == Spec => []CompleteHasFinished
<1>1. IInv => CompleteHasFinished
  BY FifPositive, CompleteFinished DEF IInv, TypeOK
<1> QED BY <1>1, Inductive, PTL
-----------------------------------------------------------------------------
(* No image is forgotten.  ImagesAccounted is not inductive: the image of a *)
(* dropped frame is still the frame's own until EndFrame, which disturbs    *)
(* nothing but the frame's number.  ImageInv counts it from the submission. *)

Held == {i \in Image : images[i] = "held"}
Waiting == {pending[k].image : k \in {m \in 1 .. Len(pending) :
                                        pending[m].swapchain = swapchain}}
Own == IF stage \in {"update", "present"} THEN {image} ELSE {}
Forgotten == Held \ (Waiting \cup Own)

\* Each image that nobody will present is that of another dropped frame, and
\* the current frame is not dropped before its submission.
ImageInv ==
    /\ \A f \in dropped : f < frame \/ stage \in Submitted
    /\ Cardinality(Forgotten) <= Cardinality(dropped)

\* What ImageInv counts is finite.
LEMMA ImagesFinite ==
    ASSUME IInv
    PROVE  /\ IsFiniteSet(Forgotten) /\ IsFiniteSet(dropped)
           /\ Cardinality(Forgotten) \in Nat /\ Cardinality(dropped) \in Nat
<1>1. frame \in Nat /\ dropped \subseteq 0 .. frame
  BY DEF IInv, TypeOK, GateTypeOK
<1>2. IsFiniteSet(dropped)
  <2>1. IsFiniteSet(0 .. frame)
    BY <1>1, FS_Interval
  <2> QED BY <1>1, <2>1, FS_Subset
<1>3. IsFiniteSet(Forgotten)
  BY LoopConstants, FS_Subset DEF Forgotten, Held
<1> QED BY <1>2, <1>3, FS_CardinalityType

\* Which images wait after a present was deferred, or the first one was made.
LEMMA DeferredWaits ==
    ASSUME IInv, NEW p \in Pending, pending' = Append(pending, p), swapchain' = swapchain
    PROVE  /\ Waiting \subseteq Waiting'
           /\ p.swapchain = swapchain => p.image \in Waiting'
<1> DEFINE n == Len(pending)
<1>1. /\ pending \in Seq(Pending) /\ n \in Nat /\ Len(pending') = n + 1
      /\ pending'[n + 1] = p /\ \A k \in 1 .. n : pending'[k] = pending[k]
  BY DEF IInv, TypeOK
<1>2. ASSUME NEW k \in 1 .. n, pending[k].swapchain = swapchain
      PROVE  pending[k].image \in Waiting'
  <2>1. k \in 1 .. Len(pending') /\ pending'[k] = pending[k]
    BY <1>1
  <2> QED BY <1>2, <2>1 DEF Waiting
<1>3. ASSUME p.swapchain = swapchain PROVE p.image \in Waiting'
  <2>1. n + 1 \in 1 .. Len(pending') /\ pending'[n + 1].swapchain = swapchain'
    BY <1>1, <1>3
  <2> QED BY <1>1, <2>1 DEF Waiting
<1> QED BY <1>2, <1>3 DEF Waiting

LEMMA ShownWaits ==
    ASSUME IInv, pending # <<>>, pending' = Tail(pending), swapchain' = swapchain
    PROVE  Waiting \subseteq Waiting' \cup {Head(pending).image}
<1> DEFINE n == Len(pending)
<1>1. /\ pending \in Seq(Pending) /\ n \in Nat /\ Len(pending') = n - 1 /\ n > 0
      /\ Head(pending) = pending[1]
      /\ \A k \in 1 .. n - 1 : pending'[k] = pending[k + 1]
  BY DEF IInv, TypeOK
<1>2. ASSUME NEW k \in 1 .. n, pending[k].swapchain = swapchain, k # 1
      PROVE  pending[k].image \in Waiting'
  <2>1. k - 1 \in 1 .. Len(pending') /\ pending'[k - 1] = pending[k]
    <3>1. k - 1 \in 1 .. n - 1 /\ (k - 1) + 1 = k
      BY <1>1, <1>2
    <3> QED BY <1>1, <3>1
  <2> QED BY <1>2, <2>1 DEF Waiting
<1> QED BY <1>1, <1>2 DEF Waiting

\* A step that lets nothing be forgotten, and drops no frame.
LEMMA NothingForgotten ==
    ASSUME IInv, ImageInv, dropped' = dropped, Forgotten' \subseteq Forgotten,
           \A f \in dropped : f < frame' \/ stage' \in Submitted
    PROVE  ImageInv'
<1>1. /\ IsFiniteSet(Forgotten) /\ Cardinality(Forgotten) \in Nat
      /\ Cardinality(dropped) \in Nat
  BY ImagesFinite
<1>2. Cardinality(Forgotten') <= Cardinality(Forgotten) /\ IsFiniteSet(Forgotten')
  BY <1>1, FS_Subset
<1>3. Cardinality(Forgotten') \in Nat
  BY <1>2, FS_CardinalityType
<1>4. Cardinality(Forgotten)' <= Cardinality(dropped)'
  BY <1>1, <1>2, <1>3 DEF ImageInv
<1> QED BY <1>4 DEF ImageInv

\* The same step by step: only the submission of a frame that failed to render
\* gives an image up, and it drops the frame.
LEMMA SubmitImages ==
    ASSUME IInv, ImageInv, NEW success \in BOOLEAN, SubmitFrame(success)
    PROVE  ImageInv'
<1>1. /\ frame \in Nat /\ stage = "update" /\ stage' \in {"present", "end"}
      /\ UNCHANGED <<frame, swapchain, images, image>> /\ image \in Image
      /\ dropped' = IF success THEN dropped ELSE dropped \cup {frame}
      /\ frame \notin dropped
  BY DEF SubmitFrame, Submit, IInv, TypeOK, GateTypeOK, ImageInv, Submitted, Built
<1>2. \A f \in dropped' : f < frame' \/ stage' \in Submitted
  BY <1>1 DEF Submitted
<1>3. Held' = Held /\ Own = {image}
  BY <1>1 DEF Held, Own
<1>4. CASE success /\ ~discardStale
  <2>1. stage' = "present" /\ pending' = pending
    BY <1>4 DEF SubmitFrame, Deferred
  <2>2. Forgotten' = Forgotten
    BY <1>1, <1>3, <2>1 DEF Forgotten, Waiting, Own
  <2> QED BY <1>1, <1>2, <1>4, <2>2, NothingForgotten
<1>5. CASE success /\ discardStale
  <2>1. pending' = Append(pending, Pushed)
    BY <1>5 DEF SubmitFrame, Deferred
  <2>2. Pushed \in Pending /\ Pushed.swapchain = swapchain /\ Pushed.image = image
    BY <1>1 DEF Pushed, Pending, IInv, TypeOK
  <2>3. Waiting \cup Own \subseteq Waiting'
    BY <1>1, <1>3, <2>1, <2>2, DeferredWaits
  <2>4. Forgotten' \subseteq Forgotten
    BY <1>3, <2>3 DEF Forgotten
  <2> QED BY <1>1, <1>2, <1>5, <2>4, NothingForgotten
<1>6. CASE ~ success
  <2>1. pending' = pending /\ dropped' = dropped \cup {frame}
    BY <1>1, <1>6 DEF SubmitFrame, Deferred
  <2>2. Waiting' = Waiting
    BY <1>1, <2>1 DEF Waiting
  <2>3. Forgotten' \subseteq Forgotten \cup {image}
    BY <1>3, <2>2 DEF Forgotten
  <2>4. /\ IsFiniteSet(Forgotten) /\ IsFiniteSet(dropped)
        /\ Cardinality(Forgotten) \in Nat /\ Cardinality(dropped) \in Nat
    BY ImagesFinite
  <2>5. Cardinality(dropped') = Cardinality(dropped) + 1
    BY <1>1, <2>1, <2>4, FS_AddElement
  <2>6. /\ IsFiniteSet(Forgotten \cup {image})
        /\ Cardinality(Forgotten \cup {image}) <= Cardinality(Forgotten) + 1
        /\ Cardinality(Forgotten \cup {image}) \in Nat
    <3>1. /\ IsFiniteSet(Forgotten \cup {image})
          /\ \/ Cardinality(Forgotten \cup {image}) = Cardinality(Forgotten)
             \/ Cardinality(Forgotten \cup {image}) = Cardinality(Forgotten) + 1
      BY <2>4, FS_AddElement
    <3> QED BY <2>4, <3>1
  <2>7. /\ Cardinality(Forgotten') <= Cardinality(Forgotten \cup {image})
        /\ IsFiniteSet(Forgotten')
    BY <2>3, <2>6, FS_Subset
  <2>8. Cardinality(Forgotten') \in Nat
    BY <2>7, FS_CardinalityType
  <2>9. Cardinality(Forgotten)' <= Cardinality(dropped)'
    BY <2>4, <2>5, <2>6, <2>7, <2>8 DEF ImageInv
  <2> QED BY <1>2, <2>9 DEF ImageInv
<1> QED BY <1>4, <1>5, <1>6

\* No step forgets an image without dropping a frame.
LEMMA ImageStep ==
    ASSUME IInv, ImageInv, [Next]_vars
    PROVE  ImageInv'
<1>1. /\ frame \in Nat /\ dropped \subseteq 0 .. frame /\ pending \in Seq(Pending)
      /\ images \in [Image -> {"free", "held", "shown"}]
      /\ image \in Image \cup {None} /\ (stage \in Built => image \in Image)
      /\ \A f \in dropped : f < frame \/ stage \in Submitted
  BY DEF IInv, TypeOK, GateTypeOK, ImageInv
<1>2. ASSUME dropped' = dropped, frame' = frame, Forgotten' \subseteq Forgotten,
             stage \in Submitted => stage' \in Submitted
      PROVE  ImageInv'
  BY <1>1, <1>2, NothingForgotten
<1>3. ASSUME UNCHANGED <<dropped, frame, swapchain, images, pending>>,
             stage' \notin {"update", "present"}, stage \notin {"update", "present"}
      PROVE  Forgotten' = Forgotten
  BY <1>3 DEF Forgotten, Held, Waiting, Own
<1>4. CASE Test
  <2>1. /\ UNCHANGED <<dropped, frame, swapchain, images, pending>>
        /\ stage = "test" /\ stage' \in {"left", "begin"}
    BY <1>4 DEF Test, gpuVars
  <2> QED BY <1>2, <1>3, <2>1 DEF Submitted
<1>5. CASE Begin
  <2>1. /\ UNCHANGED <<dropped, frame, swapchain, images, pending>>
        /\ stage = "begin" /\ stage' \in {"test", "drain", "bootstrap"}
    BY <1>5 DEF Begin, gpuVars
  <2> QED BY <1>2, <1>3, <2>1 DEF Submitted
<1>6. CASE Drain
  <2>1. /\ UNCHANGED <<dropped, frame, swapchain>>
        /\ stage = "drain" /\ stage' \in {"drain", "bootstrap"}
    BY <1>6 DEF Drain, gpuVars
  <2>2. CASE pending' = pending /\ images' = images
    BY <1>2, <1>3, <2>1, <2>2 DEF Submitted
  <2>3. CASE pending # <<>> /\ Show(Head(pending).image) /\ pending' \in {pending, Tail(pending)}
    <3>1. Head(pending).image \notin Held' /\ Held' \subseteq Held
      BY <1>1, <2>3 DEF Show, Held
    <3>2. Waiting \subseteq Waiting' \cup {Head(pending).image}
      <4>1. CASE pending' = pending
        BY <2>1, <4>1 DEF Waiting
      <4>2. CASE pending' = Tail(pending)
        BY <2>1, <2>3, <4>2, ShownWaits
      <4> QED BY <2>3, <4>1, <4>2
    <3>3. Own = {} /\ Own' = {}
      BY <2>1 DEF Own
    <3>4. Forgotten' \subseteq Forgotten
      BY <3>1, <3>2, <3>3 DEF Forgotten
    <3> QED BY <1>2, <2>1, <3>4 DEF Submitted
  <2> QED BY <1>6, <2>2, <2>3 DEF Drain
<1>7. CASE Recreate
  <2>1. /\ UNCHANGED <<dropped, frame, pending>>
        /\ stage = "bootstrap" /\ stage' \in {"test", "failed"}
        /\ \/ UNCHANGED <<swapchain, images>>
           \/ images' = [i \in Image |-> "free"]
    BY <1>7 DEF Recreate, Idle
  <2>2. CASE UNCHANGED <<swapchain, images>>
    BY <1>2, <1>3, <2>1, <2>2 DEF Submitted
  <2>3. CASE images' = [i \in Image |-> "free"]
    BY <1>2, <2>1, <2>3 DEF Forgotten, Held, Submitted
  <2> QED BY <2>1, <2>2, <2>3
<1>8. CASE Acquire
  <2>1. /\ UNCHANGED <<dropped, frame, swapchain, pending>>
        /\ stage = "bootstrap" /\ stage' = "update"
    BY <1>8 DEF Acquire, gpuVars
  <2>2. PICK i \in Image : image' = i /\ images' = [images EXCEPT ![i] = "held"]
    BY <1>8 DEF Acquire
  <2>3. Held' \subseteq Held \cup {i} /\ Own = {} /\ Own' = {i} /\ Waiting' = Waiting
    BY <1>1, <2>1, <2>2 DEF Held, Own, Waiting
  <2> QED BY <1>2, <2>1, <2>3 DEF Forgotten, Submitted
<1>9. CASE AcquireFails
  <2>1. /\ UNCHANGED <<dropped, frame, swapchain, images, pending>>
        /\ stage = "bootstrap" /\ stage' = "test"
    BY <1>9 DEF AcquireFails, gpuVars
  <2> QED BY <1>2, <1>3, <2>1 DEF Submitted
<1>10. CASE \E success \in BOOLEAN : SubmitFrame(success)
  BY <1>10, SubmitImages
<1>11. CASE Present
  <2>1. /\ UNCHANGED <<dropped, frame, swapchain, pending, image>>
        /\ stage = "present" /\ stage' = "end" /\ Show(image) /\ image \in Image
    BY <1>1, <1>11 DEF Present, gpuVars, Built
  <2>2. Held' = Held \ {image} /\ Own = {image} /\ Own' = {} /\ Waiting' = Waiting
    BY <1>1, <2>1 DEF Held, Own, Waiting, Show
  <2> QED BY <1>2, <2>1, <2>2 DEF Forgotten, Submitted
<1>12. CASE EndFrame
  <2>1. /\ UNCHANGED <<dropped, swapchain, images, pending>>
        /\ stage = "end" /\ stage' = "test" /\ frame' = frame + 1
    BY <1>12 DEF EndFrame, gpuVars
  <2>2. Forgotten' = Forgotten
    BY <2>1 DEF Forgotten, Held, Waiting, Own
  <2>3. \A f \in dropped : f < frame'
    BY <1>1, <2>1
  <2> QED BY <2>1, <2>2, <2>3, NothingForgotten
<1>13. CASE RequestShutdown \/ GpuFinishes \/ UNCHANGED vars
  <2>1. UNCHANGED <<dropped, frame, stage, swapchain, images, image, pending>>
    BY <1>13 DEF RequestShutdown, GpuFinishes, Finish, gateVars, gpuVars, loopVars, vars
  <2> QED BY <1>2, <2>1 DEF Forgotten, Held, Waiting, Own
<1>14. CASE \E i \in Image : Release(i)
  <2>1. PICK i \in Image : Release(i)
    BY <1>14
  <2>2. UNCHANGED <<dropped, frame, stage, swapchain, image, pending>>
    BY <2>1 DEF Release, gateVars, gpuVars
  <2>3. Held' = Held
    BY <1>1, <2>1 DEF Release, Held
  <2> QED BY <1>2, <2>2, <2>3 DEF Forgotten, Waiting, Own
<1> QED
  BY <1>4, <1>5, <1>6, <1>7, <1>8, <1>9, <1>10, <1>11, <1>12, <1>13, <1>14
  DEF Next, Loop

\* No path of the loop forgets an image it has acquired, except that of a frame
\* whose rendering failed, whatever acquires, presents and recreations do.
THEOREM NoImageForgotten == Spec => []ImagesAccounted
<1>1. Init => ImageInv
  <2> SUFFICES ASSUME Init PROVE ImageInv
    OBVIOUS
  <2>1. dropped = {} /\ Held = {}
    BY DEF Init, GateInit, Held
  <2>2. Forgotten = {}
    BY <2>1 DEF Forgotten
  <2> QED BY <2>1, <2>2, FS_EmptySet DEF ImageInv
<1>2. IInv /\ ImageInv => ImagesAccounted
  <2> SUFFICES ASSUME IInv, ImageInv PROVE ImagesAccounted
    OBVIOUS
  <2> DEFINE S == Held \ (Waiting \cup {image})
  <2>1. S \subseteq Forgotten
    BY DEF Forgotten, Own
  <2>2. /\ IsFiniteSet(Forgotten) /\ Cardinality(Forgotten) \in Nat
        /\ Cardinality(dropped) \in Nat
    BY ImagesFinite
  <2>3. IsFiniteSet(S) /\ Cardinality(S) <= Cardinality(Forgotten)
    BY <2>1, <2>2, FS_Subset
  <2>4. Cardinality(S) \in Nat
    BY <2>3, FS_CardinalityType
  <2>5. Cardinality(S) <= Cardinality(dropped)
    BY <2>2, <2>3, <2>4 DEF ImageInv
  <2> QED BY <2>5 DEF ImagesAccounted, Held, Waiting
<1> QED BY <1>1, <1>2, Inductive, ImageStep, PTL DEF Spec
=============================================================================
