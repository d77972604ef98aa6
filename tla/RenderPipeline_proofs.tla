------------------------ MODULE RenderPipeline_proofs ------------------------
(***************************************************************************)
(* What a recorded frame uses outlives it, and is what the model asks for. *)
(*                                                                         *)
(* For every number of frames in flight: a frame executes exactly the      *)
(* passes that are enabled, with their pipelines, and no pipeline that hot *)
(* reload replaced is destroyed while a frame bound it.  With at most two  *)
(* frames in flight: no generation of transients is freed and no pass is   *)
(* destroyed while a frame that recorded it runs; with three that is false *)
(* (RenderPipelineRetire.cfg).                                             *)
(*                                                                         *)
(* A replaced pipeline waits in the slot of the frame that replaced it, a  *)
(* frame later than any that bound it.  The slot is cleared when its turn  *)
(* comes again, FIF frames or more after, and by then the gate has let     *)
(* every frame that old finish.                                            *)
(***************************************************************************)
EXTENDS RenderPipeline, TLAPS

-----------------------------------------------------------------------------
(* The frame gate: slots modulo FIF, and what a submission, its end and an *)
(* idle device do to the fences. *)

\* Quotient and remainder of a natural number: the lemmas below work with these.
LEMMA DivMod ==
    ASSUME NEW n \in Nat \ {0}, NEW a \in Nat
    PROVE  a \div n \in Int /\ a % n \in 0 .. n - 1 /\ a = n * (a \div n) + (a % n)
  BY SMT

\* A positive multiple of n is at least n.
LEMMA Times ==
    ASSUME NEW n \in Nat \ {0}, NEW k \in Int, k >= 1
    PROVE  n * k >= n
  BY SMT

\* The only multiple of n between -n and n is 0.
LEMMA Small ==
    ASSUME NEW n \in Nat \ {0}, NEW k \in Int, n * k < n, n * k > -n
    PROVE  k = 0
<1>1. k < 1
  BY Times
<1>2. -k < 1
  <2>1. n * (-k) = -(n * k)
    BY SMT
  <2>. QED BY <2>1, Times
<1>. QED BY <1>1, <1>2

\* Multiplication distributes over a difference: the solver is told so once.
LEMMA Dist ==
    ASSUME NEW n \in Int, NEW q \in Int, NEW p \in Int
    PROVE  n * (q - p) = n * q - n * p
  BY SMT

\* Two frames less than FIF apart have different slots.
LEMMA ModClose ==
    ASSUME NEW n \in Nat \ {0}, NEW a \in Nat, NEW b \in Nat, a < b, b - a < n
    PROVE  a % n # b % n
<1> SUFFICES ASSUME a % n = b % n PROVE FALSE
  OBVIOUS
<1>1. PICK q \in Int, p \in Int, r \in 0 .. n - 1 : b = n * q + r /\ a = n * p + r
  BY DivMod
<1>2. n * (q - p) = b - a
  BY <1>1, Dist
<1>3. q - p = 0
  BY <1>2, Small
<1>. QED BY <1>1, <1>3

\* A frame has the slot of the one FIF before it.
LEMMA ModPlus ==
    ASSUME NEW n \in Nat \ {0}, NEW a \in Nat
    PROVE  (a + n) % n = a % n
<1>1. PICK q \in Int, p \in Int, r \in 0 .. n - 1, s \in 0 .. n - 1 :
          a + n = n * q + r /\ a = n * p + s /\ r = (a + n) % n /\ s = a % n
  <2>1. a + n \in Nat
    OBVIOUS
  <2>. QED BY <2>1, DivMod
<1>2. n * ((q - p) - 1) = s - r
  <2>1. n * ((q - p) - 1) = n * (q - p) - n * 1
    BY Dist
  <2>2. n * (q - p) = n * q - n * p
    BY Dist
  <2>3. n * q \in Int /\ n * p \in Int
    OBVIOUS
  <2>. QED BY <2>1, <2>2, <1>1, <2>3
<1>3. (q - p) - 1 = 0
  BY <1>2, Small
<1>4. n * ((q - p) - 1) = 0
  BY <1>3
<1>. QED BY <1>1, <1>2, <1>4

\* The slot of a frame is an index of the fences and of the record.
LEMMA SlotRange ==
    ASSUME FIF \in Nat \ {0}, NEW f \in Nat
    PROVE  Slot(f) \in 0 .. FIF - 1
  BY DivMod DEF Slot

\* Frames that may run at one time have different slots.
LEMMA SlotsDiffer ==
    ASSUME FIF \in Nat \ {0}, NEW f \in Nat, NEW g \in Nat, f # g,
           f - g < FIF, g - f < FIF
    PROVE  Slot(f) # Slot(g)
<1>1. CASE f < g
  <2>1. f % FIF # g % FIF
    BY <1>1, ModClose
  <2>. QED BY <2>1 DEF Slot
<1>2. CASE g < f
  <2>1. g % FIF # f % FIF
    BY <1>2, ModClose
  <2>. QED BY <2>1 DEF Slot
<1>. QED BY <1>1, <1>2

\* AcquireNextImage: once the fence of the frame's slot is signaled, the frame
\* that used the slot before it has finished.
LEMMA AfterWait ==
    ASSUME FIF \in Nat \ {0}, GateTypeOK, FencesExact, FenceWaited,
           NEW g \in running, g >= frame - FIF
    PROVE  g > frame - FIF
<1>1. frame \in Nat /\ g \in Nat
  BY DEF GateTypeOK
<1> SUFFICES ASSUME g + FIF = frame PROVE FALSE
  BY <1>1
<1>2. Slot(frame) = Slot(g)
  BY <1>1, ModPlus DEF Slot
<1>3. fence[Slot(frame)] /\ Slot(frame) \in 0 .. FIF - 1
  BY <1>1, SlotRange DEF FenceWaited, Signaled
<1>. QED BY <1>2, <1>3 DEF FencesExact

\* SubmitFrame: the fence it resets is that of the slot whose frame runs now.
LEMMA SubmitKeeps ==
    ASSUME FIF \in Nat \ {0}, GateTypeOK, FencesExact,
           NEW success \in BOOLEAN, Submit(success), frame' \in Nat, frame' >= frame
    PROVE  GateTypeOK' /\ FencesExact'
<1>1. frame \in Nat /\ Slot(frame) \in 0 .. FIF - 1
  BY SlotRange DEF GateTypeOK
<1>2. GateTypeOK'
  BY <1>1 DEF GateTypeOK, Submit
<1>3. ASSUME NEW s \in 0 .. FIF - 1
      PROVE  fence'[s] <=> \A g \in running' : Slot(g) # s
  <2>1. CASE s = Slot(frame)
    BY <1>1, <2>1 DEF Submit, GateTypeOK
  <2>2. CASE s # Slot(frame)
    <3>1. fence'[s] = fence[s]
      BY <2>2 DEF Submit, GateTypeOK
    <3>2. (\A g \in running' : Slot(g) # s) <=> (\A g \in running : Slot(g) # s)
      BY <2>2 DEF Submit
    <3>. QED BY <3>1, <3>2 DEF FencesExact
  <2>. QED BY <2>1, <2>2
<1>. QED BY <1>2, <1>3 DEF FencesExact, Slot

\* The fence that the end of a submission signals is not that of another one:
\* the frames that run are less than FIF apart.
LEMMA FinishKeeps ==
    ASSUME FIF \in Nat \ {0}, GateTypeOK, FencesExact, NEW f, Finish(f),
           \A g \in running : f - g < FIF /\ g - f < FIF
    PROVE  GateTypeOK' /\ FencesExact'
<1>1. f \in Nat /\ f \in running /\ running \subseteq Nat /\ Slot(f) \in 0 .. FIF - 1
  BY SlotRange DEF GateTypeOK, Finish
<1>2. GateTypeOK'
  BY <1>1 DEF GateTypeOK, Finish
<1>3. ASSUME NEW s \in 0 .. FIF - 1
      PROVE  fence'[s] <=> \A g \in running' : Slot(g) # s
  <2>1. CASE s = Slot(f)
    <3>1. fence'[s] = TRUE
      BY <2>1 DEF Finish, GateTypeOK
    <3>2. ASSUME NEW g \in running' PROVE Slot(g) # s
      <4>1. g \in Nat /\ g # f /\ f - g < FIF /\ g - f < FIF
        BY <1>1 DEF Finish
      <4>. QED BY <4>1, <1>1, <2>1, SlotsDiffer
    <3>. QED BY <3>1, <3>2
  <2>2. CASE s # Slot(f)
    <3>1. fence'[s] = fence[s]
      BY <2>2 DEF Finish, GateTypeOK
    <3>2. (\A g \in running' : Slot(g) # s) <=> (\A g \in running : Slot(g) # s)
      BY <2>2 DEF Finish
    <3>. QED BY <3>1, <3>2 DEF FencesExact
  <2>. QED BY <2>1, <2>2
<1>. QED BY <1>2, <1>3 DEF FencesExact, Slot

\* WaitDeviceIdle: nothing runs and every fence is signaled.
LEMMA IdleKeeps ==
    ASSUME GateTypeOK, Idle
    PROVE  GateTypeOK' /\ FencesExact'
<1>1. fence' = [s \in 0 .. FIF - 1 |-> TRUE]
  BY DEF GateTypeOK, Idle
<1>. QED BY <1>1 DEF GateTypeOK, FencesExact, Idle, Slot

\* Nothing but submissions, their ends and an idle device touches a fence.
LEMMA SameKeeps ==
    ASSUME GateTypeOK, FencesExact, UNCHANGED gpuVars, frame' \in Nat, frame' >= frame
    PROVE  GateTypeOK' /\ FencesExact'
  BY DEF GateTypeOK, FencesExact, gpuVars, Slot

-----------------------------------------------------------------------------
\* Where the frame's slot has been waited for; a frame that runs is behind it.
Building == {"update", "record", "unrendered"}

\* The frames whose commands are used: those that run and the one recorded.
Live == running \cup (IF stage = "record" THEN {frame} ELSE {})

\* Types of what the proofs below read.
PassPipeline ==
    [current : Nat \cup {None}, made : Nat, version : Nat, failed : BOOLEAN,
     retiring : [Slots -> SUBSET (Nat \cup {None})]]
Made(pipes) == \A p \in Pass : pipes[p].made # 0 <=> pipes[p].current # None
PipesOK(pipes) == pipes \in [Pass -> PassPipeline] /\ Made(pipes)
WorkTypes ==
    /\ DOMAIN work = 0 .. MaxFrame
    /\ \A f \in 0 .. MaxFrame :
           /\ work[f].passes \subseteq Pass
           /\ \A q \in work[f].pipelines : q[1] \in Pass
StageInv ==
    /\ stage \in {"setup", "idle"} \cup Building
    /\ frame \in 0 .. MaxFrame /\ (stage \in Building => frame < MaxFrame)
    /\ dirty \in BOOLEAN /\ version \in Nat
    /\ model \in [Pass -> {"none", "enabled", "disabled", "removed"}]

\* The gate: fences are exact and what runs is recent.
GateInv == GateTypeOK /\ FencesExact /\ RunningRecent(Building, {})

\* A graph is there only for passes of the model, the enabled ones unless a rebuild
\* is asked for; each has a pipeline unless it could not be created.
GraphInv ==
    /\ stage # "setup" /\ ~dirty => graph \in {Enabled, None}
    /\ stage # "record" \/ (~dirty /\ graph # None /\ graph = Enabled /\ work[frame].passes = Enabled)
    /\ stage = "setup" => graph = None
    /\ graph # None =>
           graph \subseteq Pass /\ \A p \in graph : pipe[p].current # None \/ pipe[p].failed

\* Commands are there for frames that were recorded only.
Recorded ==
    \A f \in 0 .. MaxFrame :
        f > frame \/ (f = frame /\ stage # "record") => work[f] = Nothing

\* The product n of pass p that frame f bound is the current one, or waits in the
\* slot of a later frame.
Kept(p, n, f) ==
    \/ n = pipe[p].current
    \/ \E h \in Nat : f < h /\ h <= frame /\ (h = frame => stage = "record")
                      /\ n \in pipe[p].retiring[Slot(h)]
PipelinesKept ==
    \A f \in Live : \A q \in work[f].pipelines : q[2] # None => Kept(q[1], q[2], f)

IInv ==
    /\ PipesOK(pipe) /\ WorkTypes /\ StageInv /\ GateInv /\ GraphInv /\ Recorded
    /\ PipelinesKept

-----------------------------------------------------------------------------
(* The gate under the pipeline's actions *)

\* The number of frames in flight, from the assumptions on the constants.
LEMMA FifPositive == FIF \in Nat \ {0} /\ MaxFrame \in Nat
  BY GateConstants

\* No natural number is None, so that no product is.
LEMMA NoneNotNat == \A n \in Nat : n # None
  BY PipelineConstants

\* A frame's slot is one of the slots.
LEMMA FrameSlot == ASSUME IInv PROVE Slot(frame) \in Slots /\ frame \in Nat
  BY FifPositive, SlotRange DEF IInv, StageInv, Slots

\* A running frame is one of the frames, and behind the current one.
LEMMA RunningRange ==
    ASSUME IInv
    PROVE  running \subseteq 0 .. MaxFrame /\ frame \notin running
<1>1. frame \in 0 .. MaxFrame /\ running \subseteq 0 .. frame /\ frame \notin running
  BY DEF IInv, StageInv, GateInv, GateTypeOK, RunningRecent
<1> QED BY <1>1, FifPositive

\* Which actions move the gate, and how.
LEMMA GateActions ==
    ASSUME IInv, Next
    PROVE  \/ UNCHANGED <<frame, gpuVars>> /\ (stage' \in Building => stage \in Building)
           \/ UNCHANGED <<frame, gpuVars>> /\ FenceWaited /\ stage' \in Building
           \/ Idle /\ stage' = stage
           \/ \E success \in BOOLEAN :
                  Submit(success) /\ stage \in Building /\ frame' = frame + 1 /\ stage' = "idle"
           \/ \E f \in running : Finish(f)
<1>1. CASE \E fails \in SUBSET Pass : Initialize(fails)
  BY <1>1 DEF Initialize, Building
<1>2. CASE \E p \in Pass : \/ RegisterPass(p) \/ RemovePass(p)
                           \/ \E e \in {"enabled", "disabled"} : SetPassEnabled(p, e)
  BY <1>2 DEF RegisterPass, RemovePass, SetPassEnabled, gateVars
<1>3. CASE RequestRebuild \/ EditShader
  BY <1>3 DEF RequestRebuild, EditShader, gateVars
<1>4. CASE \E size \in Extent : Resize(size)
  BY <1>4 DEF Resize
<1>5. CASE Acquire
  BY <1>5 DEF Acquire, Building
<1>6. CASE \E compiles \in BOOLEAN, fails \in SUBSET Pass : RenderFrame(compiles, fails)
  <2>1. UNCHANGED <<frame, gpuVars>> /\ stage \in Building
    BY <1>6 DEF RenderFrame, Building
  <2> QED BY <2>1
<1>7. CASE \E success \in BOOLEAN : Finished(success)
  BY <1>7 DEF Finished, Building
<1>8. CASE \E f \in running : GpuFinishes(f)
  BY <1>8 DEF GpuFinishes
<1> QED BY <1>1, <1>2, <1>3, <1>4, <1>5, <1>6, <1>7, <1>8 DEF Next

\* Frames that run are less than FIF apart.
LEMMA RunningClose ==
    ASSUME IInv, NEW f \in running, NEW g \in running
    PROVE  f - g < FIF /\ g - f < FIF
<1>1. f \in Nat /\ g \in Nat /\ frame \in Nat
  BY DEF IInv, GateInv, GateTypeOK
<1> QED BY <1>1, FifPositive DEF IInv, GateInv, RunningRecent

\* Every step keeps the gate's part of the invariant.
LEMMA GateStep ==
    ASSUME IInv, Next
    PROVE  GateInv'
<1>1. GateTypeOK /\ FencesExact /\ frame \in Nat /\ running \subseteq Nat
      /\ RunningRecent(Building, {})
  BY DEF IInv, GateInv, GateTypeOK
<1>2. CASE UNCHANGED <<frame, gpuVars>> /\ (stage' \in Building => stage \in Building)
  <2>1. GateTypeOK' /\ FencesExact'
    BY <1>1, <1>2, SameKeeps
  <2>2. RunningRecent(Building, {})'
    BY <1>1, <1>2 DEF RunningRecent, gpuVars, Building
  <2> QED BY <2>1, <2>2 DEF GateInv
<1>3. CASE UNCHANGED <<frame, gpuVars>> /\ FenceWaited /\ stage' \in Building
  <2>1. GateTypeOK' /\ FencesExact'
    BY <1>1, <1>3, SameKeeps
  <2>2. ASSUME NEW g \in running PROVE g <= frame /\ g # frame /\ g > frame - FIF
    BY <1>1, <1>3, <2>2, FifPositive, AfterWait DEF RunningRecent
  <2>3. RunningRecent(Building, {})'
    BY <1>1, <1>3, <2>2, FifPositive DEF RunningRecent, gpuVars
  <2> QED BY <2>1, <2>3 DEF GateInv
<1>4. CASE Idle /\ stage' = stage
  <2>1. GateTypeOK' /\ FencesExact'
    BY <1>1, <1>4, IdleKeeps
  <2>2. RunningRecent(Building, {})'
    BY <1>4 DEF RunningRecent, Idle
  <2> QED BY <2>1, <2>2 DEF GateInv
<1>5. CASE \E success \in BOOLEAN :
               Submit(success) /\ stage \in Building /\ frame' = frame + 1 /\ stage' = "idle"
  <2>1. PICK success \in BOOLEAN : Submit(success) /\ frame' = frame + 1
    BY <1>5
  <2>2. GateTypeOK' /\ FencesExact'
    BY <1>1, <2>1, FifPositive, SubmitKeeps
  <2>3. running' = running \cup {frame} /\ stage' = "idle" /\ stage \in Building
    BY <1>5, <2>1 DEF Submit
  <2>4. RunningRecent(Building, {})'
    BY <1>1, <2>1, <2>3, FifPositive DEF RunningRecent, Building
  <2> QED BY <2>2, <2>4 DEF GateInv
<1>6. CASE \E f \in running : Finish(f)
  <2>1. PICK f \in running : Finish(f)
    BY <1>6
  <2>2. GateTypeOK' /\ FencesExact'
    BY <1>1, <2>1, FifPositive, RunningClose, FinishKeeps
  <2>3. RunningRecent(Building, {})'
    BY <1>1, <2>1 DEF RunningRecent, Finish
  <2> QED BY <2>2, <2>3 DEF GateInv
<1> QED BY <1>2, <1>3, <1>4, <1>5, <1>6, GateActions

-----------------------------------------------------------------------------
(* What BuildPassPipelines and PollAndRebuild do to the pipelines *)

\* A pipeline's fields make a pipeline.
LEMMA MakesPipeline ==
    ASSUME NEW c \in Nat \cup {None}, NEW m \in Nat, NEW v \in Nat, NEW f \in BOOLEAN,
           NEW r \in [Slots -> SUBSET (Nat \cup {None})]
    PROVE  [current |-> c, made |-> m, version |-> v, failed |-> f, retiring |-> r]
               \in PassPipeline
  BY DEF PassPipeline

\* A pipeline has its fields, each of its type.
LEMMA PipelineFields ==
    ASSUME NEW x \in PassPipeline
    PROVE  /\ x = [current |-> x.current, made |-> x.made, version |-> x.version,
                   failed |-> x.failed, retiring |-> x.retiring]
           /\ x.current \in Nat \cup {None} /\ x.made \in Nat /\ x.version \in Nat
           /\ x.failed \in BOOLEAN /\ x.retiring \in [Slots -> SUBSET (Nat \cup {None})]
  BY DEF PassPipeline

\* Replacing the product and retiring the old one keeps the types.
LEMMA ReplacedPipeline ==
    ASSUME NEW x \in PassPipeline, NEW n \in Nat, NEW v \in Nat, NEW slot \in Slots,
           NEW y, y = [x EXCEPT !.current = n, !.made = n, !.version = v,
                                !.retiring[slot] = {x.current}]
    PROVE  y \in PassPipeline
<1> DEFINE r == [x.retiring EXCEPT ![slot] = {x.current}]
<1>1. r \in [Slots -> SUBSET (Nat \cup {None})]
  BY PipelineFields
<1>2. y = [x EXCEPT !.current = n, !.made = n, !.version = v, !.retiring = r]
  BY DEF PassPipeline
<1> HIDE DEF r
<1>3. [x EXCEPT !.current = n, !.made = n, !.version = v, !.retiring = r] \in PassPipeline
  BY <1>1 DEF PassPipeline
<1> QED BY <1>2, <1>3

\* Nothing is built before the layouts are known.
LEMMA BuiltDeferred ==
    ASSUME NEW pipes, PipesOK(pipes), NEW fails
    PROVE  Built(pipes, FALSE, fails) = pipes
  BY DEF Built, PipesOK

\* BuildPassPipelines once the layouts are known.
BuildsAll(pipes, fails) == Built(pipes, TRUE, fails)

\* Building touches what is not built yet only, and leaves no declared pass without
\* a pipeline or a failure once the layouts are known.
LEMMA BuiltPipes ==
    ASSUME NEW pipes, PipesOK(pipes), NEW fails,
           NEW b, b = BuildsAll(pipes, fails)
    PROVE  /\ PipesOK(b)
           /\ \A p \in Pass :
                 /\ pipes[p].current # None => b[p] = pipes[p]
                 /\ b[p].retiring = pipes[p].retiring
                 /\ pipes[p].failed => b[p].failed
                 /\ model[p] # "none" => b[p].current # None \/ b[p].failed
<1>1. ASSUME NEW p \in Pass
      PROVE  /\ b[p] \in PassPipeline /\ (b[p].made # 0 <=> b[p].current # None)
             /\ pipes[p].current # None => b[p] = pipes[p]
             /\ b[p].retiring = pipes[p].retiring
             /\ pipes[p].failed => b[p].failed
             /\ model[p] # "none" => b[p].current # None \/ b[p].failed
  <2>1. pipes[p] \in PassPipeline /\ (pipes[p].made # 0 <=> pipes[p].current # None)
    BY DEF PipesOK, Made
  <2>2. CASE model[p] = "none" \/ pipes[p].made # 0
    <3>1. b[p] = pipes[p]
      BY <2>2 DEF BuildsAll, Built
    <3> QED BY <3>1, <2>1, <2>2
  <2>3. CASE model[p] # "none" /\ pipes[p].made = 0 /\ p \in fails
    <3>1. b[p] = [pipes[p] EXCEPT !.failed = TRUE]
      BY <2>3 DEF BuildsAll, Built
    <3> QED BY <3>1, <2>1, <2>3 DEF PassPipeline
  <2>4. CASE model[p] # "none" /\ pipes[p].made = 0 /\ p \notin fails
    <3>1. b[p] = [pipes[p] EXCEPT !.current = 1, !.made = 1]
      BY <2>4 DEF BuildsAll, Built
    <3>2. b[p] = [current |-> 1, made |-> 1, version |-> pipes[p].version,
                  failed |-> pipes[p].failed, retiring |-> pipes[p].retiring]
      BY <3>1, <2>1, PipelineFields, Zenon
    <3>4. b[p] \in PassPipeline
      BY <3>2, <2>1, PipelineFields, MakesPipeline
    <3>5. /\ b[p].current = 1 /\ b[p].made = 1 /\ b[p].retiring = pipes[p].retiring
      BY <3>2
    <3>6. b[p].failed = pipes[p].failed
      BY <3>1, <2>1, Zenon DEF PassPipeline
    <3>3. 1 # None /\ pipes[p].current = None
      BY <2>1, <2>4, NoneNotNat
    <3> QED BY <3>3, <3>4, <3>5, <3>6, <2>4
  <2> QED BY <2>2, <2>3, <2>4
<1>2. b = [p \in Pass |-> b[p]]
  BY DEF BuildsAll, Built
<1>3. PipesOK(b)
  <2>1. b \in [Pass -> PassPipeline]
    BY <1>1, <1>2
  <2> QED BY <2>1, <1>1 DEF PipesOK, Made
<1> QED BY <1>1, <1>3

\* A poll clears the frame's slot and retires there what it replaces; the other
\* slots keep what they hold.
LEMMA PolledPipes ==
    ASSUME NEW pipes, PipesOK(pipes), NEW slot \in Slots, NEW fails, version \in Nat,
           NEW b, b = Polled(pipes, slot, fails)
    PROVE  /\ PipesOK(b)
           /\ \A p \in Pass :
                 /\ b[p].current = pipes[p].current \/ pipes[p].current \in b[p].retiring[slot]
                 /\ \A s \in Slots : s # slot => b[p].retiring[s] = pipes[p].retiring[s]
                 /\ pipes[p].current # None => b[p].current # None
                 /\ b[p].failed = pipes[p].failed
<1>1. ASSUME NEW p \in Pass
      PROVE  /\ b[p] \in PassPipeline /\ (b[p].made # 0 <=> b[p].current # None)
             /\ b[p].current = pipes[p].current \/ pipes[p].current \in b[p].retiring[slot]
             /\ \A s \in Slots : s # slot => b[p].retiring[s] = pipes[p].retiring[s]
             /\ pipes[p].current # None => b[p].current # None
             /\ b[p].failed = pipes[p].failed
  <2>1. pipes[p] \in PassPipeline /\ (pipes[p].made # 0 <=> pipes[p].current # None)
    BY DEF PipesOK, Made
  <2>2. CASE pipes[p].made # 0 /\ pipes[p].version # version /\ p \notin fails
    <3>1. b[p] = [pipes[p] EXCEPT !.current = pipes[p].made + 1, !.made = @ + 1,
                                  !.version = version, !.retiring[slot] = {pipes[p].current}]
      BY <2>2 DEF Polled
    <3>2. /\ b[p].current = pipes[p].made + 1 /\ b[p].made = pipes[p].made + 1
          /\ b[p].retiring = [pipes[p].retiring EXCEPT ![slot] = {pipes[p].current}]
      BY <3>1, <2>1 DEF PassPipeline
    <3>7. b[p].failed = pipes[p].failed
      BY <3>1, <2>1, Zenon DEF PassPipeline
    <3>3. b[p] \in PassPipeline
      <4>1. PICK n \in Nat : n = pipes[p].made + 1
        BY <2>1, PipelineFields
      <4>2. b[p] = [pipes[p] EXCEPT !.current = n, !.made = n, !.version = version,
                                    !.retiring[slot] = {pipes[p].current}]
        BY <3>1, <4>1
      <4> QED BY <4>2, <2>1, ReplacedPipeline
    <3>4. b[p].made # 0 /\ b[p].current # None
      BY <3>2, <2>1, NoneNotNat DEF PassPipeline
    <3>5. pipes[p].retiring \in [Slots -> SUBSET (Nat \cup {None})]
      BY <2>1 DEF PassPipeline
    <3>6. /\ pipes[p].current \in b[p].retiring[slot]
          /\ \A s \in Slots : s # slot => b[p].retiring[s] = pipes[p].retiring[s]
      BY <3>2, <3>5
    <3> QED BY <3>2, <3>3, <3>4, <3>6, <3>7
  <2>3. CASE ~(pipes[p].made # 0 /\ pipes[p].version # version /\ p \notin fails)
    <3>1. b[p] = [pipes[p] EXCEPT !.retiring[slot] = {}]
      BY <2>3 DEF Polled
    <3> QED BY <3>1, <2>1 DEF PassPipeline
  <2> QED BY <2>2, <2>3
<1>2. b = [p \in Pass |-> b[p]]
  BY DEF Polled
<1>3. PipesOK(b)
  <2>1. b \in [Pass -> PassPipeline]
    BY <1>1, <1>2
  <2> QED BY <2>1, <1>1 DEF PipesOK, Made
<1> QED BY <1>1, <1>3
-----------------------------------------------------------------------------
(* RenderFrame, step by step *)

\* The graph that a frame executes, and the pipelines before the frame's poll.
Compiled(compiles) == IF ~dirty THEN graph ELSE IF compiles THEN Enabled ELSE None
Rebuilt(compiles, fails) == IF dirty /\ compiles THEN BuildsAll(pipe, fails) ELSE pipe

\* The graph that is executed is that of the model, and its passes have pipelines.
LEMMA CompiledOK ==
    ASSUME IInv, stage \in Building, NEW compiles \in BOOLEAN, NEW fails,
           NEW c, c = Compiled(compiles), NEW b, b = Rebuilt(compiles, fails)
    PROVE  /\ c \in {Enabled, None}
           /\ PipesOK(b)
           /\ c # None => c \subseteq Pass /\ \A p \in c : b[p].current # None \/ b[p].failed
           /\ \A p \in Pass : /\ pipe[p].current # None => b[p].current = pipe[p].current
                              /\ b[p].retiring = pipe[p].retiring
<1>1. stage # "setup" /\ dirty \in BOOLEAN /\ PipesOK(pipe)
  BY DEF IInv, StageInv, Building
<1>2. /\ ~dirty => graph \in {Enabled, None}
      /\ graph # None => graph \subseteq Pass
                         /\ \A p \in graph : pipe[p].current # None \/ pipe[p].failed
  BY <1>1 DEF IInv, GraphInv
<1>3. CASE dirty /\ compiles
  <2>1. c = Enabled /\ b = BuildsAll(pipe, fails)
    BY <1>3 DEF Compiled, Rebuilt
  <2>2. /\ PipesOK(b)
        /\ \A p \in Pass : /\ pipe[p].current # None => b[p] = pipe[p]
                           /\ b[p].retiring = pipe[p].retiring
                           /\ model[p] # "none" => b[p].current # None \/ b[p].failed
    BY <1>1, <2>1, BuiltPipes
  <2>3. Enabled \subseteq Pass /\ \A p \in Enabled : model[p] # "none"
    BY DEF Enabled
  <2> QED BY <2>1, <2>2, <2>3
<1>4. CASE ~(dirty /\ compiles)
  <2>1. b = pipe /\ c \in {graph, None} /\ (dirty => c = None) /\ (~dirty => c = graph)
    BY <1>4 DEF Compiled, Rebuilt
  <2> QED BY <1>1, <1>2, <2>1
<1> QED BY <1>3, <1>4

\* What RenderFrame does with a graph c, the pipelines b before and `polled` after the poll.
Renders(c, b, polled) ==
    /\ graph' = c /\ dirty' = FALSE /\ UNCHANGED <<frame, gpuVars, model, version>>
    /\ \/ c = None /\ stage' = "unrendered" /\ pipe' = b /\ work' = work
       \/ /\ c # None /\ stage' = "record" /\ pipe' = polled
          /\ \E g : work' = [work EXCEPT ![frame] =
                        [passes |-> c, generation |-> g,
                         pipelines |-> {<<p, polled[p].current>> : p \in c}]]

\* RenderFrame executes the compiled graph with the polled pipelines.
LEMMA RenderEffect ==
    ASSUME NEW compiles \in BOOLEAN, NEW fails \in SUBSET Pass, RenderFrame(compiles, fails)
    PROVE  \E c, b, polled :
              /\ c = Compiled(compiles) /\ b = Rebuilt(compiles, fails)
              /\ polled = Polled(b, Slot(frame), fails)
              /\ Renders(c, b, polled)
<1> DEFINE c == Compiled(compiles)
           b == Rebuilt(compiles, fails)
           polled == Polled(b, Slot(frame), fails)
<1>1. Renders(c, b, polled)
  <2>1. /\ graph' = c /\ dirty' = FALSE /\ UNCHANGED <<frame, gpuVars, model, version>>
    BY Zenon DEF RenderFrame, Compiled
  <2>2. CASE c = None
    BY <2>1, <2>2, Zenon DEF RenderFrame, Compiled, Rebuilt, BuildsAll, Renders
  <2>3. CASE c # None
    BY <2>1, <2>3, Zenon DEF RenderFrame, Compiled, Rebuilt, BuildsAll, Renders
  <2> QED BY <2>2, <2>3
<1> QED BY <1>1, Zenon

\* RenderFrame, all parts but the kept pipelines.
LEMMA RenderTypes ==
    ASSUME IInv, NEW compiles \in BOOLEAN, NEW fails \in SUBSET Pass,
           RenderFrame(compiles, fails)
    PROVE  PipesOK(pipe)' /\ WorkTypes' /\ StageInv' /\ GraphInv' /\ Recorded'
<1>1. PICK c, b, polled :
              /\ c = Compiled(compiles) /\ b = Rebuilt(compiles, fails)
              /\ polled = Polled(b, Slot(frame), fails)
              /\ Renders(c, b, polled)
  BY RenderEffect
<1> USE DEF Renders
<1>2. stage = "update" /\ stage \in Building /\ frame \in 0 .. MaxFrame /\ frame < MaxFrame
      /\ version \in Nat /\ Slot(frame) \in Slots
  BY FrameSlot DEF RenderFrame, Building, IInv, StageInv
<1>3. /\ c \in {Enabled, None} /\ PipesOK(b)
      /\ c # None => c \subseteq Pass /\ \A p \in c : b[p].current # None \/ b[p].failed
  BY <1>1, <1>2, CompiledOK
<1>4. /\ PipesOK(polled)
      /\ \A p \in Pass : /\ b[p].current # None => polled[p].current # None
                         /\ polled[p].failed = b[p].failed
  BY <1>1, <1>2, <1>3, PolledPipes
<1>5. PipesOK(pipe)'
  BY <1>1, <1>3, <1>4 DEF PipesOK, Made
<1>6. StageInv'
  BY <1>1, <1>2, Zenon DEF IInv, StageInv, Building
<1>7. Enabled' = Enabled
  BY <1>1 DEF Enabled
<1>8. WorkTypes /\ Recorded
  BY DEF IInv
<1>9. CASE c = None
  <2>1. /\ stage' = "unrendered" /\ pipe' = b /\ work' = work /\ graph' = None
        /\ frame' = frame /\ dirty' = FALSE
    BY <1>1, <1>9
  <2>2. WorkTypes' /\ Recorded'
    BY <2>1, <1>2, <1>8 DEF WorkTypes, Recorded
  <2>3. GraphInv'
    BY <2>1 DEF GraphInv
  <2> QED BY <1>5, <1>6, <2>2, <2>3
<1>10. CASE c # None
  <2>1. PICK g : work' = [work EXCEPT ![frame] =
                              [passes |-> c, generation |-> g,
                               pipelines |-> {<<p, polled[p].current>> : p \in c}]]
    BY <1>1, <1>10
  <2>2. /\ stage' = "record" /\ pipe' = polled /\ graph' = c
        /\ frame' = frame /\ dirty' = FALSE
    BY <1>1, <1>10
  <2>3. /\ DOMAIN work' = 0 .. MaxFrame
        /\ \A f \in 0 .. MaxFrame : f # frame => work'[f] = work[f]
        /\ work'[frame].passes = c
        /\ work'[frame].pipelines = {<<p, polled[p].current>> : p \in c}
    BY <2>1, <1>2, <1>8 DEF WorkTypes
  <2>4. WorkTypes'
    BY <2>3, <1>8, <1>3, <1>10, <1>2 DEF WorkTypes
  <2>5. Recorded'
    BY <2>2, <2>3, <1>2, <1>8 DEF Recorded
  <2>6. GraphInv'
    <3>1. \A p \in c : polled[p].current # None \/ polled[p].failed
      BY <1>3, <1>4, <1>10
    <3> QED BY <2>2, <2>3, <1>3, <1>7, <1>10, <3>1 DEF GraphInv
  <2> QED BY <1>5, <1>6, <2>4, <2>5, <2>6
<1> QED BY <1>9, <1>10

\* RenderFrame keeps every pipeline that a running frame bound: what it clears are
\* pipelines retired FIF frames ago or earlier, what it retires goes to a later frame.
LEMMA RenderKeeps ==
    ASSUME IInv, NEW compiles \in BOOLEAN, NEW fails \in SUBSET Pass,
           RenderFrame(compiles, fails)
    PROVE  PipelinesKept'
<1>1. PICK c, b, polled :
              /\ c = Compiled(compiles) /\ b = Rebuilt(compiles, fails)
              /\ polled = Polled(b, Slot(frame), fails)
              /\ Renders(c, b, polled)
  BY RenderEffect
<1> USE DEF Renders
<1>2. stage = "update" /\ stage \in Building /\ frame \in 0 .. MaxFrame /\ frame < MaxFrame
      /\ version \in Nat /\ Slot(frame) \in Slots /\ frame \in Nat
  BY FrameSlot DEF RenderFrame, Building, IInv, StageInv
<1>3. /\ PipesOK(b) /\ (c # None => c \subseteq Pass)
      /\ \A p \in Pass : /\ pipe[p].current # None => b[p].current = pipe[p].current
                         /\ b[p].retiring = pipe[p].retiring
  BY <1>1, <1>2, CompiledOK
<1>4. \A p \in Pass :
          /\ polled[p].current = b[p].current \/ b[p].current \in polled[p].retiring[Slot(frame)]
          /\ \A s \in Slots : s # Slot(frame) => polled[p].retiring[s] = b[p].retiring[s]
  BY <1>1, <1>2, <1>3, PolledPipes
<1>5. running' = running /\ frame' = frame /\ Live = running
  BY <1>1, <1>2 DEF gpuVars, Live
<1>6. \A f \in running : f \in Nat /\ f > frame - FIF /\ f < frame /\ f \in 0 .. MaxFrame
  <2>1. running \subseteq 0 .. frame
    BY DEF IInv, GateInv, GateTypeOK
  <2>2. \A f \in running : f <= frame /\ f # frame /\ f > frame - FIF
    BY <1>2 DEF IInv, GateInv, RunningRecent
  <2> QED BY <1>2, <2>1, <2>2, FifPositive
<1>7. \A f \in running : \A q \in work[f].pipelines :
          q[1] \in Pass /\ (q[2] # None => Kept(q[1], q[2], f))
  BY <1>5, <1>6 DEF IInv, PipelinesKept, WorkTypes
<1>8. CASE c = None
  <2>1. stage' = "unrendered" /\ pipe' = b /\ work' = work
    BY <1>1, <1>8
  <2>2. Live' = running
    BY <1>5, <2>1 DEF Live
  <2>3. ASSUME NEW f \in running, NEW q \in work[f].pipelines, q[2] # None
        PROVE  Kept(q[1], q[2], f)'
    <3>1. q[1] \in Pass /\ Kept(q[1], q[2], f)
      BY <1>7, <2>3
    <3>2. CASE q[2] = pipe[q[1]].current
      BY <2>1, <2>3, <3>1, <3>2, <1>3 DEF Kept
    <3>3. CASE q[2] # pipe[q[1]].current
      BY <2>1, <3>1, <3>3, <1>2, <1>3, <1>5 DEF Kept, Slot
    <3> QED BY <3>2, <3>3
  <2> QED BY <2>1, <2>2, <2>3 DEF PipelinesKept
<1>9. CASE c # None
  <2>1. PICK g : work' = [work EXCEPT ![frame] =
                              [passes |-> c, generation |-> g,
                               pipelines |-> {<<p, polled[p].current>> : p \in c}]]
    BY <1>1, <1>9
  <2>2. stage' = "record" /\ pipe' = polled
    BY <1>1, <1>9
  <2>3. DOMAIN work = 0 .. MaxFrame
    BY DEF IInv, WorkTypes
  <2>4. /\ \A f \in running : work'[f] = work[f]
        /\ work'[frame].pipelines = {<<p, polled[p].current>> : p \in c}
    BY <2>1, <2>3, <1>2, <1>6
  <2>5. Live' = running \cup {frame}
    BY <1>5, <2>2 DEF Live
  <2>6. ASSUME NEW f \in running, NEW q \in work[f].pipelines, q[2] # None
        PROVE  Kept(q[1], q[2], f)'
    <3>1. q[1] \in Pass /\ Kept(q[1], q[2], f) /\ f \in Nat /\ f < frame /\ f > frame - FIF
      BY <1>6, <1>7, <2>6
    <3>2. CASE q[2] = pipe[q[1]].current
      <4>1. q[2] = b[q[1]].current
        BY <1>3, <2>6, <3>1, <3>2
      <4>2. q[2] = polled[q[1]].current \/ q[2] \in polled[q[1]].retiring[Slot(frame)]
        BY <1>4, <3>1, <4>1
      <4> QED BY <2>2, <4>2, <3>1, <1>2, <1>5 DEF Kept, Slot
    <3>3. CASE q[2] # pipe[q[1]].current
      <4>1. PICK h \in Nat : f < h /\ h <= frame /\ (h = frame => stage = "record")
                             /\ q[2] \in pipe[q[1]].retiring[Slot(h)]
        BY <3>1, <3>3 DEF Kept
      <4>2. h # frame
        BY <4>1, <1>2
      <4>3. Slot(h) # Slot(frame) /\ Slot(h) \in Slots
        <5>1. h - frame < FIF /\ frame - h < FIF
          BY <3>1, <4>1, <4>2, <1>2, FifPositive
        <5> QED BY <5>1, <4>1, <4>2, <1>2, FifPositive, SlotsDiffer, SlotRange DEF Slots
      <4>4. q[2] \in polled[q[1]].retiring[Slot(h)]
        BY <1>3, <1>4, <3>1, <4>1, <4>3
      <4> QED BY <2>2, <4>1, <4>4, <1>5 DEF Kept, Slot
    <3> QED BY <3>2, <3>3
  <2>7. ASSUME NEW f, NEW q \in work'[frame].pipelines
        PROVE  Kept(q[1], q[2], f)'
    <3>1. PICK p \in c : q = <<p, polled[p].current>>
      BY <2>4, <2>7
    <3>2. q[2] = pipe'[q[1]].current
      BY <2>2, <3>1
    <3> QED BY <3>2 DEF Kept
  <2>8. ASSUME NEW f \in Live', NEW q \in work'[f].pipelines, q[2] # None
        PROVE  Kept(q[1], q[2], f)'
    <3>1. CASE f = frame
      BY <2>7, <2>8, <3>1
    <3>2. CASE f # frame
      <4>1. f \in running /\ q \in work[f].pipelines
        BY <2>4, <2>5, <2>8, <3>2
      <4> QED BY <2>6, <2>8, <4>1
    <3> QED BY <3>1, <3>2
  <2> QED BY <2>8 DEF PipelinesKept
<1> QED BY <1>8, <1>9

-----------------------------------------------------------------------------
(* The other actions *)

\* Initialize: every built-in pass gets its pipeline, although its registration came
\* before the engine's layouts.
LEMMA InitializeStep ==
    ASSUME IInv, NEW fails \in SUBSET Pass, Initialize(fails)
    PROVE  PipesOK(pipe)' /\ WorkTypes' /\ StageInv' /\ GraphInv' /\ Recorded' /\ PipelinesKept'
<1>1. /\ stage = "setup" /\ stage' = "idle" /\ graph' = Enabled /\ dirty' = FALSE
      /\ UNCHANGED <<frame, gpuVars, model, version, work>> /\ PipesOK(pipe)
  BY DEF Initialize, IInv
<1>2. pipe' = BuildsAll(pipe, fails)
  BY <1>1, BuiltDeferred DEF Initialize, Unblocked, BuildsAll
<1>3. /\ PipesOK(pipe')
      /\ \A p \in Pass : /\ pipe[p].current # None => pipe'[p] = pipe[p]
                         /\ pipe'[p].retiring = pipe[p].retiring
                         /\ model[p] # "none" => pipe'[p].current # None \/ pipe'[p].failed
  BY <1>1, <1>2, BuiltPipes
<1>4. PipesOK(pipe)'
  BY <1>3 DEF PipesOK, Made
<1>5. WorkTypes' /\ Recorded'
  BY <1>1 DEF IInv, WorkTypes, Recorded
<1>6. StageInv'
  BY <1>1, Zenon DEF IInv, StageInv, Building
<1>7. GraphInv'
  <2>1. Enabled' = Enabled /\ Enabled \subseteq Pass /\ \A p \in Enabled : model[p] # "none"
    BY <1>1 DEF Enabled
  <2> QED BY <1>1, <1>3, <2>1 DEF GraphInv
<1>8. PipelinesKept'
  <2>1. Live = running /\ Live' = running
    BY <1>1 DEF Live, gpuVars
  <2>2. running \subseteq 0 .. MaxFrame
    BY RunningRange
  <2>3. ASSUME NEW f \in running, NEW q \in work[f].pipelines, q[2] # None
        PROVE  Kept(q[1], q[2], f)'
    <3>1. q[1] \in Pass /\ Kept(q[1], q[2], f)
      BY <2>1, <2>2, <2>3 DEF IInv, PipelinesKept, WorkTypes
    <3>2. \A n : n = pipe[q[1]].current /\ n # None => n = pipe'[q[1]].current
      BY <1>3, <3>1
    <3> QED BY <1>1, <1>3, <2>3, <3>1, <3>2 DEF Kept
  <2> QED BY <1>1, <2>1, <2>3 DEF PipelinesKept
<1> QED BY <1>4, <1>5, <1>6, <1>7, <1>8

\* A change of the passes between frames leaves pipelines, frames and commands alone,
\* and asks for a rebuild if it changes which passes are enabled.
LEMMA ModelStep ==
    ASSUME IInv, stage = "update",
           UNCHANGED <<gateVars, graph, pipe, work>>,
           model' \in [Pass -> {"none", "enabled", "disabled", "removed"}],
           dirty' \in BOOLEAN, version' \in Nat,
           dirty' \/ (~dirty /\ Enabled' = Enabled)
    PROVE  PipesOK(pipe)' /\ WorkTypes' /\ StageInv' /\ GraphInv' /\ Recorded' /\ PipelinesKept'
<1>1. PipesOK(pipe)' /\ WorkTypes' /\ Recorded'
  BY DEF IInv, PipesOK, Made, WorkTypes, Recorded, gateVars
<1>2. StageInv'
  BY DEF IInv, StageInv, gateVars
<1>3. GraphInv'
  BY DEF IInv, GraphInv, gateVars
<1>4. PipelinesKept'
  BY DEF IInv, PipelinesKept, Kept, Live, gateVars, gpuVars, Slot
<1> QED BY <1>1, <1>2, <1>3, <1>4

\* The acquire, the end of a submission and a new swapchain leave the model and the
\* pipelines alone; commands stay, or are dropped if they are not of the frame recorded.
LEMMA GateOnlyStep ==
    ASSUME IInv, UNCHANGED <<model, dirty, graph, version, pipe, frame>>,
           stage' = stage \/ (stage = "idle" /\ stage' = "update" /\ frame < MaxFrame),
           running' \subseteq running, DOMAIN work' = 0 .. MaxFrame,
           \A f \in 0 .. MaxFrame :
               \/ work'[f] = work[f]
               \/ work'[f] = Nothing /\ (f = frame => stage # "record")
    PROVE  PipesOK(pipe)' /\ WorkTypes' /\ StageInv' /\ GraphInv' /\ Recorded' /\ PipelinesKept'
<1>1. PipesOK(pipe)'
  BY DEF IInv, PipesOK, Made
<1>2. WorkTypes'
  BY DEF IInv, WorkTypes, Nothing
<1>3. StageInv'
  BY Zenon DEF IInv, StageInv, Building
<1>4. frame \in 0 .. MaxFrame
  BY DEF IInv, StageInv
<1>5. GraphInv'
  BY <1>4 DEF IInv, GraphInv, Enabled
<1>6. Recorded'
  BY DEF IInv, Recorded
<1>7. PipelinesKept'
  <2>1. Live' \subseteq Live /\ Live \subseteq 0 .. MaxFrame
    BY <1>4, RunningRange DEF Live
  <2>2. ASSUME NEW f \in Live', NEW q \in work'[f].pipelines, q[2] # None
        PROVE  Kept(q[1], q[2], f)'
    <3>1. q \in work[f].pipelines
      BY <2>1, <2>2 DEF Nothing
    <3>2. Kept(q[1], q[2], f)
      BY <2>1, <2>2, <3>1 DEF IInv, PipelinesKept
    <3> QED BY <3>2 DEF Kept, Slot
  <2> QED BY <2>2 DEF PipelinesKept
<1> QED BY <1>1, <1>2, <1>3, <1>5, <1>6, <1>7

\* EndFrame: the frame runs with what it recorded, if it recorded anything.
LEMMA FinishedStep ==
    ASSUME IInv, NEW success \in BOOLEAN, Finished(success)
    PROVE  PipesOK(pipe)' /\ WorkTypes' /\ StageInv' /\ GraphInv' /\ Recorded' /\ PipelinesKept'
<1>1. /\ stage \in Building /\ stage' = "idle" /\ frame' = frame + 1
      /\ running' = running \cup {frame}
      /\ UNCHANGED <<model, dirty, graph, version, pipe>>
  BY DEF Finished, Submit, Building
<1>2. frame \in 0 .. MaxFrame /\ frame < MaxFrame /\ frame \in Nat
  BY <1>1, FrameSlot DEF IInv, StageInv
<1>3. /\ DOMAIN work' = 0 .. MaxFrame
      /\ \A f \in 0 .. MaxFrame :
             work'[f] = work[f] \/ (f = frame /\ work'[f] = Nothing)
  BY DEF Finished, IInv, WorkTypes
<1>4. PipesOK(pipe)'
  BY <1>1 DEF IInv, PipesOK, Made
<1>5. WorkTypes'
  BY <1>3 DEF IInv, WorkTypes, Nothing
<1>6. StageInv'
  <2>1. frame' \in 0 .. MaxFrame
    BY <1>1, <1>2, FifPositive
  <2> QED BY <1>1, <2>1, Zenon DEF IInv, StageInv, Building
<1>7. GraphInv'
  BY <1>1 DEF IInv, GraphInv, Enabled, Building
<1>8. Recorded'
  <2>1. ASSUME NEW f \in 0 .. MaxFrame, f > frame' \/ f = frame'
        PROVE  work'[f] = Nothing
    <3>1. f > frame /\ f # frame
      BY <1>1, <1>2, <2>1
    <3> QED BY <1>3, <3>1 DEF IInv, Recorded
  <2> QED BY <2>1 DEF Recorded
<1>9. PipelinesKept'
  <2>1. Live' = running \cup {frame} /\ running \subseteq 0 .. MaxFrame
    BY <1>1, RunningRange DEF Live
  <2>2. ASSUME NEW f \in Live', NEW q \in work'[f].pipelines, q[2] # None
        PROVE  Kept(q[1], q[2], f)'
    <3>1. work[f] # Nothing /\ q \in work[f].pipelines /\ f \in 0 .. MaxFrame
      BY <1>2, <1>3, <2>1, <2>2 DEF Nothing
    <3>2. f \in Live
      BY <2>1, <2>2, <3>1 DEF IInv, Recorded, Live
    <3>3. Kept(q[1], q[2], f)
      BY <2>2, <3>1, <3>2 DEF IInv, PipelinesKept
    <3> QED BY <1>1, <1>2, <3>3 DEF Kept, Slot
  <2> QED BY <2>2 DEF PipelinesKept
<1> QED BY <1>4, <1>5, <1>6, <1>7, <1>8, <1>9

\* Nothing of the model has happened initially.
LEMMA InitIInv == Init => IInv
<1> SUFFICES ASSUME Init PROVE IInv
  OBVIOUS
<1>1. GateInv
  BY FifPositive DEF Init, GateInit, GateInv, GateTypeOK, FencesExact, RunningRecent, Building
<1>2. PipesOK(pipe)
  <2>1. NoPipeline \in PassPipeline
    <3>1. FALSE \in BOOLEAN
      OBVIOUS
    <3> QED BY <3>1, MakesPipeline DEF NoPipeline
  <2>2. NoPipeline.made = 0 /\ NoPipeline.current = None
    BY DEF NoPipeline
  <2> HIDE DEF NoPipeline
  <2> QED BY <2>1, <2>2 DEF Init, PipesOK, Made
<1>3. WorkTypes /\ Recorded
  BY DEF Init, WorkTypes, Recorded, Nothing
<1>4. StageInv
  <2>1. dirty \in BOOLEAN
    BY Zenon DEF Init
  <2> QED BY <2>1, FifPositive DEF Init, GateInit, StageInv, Building
<1>5. GraphInv
  BY DEF Init, GraphInv
<1>6. PipelinesKept
  BY DEF Init, GateInit, PipelinesKept, Live
<1> QED BY <1>1, <1>2, <1>3, <1>4, <1>5, <1>6 DEF IInv

\* Every step preserves the inductive invariant.
LEMMA StepIInv == IInv /\ [Next]_vars => IInv'
<1> SUFFICES ASSUME IInv, [Next]_vars PROVE IInv'
  OBVIOUS
<1> DEFINE Rest == /\ PipesOK(pipe) /\ WorkTypes /\ StageInv /\ GraphInv /\ Recorded
                   /\ PipelinesKept
<1>1. CASE UNCHANGED vars
  BY <1>1 DEF IInv, PipesOK, Made, WorkTypes, StageInv, GateInv, GateTypeOK, FencesExact,
     RunningRecent, GraphInv, Enabled, Recorded, PipelinesKept, Kept, Live, Slot,
     vars, gateVars, gpuVars, pipelineVars
<1>2. CASE Next
  <2>1. GateInv'
    BY <1>2, GateStep
  <2>2. model \in [Pass -> {"none", "enabled", "disabled", "removed"}]
        /\ dirty \in BOOLEAN /\ version \in Nat
    BY DEF IInv, StageInv
  <2>3. ASSUME NEW fails \in SUBSET Pass, Initialize(fails) PROVE Rest'
    BY <2>3, InitializeStep
  <2>4. ASSUME NEW p \in Pass, RegisterPass(p) PROVE Rest'
    BY <2>2, <2>4, ModelStep DEF RegisterPass, Between
  <2>5. ASSUME NEW p \in Pass, RemovePass(p) PROVE Rest'
    BY <2>2, <2>5, ModelStep DEF RemovePass, Between
  <2>6. ASSUME NEW p \in Pass, NEW e \in {"enabled", "disabled"}, SetPassEnabled(p, e)
        PROVE  Rest'
    BY <2>2, <2>6, ModelStep DEF SetPassEnabled, Between, Marked
  <2>7. ASSUME RequestRebuild PROVE Rest'
    BY <2>2, <2>7, ModelStep DEF RequestRebuild, Between
  <2>8. ASSUME EditShader PROVE Rest'
    <3>1. Enabled' = Enabled
      BY <2>8 DEF EditShader, Enabled
    <3> QED BY <2>2, <2>8, <3>1, ModelStep DEF EditShader, Between
  <2>9. ASSUME NEW size \in Extent, Resize(size) PROVE Rest'
    <3>1. DOMAIN work = 0 .. MaxFrame
      BY DEF IInv, WorkTypes
    <3> QED BY <2>9, <3>1, GateOnlyStep DEF Resize, Idle
  <2>10. ASSUME Acquire PROVE Rest'
    <3>1. DOMAIN work = 0 .. MaxFrame
      BY DEF IInv, WorkTypes
    <3> QED BY <2>10, <3>1, GateOnlyStep DEF Acquire, gpuVars, pipelineVars
  <2>11. ASSUME NEW compiles \in BOOLEAN, NEW fails \in SUBSET Pass,
                RenderFrame(compiles, fails)
         PROVE  Rest'
    BY <2>11, RenderTypes, RenderKeeps
  <2>12. ASSUME NEW success \in BOOLEAN, Finished(success) PROVE Rest'
    BY <2>12, FinishedStep
  <2>13. ASSUME NEW f \in running, GpuFinishes(f) PROVE Rest'
    <3>1. DOMAIN work = 0 .. MaxFrame /\ f # frame
      BY RunningRange DEF IInv, WorkTypes
    <3> QED BY <2>13, <3>1, GateOnlyStep DEF GpuFinishes, Finish
  <2>14. Rest'
    BY <1>2, <2>3, <2>4, <2>5, <2>6, <2>7, <2>8, <2>9, <2>10, <2>11, <2>12, <2>13 DEF Next
  <2> QED BY <2>1, <2>14 DEF IInv
<1> QED BY <1>1, <1>2

\* The inductive invariant holds in every reachable state.
LEMMA Inductive == Spec => []IInv
  BY InitIInv, StepIInv, PTL DEF Spec

-----------------------------------------------------------------------------
\* ApplyChanges catches up with the model: whatever passes came and went, and whatever
\* graphs did not compile, a frame executes exactly the passes that are enabled.
THEOREM ExecutesTheModel == Spec => []ExecutesModel
<1>1. IInv => ExecutesModel
  BY DEF IInv, GraphInv, ExecutesModel
<1> QED BY <1>1, Inductive, PTL

\* No pass is executed without its pipeline, unless that could not be created: neither
\* the passes registered before the layouts were known nor those of a failed frame.
THEOREM ExecutedAreBuilt == Spec => []BuiltWhenExecuted
<1>1. ASSUME IInv, stage = "record", NEW p \in graph
      PROVE  pipe[p].current # None \/ pipe[p].failed
  <2>1. graph = Enabled /\ Enabled \subseteq Pass /\ p \in Pass
    BY <1>1 DEF IInv, GraphInv, Enabled
  <2>2. graph # None => pipe[p].current # None \/ pipe[p].failed
    BY <1>1, Zenon DEF IInv, GraphInv
  <2>3. graph # None
    BY <1>1 DEF IInv, GraphInv
  <2> QED BY <2>2, <2>3, Zenon
<1>2. IInv => BuiltWhenExecuted
  BY <1>1 DEF BuiltWhenExecuted
<1> QED BY <1>2, Inductive, PTL

\* For every number of frames in flight, a pipeline that a running frame bound is the
\* current one or waits for its slot's turn.
THEOREM BoundPipelinesLive == Spec => []PipelinesAlive
<1>1. ASSUME IInv, NEW f \in running, NEW q \in work[f].pipelines, q[2] # None,
             Destroyed(q[1], q[2])
      PROVE  FALSE
  <2>1. Kept(q[1], q[2], f)
    BY <1>1 DEF IInv, PipelinesKept, Live
  <2>2. PICK h \in Nat : q[2] \in pipe[q[1]].retiring[Slot(h)]
    BY <1>1, <2>1 DEF Kept, Destroyed
  <2>3. Slot(h) \in Slots
    BY FifPositive, SlotRange DEF Slots
  <2> QED BY <1>1, <2>2, <2>3 DEF Destroyed
<1>2. IInv => PipelinesAlive
  BY <1>1 DEF PipelinesAlive
<1> QED BY <1>2, Inductive, PTL

-----------------------------------------------------------------------------
(* Two frames in flight: the tests of CollectGarbage and CollectRemovedPasses *)

\* Removals and retirements name slots; what a frame uses is not destroyed.
CollectInv ==
    /\ removals \subseteq Pass \X Slots /\ lastSlot \in Slots
    /\ DOMAIN transients = {"current", "key", "made", "retired"}
    /\ \A r \in transients.retired : r[2] = 0
    /\ \A f \in Live : \A p \in work[f].passes : ~Gone(p)
    /\ \A f \in Live : work[f].generation # None => ~Freed(work[f].generation)

\* With at most two frames in flight, the slot that is asked about is the other one,
\* whose frame is the only one that can still run.
LEMMA CollectsWhenQuiet ==
    ASSUME IInv, FIF <= 2, stage \in Building, NEW s \in Slots, Collectable(s)
    PROVE  running = {}
<1>1. s \in Nat /\ frame \in Nat /\ Slot(s) = s /\ Slot(frame) # s
  BY FifPositive, FrameSlot DEF Slots, Collectable, Slot
<1>2. fence[s]
  BY <1>1 DEF Collectable, IsFrameComplete, Signaled
<1> SUFFICES ASSUME NEW g \in running PROVE FALSE
  OBVIOUS
<1>3. g \in Nat /\ g < frame /\ g > frame - FIF
  BY RunningRange, <1>1 DEF IInv, GateInv, GateTypeOK, RunningRecent
<1>4. Slot(g) # Slot(frame) /\ Slot(g) \in Slots /\ Slot(frame) \in Slots
  BY <1>1, <1>3, FifPositive, SlotsDiffer, SlotRange DEF Slots
<1>5. Slot(g) = s
  BY <1>1, <1>4, FifPositive DEF Slots
<1> QED BY <1>1, <1>2, <1>5 DEF IInv, GateInv, FencesExact, Slots

\* A sync retires the generation it replaces, and does not free it.
LEMMA SyncKeeps ==
    ASSUME NEW t, DOMAIN t = {"current", "key", "made", "retired"},
           \A r \in t.retired : r[2] = 0,
           NEW passes, NEW size, NEW u, u = Synced(t, passes, size)
    PROVE  /\ DOMAIN u = {"current", "key", "made", "retired"}
           /\ \A r \in u.retired : r[2] = 0
           /\ \A g : g # None /\ (g = t.current \/ \E r \in t.retired : r[1] = g)
                     => g = u.current \/ \E r \in u.retired : r[1] = g
<1>1. CASE t.current # None /\ t.key = <<passes, size>>
  BY <1>1 DEF Synced
<1>2. CASE ~(t.current # None /\ t.key = <<passes, size>>)
  <2>1. u.retired = IF t.current = None THEN t.retired
                    ELSE t.retired \cup {<<t.current, 0>>}
    BY <1>2 DEF Synced, RetireFrame
  <2>2. DOMAIN u = DOMAIN t
    BY <1>2 DEF Synced
  <2>3. \A r \in u.retired : r[2] = 0
    BY <2>1
  <2>4. ASSUME NEW g, g = t.current, g # None PROVE \E r \in u.retired : r[1] = g
    <3>1. <<g, 0>> \in u.retired
      BY <2>1, <2>4
    <3> QED BY <3>1
  <2>5. ASSUME NEW g, NEW r \in t.retired, r[1] = g PROVE \E q \in u.retired : q[1] = g
    BY <2>1, <2>5
  <2> QED BY <2>2, <2>3, <2>4, <2>5
<1> QED BY <1>1, <1>2

\* Garbage is collected when nothing runs, or not at all.
LEMMA RenderCollects ==
    ASSUME IInv, CollectInv, FIF <= 2, NEW compiles \in BOOLEAN, NEW fails \in SUBSET Pass,
           RenderFrame(compiles, fails)
    PROVE  CollectInv'
<1>1. stage = "update" /\ stage \in Building /\ Slot(frame) \in Slots /\ 0 \in Slots
      /\ running' = running /\ frame' = frame /\ model' = model
      /\ frame \notin running /\ Live = running /\ running \subseteq 0 .. MaxFrame
      /\ frame \in 0 .. MaxFrame
  BY FrameSlot, RunningRange, FifPositive
  DEF RenderFrame, Building, Live, gpuVars, Slots, IInv, StageInv
<1> DEFINE resized == IF window # extent /\ graph # None
                      THEN Synced(transients, graph, window) ELSE transients
           rebuilt == IF dirty /\ compiles THEN Synced(resized, Enabled, window) ELSE resized
<1>2. PICK u : u = rebuilt
  OBVIOUS
<1>3. /\ DOMAIN u = {"current", "key", "made", "retired"}
      /\ \A r \in u.retired : r[2] = 0
      /\ \A g : g # None /\ (g = transients.current \/ \E r \in transients.retired : r[1] = g)
                => g = u.current \/ \E r \in u.retired : r[1] = g
  <2>1. PICK v : v = resized
    OBVIOUS
  <2>2. /\ DOMAIN v = {"current", "key", "made", "retired"}
        /\ \A r \in v.retired : r[2] = 0
        /\ \A g : g # None /\ (g = transients.current \/ \E r \in transients.retired : r[1] = g)
                  => g = v.current \/ \E r \in v.retired : r[1] = g
    <3>1. CASE window # extent /\ graph # None
      BY <2>1, <3>1, SyncKeeps DEF CollectInv
    <3>2. CASE ~(window # extent /\ graph # None)
      BY <2>1, <3>2 DEF CollectInv
    <3> QED BY <3>1, <3>2
  <2>3. u = IF dirty /\ compiles THEN Synced(v, Enabled, window) ELSE v
    BY <1>2, <2>1
  <2> HIDE DEF resized, rebuilt
  <2>4. CASE dirty /\ compiles
    <3>1. u = Synced(v, Enabled, window)
      BY <2>3, <2>4
    <3>2. /\ DOMAIN u = {"current", "key", "made", "retired"}
          /\ \A r \in u.retired : r[2] = 0
          /\ \A g : g # None /\ (g = v.current \/ \E r \in v.retired : r[1] = g)
                    => g = u.current \/ \E r \in u.retired : r[1] = g
      BY <2>2, <3>1, SyncKeeps
    <3> QED BY <2>2, <3>2
  <2>5. CASE ~(dirty /\ compiles)
    BY <2>2, <2>3, <2>5
  <2> QED BY <2>4, <2>5
<1>4. CASE stage' # "record"
  <2>1. transients' = u /\ UNCHANGED <<removals, lastSlot, work>> /\ Live' = running
    BY <1>1, <1>2, <1>4 DEF RenderFrame, Live
  <2> HIDE DEF resized, rebuilt
  <2>2. \A p : Gone(p)' <=> Gone(p)
    BY <1>1, <2>1 DEF Gone
  <2>3. ASSUME NEW f \in running, work[f].generation # None
        PROVE  transients'.current = work[f].generation
                   \/ \E r \in transients'.retired : r[1] = work[f].generation
    <3>1. ~Freed(work[f].generation)
      BY <1>1, <2>3 DEF CollectInv
    <3> QED BY <3>1, <1>3, <2>1, <2>3 DEF Freed
  <2>4. \A f \in Live' : work'[f].generation # None => ~Freed(work[f].generation)'
    BY <2>1, <2>3 DEF Freed
  <2>5. \A f \in Live' : \A p \in work'[f].passes : ~Gone(p)'
    BY <1>1, <2>1, <2>2 DEF CollectInv
  <2> QED BY <1>1, <1>3, <2>1, <2>4, <2>5 DEF CollectInv, Slots
<1>5. CASE stage' = "record"
  <2>1. PICK c, ps :
           /\ transients' = Collected(u) /\ lastSlot' = Slot(frame)
           /\ removals' = {r \in removals : ~Collectable(r[2])}
           /\ work' = [work EXCEPT ![frame] = [passes |-> c, generation |-> u.current,
                                               pipelines |-> ps]]
    <3>1. \E c, ps :
           /\ transients' = Collected(rebuilt) /\ lastSlot' = Slot(frame)
           /\ removals' = {r \in removals : ~Collectable(r[2])}
           /\ work' = [work EXCEPT ![frame] = [passes |-> c, generation |-> rebuilt.current,
                                               pipelines |-> ps]]
      BY <1>5, Zenon DEF RenderFrame
    <3> HIDE DEF rebuilt
    <3> QED BY <1>2, <3>1
  <2> HIDE DEF resized, rebuilt
  <2>2. DOMAIN work = 0 .. MaxFrame
    BY DEF IInv, WorkTypes
  <2>3. /\ \A f \in running : work'[f] = work[f]
        /\ work'[frame].generation = u.current
    BY <1>1, <2>1, <2>2
  <2>4. work'[frame].passes = Enabled /\ Enabled' = Enabled
    <3>1. GraphInv'
      BY RenderTypes
    <3> QED BY <3>1, <1>1, <1>5 DEF GraphInv, Enabled
  <2>5. Live' = running \cup {frame}
    BY <1>1, <1>5 DEF Live
  <2>6. /\ DOMAIN transients' = {"current", "key", "made", "retired"}
        /\ transients'.current = u.current
        /\ transients'.retired = {r \in u.retired : ~Collectable(r[2])}
    BY <2>1, <1>3 DEF Collected
  <2>7. running # {} => removals' = removals /\ transients'.retired = u.retired
    <3>1. running # {} => \A s \in Slots : ~Collectable(s)
      BY <1>1, CollectsWhenQuiet
    <3>2. (\A r \in removals : r[2] \in Slots) /\ \A r \in u.retired : r[2] \in Slots
      BY <1>1, <1>3 DEF CollectInv
    <3> QED BY <2>1, <2>6, <3>1, <3>2
  <2>8. ASSUME NEW f \in running, NEW p \in work[f].passes
        PROVE  ~Gone(p)'
    <3>1. ~Gone(p)
      BY <1>1, <2>8 DEF CollectInv
    <3> QED BY <3>1, <2>7, <2>8, <1>1 DEF Gone
  <2>9. ASSUME NEW p \in Enabled PROVE ~Gone(p)'
    BY <1>1, <2>9 DEF Enabled, Gone
  <2>10. ASSUME NEW f \in running, work[f].generation # None
         PROVE  transients'.current = work[f].generation
                   \/ \E r \in transients'.retired : r[1] = work[f].generation
    <3>1. ~Freed(work[f].generation)
      BY <1>1, <2>10 DEF CollectInv
    <3> QED BY <3>1, <1>3, <2>6, <2>7, <2>10 DEF Freed
  <2>11. \A f \in Live' : \A p \in work'[f].passes : ~Gone(p)'
    BY <2>3, <2>4, <2>5, <2>8, <2>9
  <2>12. ASSUME NEW f \in Live', work'[f].generation # None
         PROVE  (~Freed(work[f].generation))'
    <3>1. CASE f \in running
      <4>1. work'[f] = work[f]
        BY <2>3, <3>1
      <4> QED BY <4>1, <2>10, <2>12, <3>1 DEF Freed
    <3>2. CASE f = frame
      BY <2>3, <2>6, <3>2 DEF Freed
    <3> QED BY <2>5, <3>1, <3>2
  <2>13. \A r \in transients'.retired : r[2] = 0
    BY <1>3, <2>6
  <2>14. removals' \subseteq Pass \X Slots /\ lastSlot' \in Slots
    BY <1>1, <2>1 DEF CollectInv
  <2> QED BY <2>6, <2>11, <2>12, <2>13, <2>14 DEF CollectInv, Slots
<1> QED BY <1>4, <1>5

\* The passes' own changes: a removed pass is pending, its frame's slot is a slot.
LEMMA RemoveCollects ==
    ASSUME IInv, CollectInv, NEW p \in Pass, RemovePass(p)
    PROVE  CollectInv'
<1>1. /\ removals' = removals \cup {<<p, lastSlot>>} /\ model' = [model EXCEPT ![p] = "removed"]
      /\ UNCHANGED <<gateVars, lastSlot, transients, work>> /\ stage = "update"
  BY DEF RemovePass, Removals, Between
<1>2. removals' \subseteq Pass \X Slots
  BY <1>1 DEF CollectInv
<1>3. ASSUME NEW f \in Live, NEW q \in work[f].passes
      PROVE  ~Gone(q)'
  <2>1. ~Gone(q)
    BY <1>3 DEF CollectInv
  <2>2. CASE q = p
    <3>1. <<p, lastSlot>> \in removals' /\ <<p, lastSlot>>[1] = q
      BY <1>1, <2>2
    <3> QED BY <3>1 DEF Gone
  <2>3. CASE q # p
    BY <1>1, <2>1, <2>3 DEF Gone, IInv, StageInv
  <2> QED BY <2>2, <2>3
<1>4. Live' = Live
  BY <1>1 DEF Live, gateVars, gpuVars
<1> QED BY <1>1, <1>2, <1>3, <1>4 DEF CollectInv, Freed, Slots

\* Actions that leave passes, transients and their lists alone keep them for the
\* frames that are left.
LEMMA OthersCollect ==
    ASSUME CollectInv, UNCHANGED <<removals, lastSlot, transients>>,
           \A p : Gone(p)' => Gone(p),
           \A f \in Live' : work'[f] = Nothing \/ (f \in Live /\ work'[f] = work[f])
    PROVE  CollectInv'
<1>1. ASSUME NEW f \in Live', NEW p \in work'[f].passes PROVE ~Gone(p)'
  <2>1. f \in Live /\ p \in work[f].passes
    BY <1>1 DEF Nothing
  <2> QED BY <2>1 DEF CollectInv
<1>2. ASSUME NEW f \in Live', work'[f].generation # None PROVE (~Freed(work[f].generation))'
  <2>1. f \in Live /\ work'[f] = work[f]
    BY <1>2 DEF Nothing
  <2> QED BY <1>2, <2>1 DEF CollectInv, Freed
<1> QED BY <1>1, <1>2 DEF CollectInv, Slots

\* Whatever the step, with at most two frames in flight.
LEMMA StepCollect == IInv /\ CollectInv /\ FIF <= 2 /\ [Next]_vars => CollectInv'
<1> SUFFICES ASSUME IInv, CollectInv, FIF <= 2, [Next]_vars PROVE CollectInv'
  OBVIOUS
<1>1. CASE UNCHANGED vars
  BY <1>1, OthersCollect DEF vars, pipelineVars, gateVars, gpuVars, Live, Gone
<1>2. ASSUME NEW fails \in SUBSET Pass, Initialize(fails) PROVE CollectInv'
  <2>1. /\ Live' = Live /\ transients' = Synced(transients, Enabled, extent)
        /\ UNCHANGED <<removals, lastSlot, model, work>>
    BY <1>2 DEF Initialize, Live, gpuVars
  <2>2. /\ DOMAIN transients' = {"current", "key", "made", "retired"}
        /\ \A r \in transients'.retired : r[2] = 0
        /\ \A g : g # None /\ (g = transients.current \/ \E r \in transients.retired : r[1] = g)
                  => g = transients'.current \/ \E r \in transients'.retired : r[1] = g
    <3>1. PICK t, u : t = transients /\ u = transients'
      OBVIOUS
    <3>2. /\ DOMAIN t = {"current", "key", "made", "retired"}
          /\ \A r \in t.retired : r[2] = 0
          /\ u = Synced(t, Enabled, extent)
      BY <2>1, <3>1 DEF CollectInv
    <3>3. /\ DOMAIN u = {"current", "key", "made", "retired"}
          /\ \A r \in u.retired : r[2] = 0
          /\ \A g : g # None /\ (g = t.current \/ \E r \in t.retired : r[1] = g)
                    => g = u.current \/ \E r \in u.retired : r[1] = g
      BY <3>2, SyncKeeps
    <3> QED BY <3>1, <3>3
  <2>3. ASSUME NEW f \in Live', work'[f].generation # None
        PROVE  (~Freed(work[f].generation))'
    BY <2>1, <2>2, <2>3 DEF CollectInv, Freed
  <2>4. ASSUME NEW f \in Live', NEW p \in work'[f].passes PROVE ~Gone(p)'
    BY <2>1, <2>4 DEF CollectInv, Gone
  <2> QED BY <2>1, <2>2, <2>3, <2>4 DEF CollectInv, Slots
<1>3. ASSUME NEW p \in Pass, RegisterPass(p) PROVE CollectInv'
  BY <1>3, OthersCollect DEF RegisterPass, gateVars, gpuVars, Live, Gone, IInv, StageInv
<1>4. ASSUME NEW p \in Pass, NEW e \in {"enabled", "disabled"}, SetPassEnabled(p, e)
      PROVE  CollectInv'
  BY <1>4, OthersCollect DEF SetPassEnabled, gateVars, gpuVars, Live, Gone, IInv, StageInv
<1>5. CASE RequestRebuild \/ EditShader
  BY <1>5, OthersCollect DEF RequestRebuild, EditShader, gateVars, gpuVars, Live, Gone
<1>6. ASSUME NEW size \in Extent, Resize(size) PROVE CollectInv'
  BY <1>6, OthersCollect DEF Resize, Idle, Live, Gone
<1>7. CASE Acquire
  BY <1>7, OthersCollect DEF Acquire, gpuVars, pipelineVars, Live, Gone
<1>8. ASSUME NEW success \in BOOLEAN, Finished(success) PROVE CollectInv'
  <2>1. /\ UNCHANGED <<removals, lastSlot, transients, model>> /\ stage' = "idle"
        /\ running' = running \cup {frame}
        /\ work' = IF success THEN work ELSE [work EXCEPT ![frame] = Nothing]
    BY <1>8 DEF Finished, Submit
  <2>2. stage # "record" => work[frame] = Nothing
    BY DEF IInv, Recorded, StageInv
  <2>3. /\ DOMAIN work = 0 .. MaxFrame /\ running \subseteq 0 .. MaxFrame /\ frame \notin running
        /\ frame \in 0 .. MaxFrame
    BY RunningRange DEF IInv, WorkTypes, StageInv
  <2>4. \A f \in Live' : work'[f] = Nothing \/ (f \in Live /\ work'[f] = work[f])
    BY <2>1, <2>2, <2>3 DEF Live
  <2>5. \A p : Gone(p)' => Gone(p)
    BY <2>1 DEF Gone
  <2> QED BY <2>1, <2>4, <2>5, OthersCollect
<1>9. ASSUME NEW f \in running, GpuFinishes(f) PROVE CollectInv'
  <2>1. DOMAIN work = 0 .. MaxFrame /\ running \subseteq 0 .. MaxFrame
    BY RunningRange DEF IInv, WorkTypes
  <2> QED BY <1>9, <2>1, OthersCollect DEF GpuFinishes, Finish, Live, Gone
<1> QED
  BY <1>1, <1>2, <1>3, <1>4, <1>5, <1>6, <1>7, <1>8, <1>9, RemoveCollects, RenderCollects
  DEF Next

\* With one or two frames in flight, no generation of transients is freed while a frame
\* that recorded it runs, although CollectGarbage asks about frame 0: the only slot that
\* it may find finished is that of the only frame that can run.
THEOREM TwoFramesTransients ==
    ASSUME FIF <= 2
    PROVE  Spec => []TransientsAlive
<1>1. Init => CollectInv
  BY FifPositive DEF Init, GateInit, CollectInv, NoTransients, Slots, Live
<1>2. IInv /\ CollectInv => TransientsAlive
  BY DEF CollectInv, TransientsAlive, Live
<1>3. FIF <= 2
  OBVIOUS
<1>4. IInv /\ CollectInv /\ [Next]_vars => CollectInv'
  BY <1>3, StepCollect
<1> QED BY <1>1, <1>2, <1>4, Inductive, PTL DEF Spec

\* Nor is a removed pass destroyed while a frame that executed it runs.
THEOREM TwoFramesPasses ==
    ASSUME FIF <= 2
    PROVE  Spec => []PassesAlive
<1>1. Init => CollectInv
  BY FifPositive DEF Init, GateInit, CollectInv, NoTransients, Slots, Live
<1>2. IInv /\ CollectInv => PassesAlive
  BY DEF CollectInv, PassesAlive, Live
<1>3. FIF <= 2
  OBVIOUS
<1>4. IInv /\ CollectInv /\ [Next]_vars => CollectInv'
  BY <1>3, StepCollect
<1> QED BY <1>1, <1>2, <1>4, Inductive, PTL DEF Spec
=============================================================================
