---------------------------- MODULE RenderPipeline ----------------------------
(***************************************************************************)
(* The render pipeline over the frame gate: the pass model and the compiled *)
(* graph (engine/core/render/Pipeline.cpp), the generations of transient   *)
(* images and buffers (engine/core/gpu/TransientAllocator.cpp), the        *)
(* pipelines that hot reload replaces (PipelineSlot in PipelineFactory.cpp) *)
(* and Renderer::RenderFrame, which drives them (Renderer.cpp).            *)
(*                                                                         *)
(* The application changes passes between frames; RenderFrame compiles the *)
(* changes, retires what they replace, and records commands that name      *)
(* passes, a generation and pipelines.  The GPU uses those until it has    *)
(* finished the frame; `work` holds them, and the question is what was     *)
(* destroyed by then.                                                      *)
(***************************************************************************)
EXTENDS FrameGate, FiniteSets

CONSTANTS
    Pass,        \* the passes, each declares a pipeline and a transient
    BuiltIn,     \* those Renderer::Initialize registers, the others are the application's
    Extent,      \* sizes of the swapchain
    MaxGen,      \* bound on generations of transients that are built
    MaxVersion,  \* bound on edits of the passes' shader
    None

ASSUME PipelineConstants ==
    /\ MaxGen \in Nat /\ MaxVersion \in Nat
    /\ None \notin Nat /\ Extent # {} /\ None \notin Extent /\ BuiltIn \subseteq Pass

VARIABLES
    model,       \* pass -> model_passes_: "none", "enabled", "disabled", "removed"
    removals,    \* pending_removals_: <<pass, last_fif_slot_ at the removal>>
    lastSlot,    \* last_fif_slot_
    dirty,       \* dirty_
    graph,       \* the passes of compiled_graph_, None unless compiled_
    extent,      \* render_width_ and render_height_
    window,      \* the extent of the swapchain
    transients,  \* the TransientAllocator, and whose handles compiled_graph_ holds
    version,     \* ShaderManager's version of the passes' shader
    pipe,        \* pass -> PassPipelineState
    work         \* frame -> what its commands use, until it has finished

modelVars == <<model, removals, dirty>>
pipelineVars == <<model, removals, lastSlot, dirty, graph, extent, window,
                  transients, version, pipe, work>>
vars == <<gateVars, pipelineVars>>

Slots == 0 .. FIF - 1
Generation == 1 .. MaxGen

\* passes: what a graph compiled now would execute.
Enabled == {p \in Pass : model[p] = "enabled"}
Alive == {p \in Pass : model[p] \in {"enabled", "disabled"}}

\* retired: <<generation, retire_frame>>.
NoTransients == [current |-> None, key |-> None, made |-> 0, retired |-> {}]

\* A PipelineSlot's products are numbered; retiring[s] are those of FIF slot s.
\* failed: the first one could not be created.
NoPipeline == [current |-> None, made |-> 0, version |-> 0, failed |-> FALSE,
               retiring |-> [s \in Slots |-> {}]]

Nothing == [passes |-> {}, generation |-> None, pipelines |-> {}]

-----------------------------------------------------------------------------
(* Transients *)

\* The frame a replaced generation retires against: SyncTransients says 0.
RetireFrame == 0

\* TransientAllocator::Sync: a generation for `passes` at size `size`, unless it
\* is the current one.  A failed allocation of BuildGeneration throws and ends the
\* program.  Left out: BuildGeneration returns false when the plan is not valid or
\* no memory type fits (TransientAllocator.cpp:205, 251, 309); Sync then has no current
\* generation (:359-362), and ResolveResources goes on with the graph's old handles
\* (Pipeline.cpp:1463-1466), to images that the collector frees.
Synced(t, passes, size) ==
    IF t.current # None /\ t.key = <<passes, size>> THEN t
    ELSE [t EXCEPT !.retired = IF t.current = None THEN @ ELSE @ \cup {<<t.current, RetireFrame>>},
                   !.current = t.made + 1, !.made = @ + 1, !.key = <<passes, size>>]

\* The test of CollectGarbage and of CollectRemovedPasses: `retired` is a FIF slot,
\* which IsFrameComplete takes for the frame of that number.
MutCollectable(retired) == Slot(frame) # retired   \* mutation: the gate is not asked
Collectable(retired) == Slot(frame) # retired /\ IsFrameComplete(retired)

\* CollectGarbage; ResolveResources then takes the handles of the current generation.
Collected(t) == [t EXCEPT !.retired = {r \in @ : ~Collectable(r[2])}]

-----------------------------------------------------------------------------
(* Pipelines *)

\* BuildPassPipelines: what was declared and is not built yet, also of disabled
\* and removed passes; deferred until the engine's layouts are known.
Built(pipes, known, fails) ==
    [p \in Pass |->
        IF ~known \/ model[p] = "none" \/ pipes[p].made # 0 THEN pipes[p]
        ELSE IF p \in fails THEN [pipes[p] EXCEPT !.failed = TRUE]
        ELSE [pipes[p] EXCEPT !.current = 1, !.made = 1]]

\* PipelineSlot::RetireFrame, then PollAndRebuild: on a newer shader the product is
\* swapped and the old one retires into this slot; a failure is retried.
MutPolled(pipes, slot, fails) ==   \* mutation: the slot is cleared after the swap
    [p \in Pass |->
        IF pipes[p].made # 0 /\ pipes[p].version # version /\ p \notin fails
        THEN [pipes[p] EXCEPT !.current = pipes[p].made + 1, !.made = @ + 1,
                              !.version = version, !.retiring[slot] = {}]
        ELSE [pipes[p] EXCEPT !.retiring[slot] = {}]]
Polled(pipes, slot, fails) ==
    [p \in Pass |->
        IF pipes[p].made # 0 /\ pipes[p].version # version /\ p \notin fails
        THEN [pipes[p] EXCEPT !.current = pipes[p].made + 1, !.made = @ + 1,
                              !.version = version, !.retiring[slot] = {pipes[p].current}]
        ELSE [pipes[p] EXCEPT !.retiring[slot] = {}]]

-----------------------------------------------------------------------------
Init ==
    /\ GateInit /\ stage = "setup"
    /\ model = [p \in Pass |-> IF p \in BuiltIn THEN "enabled" ELSE "none"]
    /\ removals = {} /\ lastSlot = 0 /\ dirty = TRUE /\ graph = None
    /\ window \in Extent /\ extent = window
    /\ transients = NoTransients /\ version = 0
    /\ pipe = [p \in Pass |-> NoPipeline]
    /\ work = [f \in 0 .. MaxFrame |-> Nothing]

MutUnblocked(pipes, fails) == pipes   \* mutation: a deferred pipeline waits for a rebuild
Unblocked(pipes, fails) == Built(pipes, TRUE, fails)

\* Renderer::Initialize registers the built-in passes and compiles them while the
\* engine's layouts are unknown; SetEngineDescriptorSetLayouts follows and builds the
\* pipelines that were deferred.
Initialize(fails) ==
    /\ stage = "setup" /\ stage' = "idle"
    /\ graph' = Enabled /\ dirty' = FALSE
    /\ transients' = Synced(transients, Enabled, extent)
    /\ pipe' = Unblocked(Built(pipe, FALSE, fails), fails)
    /\ UNCHANGED <<frame, gpuVars, model, removals, lastSlot, extent, window, version, work>>

\* The application changes its passes from its frame update, and between frames,
\* which comes to the same; never while executing_, inside RenderFrame.
Between == stage = "update"

RegisterPass(p) ==
    /\ Between /\ model[p] = "none"
    /\ model' = [model EXCEPT ![p] = "enabled"] /\ dirty' = TRUE
    /\ UNCHANGED <<gateVars, removals, lastSlot, graph, extent, window, transients,
                   version, pipe, work>>

MutRemovals(p) == removals   \* mutation: the pass is destroyed at once
Removals(p) == removals \cup {<<p, lastSlot>>}

RemovePass(p) ==
    /\ Between /\ p \in Alive \ BuiltIn
    /\ model' = [model EXCEPT ![p] = "removed"] /\ removals' = Removals(p)
    /\ dirty' = TRUE
    /\ UNCHANGED <<gateVars, lastSlot, graph, extent, window, transients, version, pipe, work>>

MutMarked(p, enabled) == model[p] # enabled /\ enabled = "enabled"   \* mutation: disabling does not rebuild
Marked(p, enabled) == TRUE

SetPassEnabled(p, enabled) ==
    /\ Between /\ p \in Alive \ BuiltIn
    /\ model' = [model EXCEPT ![p] = enabled] /\ dirty' = (dirty \/ Marked(p, enabled))
    /\ UNCHANGED <<gateVars, removals, lastSlot, graph, extent, window, transients,
                   version, pipe, work>>

RequestRebuild ==
    /\ Between /\ dirty' = TRUE
    /\ UNCHANGED <<gateVars, model, removals, lastSlot, graph, extent, window,
                   transients, version, pipe, work>>

\* A shader of the passes is reloaded.
EditShader ==
    /\ Between /\ version < MaxVersion /\ version' = version + 1
    /\ UNCHANGED <<gateVars, model, removals, lastSlot, dirty, graph, extent, window,
                   transients, pipe, work>>

\* The swapchain is replaced, by one of another size; the device is idle then.
Resize(size) ==
    /\ stage = "idle" /\ size # window /\ window' = size
    /\ Idle /\ stage' = stage /\ work' = [f \in DOMAIN work |-> Nothing]
    /\ UNCHANGED <<model, removals, lastSlot, dirty, graph, extent, transients,
                   version, pipe>>

Acquire ==
    /\ stage = "idle" /\ frame < MaxFrame /\ FenceWaited
    /\ stage' = "update"
    /\ UNCHANGED <<frame, gpuVars, pipelineVars>>

\* Renderer::RenderFrame.  SetRenderExtent sizes the transients of the graph it
\* finds; ApplyChanges rebuilds from the model, which may not compile; then, if
\* there is a graph, BeginFrame collects, polls and resolves, and the passes are
\* recorded.  fails: passes whose pipeline cannot be created.
RenderFrame(compiles, fails) ==
    LET resized == IF window # extent /\ graph # None
                   THEN Synced(transients, graph, window) ELSE transients
        rebuilt == IF dirty /\ compiles THEN Synced(resized, Enabled, window) ELSE resized
        built == IF dirty /\ compiles THEN Built(pipe, TRUE, fails) ELSE pipe
        compiled == IF ~dirty THEN graph ELSE IF compiles THEN Enabled ELSE None
        polled == Polled(built, Slot(frame), fails)
        commands == [passes |-> compiled, generation |-> rebuilt.current,
                     pipelines |-> {<<p, polled[p].current>> : p \in compiled}]
    IN /\ stage = "update" /\ rebuilt.made <= MaxGen
       /\ extent' = window /\ dirty' = FALSE /\ graph' = compiled
       /\ IF compiled = None
          THEN /\ stage' = "unrendered" /\ transients' = rebuilt /\ pipe' = built
               /\ UNCHANGED <<removals, lastSlot, work>>
          ELSE /\ stage' = "record" /\ transients' = Collected(rebuilt) /\ pipe' = polled
               /\ lastSlot' = Slot(frame)
               /\ removals' = {r \in removals : ~Collectable(r[2])}
               /\ work' = [work EXCEPT ![frame] = commands]
       /\ UNCHANGED <<frame, gpuVars, model, window, version>>

\* SubmitFrame and EndFrame.  A frame that RenderFrame did not record, for want of a
\* scene or a graph, submits what its slot's command buffer held before, which is
\* not followed here.
Finished(success) ==
    /\ stage \in {"update", "record", "unrendered"}
    /\ Submit(success)
    /\ work' = IF success THEN work ELSE [work EXCEPT ![frame] = Nothing]
    /\ frame' = frame + 1 /\ stage' = "idle"
    /\ UNCHANGED <<model, removals, lastSlot, dirty, graph, extent, window, transients,
                   version, pipe>>

GpuFinishes(f) ==
    /\ Finish(f) /\ work' = [work EXCEPT ![f] = Nothing]
    /\ UNCHANGED <<model, removals, lastSlot, dirty, graph, extent, window, transients,
                   version, pipe>>

Next ==
    \/ \E fails \in SUBSET Pass : Initialize(fails)
    \/ \E p \in Pass : \/ RegisterPass(p) \/ RemovePass(p)
                       \/ \E e \in {"enabled", "disabled"} : SetPassEnabled(p, e)
    \/ RequestRebuild \/ EditShader
    \/ \E size \in Extent : Resize(size)
    \/ Acquire
    \/ \E compiles \in BOOLEAN, fails \in SUBSET Pass : RenderFrame(compiles, fails)
    \/ \E success \in BOOLEAN : Finished(success)
    \/ \E f \in running : GpuFinishes(f)

Spec == Init /\ [][Next]_vars

-----------------------------------------------------------------------------
\* What was destroyed: a generation once it is neither current nor retired, a
\* product once it is neither current nor retiring, a pass once its removal was
\* collected.
Freed(g) == g # transients.current /\ \A r \in transients.retired : r[1] # g
Destroyed(p, n) == n # pipe[p].current /\ \A s \in Slots : n \notin pipe[p].retiring[s]
Gone(p) == model[p] = "removed" /\ \A r \in removals : r[1] # p

TypeOK ==
    /\ GateTypeOK /\ stage \in {"setup", "idle", "update", "record", "unrendered"}
    /\ model \in [Pass -> {"none", "enabled", "disabled", "removed"}]
    /\ removals \subseteq Pass \X Slots /\ lastSlot \in Slots
    /\ dirty \in BOOLEAN /\ version \in Nat
    /\ graph \in SUBSET Pass \cup {None}
    /\ extent \in Extent /\ window \in Extent
    /\ transients.current \in Generation \cup {None}
    /\ transients.retired \subseteq Generation \X {0}
    /\ \A p \in Pass : pipe[p].current \in Nat \cup {None}

\* No generation of transients is freed while a frame that recorded it runs.
TransientsAlive ==
    \A f \in running : work[f].generation # None => ~Freed(work[f].generation)

\* No pass is destroyed while a frame that executed it runs.
PassesAlive == \A f \in running : \A p \in work[f].passes : ~Gone(p)

\* No pipeline that hot reload replaced is destroyed while a frame bound it.
PipelinesAlive ==
    \A f \in running : \A q \in work[f].pipelines : q[2] # None => ~Destroyed(q[1], q[2])

\* A frame executes exactly the passes that are enabled when it is recorded.
ExecutesModel ==
    stage = "record" => work[frame].passes = Enabled

\* A pass that is executed has a pipeline, whichever of its registration and the
\* engine's layouts came first, unless its pipeline could not be created.
BuiltWhenExecuted ==
    stage = "record" => \A p \in graph : pipe[p].current # None \/ pipe[p].failed
=============================================================================
