---------------------------- MODULE BindlessFrames ----------------------------
(***************************************************************************)
(* Bindless texture slots over the frame gate: BindlessManager             *)
(* (engine/core/render/bindless/BindlessManager.cpp), the FrameRing that   *)
(* defers its operations (engine/core/gpu/FrameRing.cppm), the uploader    *)
(* that streams textures in (TextureUploader.cpp) through a bounded pool   *)
(* of staging memory (engine/core/gpu/StagingPool.cpp), and the frame that *)
(* drains the ring (GameEngine::FrameRender).                              *)
(*                                                                         *)
(* The descriptor array is update-after-bind: a frame the GPU runs may     *)
(* sample whatever a slot holds at any moment until it finishes.           *)
(* `samples` collects that.  A texture's image is destroyed with its       *)
(* GpuTexture, at once.                                                    *)
(***************************************************************************)
EXTENDS FrameGate, Sequences, FiniteSets

CONSTANTS
    Capacity,  \* capacity_: slots 1 .. Capacity - 1, slot 0 is the fallback
    Texture,   \* GpuTextures that are ever created
    MaxGen,    \* bound on next_generation_ in reservations
    StagingCapacity,  \* uploads whose bytes fit StagingPoolConfig::capacity_bytes
    None

ASSUME BindlessConstants ==
    /\ Capacity \in Nat \ {0} /\ MaxGen \in Nat /\ StagingCapacity \in Nat
    /\ IsFiniteSet(Texture) /\ None \notin Texture \cup Nat \cup [slot : Nat, gen : Nat]

VARIABLES
    bm,       \* BindlessManager: slots_, free_slots_, next_generation_, ring_, the
              \* operations being drained, and the textures whose images are gone
    target,   \* texture -> the handle it was allocated or uploaded for
    upload,   \* texture -> how far its upload is: none; submitted, until a pump
              \* finds it decoded; waiting, refused staging memory; staged; recorded;
              \* failed
    copied,   \* texture -> the frame its copies were recorded into, or None
    rendered, \* Renderer::frame_counter_: the frames that RenderFrame completed
    samples   \* <<f, t>>: frame f runs and may sample t

bindlessVars == <<bm, target, upload, copied, rendered, samples>>
vars == <<gateVars, bindlessVars>>

Slots == 1 .. Capacity - 1
Handle == [slot : Slots, gen : Nat]
SlotRecord == [gen : Nat, users : {0, 1}, released : BOOLEAN,
               binding : Texture \cup {None}]
SlotOp == [kind : {"Publish", "Decommit", "Destroy"}, slot : Slots, gen : Nat,
           frame : Nat, binding : Texture \cup {None}]

Manager == [slots : [Slots -> SlotRecord], free : Seq(Slots), nextGen : Nat,
            ring : [0 .. FIF - 1 -> Seq(SlotOp)], due : Seq(SlotOp),
            destroyed : SUBSET Texture]

\* The stages at which a frame is being built.
BuildStages == {"update", "record", "unrendered"}

Unused == {t \in Texture : target[t] = None}
Bound(b) == {b.slots[s].binding : s \in Slots} \ {None}

\* The test of every call with a handle: the generation.
Current(h) == bm.slots[h.slot].gen = h.gen
Live(h) == Current(h) /\ ~bm.slots[h.slot].released

-----------------------------------------------------------------------------
(* The ring and the operations it defers *)

Enqueue(b, op) == [b EXCEPT !.ring[Slot(op.frame)] = Append(@, op)]

\* The GpuTexture goes out of scope.
Destroyed(b, t) == [b EXCEPT !.destroyed = @ \cup ({t} \ {None})]

MutRetired(b, op, t) == Destroyed(b, t)   \* mutation: retired bindings go at once
Retired(b, op, t) ==
    IF t = None THEN b
    ELSE Enqueue(b, [op EXCEPT !.kind = "Destroy", !.binding = t])

Freed(b) == [gen |-> b.nextGen, users |-> 0, released |-> FALSE, binding |-> None]

MutStale(b, op) == FALSE   \* mutation: ApplyOp trusts the slot of the operation
Stale(b, op) == b.slots[op.slot].gen # op.gen

ApplyOp(b, op) ==
    LET slot == b.slots[op.slot]
    IN IF Stale(b, op) THEN Destroyed(b, op.binding)
       ELSE CASE op.kind = "Publish" /\ slot.released -> Destroyed(b, op.binding)
              [] op.kind = "Publish" /\ ~slot.released ->
                   Retired([b EXCEPT !.slots[op.slot].binding = op.binding], op, slot.binding)
              [] op.kind = "Decommit" /\ slot.released /\ slot.users = 0 ->
                   Retired([b EXCEPT !.slots[op.slot] = Freed(b), !.nextGen = @ + 1,
                                     !.free = Append(@, op.slot)], op, slot.binding)
              [] op.kind = "Destroy" -> Destroyed(b, op.binding)
              [] OTHER -> b

\* CommitSlot makes the holder a user, once however often it commits.
Committed(n) == IF n < 1 THEN 1 ELSE n

\* Only publishes are gated; one whose frame is not complete is dropped.
MutGate(op) == TRUE   \* mutation: publishes are not gated
Gate(op) == op.kind = "Publish" => IsFrameComplete(op.frame)

\* FrameRing::BeginFrame: the slot's ring is swapped out before it is walked, so
\* what the operations enqueue waits for the next turn of that slot.
SwappedOut(b, f) == [b EXCEPT !.due = b.ring[Slot(f)], !.ring[Slot(f)] = <<>>]

\* One turn of that walk.
Walked(b) ==
    LET op == Head(b.due)
        rest == [b EXCEPT !.due = Tail(@)]
    IN IF Gate(op) THEN ApplyOp(rest, op) ELSE Destroyed(rest, op.binding)

-----------------------------------------------------------------------------
(* The steps *)

\* What running frames may sample after a step: what they could before, and
\* what the slots hold now.
Observe ==
    samples' = {p \in samples : p[1] \in running'}
               \cup ((running' \ dropped') \X Bound(bm'))

Init ==
    /\ GateInit /\ stage = "idle"
    /\ bm = [slots |-> [s \in Slots |-> [gen |-> 0, users |-> 0, released |-> FALSE,
                                         binding |-> None]],
             free |-> [k \in Slots |-> Capacity - k], nextGen |-> 2,
             ring |-> [s \in 0 .. FIF - 1 |-> <<>>], due |-> <<>>, destroyed |-> {}]
    /\ target = [t \in Texture |-> None] /\ upload = [t \in Texture |-> "none"]
    /\ copied = [t \in Texture |-> None]
    /\ rendered = 0 /\ samples = {}

Acquire ==
    /\ stage = "idle" /\ frame < MaxFrame /\ FenceWaited
    /\ stage' = "update"
    /\ UNCHANGED <<frame, gpuVars, bindlessVars>>

In(states) == {t \in Texture : upload[t] \in states}

\* outstanding_bytes_: Retire hands a recorded upload's range to the pool's own
\* ring, which StagingPool::BeginFrame would free; nothing in the engine calls it.
Outstanding == In({"staged", "recorded"})

\* TextureUploader::BeginFrame: `finished` were decoded by now; of them and of those
\* that wait for staging memory, `failed` did not decode or get no image.  The others
\* get staging memory, or wait for it.
Pump(finished, failed, staged) ==
    /\ finished \subseteq In({"submitted"}) /\ failed \subseteq finished \cup In({"waiting"})
    /\ LET ready == (finished \cup In({"waiting"})) \ failed
           room == StagingCapacity - Cardinality(Outstanding)
       IN /\ staged \subseteq ready
          /\ Cardinality(staged) = (IF Cardinality(ready) <= room THEN Cardinality(ready) ELSE room)
          /\ upload' = [t \in Texture |-> CASE t \in staged -> "staged"
                                            [] t \in failed -> "failed"
                                            [] t \in ready \ staged -> "waiting"
                                            [] OTHER -> upload[t]]

\* FrameRender with a scene: the pre-record phase pumps the uploader and swaps out
\* the ring, by the frame index of the device.
BeginFrame ==
    /\ stage = "update" /\ stage' = "drain"
    /\ \E finished, failed, staged \in SUBSET Texture : Pump(finished, failed, staged)
    /\ bm' = SwappedOut(bm, frame)
    /\ UNCHANGED <<frame, gpuVars, target, copied, rendered>>
    /\ Observe

DrainOp ==
    /\ stage = "drain" /\ bm.due # <<>>
    /\ bm' = Walked(bm)
    /\ UNCHANGED <<gateVars, target, upload, copied, rendered>>
    /\ Observe

\* The ring is drained; RenderFrame records, unless the graph's pipelines are not
\* compiled yet.
Prepared ==
    /\ stage = "drain" /\ bm.due = <<>>
    /\ stage' \in {"record", "unrendered"}
    /\ UNCHANGED <<frame, gpuVars, bindlessVars>>

\* SubmitFrame and EndFrame; a frame without a valid scene comes here from
\* "update", its ring not drained.  Only a frame that RenderFrame completed
\* advances the renderer's own counter.
Finished(success) ==
    /\ stage \in BuildStages
    /\ Submit(success)
    /\ frame' = frame + 1 /\ stage' = "idle"
    /\ rendered' = IF stage = "record" THEN rendered + 1 ELSE rendered
    /\ UNCHANGED <<bm, target, upload, copied>>
    /\ Observe

GpuFinishes ==
    /\ \E f \in running : Finish(f)
    /\ UNCHANGED <<bm, target, upload, copied, rendered>>
    /\ Observe

\* The slot that ReserveSlot and AllocateTextureSlot take from the free list.
Taken == bm.free[Len(bm.free)]
Take(users, binding) ==
    /\ bm.free # <<>> /\ bm.nextGen <= MaxGen
    /\ bm' = [bm EXCEPT !.free = SubSeq(@, 1, Len(@) - 1), !.nextGen = @ + 1,
                        !.slots[Taken] = [gen |-> bm.nextGen, users |-> users,
                                          released |-> FALSE, binding |-> binding]]

ReserveSlot ==
    /\ stage \in BuildStages
    /\ Take(0, None)
    /\ UNCHANGED <<gateVars, target, upload, copied, rendered>>
    /\ Observe

\* AllocateTextureSlot, for textures whose content does not come through the
\* uploader.
AllocateTextureSlot(t) ==
    /\ stage \in BuildStages /\ t \in Unused
    /\ Take(1, t)
    /\ target' = [target EXCEPT ![t] = [slot |-> Taken, gen |-> bm.nextGen]]
    /\ UNCHANGED <<gateVars, upload, copied, rendered>>
    /\ Observe

\* TextureUploader::Submit, for a reservation h that was handed out at any time.
SubmitUpload(h, t) ==
    /\ stage \in BuildStages /\ t \in Unused
    /\ target' = [target EXCEPT ![t] = h] /\ upload' = [upload EXCEPT ![t] = "submitted"]
    /\ UNCHANGED <<gateVars, bm, copied, rendered>>
    /\ Observe

\* RecordUploads records the copies into t, then CommitSlot, which is given the
\* renderer's counter, and Retire of the staging range.  What the budget leaves
\* over stays staged.
RecordUpload(t) ==
    LET h == target[t]
    IN /\ stage = "record" /\ upload[t] = "staged"
       /\ upload' = [upload EXCEPT ![t] = "recorded"]
       /\ copied' = [copied EXCEPT ![t] = frame]
       /\ IF Live(h)
          THEN bm' = Enqueue([bm EXCEPT !.slots[h.slot].users = Committed(@)],
                             [kind |-> "Publish", slot |-> h.slot, gen |-> h.gen,
                              frame |-> rendered, binding |-> t])
          ELSE bm' = Destroyed(bm, t)
       /\ UNCHANGED <<gateVars, target, rendered>>
       /\ Observe

\* TextureResidency and TextureReloader release with the device's frame index,
\* GlyphAtlasGpu with the renderer's counter, PhysicalCameraSystem with the counter
\* of the frame it last recorded.
ReleaseFrames == {frame, rendered, rendered - 1} \cap Nat

\* ReleaseSlot.  The slot goes when its last user does.
ReleaseSlot(h, f) ==
    LET users == bm.slots[h.slot].users
        left == IF users > 0 THEN users - 1 ELSE 0
    IN /\ stage \in BuildStages /\ f \in ReleaseFrames
       /\ Live(h)
       /\ bm' = IF left > 0 THEN [bm EXCEPT !.slots[h.slot].users = left]
                ELSE Enqueue([bm EXCEPT !.slots[h.slot].released = TRUE,
                                        !.slots[h.slot].users = 0],
                             [kind |-> "Decommit", slot |-> h.slot, gen |-> h.gen,
                              frame |-> f, binding |-> None])
       /\ UNCHANGED <<gateVars, target, upload, copied, rendered>>
       /\ Observe

\* ReleaseSlotImmediate: its callers own the slot and the device is idle.
ReleaseSlotImmediate(h) ==
    /\ running = {} /\ stage = "idle" /\ Live(h)
    /\ bm' = Destroyed([bm EXCEPT !.slots[h.slot] = Freed(bm), !.nextGen = @ + 1,
                                  !.free = Append(@, h.slot)],
                       bm.slots[h.slot].binding)
    /\ UNCHANGED <<gateVars, target, upload, copied, rendered>>
    /\ Observe

\* Handles that may still be somewhere: those of slots in use, and those that
\* textures were made for.
Handles == {[slot |-> s, gen |-> bm.slots[s].gen] : s \in Slots \ {bm.free[k] : k \in 1 .. Len(bm.free)}}
           \cup {target[t] : t \in Texture \ Unused}

Next ==
    \/ Acquire \/ BeginFrame \/ DrainOp \/ Prepared \/ GpuFinishes
    \/ \E success \in BOOLEAN : Finished(success)
    \/ ReserveSlot
    \/ \E t \in Texture : AllocateTextureSlot(t)
    \/ \E t \in Texture : RecordUpload(t)
    \/ \E h \in Handles : \/ \E t \in Texture : SubmitUpload(h, t)
                          \/ \E f \in ReleaseFrames : ReleaseSlot(h, f)
                          \/ ReleaseSlotImmediate(h)

Spec == Init /\ [][Next]_vars

-----------------------------------------------------------------------------
\* Types; users stays within {0, 1}, so one ReleaseSlot always suffices, however
\* often a texture was reloaded into its slot.
TypeOK ==
    /\ GateTypeOK /\ stage \in BuildStages \cup {"idle", "drain"}
    /\ bm \in Manager
    /\ target \in [Texture -> Handle \cup {None}]
    /\ upload \in [Texture -> {"none", "submitted", "waiting", "staged", "recorded", "failed"}]
    /\ copied \in [Texture -> Nat \cup {None}]
    /\ rendered \in 0 .. frame
    /\ samples \subseteq running \X Texture

\* No image is destroyed while a frame the GPU runs may sample it, through
\* whichever sequence of releases, publishes and decommits its slot went.
SampledAlive == \A p \in samples : p[2] \notin bm.destroyed

\* Nor while a frame copies into it.  CommitSlot does not keep to it for a
\* texture whose handle was released before the upload was recorded.
CopiesOutlived ==
    \A t \in bm.destroyed :
        /\ copied[t] \notin running \ dropped
        /\ copied[t] = frame => stage = "idle"

\* A slot shows only what was meant for its current holder: no publish, however
\* late, lands on a slot that was handed out again.
ShowsOwnTexture ==
    \A s \in Slots : bm.slots[s].binding # None =>
        target[bm.slots[s].binding] = [slot |-> s, gen |-> bm.slots[s].gen]

\* A slot shows a texture only when the frame with its copies was submitted with
\* its work, as long as every frame was rendered.
ShownIsUploaded ==
    rendered = frame =>
        \A s \in Slots :
            bm.slots[s].binding # None => copied[bm.slots[s].binding] \notin dropped

\* The same without that condition.  Publishes carry the renderer's counter, but
\* the ring is drained and gated by the device's frame index: once a frame was
\* not rendered, the gate asks about an earlier frame than the one that recorded.
PublishedWasSubmitted ==
    \A s \in Slots :
        bm.slots[s].binding # None => copied[bm.slots[s].binding] \notin dropped

\* Once a frame's pump ran, an upload waits for staging memory only while that
\* memory is in use: by uploads still to be recorded, or by copies that frames in
\* flight may read.  (The code does not keep this promise.)
RefusedOnlyWhileInUse ==
    stage \in {"record", "unrendered"} /\ In({"waiting"}) # {} =>
        \E t \in Outstanding : \/ upload[t] = "staged"
                               \/ copied[t] >= frame - FIF
=============================================================================
