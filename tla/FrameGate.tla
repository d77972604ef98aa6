------------------------------ MODULE FrameGate ------------------------------
(***************************************************************************)
(* Frames in flight: the fence of each slot, the submission record         *)
(* (engine/backend/vulkan/FrameSubmissionRecord.cppm) and IsFrameComplete, *)
(* on which everything that outlives a frame is gated                      *)
(* (engine/backend/vulkan/VulkanBootstrapBackend.cpp).                     *)
(*                                                                         *)
(* Frame f uses slot f % FIF.  AcquireNextImage waits for that slot's      *)
(* fence before the frame is built; SubmitFrame resets the fence and hands *)
(* the GPU the frame's work, or an empty batch when rendering failed, that *)
(* signals it.  The GPU finishes submissions in any order: with a compute  *)
(* queue, frames need not end in the order they were submitted.            *)
(***************************************************************************)
EXTENDS Integers

CONSTANTS
    FIF,       \* frames_in_flight
    MaxFrame,  \* bound on the frame counter
    Never      \* kNeverSubmitted

ASSUME GateConstants == FIF \in Nat \ {0} /\ MaxFrame \in Nat /\ Never \notin Int

VARIABLES
    frame,    \* VulkanBootstrapState::frame_index
    stage,    \* where the loop is in the frame
    record,   \* slot -> FrameSubmissionRecord::record_
    fence,    \* slot -> its in-flight fence is signaled
    running,  \* frames whose submission the GPU has not finished
    dropped   \* frames submitted without their work

gpuVars == <<record, fence, running, dropped>>
gateVars == <<frame, stage, gpuVars>>

Slot(f) == f % FIF

\* The fence's status, which says nothing of which submission signaled it.
Signaled(f) == fence[Slot(f)]

IsRecorded(f) == record[Slot(f)] # Never /\ record[Slot(f)] >= f

MutIsFrameComplete(f) == IsRecorded(f)   \* mutation: the fence is not polled
IsFrameComplete(f) == IsRecorded(f) /\ Signaled(f)

GateInit ==
    /\ frame = 0 /\ record = [s \in 0 .. FIF - 1 |-> Never]
    /\ fence = [s \in 0 .. FIF - 1 |-> TRUE]   \* created signaled
    /\ running = {} /\ dropped = {}

\* AcquireNextImage's fence wait.
MutFenceWaited == TRUE   \* mutation: the acquire does not wait for the fence
FenceWaited == Signaled(frame)

\* SubmitFrame; success is rendering_succeeded.
Submit(success) ==
    /\ fence' = [fence EXCEPT ![Slot(frame)] = FALSE]
    /\ running' = running \cup {frame}
    /\ record' = IF success THEN [record EXCEPT ![Slot(frame)] = frame] ELSE record
    /\ dropped' = IF success THEN dropped ELSE dropped \cup {frame}

\* The GPU finishes a submission and signals its fence.
Finish(f) ==
    /\ f \in running
    /\ running' = running \ {f} /\ fence' = [fence EXCEPT ![Slot(f)] = TRUE]
    /\ UNCHANGED <<frame, stage, record, dropped>>

\* waitIdle, before the swapchain is replaced and at teardown.
Idle ==
    /\ running' = {} /\ fence' = [s \in DOMAIN fence |-> TRUE]
    /\ UNCHANGED <<frame, record, dropped>>

-----------------------------------------------------------------------------
GateTypeOK ==
    /\ frame \in Nat
    /\ record \in [0 .. FIF - 1 -> Nat \cup {Never}]
    /\ fence \in [0 .. FIF - 1 -> BOOLEAN]
    /\ running \subseteq 0 .. frame /\ dropped \subseteq 0 .. frame

\* A fence tells exactly whether a submission of its slot runs.
FencesExact ==
    \A s \in 0 .. FIF - 1 : fence[s] <=> \A g \in running : Slot(g) # s

\* Only the last FIF frames run: FIF - 1 and the current one once its slot's fence
\* was waited for, at the stages `built`; the current one only after its submission.
RunningRecent(built, submitted) ==
    \A g \in running :
        /\ g <= frame /\ (g = frame => stage \in submitted)
        /\ g >= frame - FIF /\ (stage \in built => g > frame - FIF)

\* While a frame is built, every frame that used its slot before has finished,
\* and so has every frame FIF or more before it: the engine writes the slot's
\* buffers and applies the operations deferred that long.  `building` says at
\* which stages a frame is built.
SlotQuiet(building) ==
    stage \in building => \A g \in running : g > frame - FIF

\* A frame reported complete is not running, although the report may rest on
\* the record and the fence of a later frame of the same slot.
CompleteHasFinished ==
    \A f \in 0 .. frame : IsFrameComplete(f) => f \notin running
=============================================================================
