------------------------------ MODULE FrameLoop ------------------------------
(***************************************************************************)
(* The application's frame loop (RunApplication,                           *)
(* engine/runtime/RunApplication.cppm:326) over the frame gate and the     *)
(* swapchain: minimising, shutdown requests, failing acquires and          *)
(* presents, recreation of the swapchain and, with                         *)
(* PresentPolicy::DiscardStale, presents deferred until the frame's work   *)
(* has finished.                                                           *)
(*                                                                         *)
(* The windowing system may invalidate the swapchain at any moment, shows  *)
(* images for as long as it likes, and takes an acquire's or a present's   *)
(* call either way.                                                        *)
(***************************************************************************)
EXTENDS FrameGate, Sequences, FiniteSets

CONSTANTS
    Image,         \* swapchain images, the same number after a recreation
    Policies,      \* the values of config.present_policy == DiscardStale
    MaxSwapchains, \* bound on recreations
    None

ASSUME LoopConstants ==
    /\ Policies \subseteq BOOLEAN
    /\ TRUE \in Policies => FIF >= 3
    /\ MaxSwapchains \in Nat /\ IsFiniteSet(Image) /\ None \notin Image

VARIABLES
    discardStale,  \* RunApplication's discard_stale, chosen at the start
    status,     \* FrameLoop::pending_status_
    minimized,  \* FrameLoop::minimized_
    outOfDate,  \* VulkanBootstrap::pending_status_ == SwapchainOutOfDate
    swapchain,  \* number of the current swapchain
    images,     \* image -> "free", "held" since its acquire, "shown"
    image,      \* context.frame.image_index, None before the acquire
    pending     \* pending_presents, with the swapchain its image belongs to

loopVars == <<discardStale, status, minimized, outOfDate, swapchain, images, image, pending>>
vars == <<gateVars, loopVars>>

Stage == {"test", "begin", "drain", "bootstrap", "update", "present", "end",
          "left", "failed"}
Pending == [frame : Nat, image : Image, swapchain : Nat]

Init ==
    /\ GateInit /\ stage = "test" /\ discardStale \in Policies
    /\ status = "Ok" /\ minimized = FALSE /\ outOfDate = FALSE
    /\ swapchain = 0 /\ images = [i \in Image |-> "free"]
    /\ image = None /\ pending = <<>>

\* The loop's condition, on the status and on the platform, then the window's
\* state: NotifyWindowMinimized.
Test ==
    /\ stage = "test"
    /\ \/ stage' = "left" /\ UNCHANGED minimized
       \/ status = "Ok" /\ stage' = "begin" /\ minimized' \in BOOLEAN
    /\ UNCHANGED <<frame, gpuVars,
                   discardStale, status, outOfDate, swapchain, images, image, pending>>

\* RequestShutdown, from the quit action, the platform, a hook or max_frames.
RequestShutdown ==
    /\ stage \in {"begin", "update", "end"} /\ status = "Ok"
    /\ status' = "ShutdownRequested"
    /\ UNCHANGED <<gateVars, discardStale, minimized, outOfDate, swapchain, images, image, pending>>

\* What FrameLoop::BeginFrame leaves of the status: it clears only those of
\* the window and the swapchain.
MutStatusAfterBegin == "Ok"   \* mutation: BeginFrame clears every status
StatusAfterBegin == status

\* FrameLoop::BeginFrame; a resize marks the swapchain.
Begin ==
    /\ stage = "begin"
    /\ status' = IF minimized THEN status ELSE StatusAfterBegin
    /\ IF minimized \/ status = "ShutdownRequested"
       THEN stage' = "test" /\ UNCHANGED outOfDate
       ELSE /\ stage' = IF discardStale THEN "drain" ELSE "bootstrap"
            /\ outOfDate' \in {outOfDate, TRUE}
    /\ UNCHANGED <<frame, gpuVars,
                   discardStale, minimized, swapchain, images, image, pending>>

\* presentKHR takes the image; on success it is shown, and when the result is
\* out of date or suboptimal the image is given up as well.
Show(i) == images' = [images EXCEPT ![i] = "shown"]

\* One turn of the drain of deferred presents.
Drain ==
    /\ stage = "drain"
    /\ IF pending # <<>> /\ IsFrameComplete(Head(pending).frame)
       THEN /\ Show(Head(pending).image)
            /\ \/ pending' = Tail(pending) /\ UNCHANGED <<stage, outOfDate>>
               \/ outOfDate' = TRUE /\ stage' = "bootstrap" /\ UNCHANGED pending
       ELSE stage' = "bootstrap" /\ UNCHANGED <<pending, outOfDate, images>>
    /\ UNCHANGED <<frame, gpuVars, discardStale, status, minimized, swapchain, image>>

\* VulkanBootstrap::BeginFrame reports the swapchain out of date, and
\* RecreateSwapchain waits for the device and replaces it, or fails.
Recreate ==
    /\ stage = "bootstrap" /\ outOfDate /\ swapchain < MaxSwapchains
    /\ \/ /\ stage' = "test" /\ outOfDate' = FALSE
          /\ swapchain' = swapchain + 1
          /\ images' = [i \in Image |-> "free"]
       \/ stage' = "failed" /\ UNCHANGED <<outOfDate, swapchain, images>>
    /\ Idle
    /\ UNCHANGED <<discardStale, status, minimized, image, pending>>

\* AcquireNextImage gets an image of a swapchain that is not marked.
Acquire ==
    /\ stage = "bootstrap" /\ ~outOfDate /\ frame < MaxFrame
    /\ FenceWaited
    /\ \E i \in Image :
          images[i] = "free" /\ image' = i /\ images' = [images EXCEPT ![i] = "held"]
    /\ stage' = "update"
    /\ UNCHANGED <<frame, gpuVars,
                   discardStale, status, minimized, outOfDate, swapchain, pending>>

\* AcquireNextImage fails: the fence or the image did not come within a second,
\* or the surface has changed.
AcquireFails ==
    /\ stage = "bootstrap" /\ ~outOfDate /\ swapchain < MaxSwapchains
    /\ outOfDate' = TRUE /\ stage' = "test"
    /\ UNCHANGED <<frame, gpuVars,
                   discardStale, status, minimized, swapchain, images, image, pending>>

Pushed == [frame |-> frame, image |-> image, swapchain |-> swapchain]

\* mutation: a present is deferred only below the comment's FIF - 1 images
MutDeferred(success) == IF success /\ discardStale /\ Len(pending) < FIF - 1
                        THEN Append(pending, Pushed) ELSE pending
Deferred(success) == IF success /\ discardStale THEN Append(pending, Pushed) ELSE pending

\* The hooks ran; SubmitFrame with render_success, after which the image is
\* presented, or its present deferred.
SubmitFrame(success) ==
    /\ stage = "update"
    /\ Submit(success)
    /\ stage' = IF success /\ ~discardStale THEN "present" ELSE "end"
    /\ pending' = Deferred(success)
    /\ UNCHANGED <<frame, discardStale, status, minimized, outOfDate, swapchain, images, image>>

\* The sequential policy's Present.
Present ==
    /\ stage = "present"
    /\ Show(image)
    /\ outOfDate' \in {outOfDate, TRUE}
    /\ stage' = "end"
    /\ UNCHANGED <<frame, gpuVars,
                   discardStale, status, minimized, swapchain, image, pending>>

EndFrame ==
    /\ stage = "end"
    /\ frame' = frame + 1 /\ stage' = "test" /\ image' = None
    /\ UNCHANGED <<gpuVars,
                   discardStale, status, minimized, outOfDate, swapchain, images, pending>>

\* The presentation engine is done with an image.
Release(i) ==
    /\ images[i] = "shown" /\ images' = [images EXCEPT ![i] = "free"]
    /\ UNCHANGED <<gateVars, discardStale, status, minimized, outOfDate, swapchain, image, pending>>

GpuFinishes == (\E f \in running : Finish(f)) /\ UNCHANGED loopVars

Loop == \/ Test \/ Begin \/ Drain \/ Recreate \/ Acquire \/ AcquireFails
        \/ \E success \in BOOLEAN : SubmitFrame(success)
        \/ Present \/ EndFrame

Next == Loop \/ RequestShutdown \/ GpuFinishes \/ \E i \in Image : Release(i)

Spec == Init /\ [][Next]_vars

\* The loop's thread and the GPU go on.
FairSpec == Spec /\ WF_vars(Loop) /\ WF_vars(GpuFinishes)

-----------------------------------------------------------------------------
\* Types; a deferred present has its frame's image.
TypeOK ==
    /\ GateTypeOK /\ stage \in Stage
    /\ status \in {"Ok", "ShutdownRequested"}
    /\ discardStale \in BOOLEAN /\ minimized \in BOOLEAN /\ outOfDate \in BOOLEAN
    /\ swapchain \in 0 .. MaxSwapchains
    /\ images \in [Image -> {"free", "held", "shown"}]
    /\ image \in Image \cup {None} /\ pending \in Seq(Pending)

\* While the hooks build a frame nothing of its slot's earlier frames runs.
BuildsOnQuietSlot == SlotQuiet({"update"})

\* The stages between the acquire and EndFrame, and those after the submission.
Built == {"update", "present", "end"}
Submitted == {"present", "end"}

\* The inductive invariant of FrameLoop_proofs.
IInv ==
    /\ TypeOK /\ FencesExact /\ RunningRecent(Built, Submitted)
    /\ stage \in Built => image \in Image

\* An acquired image is the frame's own, or waits in pending_presents, or was
\* lost to a frame that was dropped: no path of the loop forgets another.
ImagesAccounted ==
    LET waiting == {pending[k].image : k \in {m \in 1 .. Len(pending) :
                                               pending[m].swapchain = swapchain}}
    IN Cardinality({i \in Image : images[i] = "held"} \ (waiting \cup {image}))
          <= Cardinality(dropped)

\* "every image is still presented exactly once": a deferred present names an
\* image of the current swapchain that the application has acquired and not yet
\* presented.
PresentsOwnImage ==
    [][pending # <<>> /\ pending' = Tail(pending) =>
          /\ Head(pending).swapchain = swapchain
          /\ images[Head(pending).image] = "held"]_vars

\* A request to shut down is not lost: the loop is left, whatever acquires and
\* presents do meanwhile.
ShutdownLeaves == status = "ShutdownRequested" ~> stage \in {"left", "failed"}
=============================================================================
