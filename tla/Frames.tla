------------------------------- MODULE Frames -------------------------------
(***************************************************************************)
(* The frames of both programs: the loop in common/application/            *)
(* Application.cpp, the part of the window's state it reads                *)
(* (common/window/Window.cpp), and how common/renderer/Renderer.cpp        *)
(* synchronises with the GPU, which runs up to FramesInFlight frames       *)
(* behind, and with the presentation of the images of the swapchain.       *)
(*                                                                         *)
(* The surface changes its size only while the loop polls for events, with *)
(* the callback that says so.  A swapchain that no longer fits may still   *)
(* be accepted (suboptimal) or be refused (out of date).                   *)
(***************************************************************************)
EXTENDS Naturals, Sequences

CONSTANTS
    FramesInFlight, \* MAX_FRAMES_IN_FLIGHT
    ImageCounts,    \* the numbers of images a swapchain may come with
    MaxResizes      \* bound: changes of the window's size

ASSUME FramesAssumption ==
    /\ FramesInFlight \in Nat \ {0}
    /\ ImageCounts \subseteq Nat \ {0} /\ ImageCounts # {}
    /\ MaxResizes \in Nat

Frame == 0 .. FramesInFlight - 1

VARIABLES
    pc,         \* where the loop is
    frame,      \* m_CurrentFrame
    image,      \* the image acquired for the frame
    resized,    \* m_FramebufferResized of the window
    minimized,  \* isMinimized()
    outdated,   \* does the swapchain no longer fit the surface?
    resizes,    \* ghost: changes of the size so far, which number the swapchains
    semaphores, \* the length of m_RenderFinishedSemaphores
    images,     \* the images of m_SwapChain: "free", "acquired", "queued", "shown"
    swapchain   \* ghost: the number of the swapchain

loopVars == <<pc, frame, image, resized, minimized, outdated, resizes, semaphores, images, swapchain>>

VARIABLES
    fence,      \* m_InFlightFences
    available,  \* m_PresentCompleteSemaphores: is it signaled?
    finished,   \* m_RenderFinishedSemaphores: "idle", "submitted" or "signaled"
    gpu,        \* the submissions the GPU has not finished
    presents,   \* the presents that still wait for their semaphore
    fault       \* the first misuse of a semaphore, or "none"

vars == <<loopVars, fence, available, finished, gpu, presents, fault>>

TypeOK ==
    /\ pc \in {"events", "fence", "record", "acquire", "submit", "present",
               "resized", "rebuild", "closing", "closed"}
    /\ frame \in Frame
    /\ image \in Nat
    /\ resized \in BOOLEAN
    /\ minimized \in BOOLEAN
    /\ outdated \in BOOLEAN
    /\ resizes \in 0 .. MaxResizes
    /\ semaphores \in ImageCounts
    /\ \E n \in ImageCounts : images \in [1 .. n -> {"free", "acquired", "queued", "shown"}]
    /\ swapchain \in Nat
    /\ fence \in [Frame -> {"signaled", "unsignaled"}]
    /\ available \in [Frame -> BOOLEAN]
    /\ finished \in [1 .. semaphores -> {"idle", "submitted", "signaled"}]
    /\ gpu \in Seq([frame : Frame, semaphore : 1 .. semaphores, swapchain : Nat])
    /\ presents \in Seq([image : Nat, semaphore : Nat])
    /\ fault \in {"none", "busy", "missing"}

\* A swapchain comes with as many images as the surface likes.
CreateSwapChain(n) == [i \in 1 .. n |-> "free"]

\* init() creates the swapchain and the synchronisation objects for its images;
\* the fences are created signaled.
Init ==
    /\ pc = "events"
    /\ frame = 0
    /\ image = 0
    /\ resized = FALSE
    /\ minimized = FALSE
    /\ outdated = FALSE
    /\ resizes = 0
    /\ swapchain = 0
    /\ \E n \in ImageCounts :
         /\ semaphores = n
         /\ images = CreateSwapChain(n)
         /\ finished = [i \in 1 .. n |-> "idle"]
    /\ fence = [f \in Frame |-> "signaled"]
    /\ available = [f \in Frame |-> FALSE]
    /\ gpu = <<>>
    /\ presents = <<>>
    /\ fault = "none"

Goto(place) == pc' = place

\* The steps of the loop, until a semaphore is misused.
At(place) == pc = place /\ fault = "none"

-----------------------------------------------------------------------------
(* The loop in Application::run.                                           *)

\* pollEvents, with the framebuffer callback if the size has changed, and
\* onUpdate; a minimized window is not rendered, and keeps its flag.
PollEvents ==
    /\ At("events")
    /\ \/ UNCHANGED <<resized, minimized, outdated, resizes>>
       \/ /\ resizes < MaxResizes
          /\ resizes' = resizes + 1
          /\ resized' = TRUE
          /\ outdated' = TRUE
          /\ minimized' \in BOOLEAN
    /\ Goto(IF minimized' THEN "events" ELSE "fence")
    /\ UNCHANGED <<frame, image, semaphores, images, swapchain, fence, available, finished, gpu, presents, fault>>

\* The window is closed: the loop ends and waits for the device.
Close ==
    /\ At("events")
    /\ Goto("closing")
    /\ UNCHANGED <<frame, image, resized, minimized, outdated, resizes, semaphores, images, swapchain>>
    /\ UNCHANGED <<fence, available, finished, gpu, presents, fault>>

\* waitIdle(): the queue has run the submissions and the waits of the presents.
DeviceIdle == gpu = <<>> /\ presents = <<>>

Closed ==
    /\ At("closing")
    /\ DeviceIdle
    /\ Goto("closed")
    /\ UNCHANGED <<frame, image, resized, minimized, outdated, resizes, semaphores, images, swapchain>>
    /\ UNCHANGED <<fence, available, finished, gpu, presents, fault>>

\* Variant of WaitForFences: nothing is waited for.
WaitForFencesNot ==
    /\ At("fence")
    /\ Goto("record")
    /\ UNCHANGED <<frame, image, resized, minimized, outdated, resizes, semaphores, images, swapchain>>
    /\ UNCHANGED <<fence, available, finished, gpu, presents, fault>>

\* waitForFences, first in onRender.
WaitForFences ==
    /\ At("fence")
    /\ fence[frame] = "signaled"
    /\ Goto("record")
    /\ UNCHANGED <<frame, image, resized, minimized, outdated, resizes, semaphores, images, swapchain>>
    /\ UNCHANGED <<fence, available, finished, gpu, presents, fault>>

\* recordUIData resets the secondary command buffer of the frame and records
\* the interface in it.
RecordUIData ==
    /\ At("record")
    /\ Goto("acquire")
    /\ UNCHANGED <<frame, image, resized, minimized, outdated, resizes, semaphores, images, swapchain>>
    /\ UNCHANGED <<fence, available, finished, gpu, presents, fault>>

\* Variant of AcquireRefused: the fence is reset before the image is asked for.
AcquireRefusedLate ==
    /\ At("acquire")
    /\ outdated
    /\ fence' = [fence EXCEPT ![frame] = "unsignaled"]
    /\ Goto("resized")
    /\ UNCHANGED <<frame, image, resized, minimized, outdated, resizes, semaphores, images, swapchain>>
    /\ UNCHANGED <<available, finished, gpu, presents, fault>>

\* renderFrame: no image is had from a swapchain that is out of date, and the
\* frame is given up before its fence is reset.
AcquireRefused ==
    /\ At("acquire")
    /\ outdated
    /\ Goto("resized")
    /\ UNCHANGED <<frame, image, resized, minimized, outdated, resizes, semaphores, images, swapchain>>
    /\ UNCHANGED <<fence, available, finished, gpu, presents, fault>>

\* renderFrame: an image that is not presented any more; then resetFences.
Acquire ==
    /\ At("acquire")
    /\ \E i \in DOMAIN images :
         /\ images[i] = "free"
         /\ image' = i
         /\ images' = [images EXCEPT ![i] = "acquired"]
    /\ fault' = IF available[frame] THEN "busy" ELSE fault
    /\ available' = [available EXCEPT ![frame] = TRUE]
    /\ fence' = [fence EXCEPT ![frame] = "unsignaled"]
    /\ Goto("submit")
    /\ UNCHANGED <<frame, resized, minimized, outdated, resizes, semaphores, swapchain, finished, gpu, presents>>

\* Variant of FinishedSemaphore: one for each frame.
FinishedSemaphoreOfFrame == frame + 1

\* The semaphore that the submission signals and the present waits for.
FinishedSemaphore == image

\* What the GPU executes: the command buffers of the frame, which draw on an
\* image view of the swapchain, and the semaphore to signal then.
Recorded == [frame |-> frame, semaphore |-> FinishedSemaphore, swapchain |-> swapchain]

\* renderFrame: recordCommandBuffer and submit.  There are as many semaphores
\* as the first swapchain had images.
Submit ==
    /\ At("submit")
    /\ IF FinishedSemaphore > semaphores
       THEN fault' = "missing" /\ UNCHANGED <<finished, gpu>>
       ELSE /\ fault' = IF finished[FinishedSemaphore] # "idle" THEN "busy" ELSE fault
            /\ finished' = [finished EXCEPT ![FinishedSemaphore] = "submitted"]
            /\ gpu' = Append(gpu, Recorded)
    /\ Goto("present")
    /\ UNCHANGED <<frame, image, resized, minimized, outdated, resizes, semaphores, images, swapchain>>
    /\ UNCHANGED <<fence, available, presents>>

Present ==
    /\ At("present")
    /\ images' = [images EXCEPT ![image] = "queued"]
    /\ presents' = Append(presents, [image |-> image, semaphore |-> FinishedSemaphore])
    /\ frame' = (frame + 1) % FramesInFlight
    /\ Goto("resized")
    /\ UNCHANGED <<image, resized, minimized, outdated, resizes, semaphores, swapchain>>
    /\ UNCHANGED <<fence, available, finished, gpu, fault>>

\* wasResized() returns the flag and resets it.
WasResized ==
    /\ At("resized")
    /\ resized' = FALSE
    /\ Goto(IF resized THEN "rebuild" ELSE "events")
    /\ UNCHANGED <<frame, image, minimized, outdated, resizes, semaphores, images, swapchain>>
    /\ UNCHANGED <<fence, available, finished, gpu, presents, fault>>

\* Variant of UpdateSwapChain: the device is not waited for.
UpdateSwapChainAtOnce ==
    /\ At("rebuild")
    /\ outdated' = FALSE
    /\ swapchain' = swapchain + 1
    /\ \E n \in ImageCounts : images' = CreateSwapChain(n)
    /\ Goto("events")
    /\ UNCHANGED <<frame, image, resized, minimized, resizes, semaphores, fence, available, finished, gpu, presents, fault>>

\* updateSwapChain: waitIdle, then the old swapchain goes and a new one comes;
\* the semaphores stay those of the first.
UpdateSwapChain ==
    /\ At("rebuild")
    /\ DeviceIdle
    /\ outdated' = FALSE
    /\ swapchain' = swapchain + 1
    /\ \E n \in ImageCounts : images' = CreateSwapChain(n)
    /\ Goto("events")
    /\ UNCHANGED <<frame, image, resized, minimized, resizes, semaphores, fence, available, finished, gpu, presents, fault>>

Loop ==
    \/ PollEvents
    \/ Close
    \/ Closed
    \/ WaitForFences
    \/ RecordUIData
    \/ AcquireRefused
    \/ Acquire
    \/ Submit
    \/ Present
    \/ WasResized
    \/ UpdateSwapChain

-----------------------------------------------------------------------------
(* The GPU and the presentation engine, as submit and presentKHR use them. *)

\* A submission waits for its image, and signals its semaphore and its fence.
Execute ==
    /\ gpu # <<>>
    /\ available[Head(gpu).frame]
    /\ available' = [available EXCEPT ![Head(gpu).frame] = FALSE]
    /\ finished' = [finished EXCEPT ![Head(gpu).semaphore] = "signaled"]
    /\ fence' = [fence EXCEPT ![Head(gpu).frame] = "signaled"]
    /\ gpu' = Tail(gpu)
    /\ UNCHANGED <<loopVars, presents, fault>>

\* The first present has waited for its semaphore, and its image replaces the
\* one on the screen.
Show ==
    /\ presents # <<>>
    /\ LET present == Head(presents)
       IN  /\ finished[present.semaphore] = "signaled"
           /\ finished' = [finished EXCEPT ![present.semaphore] = "idle"]
           /\ images' = [i \in DOMAIN images |->
                            IF i = present.image THEN "shown"
                            ELSE IF images[i] = "shown" THEN "free" ELSE images[i]]
    /\ presents' = Tail(presents)
    /\ UNCHANGED <<pc, frame, image, resized, minimized, outdated, resizes, semaphores, swapchain>>
    /\ UNCHANGED <<fence, available, gpu, fault>>

Next == Loop \/ Execute \/ Show

Spec == Init /\ [][Next]_vars

\* The loop spins, and the GPU and the screen do their work.
FairSpec == Spec /\ WF_vars(Loop) /\ WF_vars(Execute) /\ WF_vars(Show)

-----------------------------------------------------------------------------
(* Properties.                                                             *)

\* The command buffers of a frame are not recorded again while the GPU may
\* still execute them: there are two of each, and the GPU lags behind.
BuffersNotInUse ==
    pc \in {"record", "acquire", "submit"} =>
        \A i \in DOMAIN gpu : gpu[i].frame # frame

\* A fence that is not signaled will be: its frame is with the GPU, or about
\* to be submitted.  Otherwise waitForFences, without a timeout, never returns.
FencesWillSignal ==
    \A f \in Frame :
        fence[f] = "unsignaled" =>
            \/ \E i \in DOMAIN gpu : gpu[i].frame = f
            \/ f = frame /\ pc = "submit"
            \/ fault # "none"

\* The images, the views and the interface's resources that cleanupSwapChain
\* frees are not those of a frame that the GPU has yet to render.
GpuUsesLiveSwapchain ==
    \A i \in DOMAIN gpu : gpu[i].swapchain = swapchain

\* No semaphore is signaled or waited for twice at a time, and there is one for
\* each image unless a new swapchain has more of them than the first had.
SemaphoresSuffice ==
    \/ fault = "none"
    \/ fault = "missing" /\ Len(images) > semaphores

\* Frames go on to be presented after any resize, except in a window that is
\* minimized or closed.
FramesGoOn ==
    []<>(pc = "present" \/ minimized \/ pc \in {"closing", "closed"} \/ fault # "none")

=============================================================================
