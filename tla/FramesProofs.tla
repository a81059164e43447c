---------------------------- MODULE FramesProofs ----------------------------
(* Proofs about Frames, for any number of frames in flight and of images.  *)
EXTENDS Frames, SequenceTheorems, TLAPS

Submission == [frame : Frame, semaphore : 1 .. semaphores, swapchain : Nat]

\* Where the loop has an image, it is one of the swapchain.
ImageHeld == pc \in {"submit", "present"} => image \in DOMAIN images

\* The fences that are not signaled are those of the frames the GPU has, one
\* submission each, and that of the frame the loop is about to submit.
FencesOfSubmissions ==
    /\ \A i \in DOMAIN gpu : fence[gpu[i].frame] = "unsignaled"
    /\ \A i, j \in DOMAIN gpu : gpu[i].frame = gpu[j].frame => i = j

\* From waitForFences to resetFences the fence of the frame stays signaled,
\* because only a submission resets it; then the GPU has not got the frame yet.
FenceOfFrame ==
    /\ pc \in {"record", "acquire"} => fence[frame] = "signaled"
    /\ pc = "submit" => fence[frame] = "unsignaled"
    /\ pc = "submit" => \A i \in DOMAIN gpu : gpu[i].frame # frame

Inv ==
    /\ TypeOK
    /\ ImageHeld
    /\ FencesOfSubmissions
    /\ FenceOfFrame
    /\ FencesWillSignal
    /\ GpuUsesLiveSwapchain

-----------------------------------------------------------------------------

\* Frames are numbered round and round.
LEMMA NextFrame ==
  ASSUME frame \in Frame
  PROVE  (frame + 1) % FramesInFlight \in Frame
<1>1. FramesInFlight \in Nat \ {0} /\ frame + 1 \in Nat
  BY FramesAssumption DEF Frame
<1> QED
  BY <1>1 DEF Frame

\* What is known of the submissions the GPU has not finished.
LEMMA Submissions ==
  ASSUME TypeOK
  PROVE  /\ gpu \in Seq(Submission)
         /\ DOMAIN gpu = 1 .. Len(gpu) /\ Len(gpu) \in Nat
         /\ \A i \in DOMAIN gpu : gpu[i] \in Submission
<1>1. gpu \in Seq(Submission)
  BY DEF TypeOK, Submission
<1>2. DOMAIN gpu = 1 .. Len(gpu) /\ Len(gpu) \in Nat
  BY <1>1, LenProperties
<1> QED
  BY <1>1, <1>2, ElementOfSeq

LEMMA InvInit == Init => Inv
<1> SUFFICES ASSUME Init PROVE Inv
  OBVIOUS
<1>1. gpu = <<>> /\ DOMAIN gpu = {}
  BY DEF Init
<1>2. gpu \in Seq(Submission) /\ presents \in Seq([image : Nat, semaphore : Nat])
  BY EmptySeq DEF Init
<1>3. PICK n \in ImageCounts :
        /\ semaphores = n
        /\ images = CreateSwapChain(n)
        /\ finished = [i \in 1 .. n |-> "idle"]
  BY DEF Init
<1>4. images \in [1 .. n -> {"free", "acquired", "queued", "shown"}]
  BY <1>3 DEF CreateSwapChain
<1>5. finished \in [1 .. semaphores -> {"idle", "submitted", "signaled"}]
  BY <1>3
<1>6. fence \in [Frame -> {"signaled", "unsignaled"}] /\ available \in [Frame -> BOOLEAN]
  BY DEF Init
<1>7. frame \in Frame /\ resizes \in 0 .. MaxResizes
  BY FramesAssumption DEF Init, Frame
<1>8. TypeOK
  BY <1>2, <1>3, <1>4, <1>5, <1>6, <1>7 DEF Init, TypeOK, Submission
<1> QED
  BY <1>1, <1>8 DEF Init, Inv, ImageHeld, FencesOfSubmissions, FenceOfFrame, FencesWillSignal,
     GpuUsesLiveSwapchain

-----------------------------------------------------------------------------
(* The steps of the loop.                                                  *)

\* The steps that leave the GPU, the fences, the swapchain and the frame alone
\* keep what is said of them, if they go where nothing more is said, or on from
\* waitForFences.
LEMMA Elsewhere ==
  ASSUME Inv, TypeOK', UNCHANGED <<gpu, fence, frame, swapchain, fault, image>>,
         DOMAIN images' = DOMAIN images,
         \/ pc # "submit" /\ pc' \notin {"submit", "present"}
         \/ pc' = pc,
         pc' \in {"record", "acquire"} => fence[frame] = "signaled"
  PROVE  Inv'
  BY DEF Inv, ImageHeld, FencesOfSubmissions, FenceOfFrame, FencesWillSignal, GpuUsesLiveSwapchain

LEMMA QuietLoopStep ==
  ASSUME Inv,
         PollEvents \/ Close \/ Closed \/ WaitForFences \/ RecordUIData \/ AcquireRefused \/ WasResized
  PROVE  Inv'
<1>1. TypeOK'
  <2>1. pc' \in {"events", "fence", "record", "acquire", "resized", "rebuild", "closing", "closed"}
    BY DEF PollEvents, Close, Closed, WaitForFences, RecordUIData, AcquireRefused, WasResized, Goto
  <2>2. minimized' \in BOOLEAN /\ resized' \in BOOLEAN /\ outdated' \in BOOLEAN
    <3>1. minimized \in BOOLEAN /\ resized \in BOOLEAN /\ outdated \in BOOLEAN
      BY DEF Inv, TypeOK
    <3>2. CASE PollEvents
      BY <3>1, <3>2, Zenon DEF PollEvents
    <3>3. CASE ~PollEvents
      BY <3>1, <3>3, Zenon DEF Close, Closed, WaitForFences, RecordUIData, AcquireRefused, WasResized
    <3> QED
      BY <3>2, <3>3
  <2>3. resizes' \in 0 .. MaxResizes
    <3>1. resizes \in 0 .. MaxResizes
      BY DEF Inv, TypeOK
    <3>2. resizes' = resizes \/ (resizes < MaxResizes /\ resizes' = resizes + 1)
      <4>1. CASE PollEvents
        BY <4>1, Zenon DEF PollEvents
      <4>2. CASE ~PollEvents
        BY <4>2, Zenon DEF Close, Closed, WaitForFences, RecordUIData, AcquireRefused, WasResized
      <4> QED
        BY <4>1, <4>2
    <3> QED
      BY <3>1, <3>2, FramesAssumption
  <2>4. UNCHANGED <<frame, image, semaphores, images, swapchain, fence, available, finished, gpu, presents, fault>>
    BY DEF PollEvents, Close, Closed, WaitForFences, RecordUIData, AcquireRefused, WasResized
  <2> QED
    BY <2>1, <2>2, <2>3, <2>4 DEF Inv, TypeOK
<1>2. pc \notin {"submit", "present"} /\ pc' \notin {"submit", "present"}
  BY DEF PollEvents, Close, Closed, WaitForFences, RecordUIData, AcquireRefused, WasResized, Goto, At
<1>3. pc' \in {"record", "acquire"} => fence[frame] = "signaled"
  BY DEF Inv, FenceOfFrame, PollEvents, Close, Closed, WaitForFences, RecordUIData, AcquireRefused,
     WasResized, Goto, At
<1>4. UNCHANGED <<gpu, fence, frame, swapchain, fault, image, images>>
  BY DEF PollEvents, Close, Closed, WaitForFences, RecordUIData, AcquireRefused, WasResized
<1> QED
  BY <1>1, <1>2, <1>3, <1>4, Elsewhere

\* An image is acquired, and the fence of the frame, which the GPU has not got,
\* is reset.
LEMMA AcquireStep ==
  ASSUME Inv, Acquire
  PROVE  Inv'
<1>1. PICK i \in DOMAIN images : image' = i /\ images' = [images EXCEPT ![i] = "acquired"]
  BY DEF Acquire
<1>2. PICK n \in ImageCounts : images \in [1 .. n -> {"free", "acquired", "queued", "shown"}]
  BY DEF Inv, TypeOK
<1>3. images' \in [1 .. n -> {"free", "acquired", "queued", "shown"}] /\ image' \in Nat
  BY <1>1, <1>2
<1>4. frame \in Frame /\ fence[frame] = "signaled" /\ fence' = [fence EXCEPT ![frame] = "unsignaled"]
  BY DEF Inv, TypeOK, FenceOfFrame, Acquire, At
<1>5. pc' = "submit" /\ fault' \in {"none", "busy", "missing"} /\ available' \in [Frame -> BOOLEAN]
  BY DEF Inv, TypeOK, Acquire, Goto
<1>6. UNCHANGED <<frame, resized, minimized, outdated, resizes, semaphores, swapchain, finished, gpu, presents>>
  BY DEF Acquire
<1>7. TypeOK'
  BY <1>3, <1>4, <1>5, <1>6 DEF Inv, TypeOK
<1>8. ImageHeld'
  BY <1>1, <1>2, <1>3 DEF ImageHeld
<1>9. \A j \in DOMAIN gpu : gpu[j].frame # frame /\ gpu[j].frame \in Frame
  BY <1>4, Submissions DEF Inv, FencesOfSubmissions, Submission
<1>10. FencesOfSubmissions'
  BY <1>4, <1>6, <1>9 DEF Inv, TypeOK, FencesOfSubmissions
<1>11. FenceOfFrame'
  BY <1>4, <1>5, <1>6, <1>9 DEF Inv, TypeOK, FenceOfFrame
<1>12. FencesWillSignal'
  <2> SUFFICES ASSUME NEW f \in Frame, fence'[f] = "unsignaled", f # frame
               PROVE  (\E j \in DOMAIN gpu' : gpu'[j].frame = f) \/ fault' # "none"
    BY <1>5, <1>6 DEF FencesWillSignal
  <2>1. fence[f] = "unsignaled" /\ fault = "none"
    BY <1>4 DEF Inv, TypeOK, Acquire, At
  <2> QED
    BY <2>1, <1>6 DEF Inv, FencesWillSignal
<1>13. GpuUsesLiveSwapchain'
  BY <1>6 DEF Inv, GpuUsesLiveSwapchain
<1> QED
  BY <1>7, <1>8, <1>10, <1>11, <1>12, <1>13 DEF Inv

\* The frame goes to the GPU, unless there is no semaphore for its image.
LEMMA SubmitStep ==
  ASSUME Inv, Submit
  PROVE  Inv'
<1>1. /\ pc = "submit" /\ pc' = "present" /\ fault = "none"
      /\ UNCHANGED <<frame, image, resized, minimized, outdated, resizes, semaphores, images, swapchain>>
      /\ UNCHANGED <<fence, available, presents>>
  BY DEF Submit, At, Goto
<1>2. /\ gpu \in Seq(Submission) /\ DOMAIN gpu = 1 .. Len(gpu) /\ Len(gpu) \in Nat
      /\ \A i \in DOMAIN gpu : gpu[i] \in Submission
  BY Submissions DEF Inv
<1>3. /\ frame \in Frame /\ fence[frame] = "unsignaled"
      /\ \A i \in DOMAIN gpu : gpu[i].frame # frame
  BY <1>1 DEF Inv, TypeOK, FenceOfFrame
<1>4. FenceOfFrame' /\ ImageHeld'
  BY <1>1 DEF Inv, FenceOfFrame, ImageHeld
<1>5. CASE FinishedSemaphore > semaphores
  <2>1. fault' = "missing" /\ UNCHANGED <<finished, gpu>>
    BY <1>5 DEF Submit
  <2>2. TypeOK'
    BY <1>1, <2>1 DEF Inv, TypeOK
  <2>3. FencesOfSubmissions' /\ FencesWillSignal' /\ GpuUsesLiveSwapchain'
    BY <1>1, <2>1 DEF Inv, FencesOfSubmissions, FencesWillSignal, GpuUsesLiveSwapchain
  <2> QED
    BY <1>4, <2>2, <2>3 DEF Inv
<1>6. CASE ~(FinishedSemaphore > semaphores)
  <2>1. FinishedSemaphore \in 1 .. semaphores
    <3>1. PICK n \in ImageCounts : images \in [1 .. n -> {"free", "acquired", "queued", "shown"}]
      BY DEF Inv, TypeOK
    <3>2. image \in 1 .. n /\ n \in Nat /\ semaphores \in Nat
      BY <1>1, <3>1, FramesAssumption DEF Inv, TypeOK, ImageHeld
    <3> QED
      BY <1>6, <3>2 DEF FinishedSemaphore
  <2>2. Recorded \in Submission /\ Recorded.frame = frame /\ Recorded.swapchain = swapchain
    BY <1>3, <2>1 DEF Recorded, Submission, Inv, TypeOK
  <2>3. /\ gpu' = Append(gpu, Recorded)
        /\ finished' = [finished EXCEPT ![FinishedSemaphore] = "submitted"]
        /\ fault' \in {"none", "busy", "missing"}
    BY <1>1, <1>6 DEF Submit
  <2>4. /\ gpu' \in Seq(Submission)
        /\ DOMAIN gpu' = 1 .. Len(gpu) + 1
        /\ \A i \in DOMAIN gpu : gpu'[i] = gpu[i]
        /\ gpu'[Len(gpu) + 1] = Recorded
    BY <1>2, <2>2, <2>3, AppendProperties, LenProperties
  <2>5. TypeOK'
    <3>1. finished' \in [1 .. semaphores -> {"idle", "submitted", "signaled"}]
      BY <2>3 DEF Inv, TypeOK
    <3> QED
      BY <1>1, <2>3, <2>4, <3>1 DEF Inv, TypeOK, Submission
  <2>6. FencesOfSubmissions'
    <3>1. \A i \in DOMAIN gpu' : i \in DOMAIN gpu \/ i = Len(gpu) + 1
      BY <1>2, <2>4
    <3> QED
      BY <1>1, <1>3, <2>2, <2>4, <3>1 DEF Inv, FencesOfSubmissions
  <2>7. FencesWillSignal'
    <3> SUFFICES ASSUME NEW f \in Frame, fence[f] = "unsignaled"
                 PROVE  \E i \in DOMAIN gpu' : gpu'[i].frame = f
      BY <1>1 DEF FencesWillSignal
    <3>1. CASE f = frame
      BY <1>2, <2>2, <2>4, <3>1
    <3>2. CASE f # frame
      <4>1. PICK i \in DOMAIN gpu : gpu[i].frame = f
        BY <1>1, <3>2 DEF Inv, FencesWillSignal
      <4> QED
        BY <1>2, <2>4, <4>1
    <3> QED
      BY <3>1, <3>2
  <2>8. GpuUsesLiveSwapchain'
    BY <1>1, <1>2, <2>2, <2>4 DEF Inv, GpuUsesLiveSwapchain
  <2> QED
    BY <1>4, <2>5, <2>6, <2>7, <2>8 DEF Inv
<1> QED
  BY <1>5, <1>6

LEMMA PresentStep ==
  ASSUME Inv, Present
  PROVE  Inv'
<1>1. /\ pc = "present" /\ pc' = "resized"
      /\ UNCHANGED <<image, resized, minimized, outdated, resizes, semaphores, swapchain>>
      /\ UNCHANGED <<fence, available, finished, gpu, fault>>
  BY DEF Present, At, Goto
<1>2. frame' \in Frame
  BY NextFrame DEF Present, Inv, TypeOK
<1>3. PICK n \in ImageCounts : images \in [1 .. n -> {"free", "acquired", "queued", "shown"}]
  BY DEF Inv, TypeOK
<1>4. images' \in [1 .. n -> {"free", "acquired", "queued", "shown"}]
  BY <1>3 DEF Present
<1>5. presents' \in Seq([image : Nat, semaphore : Nat])
  <2>1. [image |-> image, semaphore |-> FinishedSemaphore] \in [image : Nat, semaphore : Nat]
    BY DEF Inv, TypeOK, FinishedSemaphore
  <2> QED
    BY <2>1, AppendProperties DEF Present, Inv, TypeOK
<1>6. TypeOK'
  BY <1>1, <1>2, <1>3, <1>4, <1>5 DEF Inv, TypeOK
<1> QED
  BY <1>1, <1>6
  DEF Inv, ImageHeld, FencesOfSubmissions, FenceOfFrame, FencesWillSignal, GpuUsesLiveSwapchain

\* The GPU has nothing left of the old swapchain.
LEMMA UpdateSwapChainStep ==
  ASSUME Inv, UpdateSwapChain
  PROVE  Inv'
<1>1. /\ pc = "rebuild" /\ pc' = "events" /\ gpu = <<>> /\ swapchain' = swapchain + 1
      /\ outdated' = FALSE
      /\ UNCHANGED <<frame, image, resized, minimized, resizes, semaphores, fence, available, finished, gpu, presents, fault>>
  BY DEF UpdateSwapChain, At, Goto, DeviceIdle
<1>2. PICK n \in ImageCounts : images' = CreateSwapChain(n)
  BY DEF UpdateSwapChain
<1>3. images' \in [1 .. n -> {"free", "acquired", "queued", "shown"}]
  BY <1>2 DEF CreateSwapChain
<1>4. swapchain' \in Nat
  BY <1>1 DEF Inv, TypeOK
<1>5. TypeOK'
  BY <1>1, <1>3, <1>4 DEF Inv, TypeOK
<1>6. DOMAIN gpu' = {}
  BY <1>1
<1> QED
  BY <1>1, <1>5, <1>6
  DEF Inv, ImageHeld, FencesOfSubmissions, FenceOfFrame, FencesWillSignal, GpuUsesLiveSwapchain

-----------------------------------------------------------------------------
(* The steps of the GPU and of the presentation engine.                    *)

\* The fence of the first submission is signaled; those behind it are of other
\* frames.
LEMMA ExecuteStep ==
  ASSUME Inv, Execute
  PROVE  Inv'
<1>1. /\ gpu # <<>> /\ gpu' = Tail(gpu)
      /\ UNCHANGED <<loopVars, presents, fault>>
      /\ fence' = [fence EXCEPT ![Head(gpu).frame] = "signaled"]
  BY DEF Execute
<1>2. /\ gpu \in Seq(Submission) /\ DOMAIN gpu = 1 .. Len(gpu) /\ Len(gpu) \in Nat \ {0}
      /\ \A i \in DOMAIN gpu : gpu[i] \in Submission
      /\ Head(gpu) = gpu[1]
  BY <1>1, Submissions, EmptySeq DEF Inv
<1>3. /\ gpu' \in Seq(Submission)
      /\ DOMAIN gpu' = 1 .. Len(gpu) - 1
      /\ \A i \in DOMAIN gpu' : i + 1 \in DOMAIN gpu /\ gpu'[i] = gpu[i + 1]
  <2>1. Tail(gpu) \in Seq(Submission) /\ Len(Tail(gpu)) = Len(gpu) - 1
    BY <1>1, <1>2, HeadTailProperties
  <2>2. DOMAIN Tail(gpu) = 1 .. Len(gpu) - 1
    BY <2>1, LenProperties
  <2> QED
    BY <1>1, <1>2, <2>1, <2>2, HeadTailProperties
<1>4. gpu[1] \in Submission /\ gpu[1].frame \in Frame /\ gpu[1].semaphore \in 1 .. semaphores
  BY <1>2 DEF Submission
<1>5. \A i \in DOMAIN gpu' : gpu'[i].frame # gpu[1].frame
  BY <1>2, <1>3 DEF Inv, FencesOfSubmissions
<1>6. /\ fence' \in [Frame -> {"signaled", "unsignaled"}]
      /\ fence'[gpu[1].frame] = "signaled"
      /\ \A f \in Frame : f # gpu[1].frame => fence'[f] = fence[f]
  BY <1>1, <1>2, <1>4 DEF Inv, TypeOK
<1>7. /\ available' \in [Frame -> BOOLEAN]
      /\ finished' \in [1 .. semaphores -> {"idle", "submitted", "signaled"}]
  BY DEF Inv, TypeOK, Execute
<1>8. TypeOK'
  BY <1>1, <1>3, <1>6, <1>7 DEF Inv, TypeOK, loopVars, Submission
<1>9. FencesOfSubmissions'
  <2>1. \A i \in DOMAIN gpu' : gpu'[i].frame \in Frame
    BY <1>2, <1>3 DEF Submission
  <2>2. \A i \in DOMAIN gpu' : fence'[gpu'[i].frame] = "unsignaled"
    BY <1>3, <1>5, <1>6, <2>1 DEF Inv, FencesOfSubmissions
  <2>3. \A i, j \in DOMAIN gpu' : gpu'[i].frame = gpu'[j].frame => i = j
    <3> SUFFICES ASSUME NEW i \in DOMAIN gpu', NEW j \in DOMAIN gpu', gpu'[i].frame = gpu'[j].frame
                 PROVE  i = j
      OBVIOUS
    <3>1. i + 1 = j + 1
      BY <1>3 DEF Inv, FencesOfSubmissions
    <3> QED
      BY <1>2, <1>3, <3>1
  <2> QED
    BY <2>2, <2>3 DEF FencesOfSubmissions
<1>10. FenceOfFrame'
  <2>1. frame \in Frame /\ UNCHANGED <<pc, frame>>
    BY <1>1 DEF loopVars, Inv, TypeOK
  <2>2. pc = "submit" => gpu[1].frame # frame
    BY <1>2 DEF Inv, FenceOfFrame
  <2> QED
    BY <1>3, <1>6, <2>1, <2>2 DEF Inv, FenceOfFrame
<1>11. FencesWillSignal'
  <2> SUFFICES ASSUME NEW f \in Frame, fence'[f] = "unsignaled",
                      ~(f = frame /\ pc = "submit"), fault = "none"
               PROVE  \E i \in DOMAIN gpu' : gpu'[i].frame = f
    BY <1>1 DEF FencesWillSignal, loopVars
  <2>1. f # gpu[1].frame /\ fence[f] = "unsignaled"
    BY <1>6
  <2>2. PICK i \in DOMAIN gpu : gpu[i].frame = f
    BY <2>1 DEF Inv, FencesWillSignal
  <2>3. i # 1 /\ i - 1 \in DOMAIN gpu' /\ i - 1 + 1 = i
    BY <1>2, <1>3, <2>1, <2>2
  <2> QED
    BY <1>3, <2>2, <2>3
<1>12. ImageHeld' /\ GpuUsesLiveSwapchain'
  BY <1>1, <1>3 DEF loopVars, Inv, ImageHeld, GpuUsesLiveSwapchain
<1> QED
  BY <1>8, <1>9, <1>10, <1>11, <1>12 DEF Inv

LEMMA ShowStep ==
  ASSUME Inv, Show
  PROVE  Inv'
<1>1. /\ UNCHANGED <<pc, frame, image, resized, minimized, outdated, resizes, semaphores, swapchain>>
      /\ UNCHANGED <<fence, available, gpu, fault>>
  BY DEF Show
<1>2. presents' \in Seq([image : Nat, semaphore : Nat])
  BY HeadTailProperties DEF Show, Inv, TypeOK
<1>3. PICK n \in ImageCounts : images \in [1 .. n -> {"free", "acquired", "queued", "shown"}]
  BY DEF Inv, TypeOK
<1>4. images' \in [1 .. n -> {"free", "acquired", "queued", "shown"}]
  BY <1>3 DEF Show
<1>5. finished' \in [1 .. semaphores -> {"idle", "submitted", "signaled"}]
  BY DEF Show, Inv, TypeOK
<1>6. TypeOK'
  BY <1>1, <1>2, <1>4, <1>5 DEF Inv, TypeOK
<1>7. DOMAIN images' = DOMAIN images
  BY <1>3, <1>4
<1> QED
  BY <1>1, <1>6, <1>7, Elsewhere DEF Inv, FenceOfFrame

-----------------------------------------------------------------------------

LEMMA InvStep == Inv /\ [Next]_vars => Inv'
<1> SUFFICES ASSUME Inv, [Next]_vars PROVE Inv'
  OBVIOUS
<1>1. CASE Loop
  BY <1>1, QuietLoopStep, AcquireStep, SubmitStep, PresentStep, UpdateSwapChainStep DEF Loop
<1>2. CASE Execute \/ Show
  BY <1>2, ExecuteStep, ShowStep
<1>3. CASE UNCHANGED vars
  BY <1>3 DEF vars, loopVars, Inv, TypeOK, ImageHeld, FencesOfSubmissions, FenceOfFrame,
     FencesWillSignal, GpuUsesLiveSwapchain
<1> QED
  BY <1>1, <1>2, <1>3 DEF Next

\* The inductive invariant: who has which frame, and what its fence says of it.
THEOREM FramesInvariant == Spec => []Inv
  BY InvInit, InvStep, PTL DEF Spec

THEOREM TypeCorrect == Spec => []TypeOK
<1>1. Inv => TypeOK
  BY DEF Inv
<1> QED
  BY <1>1, FramesInvariant, PTL

\* The loop never records the command buffers of a frame that the GPU has not
\* finished, however far the GPU lags behind: waitForFences goes before
\* recordUIData in onRender, and only a submission resets the fence.
THEOREM BuffersKeptApart == Spec => []BuffersNotInUse
<1>1. Inv => BuffersNotInUse
  <2> SUFFICES ASSUME Inv, pc \in {"record", "acquire", "submit"}, NEW i \in DOMAIN gpu
               PROVE  gpu[i].frame # frame
    BY DEF BuffersNotInUse
  <2>1. fence[gpu[i].frame] = "unsignaled"
    BY DEF Inv, FencesOfSubmissions
  <2> QED
    BY <2>1 DEF Inv, FenceOfFrame
<1> QED
  BY <1>1, FramesInvariant, PTL

\* waitForFences, which waits without a timeout, never waits for a fence that
\* nobody is to signal: renderFrame gives up before it resets the fence.
THEOREM NoFenceInVain == Spec => []FencesWillSignal
<1>1. Inv => FencesWillSignal
  BY DEF Inv
<1> QED
  BY <1>1, FramesInvariant, PTL

\* What updateSwapChain destroys is not used by the GPU any more.
THEOREM SwapchainOutlivesFrames == Spec => []GpuUsesLiveSwapchain
<1>1. Inv => GpuUsesLiveSwapchain
  BY DEF Inv
<1> QED
  BY <1>1, FramesInvariant, PTL

-----------------------------------------------------------------------------
(* The semaphores.  One that is not idle has a submission or a present     *)
(* that will make it so, and as an image is acquired only when it is no    *)
(* longer presented, the semaphore of its number is idle then.             *)

\* A frame has its image once it is acquired, until it is presented.
HeldInv ==
    /\ pc \in {"submit", "present"} => images[image] = "acquired"
    /\ pc = "present" /\ fault = "none" => image \in 1 .. semaphores

\* An image that is acquired for a frame is waited for by its submission.
AvailableInv ==
    \A f \in Frame :
        available[f] =>
            \/ \E i \in DOMAIN gpu : gpu[i].frame = f
            \/ f = frame /\ pc = "submit"
            \/ fault # "none"

\* A present is of an image that is queued, with the semaphore of its number.
PresentsInv ==
    /\ \A i \in DOMAIN presents :
         /\ presents[i].semaphore = presents[i].image
         /\ presents[i].image \in 1 .. semaphores
         /\ presents[i].image \in DOMAIN images
         /\ images[presents[i].image] = "queued"
    /\ \A i, j \in DOMAIN presents : presents[i].image = presents[j].image => i = j

FinishedInv ==
    /\ \A i \in DOMAIN gpu : finished[gpu[i].semaphore] = "submitted"
    /\ \A i, j \in DOMAIN gpu : gpu[i].semaphore = gpu[j].semaphore => i = j
    /\ \A s \in 1 .. semaphores :
         finished[s] # "idle" =>
             \/ \E i \in DOMAIN presents : presents[i].semaphore = s
             \/ pc = "present" /\ s = image

FaultInv ==
    \/ fault = "none"
    \/ fault = "missing" /\ \E i \in DOMAIN images : i > semaphores

SemInv == HeldInv /\ AvailableInv /\ PresentsInv /\ FinishedInv /\ FaultInv

LEMMA SemInit == Init => SemInv
<1> SUFFICES ASSUME Init PROVE SemInv
  OBVIOUS
<1>1. /\ pc = "events" /\ gpu = <<>> /\ presents = <<>> /\ fault = "none"
      /\ available = [f \in Frame |-> FALSE]
      /\ finished = [i \in 1 .. semaphores |-> "idle"]
  BY DEF Init
<1>2. HeldInv /\ PresentsInv /\ FinishedInv /\ FaultInv
  BY <1>1 DEF HeldInv, PresentsInv, FinishedInv, FaultInv
<1>3. AvailableInv
  BY <1>1, Zenon DEF AvailableInv
<1> QED
  BY <1>2, <1>3 DEF SemInv

\* The presents, each with the first of them and the others behind it.
LEMMA PresentsWaiting ==
  ASSUME TypeOK
  PROVE  /\ DOMAIN presents = 1 .. Len(presents) /\ Len(presents) \in Nat
         /\ presents # <<>> =>
              /\ 1 \in DOMAIN presents /\ Head(presents) = presents[1]
              /\ DOMAIN Tail(presents) = 1 .. Len(presents) - 1
              /\ \A i \in DOMAIN Tail(presents) :
                   i + 1 \in DOMAIN presents /\ Tail(presents)[i] = presents[i + 1]
<1>1. presents \in Seq([image : Nat, semaphore : Nat])
  BY DEF TypeOK
<1>2. DOMAIN presents = 1 .. Len(presents) /\ Len(presents) \in Nat
  BY <1>1, LenProperties
<1>3. ASSUME presents # <<>>
      PROVE  /\ 1 \in DOMAIN presents /\ Head(presents) = presents[1]
             /\ DOMAIN Tail(presents) = 1 .. Len(presents) - 1
             /\ \A i \in DOMAIN Tail(presents) :
                  i + 1 \in DOMAIN presents /\ Tail(presents)[i] = presents[i + 1]
  <2>1. Len(presents) # 0
    BY <1>1, <1>3, EmptySeq
  <2>2. /\ Tail(presents) \in Seq([image : Nat, semaphore : Nat])
        /\ Len(Tail(presents)) = Len(presents) - 1
        /\ \A i \in 1 .. Len(Tail(presents)) : Tail(presents)[i] = presents[i + 1]
    BY <1>1, <1>3, HeadTailProperties
  <2>3. DOMAIN Tail(presents) = 1 .. Len(presents) - 1
    BY <2>2, LenProperties
  <2> QED
    BY <1>1, <1>2, <1>3, <2>1, <2>2, <2>3, HeadTailProperties
<1> QED
  BY <1>2, <1>3

\* The steps that leave the images, the GPU and the presents alone.
LEMMA QuietLoopSemaphores ==
  ASSUME Inv, SemInv,
         PollEvents \/ Close \/ Closed \/ WaitForFences \/ RecordUIData \/ AcquireRefused \/ WasResized
  PROVE  SemInv'
<1>1. pc \notin {"submit", "present"} /\ pc' \notin {"submit", "present"}
  BY DEF PollEvents, Close, Closed, WaitForFences, RecordUIData, AcquireRefused, WasResized, Goto, At
<1>2. UNCHANGED <<gpu, frame, semaphores, fault, image, images, available, finished, presents>>
  BY DEF PollEvents, Close, Closed, WaitForFences, RecordUIData, AcquireRefused, WasResized
<1>3. HeldInv' /\ PresentsInv' /\ FinishedInv' /\ FaultInv'
  BY <1>1, <1>2 DEF SemInv, HeldInv, PresentsInv, FinishedInv, FaultInv
<1>4. AvailableInv'
  BY <1>1, <1>2, Zenon DEF SemInv, AvailableInv
<1> QED
  BY <1>3, <1>4 DEF SemInv

\* The semaphore of a frame is not signaled when the next image is asked for:
\* its fence says that the submission that waited for it is over.
LEMMA AcquireSemaphores ==
  ASSUME Inv, SemInv, Acquire PROVE SemInv'
<1>1. /\ pc = "acquire" /\ fault = "none" /\ pc' = "submit"
      /\ available' = [available EXCEPT ![frame] = TRUE]
      /\ fault' = IF available[frame] THEN "busy" ELSE fault
      /\ UNCHANGED <<frame, semaphores, finished, gpu, presents>>
  BY DEF Acquire, At, Goto
<1>2. PICK i \in DOMAIN images :
        images[i] = "free" /\ image' = i /\ images' = [images EXCEPT ![i] = "acquired"]
  BY DEF Acquire
<1>3. PICK n \in ImageCounts : images \in [1 .. n -> {"free", "acquired", "queued", "shown"}]
  BY DEF Inv, TypeOK
<1>4. ~available[frame]
  <2>1. frame \in Frame /\ fence[frame] = "signaled"
    BY <1>1 DEF Inv, TypeOK, FenceOfFrame
  <2>2. \A j \in DOMAIN gpu : gpu[j].frame # frame
    BY <2>1 DEF Inv, FencesOfSubmissions
  <2> QED
    BY <1>1, <2>1, <2>2, Zenon DEF SemInv, AvailableInv
<1>5. fault' = "none"
  BY <1>1, <1>4
<1>6. /\ DOMAIN images' = DOMAIN images /\ images'[i] = "acquired"
      /\ \A j \in DOMAIN images : j # i => images'[j] = images[j]
  BY <1>2, <1>3
<1>7. HeldInv' /\ FaultInv'
  BY <1>1, <1>2, <1>5, <1>6 DEF HeldInv, FaultInv
<1>8. AvailableInv'
  <2>1. \A f \in Frame : f # frame => available'[f] = available[f]
    BY <1>1 DEF Inv, TypeOK
  <2> QED
    BY <1>1, <2>1, Zenon DEF SemInv, AvailableInv
<1>9. PresentsInv'
  BY <1>1, <1>2, <1>6 DEF SemInv, PresentsInv
<1>10. FinishedInv'
  BY <1>1 DEF SemInv, FinishedInv
<1> QED
  BY <1>7, <1>8, <1>9, <1>10 DEF SemInv

\* The semaphore of an image that has just been acquired is idle.
LEMMA SubmitSemaphores ==
  ASSUME Inv, SemInv, Submit PROVE SemInv'
<1>1. /\ pc = "submit" /\ pc' = "present" /\ fault = "none"
      /\ UNCHANGED <<frame, image, semaphores, images, available, presents>>
  BY DEF Submit, At, Goto
<1>2. image \in DOMAIN images /\ images[image] = "acquired"
  BY <1>1 DEF Inv, ImageHeld, SemInv, HeldInv
<1>3. PresentsInv'
  BY <1>1 DEF SemInv, PresentsInv
<1>4. CASE image > semaphores
  <2>1. fault' = "missing" /\ UNCHANGED <<finished, gpu>>
    BY <1>4 DEF Submit, FinishedSemaphore
  <2>2. HeldInv' /\ FaultInv'
    BY <1>1, <1>2, <1>4, <2>1 DEF HeldInv, FaultInv
  <2>3. AvailableInv'
    BY <2>1 DEF AvailableInv
  <2>4. FinishedInv'
    BY <1>1, <2>1 DEF SemInv, FinishedInv
  <2> QED
    BY <1>3, <2>2, <2>3, <2>4 DEF SemInv
<1>5. CASE ~(image > semaphores)
  <2>1. image \in 1 .. semaphores
    <3>1. PICK n \in ImageCounts : images \in [1 .. n -> {"free", "acquired", "queued", "shown"}]
      BY DEF Inv, TypeOK
    <3>2. image \in 1 .. n /\ n \in Nat /\ semaphores \in Nat
      BY <1>2, <3>1, FramesAssumption DEF Inv, TypeOK
    <3> QED
      BY <1>5, <3>2
  <2>2. finished[image] = "idle"
    BY <1>1, <1>2, <2>1 DEF SemInv, FinishedInv, PresentsInv
  <2>3. /\ fault' = "none"
        /\ finished' = [finished EXCEPT ![image] = "submitted"]
        /\ gpu' = Append(gpu, Recorded)
    BY <1>1, <1>5, <2>2 DEF Submit, FinishedSemaphore
  <2>4. /\ gpu \in Seq(Submission) /\ DOMAIN gpu = 1 .. Len(gpu) /\ Len(gpu) \in Nat
        /\ \A i \in DOMAIN gpu : gpu[i] \in Submission
    BY Submissions DEF Inv
  <2>5. /\ Recorded \in Submission
        /\ Recorded.frame = frame /\ Recorded.semaphore = image
    BY <2>1 DEF Recorded, Submission, Inv, TypeOK, FinishedSemaphore
  <2>6. /\ DOMAIN gpu' = 1 .. Len(gpu) + 1
        /\ \A i \in DOMAIN gpu : gpu'[i] = gpu[i]
        /\ gpu'[Len(gpu) + 1] = Recorded
        /\ \A i \in DOMAIN gpu' : i \in DOMAIN gpu \/ i = Len(gpu) + 1
    BY <2>3, <2>4, <2>5, AppendProperties, LenProperties
  <2>7. HeldInv' /\ FaultInv'
    BY <1>1, <1>2, <2>1, <2>3 DEF HeldInv, FaultInv
  <2>8. AvailableInv'
    <3> SUFFICES ASSUME NEW f \in Frame, available[f]
                 PROVE  \E i \in DOMAIN gpu' : gpu'[i].frame = f
      BY <1>1, Zenon DEF AvailableInv
    <3>1. CASE \E i \in DOMAIN gpu : gpu[i].frame = f
      <4>1. DOMAIN gpu \subseteq DOMAIN gpu'
        BY <2>4, <2>6
      <4> QED
        BY <2>6, <3>1, <4>1
    <3>2. CASE f = frame
      <4>1. Len(gpu) + 1 \in DOMAIN gpu'
        BY <2>4, <2>6
      <4> QED
        BY <2>5, <2>6, <3>2, <4>1
    <3> QED
      BY <1>1, <3>1, <3>2, Zenon DEF SemInv, AvailableInv
  <2>9. FinishedInv'
    <3>1. \A i \in DOMAIN gpu : gpu[i].semaphore # image
      BY <2>2 DEF SemInv, FinishedInv
    <3>2. \A i \in DOMAIN gpu : gpu[i].semaphore \in 1 .. semaphores
      BY <2>4 DEF Submission
    <3>3. finished'[image] = "submitted" /\ \A s \in 1 .. semaphores : s # image => finished'[s] = finished[s]
      BY <2>1, <2>3 DEF Inv, TypeOK
    <3>4. \A i \in DOMAIN gpu' : finished'[gpu'[i].semaphore] = "submitted"
      BY <2>5, <2>6, <3>1, <3>2, <3>3 DEF SemInv, FinishedInv
    <3>5. \A i, j \in DOMAIN gpu' : gpu'[i].semaphore = gpu'[j].semaphore => i = j
      BY <2>5, <2>6, <3>1 DEF SemInv, FinishedInv
    <3>6. ASSUME NEW s \in 1 .. semaphores, finished'[s] # "idle"
          PROVE  (\E i \in DOMAIN presents : presents[i].semaphore = s) \/ s = image
      BY <1>1, <3>3, <3>6 DEF SemInv, FinishedInv
    <3> QED
      BY <1>1, <3>4, <3>5, <3>6 DEF FinishedInv
  <2> QED
    BY <1>3, <2>7, <2>8, <2>9 DEF SemInv
<1> QED
  BY <1>4, <1>5

LEMMA PresentSemaphores ==
  ASSUME Inv, SemInv, Present PROVE SemInv'
<1> DEFINE present == [image |-> image, semaphore |-> image]
<1>1. /\ pc = "present" /\ fault = "none" /\ pc' = "resized"
      /\ images' = [images EXCEPT ![image] = "queued"]
      /\ presents' = Append(presents, present)
      /\ UNCHANGED <<image, semaphores, available, finished, gpu, fault>>
  BY DEF Present, At, Goto, FinishedSemaphore
<1>2. /\ image \in DOMAIN images /\ images[image] = "acquired" /\ image \in 1 .. semaphores
  BY <1>1 DEF Inv, ImageHeld, SemInv, HeldInv
<1>3. PICK n \in ImageCounts : images \in [1 .. n -> {"free", "acquired", "queued", "shown"}]
  BY DEF Inv, TypeOK
<1>4. /\ DOMAIN images' = DOMAIN images /\ images'[image] = "queued"
      /\ \A j \in DOMAIN images : j # image => images'[j] = images[j]
  BY <1>1, <1>2, <1>3
<1>5. /\ present \in [image : Nat, semaphore : Nat]
      /\ present.image = image /\ present.semaphore = image
  BY DEF Inv, TypeOK
<1> HIDE DEF present
<1>6. /\ DOMAIN presents = 1 .. Len(presents) /\ Len(presents) \in Nat
      /\ DOMAIN presents' = 1 .. Len(presents) + 1
      /\ \A i \in DOMAIN presents : presents'[i] = presents[i]
      /\ presents'[Len(presents) + 1] = present
      /\ \A i \in DOMAIN presents' : i \in DOMAIN presents \/ i = Len(presents) + 1
  <2>1. presents \in Seq([image : Nat, semaphore : Nat])
    BY DEF Inv, TypeOK
  <2> QED
    BY <1>1, <1>5, <2>1, AppendProperties, LenProperties
<1>7. HeldInv' /\ FaultInv'
  BY <1>1, <1>4 DEF SemInv, HeldInv, FaultInv
<1>8. AvailableInv'
  BY <1>1, Zenon DEF SemInv, AvailableInv
<1>9. \A i \in DOMAIN presents : presents[i].image # image
  BY <1>2 DEF SemInv, PresentsInv
<1>10. PresentsInv'
  BY <1>1, <1>2, <1>4, <1>5, <1>6, <1>9 DEF SemInv, PresentsInv
<1>11. FinishedInv'
  <2>1. Len(presents) + 1 \in DOMAIN presents' /\ DOMAIN presents \subseteq DOMAIN presents'
    BY <1>6
  <2> QED
    BY <1>1, <1>5, <1>6, <2>1 DEF SemInv, FinishedInv
<1> QED
  BY <1>7, <1>8, <1>10, <1>11 DEF SemInv

\* When the device is idle, so are the semaphores.
LEMMA UpdateSwapChainSemaphores ==
  ASSUME Inv, SemInv, UpdateSwapChain PROVE SemInv'
<1>1. /\ pc = "rebuild" /\ pc' = "events" /\ fault = "none" /\ gpu = <<>> /\ presents = <<>>
      /\ UNCHANGED <<frame, image, semaphores, available, finished, gpu, presents, fault>>
  BY DEF UpdateSwapChain, At, Goto, DeviceIdle
<1>2. HeldInv' /\ PresentsInv' /\ FaultInv'
  BY <1>1 DEF HeldInv, PresentsInv, FaultInv
<1>3. FinishedInv'
  BY <1>1 DEF SemInv, FinishedInv
<1>4. AvailableInv'
  BY <1>1, Zenon DEF SemInv, AvailableInv
<1> QED
  BY <1>2, <1>3, <1>4 DEF SemInv

LEMMA ExecuteSemaphores ==
  ASSUME Inv, SemInv, Execute PROVE SemInv'
<1>1. /\ gpu # <<>> /\ gpu' = Tail(gpu)
      /\ available' = [available EXCEPT ![Head(gpu).frame] = FALSE]
      /\ finished' = [finished EXCEPT ![Head(gpu).semaphore] = "signaled"]
      /\ UNCHANGED <<pc, frame, image, images, semaphores, presents, fault>>
  BY DEF Execute, loopVars
<1>2. /\ gpu \in Seq(Submission) /\ DOMAIN gpu = 1 .. Len(gpu) /\ Len(gpu) \in Nat \ {0}
      /\ \A i \in DOMAIN gpu : gpu[i] \in Submission
      /\ Head(gpu) = gpu[1]
  BY <1>1, Submissions, EmptySeq DEF Inv
<1>3. /\ DOMAIN gpu' = 1 .. Len(gpu) - 1
      /\ \A i \in DOMAIN gpu' : i + 1 \in DOMAIN gpu /\ i + 1 # 1 /\ gpu'[i] = gpu[i + 1]
  <2>1. Tail(gpu) \in Seq(Submission) /\ Len(Tail(gpu)) = Len(gpu) - 1
    BY <1>1, <1>2, HeadTailProperties
  <2>2. DOMAIN Tail(gpu) = 1 .. Len(gpu) - 1
    BY <2>1, LenProperties
  <2> QED
    BY <1>1, <1>2, <2>1, <2>2, HeadTailProperties
<1>4. gpu[1].frame \in Frame /\ gpu[1].semaphore \in 1 .. semaphores
  BY <1>2 DEF Submission
<1>5. HeldInv' /\ PresentsInv' /\ FaultInv'
  BY <1>1 DEF SemInv, HeldInv, PresentsInv, FaultInv
<1>6. AvailableInv'
  <2> SUFFICES ASSUME NEW f \in Frame, available'[f]
               PROVE  (\E i \in DOMAIN gpu' : gpu'[i].frame = f) \/ (f = frame /\ pc = "submit")
                        \/ fault # "none"
    BY <1>1, Zenon DEF AvailableInv
  <2>1. available[f] /\ f # gpu[1].frame
    <3>1. f # gpu[1].frame => available'[f] = available[f]
      BY <1>1, <1>2 DEF Inv, TypeOK
    <3>2. available'[gpu[1].frame] = FALSE
      BY <1>1, <1>2, <1>4 DEF Inv, TypeOK
    <3> QED
      BY <3>1, <3>2
  <2>2. ASSUME NEW i \in DOMAIN gpu, gpu[i].frame = f PROVE \E j \in DOMAIN gpu' : gpu'[j].frame = f
    <3>1. i # 1 /\ i - 1 \in DOMAIN gpu' /\ i - 1 + 1 = i
      BY <1>2, <1>3, <2>1, <2>2
    <3> QED
      BY <1>3, <2>2, <3>1
  <2> QED
    BY <2>1, <2>2, Zenon DEF SemInv, AvailableInv
<1>7. FinishedInv'
  <2>1. \A i \in DOMAIN gpu' : gpu'[i].semaphore \in 1 .. semaphores /\ gpu'[i].semaphore # gpu[1].semaphore
    <3>1. 1 \in DOMAIN gpu
      BY <1>2
    <3> QED
      BY <1>2, <1>3, <3>1 DEF Submission, SemInv, FinishedInv
  <2>2. /\ finished'[gpu[1].semaphore] = "signaled"
        /\ \A s \in 1 .. semaphores : s # gpu[1].semaphore => finished'[s] = finished[s]
    BY <1>1, <1>2, <1>4 DEF Inv, TypeOK
  <2>3. \A i \in DOMAIN gpu' : finished'[gpu'[i].semaphore] = "submitted"
    BY <1>3, <2>1, <2>2 DEF SemInv, FinishedInv
  <2>4. \A i, j \in DOMAIN gpu' : gpu'[i].semaphore = gpu'[j].semaphore => i = j
    <3> SUFFICES ASSUME NEW i \in DOMAIN gpu', NEW j \in DOMAIN gpu', gpu'[i].semaphore = gpu'[j].semaphore
                 PROVE  i = j
      OBVIOUS
    <3>1. i + 1 = j + 1
      BY <1>3 DEF SemInv, FinishedInv
    <3> QED
      BY <1>2, <1>3, <3>1
  <2>5. finished[gpu[1].semaphore] # "idle"
    <3>1. 1 \in DOMAIN gpu
      BY <1>2
    <3> QED
      BY <3>1 DEF SemInv, FinishedInv
  <2>6. \A s \in 1 .. semaphores : finished'[s] # "idle" => finished[s] # "idle"
    BY <2>2, <2>5
  <2> QED
    BY <1>1, <2>3, <2>4, <2>6 DEF SemInv, FinishedInv
<1> QED
  BY <1>5, <1>6, <1>7 DEF SemInv

LEMMA ShowSemaphores ==
  ASSUME Inv, SemInv, Show PROVE SemInv'
<1> DEFINE present == presents[1]
<1>1. /\ DOMAIN presents = 1 .. Len(presents) /\ Len(presents) \in Nat
      /\ 1 \in DOMAIN presents /\ Head(presents) = present
      /\ presents' = Tail(presents)
      /\ DOMAIN presents' = 1 .. Len(presents) - 1
      /\ \A i \in DOMAIN presents' : i + 1 \in DOMAIN presents /\ presents'[i] = presents[i + 1]
  BY PresentsWaiting DEF Inv, Show
<1>2. /\ finished[present.semaphore] = "signaled"
      /\ finished' = [finished EXCEPT ![present.semaphore] = "idle"]
      /\ images' = [i \in DOMAIN images |->
                      IF i = present.image THEN "shown"
                      ELSE IF images[i] = "shown" THEN "free" ELSE images[i]]
      /\ UNCHANGED <<pc, frame, image, semaphores, available, gpu, fault>>
  BY <1>1 DEF Show
<1>3. /\ present.semaphore = present.image /\ present.image \in 1 .. semaphores
      /\ present.image \in DOMAIN images /\ images[present.image] = "queued"
  BY <1>1 DEF SemInv, PresentsInv
<1>4. \A i \in DOMAIN presents' : i + 1 # 1 /\ presents'[i].image # present.image
  <2>1. \A i \in DOMAIN presents' : i + 1 # 1
    BY <1>1
  <2> QED
    BY <1>1, <2>1 DEF SemInv, PresentsInv
<1> HIDE DEF present
<1>5. DOMAIN images' = DOMAIN images
  BY <1>2
<1>6. \A i \in DOMAIN images :
        i # present.image /\ images[i] # "shown" => images'[i] = images[i]
  BY <1>2
<1>7. HeldInv'
  BY <1>2, <1>3, <1>6 DEF Inv, ImageHeld, SemInv, HeldInv
<1>8. FaultInv'
  BY <1>2, <1>5 DEF SemInv, FaultInv
<1>9. AvailableInv'
  BY <1>2, Zenon DEF SemInv, AvailableInv
<1>10. PresentsInv'
  <2>1. \A i \in DOMAIN presents' :
          /\ presents'[i].semaphore = presents'[i].image
          /\ presents'[i].image \in 1 .. semaphores
          /\ presents'[i].image \in DOMAIN images
          /\ images[presents'[i].image] = "queued"
    BY <1>1 DEF SemInv, PresentsInv
  <2>2. \A i, j \in DOMAIN presents' : presents'[i].image = presents'[j].image => i = j
    <3> SUFFICES ASSUME NEW i \in DOMAIN presents', NEW j \in DOMAIN presents', presents'[i].image = presents'[j].image
                 PROVE  i = j
      OBVIOUS
    <3>1. i + 1 = j + 1
      BY <1>1 DEF SemInv, PresentsInv
    <3> QED
      BY <1>1, <3>1
  <2> QED
    BY <1>2, <1>4, <1>5, <1>6, <2>1, <2>2 DEF PresentsInv
<1>11. FinishedInv'
  <2>1. /\ finished'[present.semaphore] = "idle"
        /\ \A s \in 1 .. semaphores : s # present.semaphore => finished'[s] = finished[s]
    BY <1>2, <1>3 DEF Inv, TypeOK
  <2>2. \A i \in DOMAIN gpu : gpu[i].semaphore \in 1 .. semaphores /\ gpu[i].semaphore # present.semaphore
    BY <1>2, Submissions DEF Inv, Submission, SemInv, FinishedInv
  <2>3. ASSUME NEW s \in 1 .. semaphores, finished'[s] # "idle"
        PROVE  (\E i \in DOMAIN presents' : presents'[i].semaphore = s) \/ (pc = "present" /\ s = image)
    <3>1. s # present.semaphore /\ finished[s] # "idle"
      BY <2>1, <2>3
    <3>2. ASSUME NEW i \in DOMAIN presents, presents[i].semaphore = s
          PROVE  \E j \in DOMAIN presents' : presents'[j].semaphore = s
      <4>1. i # 1
        BY <3>1, <3>2 DEF present
      <4>2. i - 1 \in DOMAIN presents' /\ i - 1 + 1 = i
        BY <1>1, <4>1
      <4> QED
        BY <1>1, <3>2, <4>2
    <3> QED
      BY <3>1, <3>2 DEF SemInv, FinishedInv
  <2> QED
    BY <1>2, <2>1, <2>2, <2>3 DEF SemInv, FinishedInv
<1> QED
  BY <1>7, <1>8, <1>9, <1>10, <1>11 DEF SemInv

LEMMA SemStep == Inv /\ SemInv /\ [Next]_vars => SemInv'
<1> SUFFICES ASSUME Inv, SemInv, [Next]_vars PROVE SemInv'
  OBVIOUS
<1>1. CASE Loop
  BY <1>1, QuietLoopSemaphores, AcquireSemaphores, SubmitSemaphores, PresentSemaphores,
     UpdateSwapChainSemaphores DEF Loop
<1>2. CASE Execute \/ Show
  BY <1>2, ExecuteSemaphores, ShowSemaphores
<1>3. CASE UNCHANGED vars
  <2>1. UNCHANGED <<pc, frame, image, images, semaphores, available, finished, gpu, presents, fault>>
    BY <1>3 DEF vars, loopVars
  <2>2. HeldInv' /\ PresentsInv' /\ FinishedInv' /\ FaultInv'
    BY <2>1 DEF SemInv, HeldInv, PresentsInv, FinishedInv, FaultInv
  <2>3. AvailableInv'
    BY <2>1, Zenon DEF SemInv, AvailableInv
  <2> QED
    BY <2>2, <2>3 DEF SemInv
<1> QED
  BY <1>1, <1>2, <1>3 DEF Next

\* No binary semaphore is signaled or waited for twice at a time, for any number
\* of frames in flight and of images: the only misuse is that of a swapchain
\* with more images than the first.
THEOREM SemaphoresKeptApart == Spec => []SemaphoresSuffice
<1>1. Inv /\ SemInv => SemaphoresSuffice
  <2> SUFFICES ASSUME Inv, SemInv, fault # "none" PROVE fault = "missing" /\ Len(images) > semaphores
    BY DEF SemaphoresSuffice
  <2>1. fault = "missing" /\ \E i \in DOMAIN images : i > semaphores
    BY DEF SemInv, FaultInv
  <2>2. PICK n \in ImageCounts : images \in [1 .. n -> {"free", "acquired", "queued", "shown"}]
    BY DEF Inv, TypeOK
  <2>3. n \in Nat /\ semaphores \in Nat
    BY FramesAssumption DEF Inv, TypeOK
  <2>4. Len(images) = n
    BY <2>2, <2>3
  <2> QED
    BY <2>1, <2>2, <2>3, <2>4
<1> QED
  BY <1>1, FramesInvariant, SemInit, SemStep, PTL DEF Spec

=============================================================================
