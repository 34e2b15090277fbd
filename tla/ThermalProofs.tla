--------------------------- MODULE ThermalProofs ----------------------------
(***************************************************************************)
(* Theorems about the thermal camera task, for any number of transfers in  *)
(* a read-out, any number of attempts, and any bounds on faults, stalls and*)
(* late halves: an image is whole, and it is of its own capture; and about *)
(* the thermal image and its endpoint, for every number of rows and every  *)
(* bound on the images: a response tears only forward, and one sent to its *)
(* end is whole.                                                           *)
(***************************************************************************)
EXTENDS ThermalCamera, ThermalImage, SequenceTheorems, TLAPS

-----------------------------------------------------------------------------
\* Inside a capture, a raised flag means that the half the status names was finished
\* after the capture began, and a read-out only starts on such a half.
CameraIsCurrent ==
    \/ task.phase = "poll" /\ camera.ready
    \/ task.phase \in {"read", "ram"}
    => camera.ram[camera.subpage].current

\* While the flag stays down the chunks read so far are the camera's memory as it is now.
FrameFollowsMemory ==
    task.phase = "ram" /\ ~camera.ready =>
        \A c \in Chunk : c < task.chunk => frame[c] = camera.ram

\* The pixels of a half are of one measurement; they were measured in this capture.
Whole(half) == \A c, d \in Chunk : half[c] = half[d]
Current(half) == \A c \in Chunk : half[c].current

\* The halves that count as seen are in the image, each of one measurement of this capture.
SeenAreConverted ==
    /\ task.phase \in {"poll", "read", "ram", "publish"} =>
           \A h \in task.seen : Whole(image[h]) /\ Current(image[h])
    /\ task.phase = "publish" => task.seen = Halves

\* So are the halves of every published image.
PublishedAreGood ==
    \A i \in published : \A h \in Halves : Whole(i[h]) /\ Current(i[h])

\* The inductive invariant.
IInv == TypeOK /\ CameraIsCurrent /\ FrameFollowsMemory /\ SeenAreConverted /\ PublishedAreGood

-----------------------------------------------------------------------------
\* The sets TypeOK draws each variable from, by name: a step then only has to look into
\* those of the variables it changes.
CameraState == [subpage : Halves, ready : BOOLEAN, ram : [Halves -> Measurement],
                measuring : BOOLEAN, faulty : BOOLEAN]
TaskState == [phase : {"top", "configure", "clear", "poll", "read", "ram", "publish", "idle"},
              needsInit : BOOLEAN, seen : SUBSET Halves, chunk : 1..(Chunks + 1),
              attempt : 1..ReadAttempts]
Frame == [Chunk -> [Halves -> Measurement]]
Image == [Halves -> [Chunk -> Measurement]]
Published == {NoImage} \cup {{i} : i \in Image}

\* The sets make up the type invariant.
LEMMA TypeParts ==
  TypeOK <=> /\ camera \in CameraState
             /\ task \in TaskState
             /\ frame \in Frame
             /\ image \in Image
             /\ published \in Published
             /\ late \in 0..MaxLate
             /\ faults \in 0..MaxFaults
             /\ stalls \in 0..MaxStalls
  BY Zenon DEF TypeOK, CameraState, TaskState, Frame, Image, Published

\* The constants are numbers, and there is a chunk and an attempt.
LEMMA ConstantTypes ==
  /\ Chunks \in Nat /\ Chunks > 0 /\ ReadAttempts \in Nat /\ ReadAttempts > 0
  /\ MaxLate \in Nat /\ MaxFaults \in Nat /\ MaxStalls \in Nat
  BY ThermalCameraAssumption

(***************************************************************************)
(* No step of the camera or the task takes a variable out of its type: in  *)
(* particular the chunk and the attempt stay within their limits.          *)
(***************************************************************************)
LEMMA TypeStep == TypeOK /\ [Next]_vars => TypeOK'
<1> SUFFICES ASSUME camera \in CameraState, task \in TaskState, frame \in Frame,
                      image \in Image, published \in Published, late \in 0..MaxLate,
                      faults \in 0..MaxFaults, stalls \in 0..MaxStalls, [Next]_vars
               PROVE  /\ camera' \in CameraState
                      /\ task' \in TaskState
                      /\ frame' \in Frame
                      /\ image' \in Image
                      /\ published' \in Published
                      /\ late' \in 0..MaxLate
                      /\ faults' \in 0..MaxFaults
                      /\ stalls' \in 0..MaxStalls
  <2>1. TypeParts'
    BY TypeParts, PTL
  <2> QED
    BY TypeParts, <2>1
<1> USE ConstantTypes DEF Others
<1>1. CASE Measure
  <2>1. camera' \in CameraState
    <3> DEFINE h == 1 - camera.subpage
               measured == [turn |-> 1 - camera.ram[h].turn, current |-> TRUE]
    <3>1. h \in Halves
      BY DEF CameraState, Halves
    <3>2. camera.ram \in [Halves -> Measurement]
      BY DEF CameraState
    <3>3. measured \in Measurement
      BY <3>1, <3>2 DEF Measurement
    <3>4. [camera.ram EXCEPT ![h] = measured] \in [Halves -> Measurement]
      BY <3>1, <3>2, <3>3
    <3>5. camera' = [camera EXCEPT !.subpage = h, !.ready = TRUE,
                                   !.ram = [camera.ram EXCEPT ![h] = measured]]
      BY <1>1 DEF Measure, CameraState
    <3> HIDE DEF h, measured
    <3> QED
      BY <3>1, <3>4, <3>5 DEF CameraState
  <2>2. late' \in 0..MaxLate
    BY <1>1 DEF Measure
  <2> QED
    BY <1>1, <2>1, <2>2 DEF Measure
<1>2. CASE Stall
  <2>1. camera' \in CameraState
    BY <1>2 DEF Stall, CameraState
  <2> QED
    BY <1>2, <2>1 DEF Stall
<1>3. CASE Resume
  <2>1. camera' \in CameraState
    BY <1>3 DEF Resume, CameraState
  <2> QED
    BY <1>3, <2>1 DEF Resume
<1>4. CASE ReadCalibration
  <2>1. task' \in TaskState
    BY <1>4 DEF ReadCalibration, TaskState
  <2> QED
    BY <1>4, <2>1 DEF ReadCalibration
<1>5. CASE SetConfiguration
  <2>1. task' \in TaskState
    BY <1>5 DEF SetConfiguration, TaskState
  <2> QED
    BY <1>5, <2>1 DEF SetConfiguration
<1>6. CASE SkipInitialize
  <2>1. task' \in TaskState
    BY <1>6 DEF SkipInitialize, TaskState
  <2> QED
    BY <1>6, <2>1 DEF SkipInitialize
<1>7. CASE ClearDataReady
  <2>1. camera' \in CameraState
    BY <1>7 DEF ClearDataReady, BeginCapture, CameraState, Before, Measurement
  <2>2. task' \in TaskState
    BY <1>7 DEF ClearDataReady, TaskState
  <2>3. frame' \in Frame
    BY <1>7 DEF ClearDataReady, BeginCapture, Frame, Before, Measurement
  <2>4. image' \in Image
    BY <1>7 DEF ClearDataReady, BeginCapture, Image, Before, Measurement
  <2> QED
    BY <1>7, <2>1, <2>2, <2>3, <2>4 DEF ClearDataReady
<1>8. CASE PollFindsReady
  <2>1. task' \in TaskState
    <3>1. 1 \in 1..ReadAttempts
      OBVIOUS
    <3>2. task' = [task EXCEPT !.phase = "read", !.attempt = 1]
      BY <1>8 DEF PollFindsReady
    <3> QED
      BY <3>1, <3>2 DEF TaskState
  <2> QED
    BY <1>8, <2>1 DEF PollFindsReady
<1>9. CASE PollTimesOut
  <2>1. task' \in TaskState
    BY <1>9 DEF PollTimesOut, CaptureFails, TaskState
  <2> QED
    BY <1>9, <2>1 DEF PollTimesOut
<1>10. CASE ReadBegins
  <2>1. camera' \in CameraState
    BY <1>10 DEF ReadBegins, CameraState
  <2>2. task' \in TaskState
    <3>1. 1 \in 1..(Chunks + 1)
      OBVIOUS
    <3>2. task' = [task EXCEPT !.phase = "ram", !.chunk = 1]
      BY <1>10 DEF ReadBegins
    <3> QED
      BY <3>1, <3>2 DEF TaskState
  <2> QED
    BY <1>10, <2>1, <2>2 DEF ReadBegins
<1>11. CASE ReadChunk
  <2>1. task' \in TaskState
    BY <1>11 DEF ReadChunk, Chunk, TaskState
  <2>2. frame' \in Frame
    BY <1>11 DEF ReadChunk, Frame, CameraState
  <2> QED
    BY <1>11, <2>1, <2>2 DEF ReadChunk
<1>12. CASE ReadEnds
  <2>1. camera.subpage \in Halves
    BY DEF CameraState
  <2>2. task' \in TaskState
    BY <1>12, <2>1 DEF ReadEnds, TaskState
  <2>3. image' \in Image
    BY <1>12, <2>1 DEF ReadEnds, Converted, Image, Frame
  <2> QED
    BY <1>12, <2>2, <2>3 DEF ReadEnds
<1>13. CASE ReadAgain
  <2>1. task' \in TaskState
    <3>1. CASE task.attempt < ReadAttempts
      <4>1. task.attempt + 1 \in 1..ReadAttempts
        BY <3>1 DEF TaskState
      <4>2. task' = [task EXCEPT !.phase = "read", !.attempt = task.attempt + 1]
        BY <1>13, <3>1 DEF ReadAgain
      <4> QED
        BY <4>1, <4>2 DEF TaskState
    <3>2. CASE ~(task.attempt < ReadAttempts)
      BY <1>13, <3>2 DEF ReadAgain, CaptureFails, TaskState
    <3> QED
      BY <3>1, <3>2
  <2> QED
    BY <1>13, <2>1 DEF ReadAgain
<1>14. CASE Publish
  <2>1. task' \in TaskState
    BY <1>14 DEF Publish, TaskState
  <2>2. published' \in Published
    BY <1>14 DEF Publish, Published
  <2> QED
    BY <1>14, <2>1, <2>2 DEF Publish
<1>15. CASE Tick
  <2>1. task' \in TaskState
    BY <1>15 DEF Tick, TaskState
  <2> QED
    BY <1>15, <2>1 DEF Tick
<1>16. CASE TransferFails
  <2>1. task' \in TaskState
    BY <1>16 DEF TransferFails, CaptureFails, TaskState
  <2> QED
    BY <1>16, <2>1 DEF TransferFails
<1>17. CASE UNCHANGED vars
  BY <1>17 DEF vars
<1> QED
  BY <1>1, <1>2, <1>3, <1>4, <1>5, <1>6, <1>7, <1>8, <1>9, <1>10, <1>11, <1>12, <1>13,
     <1>14, <1>15, <1>16, <1>17 DEF Next, TaskStep

-----------------------------------------------------------------------------
\* What the steps below need of the types.
LEMMA Shapes ==
  ASSUME TypeOK
  PROVE  /\ camera.subpage \in Halves /\ camera.ready \in BOOLEAN
         /\ camera.ram \in [Halves -> Measurement]
         /\ task.chunk \in 1..(Chunks + 1) /\ task.seen \subseteq Halves
  BY TypeParts DEF CameraState, TaskState

\* The camera after it finished a half.
LEMMA Measured ==
  ASSUME TypeOK, Measure
  PROVE  /\ camera'.ready = TRUE
         /\ camera'.ram[camera'.subpage].current = TRUE
         /\ UNCHANGED <<task, frame, image, published>>
<1> DEFINE h == 1 - camera.subpage
           measured == [turn |-> 1 - camera.ram[h].turn, current |-> TRUE]
<1>1. h \in Halves
  BY Shapes DEF Halves
<1>2. camera' = [camera EXCEPT !.subpage = h, !.ready = TRUE,
                               !.ram = [camera.ram EXCEPT ![h] = measured]]
  BY TypeParts DEF Measure, CameraState
<1>3. measured.current = TRUE
  OBVIOUS
<1> HIDE DEF h, measured
<1>4. camera'.ready = TRUE /\ camera'.subpage = h
      /\ camera'.ram = [camera.ram EXCEPT ![h] = measured]
  BY <1>2, TypeParts DEF CameraState
<1>5. camera'.ram[h] = measured
  BY <1>1, <1>4, Shapes
<1> QED
  BY <1>3, <1>4, <1>5 DEF Measure

\* Measuring stops and resumes without a word to the memory or the flag.
LEMMA StillCamera ==
  ASSUME TypeOK, Stall \/ Resume
  PROVE  /\ camera'.ready = camera.ready /\ camera'.subpage = camera.subpage
         /\ camera'.ram = camera.ram
         /\ UNCHANGED <<task, frame, image, published>>
  BY TypeParts DEF Stall, Resume, CameraState

\* A step of the task that ends or restarts a capture, or waits, with everything else kept.
Leaves == task'.phase \in {"top", "configure", "clear", "idle"}

\* The steps that read no pixels leave the images alone.
LEMMA Leaving ==
  ASSUME TypeOK, \/ ReadCalibration \/ SetConfiguration \/ SkipInitialize \/ PollTimesOut
                 \/ Tick \/ TransferFails
  PROVE  Leaves /\ UNCHANGED <<camera, frame, image, published>>
  BY TypeParts DEF Leaves, ReadCalibration, SetConfiguration, SkipInitialize, PollTimesOut,
                   Tick, TransferFails, CaptureFails, TaskState

-----------------------------------------------------------------------------
(***************************************************************************)
(* The half that is read was finished after the capture began: the flag is *)
(* down when the capture begins, and only the camera raises it.            *)
(***************************************************************************)
LEMMA CurrentStep == IInv /\ [Next]_vars => CameraIsCurrent'
<1> SUFFICES ASSUME TypeOK, CameraIsCurrent, [Next]_vars
             PROVE  CameraIsCurrent'
  BY DEF IInv
<1>1. CASE Measure
  BY <1>1, Measured DEF CameraIsCurrent
<1>2. CASE Stall \/ Resume
  BY <1>2, StillCamera DEF CameraIsCurrent
<1>3. CASE \/ ReadCalibration \/ SetConfiguration \/ SkipInitialize \/ PollTimesOut
           \/ Tick \/ TransferFails
  BY <1>3, Leaving DEF CameraIsCurrent, Leaves
<1>4. CASE ClearDataReady
  BY <1>4, TypeParts DEF ClearDataReady, BeginCapture, CameraIsCurrent, CameraState, TaskState
<1>5. CASE PollFindsReady
  BY <1>5, TypeParts DEF PollFindsReady, CameraIsCurrent, TaskState
<1>6. CASE ReadBegins
  BY <1>6, TypeParts DEF ReadBegins, CameraIsCurrent, CameraState, TaskState
<1>7. CASE ReadChunk
  BY <1>7, TypeParts DEF ReadChunk, CameraIsCurrent, TaskState
<1>8. CASE ReadEnds
  BY <1>8, TypeParts DEF ReadEnds, CameraIsCurrent, TaskState
<1>9. CASE ReadAgain
  BY <1>9, TypeParts DEF ReadAgain, CaptureFails, CameraIsCurrent, TaskState
<1>10. CASE Publish
  BY <1>10, TypeParts DEF Publish, CameraIsCurrent, TaskState
<1>11. CASE UNCHANGED vars
  BY <1>11 DEF vars, CameraIsCurrent
<1> QED
  BY <1>1, <1>2, <1>3, <1>4, <1>5, <1>6, <1>7, <1>8, <1>9, <1>10, <1>11 DEF Next, TaskStep

(***************************************************************************)
(* While the flag stays down nothing was written between two transfers, so *)
(* the chunks read so far are still what the memory holds.                 *)
(***************************************************************************)
LEMMA FrameStep == IInv /\ [Next]_vars => FrameFollowsMemory'
<1> SUFFICES ASSUME TypeOK, FrameFollowsMemory, [Next]_vars
             PROVE  FrameFollowsMemory'
  BY DEF IInv
<1>1. CASE Measure
  BY <1>1, Measured DEF FrameFollowsMemory
<1>2. CASE Stall \/ Resume
  BY <1>2, StillCamera DEF FrameFollowsMemory, Chunk
<1>3. CASE \/ ReadCalibration \/ SetConfiguration \/ SkipInitialize \/ PollTimesOut
           \/ Tick \/ TransferFails
  BY <1>3, Leaving DEF FrameFollowsMemory, Leaves
<1>4. CASE ClearDataReady
  BY <1>4, TypeParts DEF ClearDataReady, FrameFollowsMemory, TaskState
<1>5. CASE PollFindsReady
  BY <1>5, TypeParts DEF PollFindsReady, FrameFollowsMemory, TaskState
<1>6. CASE ReadBegins
  <2>1. task'.chunk = 1
    BY <1>6, TypeParts DEF ReadBegins, TaskState
  <2> QED
    BY <2>1 DEF FrameFollowsMemory, Chunk
<1>7. CASE ReadChunk
  <2>1. task.phase = "ram" /\ task.chunk \in Chunk /\ camera' = camera
        /\ frame' = [frame EXCEPT ![task.chunk] = camera.ram]
    BY <1>7 DEF ReadChunk
  <2>2. task'.chunk = task.chunk + 1
    BY <1>7, TypeParts DEF ReadChunk, TaskState
  <2>3. SUFFICES ASSUME ~camera.ready, NEW c \in Chunk, c < task.chunk + 1
                 PROVE  frame'[c] = camera.ram
    BY <2>1, <2>2 DEF FrameFollowsMemory
  <2>4. frame \in Frame
    BY TypeParts
  <2>5. CASE c = task.chunk
    BY <2>1, <2>4, <2>5 DEF Frame
  <2>6. CASE c # task.chunk
    <3>1. c < task.chunk
      BY <2>1, <2>3, <2>6, ConstantTypes DEF Chunk
    <3>2. frame[c] = camera.ram
      BY <2>1, <2>3, <3>1 DEF FrameFollowsMemory
    <3> QED
      BY <2>1, <2>4, <2>6, <3>2 DEF Frame
  <2> QED
    BY <2>5, <2>6
<1>8. CASE ReadEnds
  BY <1>8, TypeParts DEF ReadEnds, FrameFollowsMemory, TaskState
<1>9. CASE ReadAgain
  BY <1>9, TypeParts DEF ReadAgain, CaptureFails, FrameFollowsMemory, TaskState
<1>10. CASE Publish
  BY <1>10, TypeParts DEF Publish, FrameFollowsMemory, TaskState
<1>11. CASE UNCHANGED vars
  BY <1>11 DEF vars, FrameFollowsMemory
<1> QED
  BY <1>1, <1>2, <1>3, <1>4, <1>5, <1>6, <1>7, <1>8, <1>9, <1>10, <1>11 DEF Next, TaskStep

(***************************************************************************)
(* The half a read-out ends with is whole and current: the flag is still   *)
(* down, so every chunk is of the memory as it stands.                     *)
(***************************************************************************)
LEMMA EndsWhole ==
  ASSUME IInv, ReadEnds
  PROVE  LET h == camera.subpage
         IN  Whole(image'[h]) /\ Current(image'[h]) /\ \A g \in Halves \ {h} : image'[g] = image[g]
<1> DEFINE h == camera.subpage
<1> USE DEF IInv
<1>1. h \in Halves /\ image \in Image
  BY Shapes, TypeParts
<1>2. \A c \in Chunk : frame[c] = camera.ram
  <2>1. \A c \in Chunk : c < task.chunk
    BY Shapes, ConstantTypes DEF ReadEnds, Chunk
  <2> QED
    BY <2>1 DEF ReadEnds, FrameFollowsMemory
<1>3. image' = [image EXCEPT ![h] = [c \in Chunk |-> frame[c][h]]]
  BY DEF ReadEnds, Converted
<1>4. image'[h] = [c \in Chunk |-> frame[c][h]] /\ \A g \in Halves \ {h} : image'[g] = image[g]
  BY <1>1, <1>3 DEF Image
<1>5. \A c \in Chunk : image'[h][c] = camera.ram[h]
  BY <1>2, <1>4
<1>6. camera.ram[h].current
  BY DEF ReadEnds, CameraIsCurrent
<1> QED
  BY <1>4, <1>5, <1>6 DEF Whole, Current

(***************************************************************************)
(* The halves that count as seen stay good: only a read-out that was not   *)
(* overtaken changes the image, and a new capture forgets the halves of    *)
(* the one before.                                                         *)
(***************************************************************************)
LEMMA SeenStep == IInv /\ [Next]_vars => SeenAreConverted'
<1> SUFFICES ASSUME IInv, [Next]_vars
             PROVE  SeenAreConverted'
  OBVIOUS
<1>0. TypeOK /\ SeenAreConverted
  BY DEF IInv
<1>1. CASE Measure
  BY <1>0, <1>1, Measured DEF SeenAreConverted
<1>2. CASE Stall \/ Resume
  BY <1>0, <1>2, StillCamera DEF SeenAreConverted
<1>3. CASE \/ ReadCalibration \/ SetConfiguration \/ SkipInitialize \/ PollTimesOut
           \/ Tick \/ TransferFails
  BY <1>0, <1>3, Leaving DEF SeenAreConverted, Leaves
<1>4. CASE ClearDataReady
  <2>1. task'.seen = {} /\ task'.phase = "poll"
    BY <1>0, <1>4, TypeParts DEF ClearDataReady, TaskState
  <2> QED
    BY <2>1 DEF SeenAreConverted
<1>5. CASE PollFindsReady \/ ReadBegins \/ ReadChunk \/ ReadAgain
  <2>1. /\ task.phase \in {"poll", "read", "ram"}
        /\ task'.seen = task.seen /\ task'.phase \in {"read", "ram", "top"}
        /\ UNCHANGED image
    BY <1>0, <1>5, TypeParts DEF PollFindsReady, ReadBegins, ReadChunk, ReadAgain, CaptureFails,
                                 TaskState
  <2> QED
    BY <1>0, <2>1 DEF SeenAreConverted
<1>6. CASE ReadEnds
  <2> DEFINE h == camera.subpage
             seen == task.seen \cup {h}
  <2>1. task'.seen = seen /\ task'.phase = IF seen = Halves THEN "publish" ELSE "poll"
    BY <1>0, <1>6, TypeParts DEF ReadEnds, TaskState
  <2>2. \A g \in task.seen : Whole(image[g]) /\ Current(image[g])
    BY <1>0, <1>6 DEF ReadEnds, SeenAreConverted
  <2>3. \A g \in seen : Whole(image'[g]) /\ Current(image'[g])
    BY <1>0, <1>6, <2>2, EndsWhole, Shapes
  <2> QED
    BY <2>1, <2>3 DEF SeenAreConverted
<1>7. CASE Publish
  BY <1>0, <1>7, TypeParts DEF Publish, SeenAreConverted, TaskState
<1>8. CASE UNCHANGED vars
  BY <1>0, <1>8 DEF vars, SeenAreConverted
<1> QED
  BY <1>1, <1>2, <1>3, <1>4, <1>5, <1>6, <1>7, <1>8 DEF Next, TaskStep

(***************************************************************************)
(* Only an image with both halves seen is published, and it is handed over *)
(* as it stands.                                                           *)
(***************************************************************************)
LEMMA PublishedStep == IInv /\ [Next]_vars => PublishedAreGood'
<1> SUFFICES ASSUME IInv, [Next]_vars
             PROVE  PublishedAreGood'
  OBVIOUS
<1>1. CASE Publish
  <2>1. published' = {image} /\ task.phase = "publish"
    BY <1>1 DEF Publish
  <2>2. \A h \in Halves : Whole(image[h]) /\ Current(image[h])
    BY <2>1 DEF IInv, SeenAreConverted
  <2> QED
    BY <2>1, <2>2 DEF PublishedAreGood
<1>2. CASE ~Publish
  <2>1. UNCHANGED published
    BY <1>2 DEF Next, TaskStep, Measure, Stall, Resume, ReadCalibration, SetConfiguration,
                SkipInitialize, ClearDataReady, PollFindsReady, PollTimesOut, ReadBegins,
                ReadChunk, ReadEnds, ReadAgain, Tick, TransferFails, Others, vars
  <2> QED
    BY <2>1 DEF IInv, PublishedAreGood
<1> QED
  BY <1>1, <1>2

-----------------------------------------------------------------------------
\* A camera that was never configured.
LEMMA InitInvariant == Init => IInv
<1> SUFFICES ASSUME Init
             PROVE  IInv
  OBVIOUS
<1> USE ConstantTypes DEF Init
<1>1. camera \in CameraState
  <2>1. [h \in Halves |-> Before] \in [Halves -> Measurement]
    BY DEF Before, Measurement
  <2> QED
    BY <2>1 DEF CameraState
<1>2. task \in TaskState
  BY DEF TaskState
<1>3. frame \in Frame /\ image \in Image /\ published \in Published
  BY DEF Frame, Image, Published, Before, Measurement
<1>4. TypeOK
  BY <1>1, <1>2, <1>3, TypeParts
<1>5. CameraIsCurrent /\ FrameFollowsMemory /\ SeenAreConverted /\ PublishedAreGood
  BY DEF CameraIsCurrent, FrameFollowsMemory, SeenAreConverted, PublishedAreGood, NoImage
<1> QED
  BY <1>4, <1>5 DEF IInv

\* Whatever the task, the camera and the bus do.
LEMMA NextInvariant == IInv /\ [Next]_vars => IInv'
  BY TypeStep, CurrentStep, FrameStep, SeenStep, PublishedStep DEF IInv

(***************************************************************************)
(* The read-out invariant holds in every run of the camera and the task.   *)
(***************************************************************************)
THEOREM ReadOutInvariant == Spec => []IInv
  BY InitInvariant, NextInvariant, PTL DEF Spec

(***************************************************************************)
(* No half of a published image mixes two measurements, however often the  *)
(* camera overwrote its memory while it was read.                          *)
(***************************************************************************)
THEOREM ImagesAreWhole == Spec => []ImageIsWhole
<1>1. IInv => ImageIsWhole
  BY DEF IInv, ImageIsWhole, PublishedAreGood, HalvesAreWhole, Whole
<1> QED
  BY <1>1, ReadOutInvariant, PTL

(***************************************************************************)
(* No pixel of an abandoned capture, or of a measurement the camera held   *)
(* before the capture began, is published.                                 *)
(***************************************************************************)
THEOREM ImagesAreOfTheirCapture == Spec => []ImageIsOfThisCapture
<1>1. IInv => ImageIsOfThisCapture
  BY DEF IInv, ImageIsOfThisCapture, PublishedAreGood, Current
<1> QED
  BY <1>1, ReadOutInvariant, PTL

-----------------------------------------------------------------------------
(***************************************************************************)
(* The buffer starts as image zero, which nothing announces.               *)
(***************************************************************************)
LEMMA ImageInvInit == ImageInit => ImageInv
<1> SUFFICES ASSUME ImageInit PROVE ImageInv
  OBVIOUS
<1>1. body \in Seq(0 .. MaxImages) /\ Len(body) <= Rows
  BY ThermalAssumption, EmptySeq DEF ImageInit
<1>2. header \in [available : BOOLEAN, sequence : 0 .. MaxImages,
                  summary : 0 .. MaxImages]
  BY ThermalAssumption DEF ImageInit, NoHeader
<1>3. pixels \in [Row -> 0 .. MaxImages] /\ \A r \in Row : pixels[r] = sequence
  BY ThermalAssumption DEF ImageInit
<1>4. /\ sequence \in 0 .. MaxImages /\ summary \in 0 .. MaxImages
      /\ header.sequence <= sequence
  BY ThermalAssumption DEF ImageInit, NoHeader
<1>5. taken \in BOOLEAN /\ pc = "idle" /\ ~header.available
  BY DEF ImageInit, NoHeader
<1> QED
  BY <1>1, <1>2, <1>3, <1>4, <1>5 DEF ImageInv, ImageTypeOK

(***************************************************************************)
(* Rows are appended one at a time, and only while some are missing.       *)
(***************************************************************************)
LEMMA SendRowAppends ==
  ASSUME ImageInv, SendRow
  PROVE  /\ taken
         /\ pixels[Len(body) + 1] = sequence
         /\ body' = Append(body, sequence)
         /\ Len(body') = Len(body) + 1
         /\ Len(body) < Rows
<1>1. taken /\ Len(body) < Rows
  BY DEF ImageInv, SendRow
<1>2. Len(body) + 1 \in Row
  BY <1>1, ThermalAssumption DEF Row, ImageInv, ImageTypeOK
<1>3. pixels[Len(body) + 1] = sequence
  BY <1>2 DEF ImageInv
<1>4. body' = Append(body, sequence)
  BY <1>1, <1>3 DEF SendRow
<1> QED
  BY <1>1, <1>3, <1>4, AppendProperties DEF ImageInv, ImageTypeOK

(***************************************************************************)
(* Every action of the camera, the server and the board keeps it.          *)
(***************************************************************************)
LEMMA ImageInvStep == ImageInv /\ [ImageNext]_thermalVars => ImageInv'
<1> SUFFICES ASSUME ImageInv, [ImageNext]_thermalVars
             PROVE  ImageInv'
  OBVIOUS
<1> USE ThermalAssumption DEF ImageInv, ImageTypeOK
<1>1. CASE PublishImage
  BY <1>1 DEF PublishImage, serverVars, Row
<1>2. CASE Request
  <2>1. body' \in Seq(0 .. MaxImages) /\ Len(body') <= Rows
    BY <1>2, EmptySeq DEF Request
  <2>2. /\ header'.sequence <= sequence
        /\ header'.available => taken
        /\ header' \in [available : BOOLEAN, sequence : 0 .. MaxImages,
                        summary : 0 .. MaxImages]
    <3>1. CASE taken
      BY <1>2, <3>1 DEF Request, ThermalStatus
    <3>2. CASE ~taken
      BY <1>2, <3>2 DEF Request, ThermalStatus, NoHeader
    <3> QED
      BY <3>1, <3>2
  <2>3. UNCHANGED <<taken, sequence, summary, pixels>> /\ pc' = "preamble"
    BY <1>2 DEF Request, imageVars
  <2> QED
    BY <2>1, <2>2, <2>3
<1>3. CASE SendPreamble
  BY <1>3 DEF SendPreamble, imageVars
<1>4. CASE SendRow
  <2>1. /\ body' = Append(body, sequence)
        /\ Len(body') = Len(body) + 1
        /\ Len(body) < Rows
    BY <1>4, SendRowAppends DEF ImageInv
  <2>2. body' \in Seq(0 .. MaxImages)
    BY <2>1, AppendProperties
  <2>3. Len(body') <= Rows
    BY <2>1, LenProperties
  <2>4. pc' = pc
    BY <1>4, SendRowAppends DEF SendRow
  <2> QED
    BY <1>4, <2>2, <2>3, <2>4 DEF SendRow, imageVars
<1>5. CASE SendTail
  BY <1>5 DEF SendTail, imageVars
<1>6. CASE CutOff
  BY <1>6 DEF CutOff, imageVars
<1>7. CASE HangUp
  BY <1>7 DEF HangUp, imageVars, NoHeader
<1>8. CASE Reboot
  <2>1. body' \in Seq(0 .. MaxImages) /\ Len(body') <= Rows
    BY <1>8, EmptySeq DEF Reboot
  <2>2. pixels' \in [Row -> 0 .. MaxImages] /\ \A r \in Row : pixels'[r] = sequence'
    BY <1>8 DEF Reboot
  <2>3. header' \in [available : BOOLEAN, sequence : 0 .. MaxImages,
                     summary : 0 .. MaxImages]
    BY <1>8 DEF Reboot, NoHeader
  <2>4. /\ sequence' \in 0 .. MaxImages /\ summary' \in 0 .. MaxImages
        /\ header'.sequence <= sequence'
    BY <1>8 DEF Reboot, NoHeader
  <2>5. taken' \in BOOLEAN /\ pc' = "idle" /\ ~header'.available
    BY <1>8 DEF Reboot, NoHeader
  <2> QED
    BY <2>1, <2>2, <2>3, <2>4, <2>5
<1>9. CASE UNCHANGED thermalVars
  BY <1>9 DEF thermalVars
<1> QED
  BY <1>1, <1>2, <1>3, <1>4, <1>5, <1>6, <1>7, <1>8, <1>9 DEF ImageNext

(***************************************************************************)
(* Every variable of the image and of send_thermal keeps its type.         *)
(***************************************************************************)
THEOREM ImageTypeCorrect == ImageSpec => []ImageTypeOK
  BY ImageInvInit, ImageInvStep, PTL DEF ImageSpec, ImageInv

-----------------------------------------------------------------------------
(***************************************************************************)
(* Rows sent by send_thermal only ever come from newer images as it goes.  *)
(***************************************************************************)
LEMMA TearStep == ImageInv /\ TearsOnlyForward /\ [ImageNext]_thermalVars => TearsOnlyForward'
<1> SUFFICES ASSUME ImageInv, TearsOnlyForward, [ImageNext]_thermalVars
             PROVE  TearsOnlyForward'
  OBVIOUS
<1> USE DEF TearsOnlyForward
<1>1. CASE SendRow
  <2>1. Len(body) \in Nat /\ sequence \in Nat /\ header.sequence <= sequence
    BY DEF ImageInv, ImageTypeOK
  <2>2. /\ body' = Append(body, sequence) /\ Len(body') = Len(body) + 1
        /\ UNCHANGED <<sequence, header>>
    BY <1>1, SendRowAppends DEF SendRow, imageVars
  <2>3. /\ \A i \in 1 .. Len(body) : body'[i] = body[i]
        /\ body'[Len(body) + 1] = sequence
    BY <2>2, AppendProperties DEF ImageInv, ImageTypeOK
  <2>4. \A i \in 1 .. Len(body') : i \in 1 .. Len(body) \/ i = Len(body) + 1
    BY <2>1, <2>2
  <2>5. \A i \in 1 .. Len(body') : header.sequence <= body'[i] /\ body'[i] <= sequence
    BY <2>1, <2>3, <2>4
  <2>6. \A i \in 1 .. Len(body) : \A j \in 1 .. i : j \in 1 .. Len(body)
    BY <2>1
  <2>7. \A i \in 1 .. Len(body) : \A j \in 1 .. i : body'[j] <= body'[i]
    BY <2>3, <2>6
  <2>8. \A j \in 1 .. Len(body') : body'[j] <= body'[Len(body) + 1]
    BY <2>3, <2>5
  <2>9. \A i \in 1 .. Len(body') : \A j \in 1 .. i : body'[j] <= body'[i]
    BY <2>2, <2>4, <2>7, <2>8
  <2> QED
    BY <2>2, <2>5, <2>9
<1>2. CASE PublishImage
  <2>1. UNCHANGED <<header, body>> /\ sequence' = sequence + 1
    BY <1>2 DEF PublishImage, serverVars
  <2>2. \A i \in 1 .. Len(body) : body[i] \in Nat
    <3>1. body \in Seq(0 .. MaxImages)
      BY DEF ImageInv, ImageTypeOK
    <3>2. \A i \in 1 .. Len(body) : body[i] \in 0 .. MaxImages
      BY <3>1, ElementOfSeq
    <3> QED
      BY <3>2, ThermalAssumption
  <2> QED
    BY <2>1, <2>2 DEF ImageInv, ImageTypeOK
<1>3. CASE Request \/ HangUp \/ Reboot
  BY <1>3 DEF Request, HangUp, Reboot
<1>4. CASE SendPreamble \/ SendTail \/ CutOff \/ UNCHANGED thermalVars
  BY <1>4 DEF SendPreamble, SendTail, CutOff, imageVars, thermalVars
<1> QED
  BY <1>1, <1>2, <1>3, <1>4 DEF ImageNext

(***************************************************************************)
(* However often the camera publishes while send_thermal waits for the     *)
(* network, the rows it sends are never older than the announced image and *)
(* never older than a row above them.                                      *)
(***************************************************************************)
THEOREM ResponseTearsOnlyForward == ImageSpec => []TearsOnlyForward
<1>1. ImageInit => TearsOnlyForward
  BY DEF ImageInit, TearsOnlyForward
<1> QED
  BY <1>1, ImageInvInit, ImageInvStep, TearStep, PTL DEF ImageSpec

(***************************************************************************)
(* The buffer of the shared state holds one image, the newest, and a       *)
(* response send_thermal wrote to its end has every row of the grid.       *)
(***************************************************************************)
THEOREM ResponseIsWhole == ImageSpec => []StoredAndSentWhole
<1>1. ImageInit => SentImageIsWhole
  BY DEF ImageInit, SentImageIsWhole
<1>2. ImageInv /\ SentImageIsWhole /\ [ImageNext]_thermalVars => SentImageIsWhole'
  <2> SUFFICES ASSUME ImageInv, SentImageIsWhole, [ImageNext]_thermalVars
               PROVE  SentImageIsWhole'
    OBVIOUS
  <2> USE DEF SentImageIsWhole
  <2>1. CASE SendRow
    <3>1. pc' = "rows"
      BY <2>1, SendRowAppends DEF SendRow
    <3> QED
      BY <3>1
  <2>2. CASE SendTail
    BY <2>2 DEF SendTail
  <2>3. CASE SendPreamble
    BY <2>3 DEF SendPreamble
  <2>4. CASE Request \/ CutOff \/ HangUp \/ Reboot
    BY <2>4 DEF Request, CutOff, HangUp, Reboot
  <2>5. CASE PublishImage \/ UNCHANGED thermalVars
    BY <2>5 DEF PublishImage, serverVars, thermalVars
  <2> QED
    BY <2>1, <2>2, <2>3, <2>4, <2>5 DEF ImageNext
<1>3. ImageInv /\ SentImageIsWhole => StoredAndSentWhole
  BY DEF StoredAndSentWhole
<1> QED
  BY <1>1, <1>2, <1>3, ImageInvInit, ImageInvStep, PTL DEF ImageSpec
=============================================================================
