---------------------------- MODULE ThermalCamera ----------------------------
(* The thermal camera task and its driver.  The camera measures one half of  *)
(* its pixels after the other by itself and overwrites its memory while the  *)
(* task reads it in chunks; the task assembles an image from two halves that *)
(* arrive in any order, across retries, errors and abandoned captures.       *)
EXTENDS Naturals, FiniteSets

CONSTANTS Chunks,        \* transfers one read-out of the memory takes
          ReadAttempts,  \* FRAME_READ_ATTEMPTS
          MaxLate,       \* bound: halves finished before the task took the one before
          MaxFaults,     \* bound: transfers that fail
          MaxStalls      \* bound: times the camera stops measuring

ASSUME ThermalCameraAssumption ==
    /\ {Chunks, ReadAttempts} \subseteq Nat \ {0}
    /\ {MaxLate, MaxFaults, MaxStalls} \subseteq Nat

VARIABLES camera,    \* status register, measurement memory, and whether it measures at all
          task,      \* where capture_task is
          frame,     \* FRAME: what each chunk held of either half
          image,     \* IMAGE: what each chunk of the pixels of a half shows
          published, \* the image handed to the shared state, once there is one
          late, faults, stalls

vars == <<camera, task, frame, image, published, late, faults, stalls>>

Halves == {0, 1}
Chunk == 1..Chunks

(* The contents of half a memory or image: which measurement of that half    *)
(* they are of (told apart from the one before by turn) and whether it was   *)
(* finished after the current capture began.                                 *)
Measurement == [turn : {0, 1}, current : BOOLEAN]
Before == [turn |-> 0, current |-> FALSE]
NoImage == {}

Init ==
    /\ camera \in [subpage : Halves, ready : BOOLEAN, ram : {[h \in Halves |-> Before]},
                   measuring : {TRUE}, faulty : BOOLEAN]
    /\ task = [phase |-> "top", needsInit |-> TRUE, seen |-> {}, chunk |-> 1, attempt |-> 1]
    /\ frame = [c \in Chunk |-> [h \in Halves |-> Before]]
    /\ image = [h \in Halves |-> [c \in Chunk |-> Before]]
    /\ published = NoImage
    /\ late = 0
    /\ faults = 0
    /\ stalls = 0

--------------------------------------------------------------------------
(* The camera. *)
Capturing == task.phase \in {"poll", "read", "ram"}

\* A half finished before the task took the one before it: the flag is still set, or its
\* memory is being read.  The task polls ten times as often as the camera measures, so this
\* takes another task that keeps the processor or the bus.
Late == Capturing /\ (camera.ready \/ task.phase = "ram")

\* The camera finishes the other half, writes it to its memory and raises the flag.
Measure ==
    /\ camera.measuring
    /\ Late => late < MaxLate
    /\ late' = IF Late THEN late + 1 ELSE late
    /\ LET h == 1 - camera.subpage IN
       camera' = [camera EXCEPT !.subpage = h, !.ready = TRUE,
                                !.ram[h] = [turn |-> 1 - @.turn, current |-> TRUE]]
    /\ UNCHANGED <<task, frame, image, published, faults, stalls>>

Stall ==
    /\ camera.measuring
    /\ stalls < MaxStalls
    /\ stalls' = stalls + 1
    /\ camera' = [camera EXCEPT !.measuring = FALSE]
    /\ UNCHANGED <<task, frame, image, published, late, faults>>

Resume ==
    /\ ~camera.measuring
    /\ camera' = [camera EXCEPT !.measuring = TRUE]
    /\ UNCHANGED <<task, frame, image, published, late, faults, stalls>>

--------------------------------------------------------------------------
(* capture_task and initialize. *)
Others == <<late, faults, stalls>>

\* The calibration is read and unpacked; a part with too many dead pixels is refused, and
\* tried again after a pause.
ReadCalibration ==
    /\ task.phase = "top"
    /\ task.needsInit
    /\ ~camera.faulty
    /\ task' = [task EXCEPT !.phase = "configure"]
    /\ UNCHANGED <<camera, frame, image, published, Others>>

\* The configuration written is the one the camera starts with.
SetConfiguration ==
    /\ task.phase = "configure"
    /\ task' = [task EXCEPT !.phase = "clear"]
    /\ UNCHANGED <<camera, frame, image, published, Others>>

SkipInitialize ==
    /\ task.phase = "top"
    /\ ~task.needsInit
    /\ task' = [task EXCEPT !.phase = "clear"]
    /\ UNCHANGED <<camera, frame, image, published, Others>>

\* Nothing measured so far belongs to the capture that begins; which measurement it was of
\* no longer matters.
BeginCapture ==
    /\ camera' = [camera EXCEPT !.ready = FALSE, !.ram = [h \in Halves |-> Before]]
    /\ frame' = [c \in Chunk |-> [h \in Halves |-> Before]]
    /\ image' = [h \in Halves |-> [c \in Chunk |-> Before]]

\* Mutant of ClearDataReady: the halves of an abandoned capture still count as seen.
ClearDataReadyKeepsSeen ==
    /\ task.phase = "clear"
    /\ BeginCapture
    /\ task' = [task EXCEPT !.phase = "poll"]
    /\ UNCHANGED <<published, Others>>

\* The first step of capture: what the camera already holds is thrown away.
ClearDataReady ==
    /\ task.phase = "clear"
    /\ BeginCapture
    /\ task' = [task EXCEPT !.phase = "poll", !.seen = {}]
    /\ UNCHANGED <<published, Others>>

CaptureFails(t) == [t EXCEPT !.phase = "top", !.needsInit = TRUE]

--------------------------------------------------------------------------
(* read_next_frame, and read_frame under the bus lock of the poll. *)

\* A poll that finds nothing changes nothing; the deadline is four times what a half takes,
\* so it only passes when the camera stopped.
PollFindsReady ==
    /\ task.phase = "poll"
    /\ camera.ready
    /\ task' = [task EXCEPT !.phase = "read", !.attempt = 1]
    /\ UNCHANGED <<camera, frame, image, published, Others>>

PollTimesOut ==
    /\ task.phase = "poll"
    /\ ~camera.ready
    /\ ~camera.measuring
    /\ task' = CaptureFails(task)
    /\ UNCHANGED <<camera, frame, image, published, Others>>

\* An attempt drops the flag before it reads the memory.
ReadBegins ==
    /\ task.phase = "read"
    /\ camera' = [camera EXCEPT !.ready = FALSE]
    /\ task' = [task EXCEPT !.phase = "ram", !.chunk = 1]
    /\ UNCHANGED <<frame, image, published, Others>>

\* One transfer of read_words; others run between two of them.
ReadChunk ==
    /\ task.phase = "ram"
    /\ task.chunk \in Chunk
    /\ frame' = [frame EXCEPT ![task.chunk] = camera.ram]
    /\ task' = [task EXCEPT !.chunk = @ + 1]
    /\ UNCHANGED <<camera, image, published, Others>>

\* object_temperatures converts the pixels of the frame's half and leaves the others alone.
Converted(h) == [image EXCEPT ![h] = [c \in Chunk |-> frame[c][h]]]

\* Mutant of ReadEnds: the flag is not looked at again.
ReadEndsUnchecked ==
    /\ task.phase = "ram"
    /\ task.chunk > Chunks
    /\ LET seen == task.seen \cup {camera.subpage} IN
       /\ image' = Converted(camera.subpage)
       /\ task' = [task EXCEPT !.seen = seen,
                               !.phase = IF seen = Halves THEN "publish" ELSE "poll"]
    /\ UNCHANGED <<camera, frame, published, Others>>

\* Nothing new was finished meanwhile: the frame is whole and of the half the status names.
ReadEnds ==
    /\ task.phase = "ram"
    /\ task.chunk > Chunks
    /\ ~camera.ready
    /\ LET seen == task.seen \cup {camera.subpage} IN
       /\ image' = Converted(camera.subpage)
       /\ task' = [task EXCEPT !.seen = seen,
                               !.phase = IF seen = Halves THEN "publish" ELSE "poll"]
    /\ UNCHANGED <<camera, frame, published, Others>>

\* Mutant of ReadAgain: the memory is read again with the flag still set.
ReadAgainFlagged ==
    /\ task.phase = "ram"
    /\ task.chunk > Chunks
    /\ camera.ready
    /\ task' = [task EXCEPT !.chunk = 1]
    /\ UNCHANGED <<camera, frame, image, published, Others>>

ReadAgain ==
    /\ task.phase = "ram"
    /\ task.chunk > Chunks
    /\ camera.ready
    /\ task' = IF task.attempt < ReadAttempts
               THEN [task EXCEPT !.phase = "read", !.attempt = @ + 1]
               ELSE CaptureFails(task)
    /\ UNCHANGED <<camera, frame, image, published, Others>>

\* The image is summarised, published, and the schedule waited for.
Publish ==
    /\ task.phase = "publish"
    /\ published' = {image}
    /\ task' = [task EXCEPT !.phase = "idle", !.needsInit = FALSE]
    /\ UNCHANGED <<camera, frame, image, Others>>

Tick ==
    /\ task.phase = "idle"
    /\ task' = [task EXCEPT !.phase = "top"]
    /\ UNCHANGED <<camera, frame, image, published, Others>>

\* A transfer fails: initialize returns false, or the capture is given up.
TransferFails ==
    /\ faults < MaxFaults
    /\ faults' = faults + 1
    /\ task.phase \in {"configure", "clear", "poll", "read", "ram"} \/
       (task.phase = "top" /\ task.needsInit)
    /\ task' = CaptureFails(task)
    /\ UNCHANGED <<camera, frame, image, published, late, stalls>>

TaskStep ==
    \/ ReadCalibration \/ SetConfiguration \/ SkipInitialize \/ ClearDataReady
    \/ PollFindsReady \/ PollTimesOut \/ ReadBegins \/ ReadChunk \/ ReadEnds \/ ReadAgain
    \/ Publish \/ Tick

Next == Measure \/ Stall \/ Resume \/ TaskStep \/ TransferFails

(* The executor runs the task whenever it can go on, the camera measures     *)
(* without being asked, and a camera that stopped comes back.                *)
Fairness == WF_vars(TaskStep) /\ WF_vars(Measure) /\ WF_vars(Resume)

Spec == Init /\ [][Next]_vars /\ Fairness

--------------------------------------------------------------------------
(* Types: the status, the read-out and the image hold what they can hold. *)
TypeOK ==
    /\ camera \in [subpage : Halves, ready : BOOLEAN, ram : [Halves -> Measurement],
                   measuring : BOOLEAN, faulty : BOOLEAN]
    /\ task \in [phase : {"top", "configure", "clear", "poll", "read", "ram", "publish", "idle"},
                 needsInit : BOOLEAN, seen : SUBSET Halves, chunk : 1..(Chunks + 1),
                 attempt : 1..ReadAttempts]
    /\ frame \in [Chunk -> [Halves -> Measurement]]
    /\ image \in [Halves -> [Chunk -> Measurement]]
    /\ published = NoImage \/ \E i \in [Halves -> [Chunk -> Measurement]] : published = {i}
    /\ late \in 0..MaxLate
    /\ faults \in 0..MaxFaults
    /\ stalls \in 0..MaxStalls

(* Every half of a published image is of one measurement, however often the  *)
(* camera overwrote its memory while it was read.                            *)
HalvesAreWhole ==
    \A i \in published : \A h \in Halves : \A c, d \in Chunk : i[h][c] = i[h][d]

(* Both halves of an image were measured after its capture began: no pixel   *)
(* of an abandoned capture, of a measurement the camera held before, or of a *)
(* frame that was not of the half it was taken for is published.             *)
ImageIsOfThisCapture ==
    \A i \in published : \A h \in Halves : \A c \in Chunk : i[h][c].current

(* A camera whose calibration is usable is read again and again: a capture   *)
(* that overtook its deadline, lost the race for the memory or failed on the *)
(* bus is followed by an image.                                              *)
KeepsPublishing == ~camera.faulty => []<>(task.phase = "idle")

(* No half of a published image mixes measurements, and the read-out keeps   *)
(* within its attempts and chunks.                                           *)
ImageIsWhole == TypeOK /\ HalvesAreWhole
============================================================================
