---------------------------- MODULE ThermalImage ----------------------------
(***************************************************************************)
(* The newest thermal image and the endpoint that serves it:               *)
(* publish_thermal, thermal_status and thermal_row of                      *)
(* utils/shared_state.rs, send_thermal of tasks/web_server_task.rs.        *)
(*                                                                         *)
(* The image is one buffer that every capture overwrites.  send_thermal    *)
(* reads the description once and then copies the image out a row at a     *)
(* time, waiting for the network after each row; the camera task publishes *)
(* during those waits.  A row, and the summary, are identified by the      *)
(* number of the image they were taken from.                               *)
(***************************************************************************)
EXTENDS Naturals, Sequences

CONSTANTS Rows,       \* THERMAL_ROWS
          MaxImages   \* bound on the images taken between two boots

ASSUME ThermalAssumption ==
  /\ Rows \in Nat \ {0}
  /\ MaxImages \in Nat

VARIABLES taken,      \* a first image exists
          sequence,   \* images taken since boot
          summary,    \* image the stored minimum, maximum and mean describe
          pixels,     \* image each stored row belongs to
          pc,         \* where send_thermal is
          header,     \* description announced before the pixels
          body        \* rows sent so far

imageVars == <<taken, sequence, summary, pixels>>
serverVars == <<pc, header, body>>
thermalVars == <<taken, sequence, summary, pixels, pc, header, body>>

Row == 1 .. Rows

NoHeader == [available |-> FALSE, sequence |-> 0, summary |-> 0]

-----------------------------------------------------------------------------
ImageInit ==
  /\ taken = FALSE
  /\ sequence = 0
  /\ summary = 0
  /\ pixels = [r \in Row |-> 0]
  /\ pc = "idle"
  /\ header = NoHeader
  /\ body = << >>

\* Mutant of PublishImage: the pixels of the new image are not copied in.
PublishWithoutPixels ==
  /\ sequence < MaxImages
  /\ taken' = TRUE
  /\ sequence' = sequence + 1
  /\ summary' = sequence + 1
  /\ UNCHANGED <<pixels, serverVars>>

(***************************************************************************)
(* The camera task replaces pixels, summary and number under one lock.     *)
(***************************************************************************)
PublishImage ==
  /\ sequence < MaxImages
  /\ taken' = TRUE
  /\ sequence' = sequence + 1
  /\ summary' = sequence + 1
  /\ pixels' = [r \in Row |-> sequence + 1]
  /\ UNCHANGED serverVars

(***************************************************************************)
(* The description of the newest image, if there is one.                   *)
(***************************************************************************)
ThermalStatus ==
  IF taken THEN [available |-> TRUE, sequence |-> sequence, summary |-> summary]
  ELSE NoHeader

(***************************************************************************)
(* A request: the description is read, or there is no image yet.           *)
(***************************************************************************)
Request ==
  /\ pc = "idle"
  /\ header' = ThermalStatus
  /\ body' = << >>
  /\ pc' = "preamble"
  /\ UNCHANGED imageVars

(***************************************************************************)
(* The description is on its way; without an image it is all there is.     *)
(***************************************************************************)
SendPreamble ==
  /\ pc = "preamble"
  /\ pc' = IF header.available THEN "rows" ELSE "sent"
  /\ UNCHANGED <<imageVars, header, body>>

\* Mutant of SendRow: the last row is never sent.
SendRowButLast ==
  /\ pc = "rows"
  /\ Len(body) < Rows - 1
  /\ body' = Append(body, pixels[Len(body) + 1])
  /\ pc' = IF Len(body) + 1 = Rows - 1 THEN "sent" ELSE pc
  /\ UNCHANGED <<imageVars, header>>

(***************************************************************************)
(* One row is copied under the lock and written.  thermal_row would refuse *)
(* it if no image had been taken, which ends the loop early.               *)
(***************************************************************************)
SendRow ==
  /\ pc = "rows"
  /\ Len(body) < Rows
  /\ body' = IF taken THEN Append(body, pixels[Len(body) + 1]) ELSE body
  /\ pc' = IF taken THEN pc ELSE "sent"
  /\ UNCHANGED <<imageVars, header>>

SendTail ==
  /\ pc = "rows"
  /\ Len(body) = Rows
  /\ pc' = "sent"
  /\ UNCHANGED <<imageVars, header, body>>

(***************************************************************************)
(* A write failed: the response ends where it was.                         *)
(***************************************************************************)
CutOff ==
  /\ pc \in {"preamble", "rows"}
  /\ pc' = "cut"
  /\ UNCHANGED <<imageVars, header, body>>

HangUp ==
  /\ pc \in {"sent", "cut"}
  /\ pc' = "idle"
  /\ header' = NoHeader
  /\ body' = << >>
  /\ UNCHANGED imageVars

(***************************************************************************)
(* A reboot clears the image, ends the connection and restarts the count.  *)
(***************************************************************************)
Reboot ==
  /\ taken' = FALSE
  /\ sequence' = 0
  /\ summary' = 0
  /\ pixels' = [r \in Row |-> 0]
  /\ pc' = "idle"
  /\ header' = NoHeader
  /\ body' = << >>

ImageNext ==
  \/ PublishImage
  \/ Request
  \/ SendPreamble
  \/ SendRow
  \/ SendTail
  \/ CutOff
  \/ HangUp
  \/ Reboot

ImageSpec == ImageInit /\ [][ImageNext]_thermalVars

-----------------------------------------------------------------------------
ImageTypeOK ==
  /\ taken \in BOOLEAN
  /\ sequence \in 0 .. MaxImages
  /\ summary \in 0 .. MaxImages
  /\ pixels \in [Row -> 0 .. MaxImages]
  /\ pc \in {"idle", "preamble", "rows", "sent", "cut"}
  /\ header \in [available : BOOLEAN, sequence : 0 .. MaxImages,
                 summary : 0 .. MaxImages]
  /\ body \in Seq(0 .. MaxImages)

(***************************************************************************)
(* An image published while a response is being written can only make the  *)
(* rows below the point reached newer: rows are never older than the       *)
(* announced image, never older than the row above them, and never from an *)
(* image that does not exist.  In particular the response is one image if  *)
(* none was published meanwhile.                                           *)
(***************************************************************************)
TearsOnlyForward ==
  \A i \in 1 .. Len(body) :
    /\ header.sequence <= body[i]
    /\ body[i] <= sequence
    /\ \A j \in 1 .. i : body[j] <= body[i]

(***************************************************************************)
(* A response that announced an image and was sent to its end holds every  *)
(* row of the grid, so the pixel array has width times height elements.    *)
(***************************************************************************)
SentImageIsWhole ==
  pc = "sent" /\ header.available => Len(body) = Rows

(***************************************************************************)
(* The stored image is always one image, the newest, and an announced one  *)
(* is no newer; an announced image goes on existing while it is sent.      *)
(***************************************************************************)
ImageInv ==
  /\ ImageTypeOK
  /\ \A r \in Row : pixels[r] = sequence
  /\ header.sequence <= sequence
  /\ header.available => taken
  /\ pc = "rows" => header.available
  /\ Len(body) <= Rows

(***************************************************************************)
(* Whatever is published meanwhile, the buffer holds one image, and a      *)
(* response that ends has all of the rows it announced.                    *)
(***************************************************************************)
StoredAndSentWhole == ImageInv /\ SentImageIsWhole

(***************************************************************************)
(* What software/README.md promises of the response: the coldest, warmest  *)
(* and average pixel are those "of this image", the one in pixels.         *)
(***************************************************************************)
SummaryDescribesPixels ==
  pc = "sent" => \A i \in 1 .. Len(body) : body[i] = header.summary
=============================================================================
