--------------------------- MODULE ReadingWindow ---------------------------
(***************************************************************************)
(* What a measurement history promises its readers, free of the ring it is *)
(* kept in: the newest Capacity readings in the order they were published, *)
(* and how many readings were published since boot.                        *)
(*                                                                         *)
(* The reading at position i of the window has the sequence number         *)
(* count - Len(window) + i - 1, so numbers start at zero at boot, rise by  *)
(* one with every reading and are never reused before the next boot.       *)
(***************************************************************************)
EXTENDS Naturals, Sequences

CONSTANTS Capacity,   \* how many readings are retained
          Value,      \* the readings a sensor can publish
          NoValue,    \* stands for None
          MaxPushed   \* u64::MAX, the last value the counter can take

VARIABLES window,     \* the retained readings, oldest first
          count       \* readings published since boot

vars == <<window, count>>

(***************************************************************************)
(* window with v behind its last reading and at most Capacity readings.    *)
(***************************************************************************)
Slide(w, v) ==
  IF Len(w) < Capacity THEN Append(w, v) ELSE Append(Tail(w), v)

Oldest == count - Len(window)

(***************************************************************************)
(* The reading numbered seq, or NoValue when it is not retained.           *)
(***************************************************************************)
Read(seq) ==
  IF seq \in Oldest .. count - 1 THEN window[seq - Oldest + 1] ELSE NoValue

Init ==
  /\ window = << >>
  /\ count = 0

Publish(v) ==
  /\ count < MaxPushed
  /\ window' = Slide(window, v)
  /\ count' = count + 1

Reboot ==
  /\ window' = << >>
  /\ count' = 0

Next == (\E v \in Value : Publish(v)) \/ Reboot

Spec == Init /\ [][Next]_vars
=============================================================================
