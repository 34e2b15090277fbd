------------------------ MODULE MeasurementHistory ------------------------
(***************************************************************************)
(* utils/history.rs: the ring buffer behind every sensor's history.        *)
(*                                                                         *)
(* The storage is a fixed slice of slots.  push writes the slot `next`,    *)
(* overwriting the oldest reading once the ring is full; get turns a       *)
(* sequence number into a slot.  A reboot builds the ring anew over        *)
(* cleared slots, which is when sequence numbers start again at zero.      *)
(***************************************************************************)
EXTENDS Naturals, Sequences

CONSTANTS Capacity,   \* entries.len(), never zero: new() asserts it
          Value,      \* the readings a sensor can publish
          NoValue,    \* None
          MaxPushed   \* u64::MAX: the bound on the push counter

ASSUME HistoryAssumption ==
  /\ Capacity \in Nat \ {0}
  /\ MaxPushed \in Nat
  /\ NoValue \notin Value

VARIABLES entries,    \* the slots, indexed from zero as the slice is
          next,       \* slot the next reading is written to
          len,        \* readings retained
          pushed      \* readings pushed since boot

vars == <<entries, next, len, pushed>>

Slot == 0 .. Capacity - 1

-----------------------------------------------------------------------------
(***************************************************************************)
(* Queries.                                                                *)
(***************************************************************************)
FirstSequence == pushed - len

NextSequence == pushed

OldestSlotAlwaysZero == 0                        \* mutant of OldestSlot

OldestSlot == IF len = Capacity THEN next ELSE 0

GetOldest(index) ==
  IF index >= len THEN NoValue ELSE entries[(OldestSlot + index) % Capacity]

(***************************************************************************)
(* checked_sub yields None for a number below the first retained one.      *)
(***************************************************************************)
Get(seq) ==
  IF seq < FirstSequence THEN NoValue ELSE GetOldest(seq - FirstSequence)

-----------------------------------------------------------------------------
(***************************************************************************)
(* Operations.                                                             *)
(***************************************************************************)
Init ==
  /\ entries = [s \in Slot |-> NoValue]
  /\ next = 0
  /\ len = 0
  /\ pushed = 0

\* Mutant of Push: the length is counted up past the capacity check.
PushStopsOneShort(v) ==
  /\ pushed < MaxPushed
  /\ entries' = [entries EXCEPT ![next] = v]
  /\ next' = (next + 1) % Capacity
  /\ len' = IF len + 1 < Capacity THEN len + 1 ELSE len
  /\ pushed' = pushed + 1

Push(v) ==
  /\ pushed < MaxPushed
  /\ entries' = [entries EXCEPT ![next] = v]
  /\ next' = (next + 1) % Capacity
  /\ len' = IF len < Capacity THEN len + 1 ELSE Capacity
  /\ pushed' = pushed + 1

Reboot ==
  /\ entries' = [s \in Slot |-> NoValue]
  /\ next' = 0
  /\ len' = 0
  /\ pushed' = 0

Next == (\E v \in Value : Push(v)) \/ Reboot

Spec == Init /\ [][Next]_vars

-----------------------------------------------------------------------------
(***************************************************************************)
(* Every variable has its type, and every index stays inside the slice, so *)
(* neither push nor get can panic on an out-of-bounds slot.                *)
(***************************************************************************)
TypeOK ==
  /\ entries \in [Slot -> Value \cup {NoValue}]
  /\ next \in Slot
  /\ len \in 0 .. Capacity
  /\ pushed \in 0 .. MaxPushed

(***************************************************************************)
(* The four fields agree: the ring is full or has never wrapped, the       *)
(* length is the number of readings pushed up to the capacity, and exactly *)
(* the slots below the length hold a reading.                              *)
(***************************************************************************)
RingConsistent ==
  /\ len < Capacity => next = len /\ pushed = len
  /\ len <= pushed
  /\ \A s \in Slot : entries[s] \in Value <=> s < len

(***************************************************************************)
(* No index leaves the slice, and position, length, count and occupied     *)
(* slots agree after any number of turns of the ring: the inductive        *)
(* invariant of the module.                                                *)
(***************************************************************************)
RingInv == TypeOK /\ RingConsistent

(***************************************************************************)
(* The ring implements the sliding window: the newest reading lies in the  *)
(* slot just behind the write position, each older one a slot further      *)
(* back, and the last len of them are the window.                          *)
(***************************************************************************)
Retained ==
  [i \in 1 .. len |-> entries[(next + Capacity - len + i - 1) % Capacity]]

Window == INSTANCE ReadingWindow WITH window <- Retained, count <- pushed

ImplementsWindow == Window!Spec

(***************************************************************************)
(* get(seq) is the reading that was given the number seq when it was       *)
(* published while it is retained, and None for every other number: one    *)
(* already overwritten, or one not given yet.                              *)
(***************************************************************************)
GetReadsWindow == \A seq \in 0 .. pushed + 1 : Get(seq) = Window!Read(seq)
=============================================================================
