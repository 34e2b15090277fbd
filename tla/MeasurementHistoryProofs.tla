---------------------- MODULE MeasurementHistoryProofs ----------------------
(***************************************************************************)
(* Theorems about the history ring, for every capacity, every value set    *)
(* and every bound on the push counter: its types, the agreement of its    *)
(* four fields, the reading get returns for a sequence number, and that    *)
(* the ring implements the sliding window.                                 *)
(***************************************************************************)
EXTENDS MeasurementHistory, SequenceTheorems, TLAPS

-----------------------------------------------------------------------------
(***************************************************************************)
(* A slot inside the slice is left alone by the wrap of push and get.      *)
(***************************************************************************)
LEMMA ModBelow ==
  ASSUME NEW C \in Nat \ {0}, NEW x \in 0 .. C - 1
  PROVE  x % C = x
  OBVIOUS

(***************************************************************************)
(* A slot past the end of the slice is its distance from there.            *)
(***************************************************************************)
LEMMA ModWrap ==
  ASSUME NEW C \in Nat \ {0}, NEW x \in C .. 2 * C - 1
  PROVE  x % C = x - C
  OBVIOUS

(***************************************************************************)
(* One turn of the write position.                                         *)
(***************************************************************************)
LEMMA NextWraps ==
  ASSUME NEW n \in Slot
  PROVE  (n + 1) % Capacity = IF n + 1 = Capacity THEN 0 ELSE n + 1
  BY HistoryAssumption, ModBelow, ModWrap DEF Slot

-----------------------------------------------------------------------------
(***************************************************************************)
(* No push and no reboot takes a field out of its type.                    *)
(***************************************************************************)
LEMMA TypeStep == TypeOK /\ [Next]_vars => TypeOK'
<1> USE HistoryAssumption DEF TypeOK, Slot
<1> SUFFICES ASSUME TypeOK, [Next]_vars
             PROVE  TypeOK'
  OBVIOUS
<1>1. ASSUME NEW v \in Value, Push(v)
      PROVE  TypeOK'
  <2>1. next' \in Slot
    BY <1>1, NextWraps DEF Push
  <2>2. entries' \in [Slot -> Value \cup {NoValue}]
    BY <1>1 DEF Push
  <2>3. len' \in 0 .. Capacity /\ pushed' \in 0 .. MaxPushed
    BY <1>1 DEF Push
  <2> QED
    BY <2>1, <2>2, <2>3
<1>2. CASE Reboot
  BY <1>2 DEF Reboot
<1>3. CASE UNCHANGED vars
  BY <1>3 DEF vars
<1> QED
  BY <1>1, <1>2, <1>3 DEF Next

(***************************************************************************)
(* push and get compute no index outside the slice of utils/history.rs.    *)
(***************************************************************************)
THEOREM TypeCorrect == Spec => []TypeOK
<1>1. Init => TypeOK
  BY HistoryAssumption DEF Init, TypeOK, Slot
<1> QED
  BY <1>1, TypeStep, PTL DEF Spec

-----------------------------------------------------------------------------
(***************************************************************************)
(* A new ring is empty and has never wrapped.                              *)
(***************************************************************************)
LEMMA RingInvInit == Init => RingInv
  BY HistoryAssumption DEF Init, RingInv, TypeOK, RingConsistent, Slot

(***************************************************************************)
(* push moves position, length and count together.                         *)
(***************************************************************************)
LEMMA RingInvStep == RingInv /\ [Next]_vars => RingInv'
<1> USE HistoryAssumption DEF RingInv, TypeOK, RingConsistent, Slot
<1> SUFFICES ASSUME RingInv, [Next]_vars
             PROVE  RingConsistent'
  BY TypeStep
<1>1. ASSUME NEW v \in Value, Push(v)
      PROVE  RingConsistent'
  <2>1. next' = IF next + 1 = Capacity THEN 0 ELSE next + 1
    BY <1>1, NextWraps DEF Push
  <2>2. (len < Capacity => next = len /\ pushed = len)'
    BY <1>1, <2>1 DEF Push
  <2>3. (len <= pushed)'
    BY <1>1 DEF Push
  <2>4. (\A s \in Slot : entries[s] \in Value <=> s < len)'
    BY <1>1 DEF Push
  <2> QED
    BY <2>2, <2>3, <2>4
<1>2. CASE Reboot
  BY <1>2 DEF Reboot
<1>3. CASE UNCHANGED vars
  BY <1>3 DEF vars
<1> QED
  BY <1>1, <1>2, <1>3 DEF Next

(***************************************************************************)
(* The write position, the length, the push counter and the filled slots   *)
(* of utils/history.rs agree in every reachable state.                     *)
(***************************************************************************)
THEOREM RingAlwaysConsistent == Spec => []RingInv
  BY RingInvInit, RingInvStep, PTL DEF Spec

-----------------------------------------------------------------------------
(***************************************************************************)
(* The slot of the i-th retained reading, without the modulo: the oldest   *)
(* is slot zero until the ring is full and the write position after that.  *)
(***************************************************************************)
SlotAt(n, l, i) ==
  IF l < Capacity THEN i - 1
  ELSE IF n + i - 1 < Capacity THEN n + i - 1
       ELSE n + i - 1 - Capacity

(***************************************************************************)
(* Both ways of counting to the i-th retained reading, back from the       *)
(* write position and on from the oldest slot as get does, end there.      *)
(***************************************************************************)
LEMMA RetainedSlot ==
  ASSUME RingInv, NEW i \in 1 .. len
  PROVE  /\ SlotAt(next, len, i) \in Slot
         /\ SlotAt(next, len, i) < len
         /\ (next + Capacity - len + i - 1) % Capacity = SlotAt(next, len, i)
         /\ (OldestSlot + (i - 1)) % Capacity = SlotAt(next, len, i)
<1> USE HistoryAssumption DEF RingInv, TypeOK, RingConsistent, Slot, SlotAt
<1>1. SlotAt(next, len, i) \in Slot /\ SlotAt(next, len, i) < len
  OBVIOUS
<1>2. CASE len < Capacity
  <2>1. (next + Capacity - len + i - 1) % Capacity = i - 1
    <3>1. next + Capacity - len + i - 1 = Capacity + (i - 1)
      BY <1>2
    <3> QED
      BY <1>2, <3>1, ModWrap
  <2>2. (OldestSlot + (i - 1)) % Capacity = i - 1
    BY <1>2, ModBelow DEF OldestSlot
  <2> QED
    BY <1>1, <1>2, <2>1, <2>2
<1>3. CASE len = Capacity
  <2>1. next + Capacity - len + i - 1 = next + i - 1
    BY <1>3
  <2>2. (next + i - 1) % Capacity = SlotAt(next, len, i)
    <3>1. CASE next + i - 1 < Capacity
      BY <1>3, <3>1, ModBelow
    <3>2. CASE next + i - 1 >= Capacity
      <4>1. next + i - 1 \in Capacity .. 2 * Capacity - 1
        BY <1>3, <3>2
      <4> QED
        BY <1>3, <3>2, <4>1, ModWrap
    <3> QED
      BY <3>1, <3>2
  <2>3. OldestSlot + (i - 1) = next + i - 1
    BY <1>3 DEF OldestSlot
  <2> QED
    BY <1>1, <2>1, <2>2, <2>3
<1> QED
  BY <1>2, <1>3

(***************************************************************************)
(* The retained readings of a consistent ring are a sequence of readings,  *)
(* with no empty slot among them.                                          *)
(***************************************************************************)
RetainedExact ==
  /\ Retained \in Seq(Value)
  /\ Len(Retained) = len
  /\ \A i \in 1 .. len : Retained[i] = entries[SlotAt(next, len, i)]

\* The retained measurements are read out of the ring slot by slot.
LEMMA RetainedIsSeq == RingInv => RetainedExact
<1> SUFFICES ASSUME RingInv PROVE RetainedExact
  OBVIOUS
<1>1. len \in Nat
  BY HistoryAssumption DEF RingInv, TypeOK
<1>2. \A i \in 1 .. len : Retained[i] = entries[SlotAt(next, len, i)]
  BY RetainedSlot DEF Retained
<1>3. \A i \in 1 .. len : entries[SlotAt(next, len, i)] \in Value
  BY RetainedSlot DEF RingInv, RingConsistent
<1>4. Retained \in [1 .. len -> Value]
  BY <1>2, <1>3 DEF Retained
<1>5. Retained \in Seq(Value)
  BY <1>1, <1>4, IsASeq, SMT
<1> QED
  BY <1>1, <1>2, <1>4, <1>5, LenProperties DEF RetainedExact

(***************************************************************************)
(* In a consistent ring get finds what the window holds.                   *)
(***************************************************************************)
LEMMA GetReads == RingInv => GetReadsWindow
<1> SUFFICES ASSUME RingInv, NEW seq \in 0 .. pushed + 1
             PROVE  Get(seq) = Window!Read(seq)
  BY DEF GetReadsWindow
<1> USE HistoryAssumption DEF RingInv, TypeOK, RingConsistent
<1> DEFINE i == seq - FirstSequence + 1
<1>1. Len(Retained) = len /\ Window!Oldest = FirstSequence
  BY RetainedIsSeq DEF RetainedExact, Window!Oldest, FirstSequence
<1>2. CASE seq < FirstSequence
  BY <1>1, <1>2 DEF Get, Window!Read, FirstSequence
<1>3. CASE seq >= FirstSequence /\ seq < pushed
  <2>1. i \in 1 .. len /\ seq - FirstSequence = i - 1
    BY <1>3 DEF FirstSequence
  <2>2. Get(seq) = entries[(OldestSlot + (i - 1)) % Capacity]
    BY <1>3, <2>1 DEF Get, GetOldest, FirstSequence
  <2>3. Get(seq) = entries[SlotAt(next, len, i)]
    BY <2>1, <2>2, RetainedSlot
  <2>4. Window!Read(seq) = Retained[i]
    BY <1>1, <1>3 DEF Window!Read, FirstSequence
  <2> QED
    BY <2>1, <2>3, <2>4, RetainedIsSeq DEF RetainedExact
<1>4. CASE seq >= pushed
  BY <1>1, <1>4 DEF Get, GetOldest, Window!Read, FirstSequence
<1> QED
  BY <1>2, <1>3, <1>4 DEF FirstSequence

(***************************************************************************)
(* get(seq) answers exactly the reading numbered seq while it is retained. *)
(***************************************************************************)
THEOREM GetCorrect == Spec => []GetReadsWindow
  BY GetReads, RingInvInit, RingInvStep, PTL DEF Spec

-----------------------------------------------------------------------------
(***************************************************************************)
(* A push slides the window by one reading.                                *)
(***************************************************************************)
LEMMA PushSlides ==
  ASSUME RingInv, NEW v \in Value, Push(v)
  PROVE  Retained' = Window!Slide(Retained, v)
<1>1. RingInv'
  BY RingInvStep DEF Next
<1>2. RetainedExact'
  BY <1>1, RetainedIsSeq, PTL
<1> USE HistoryAssumption DEF RingInv, TypeOK, RingConsistent, Slot
<1>3. next' = IF next + 1 = Capacity THEN 0 ELSE next + 1
  BY NextWraps DEF Push
<1>4. /\ Retained' \in Seq(Value) /\ Len(Retained') = len'
      /\ \A i \in 1 .. len' : Retained'[i] = entries'[SlotAt(next', len', i)]
  BY <1>2 DEF RetainedExact
<1>5. Retained \in Seq(Value) /\ Len(Retained) = len
  BY RetainedIsSeq DEF RetainedExact
<1>6. CASE len < Capacity
  <2>1. len' = len + 1
    BY <1>6 DEF Push
  <2>2. Window!Slide(Retained, v) = Append(Retained, v)
    BY <1>5, <1>6 DEF Window!Slide
  <2>3. ASSUME NEW i \in 1 .. len
        PROVE  Retained'[i] = Retained[i]
    <3>1. SlotAt(next', len', i) = i - 1 /\ SlotAt(next, len, i) = i - 1
      BY <1>3, <1>6, <2>1 DEF SlotAt, Push
    <3>2. i \in 1 .. len' /\ i - 1 \in Slot /\ i - 1 # next
      BY <1>6, <2>1
    <3>3. entries'[i - 1] = entries[i - 1]
      BY <3>2 DEF Push
    <3>4. Retained[i] = entries[i - 1]
      BY <3>1, RetainedIsSeq DEF RetainedExact
    <3> QED
      BY <1>4, <3>1, <3>2, <3>3, <3>4
  <2>4. Retained'[len + 1] = v
    <3>1. SlotAt(next', len', len + 1) = len
      BY <1>3, <1>6, <2>1 DEF SlotAt, Push
    <3> QED
      BY <1>4, <1>6, <2>1, <3>1 DEF Push
  <2> QED
    BY <1>4, <1>5, <2>1, <2>2, <2>3, <2>4
<1>7. CASE len = Capacity
  <2>1. len' = len
    BY <1>7 DEF Push
  <2>2. Window!Slide(Retained, v) = Append(Tail(Retained), v)
    BY <1>5, <1>7 DEF Window!Slide
  <2>3. ASSUME NEW i \in 1 .. len - 1
        PROVE  Retained'[i] = Retained[i + 1]
    <3> DEFINE s == SlotAt(next, len, i + 1)
    <3>1. SlotAt(next', len', i) = s /\ s \in Slot /\ s # next
      BY <1>3, <1>7, <2>1 DEF SlotAt, Push
    <3>2. i \in 1 .. len' /\ i + 1 \in 1 .. len
      BY <2>1
    <3>3. entries'[s] = entries[s]
      BY <3>1 DEF Push
    <3>4. Retained[i + 1] = entries[s]
      BY <3>2, RetainedIsSeq DEF RetainedExact
    <3> HIDE DEF s
    <3> QED
      BY <1>4, <3>1, <3>2, <3>3, <3>4
  <2>4. Retained'[len] = v
    <3>1. SlotAt(next', len', len) = next
      BY <1>3, <1>7, <2>1 DEF SlotAt, Push
    <3> QED
      BY <1>4, <1>7, <2>1, <3>1 DEF Push
  <2>5. Tail(Retained) \in Seq(Value) /\ Len(Tail(Retained)) = len - 1
    BY <1>5, <1>7
  <2> QED
    BY <1>4, <1>5, <1>7, <2>1, <2>2, <2>3, <2>4, <2>5
<1> QED
  BY <1>6, <1>7

(***************************************************************************)
(* The ring of utils/history.rs implements the sliding window of the       *)
(* newest Capacity readings, reboots included.                             *)
(***************************************************************************)
THEOREM RingImplementsWindow == Spec => ImplementsWindow
<1>1. Init => Window!Init
  BY DEF Init, Window!Init, Retained
<1>2. RingInv /\ [Next]_vars => [Window!Next]_(Window!vars)
  <2> SUFFICES ASSUME RingInv, [Next]_vars
               PROVE  [Window!Next]_(Window!vars)
    OBVIOUS
  <2>1. ASSUME NEW v \in Value, Push(v)
        PROVE  Window!Publish(v)
    BY <2>1, PushSlides DEF Push, Window!Publish
  <2>2. ASSUME Reboot
        PROVE  Window!Reboot
    BY <2>2 DEF Reboot, Window!Reboot, Retained
  <2>3. ASSUME UNCHANGED vars
        PROVE  UNCHANGED Window!vars
    BY <2>3 DEF vars, Window!vars, Retained
  <2> QED
    BY <2>1, <2>2, <2>3 DEF Next, Window!Next
<1> QED
  BY <1>1, <1>2, RingInvInit, RingInvStep, PTL
     DEF Spec, ImplementsWindow, Window!Spec
=============================================================================
