-------------------------- MODULE CollectionProofs --------------------------
(***************************************************************************)
(* Theorems about the collection of one sensor's readings, for every ring, *)
(* page size and poll interval, any delay of a response and any number of  *)
(* failures, restarts and reboots: a second copy of a reading needs a late *)
(* response, the cursor passes nothing unless a response was early, and    *)
(* the search for it ends at the boundary if neither was.                  *)
(***************************************************************************)
EXTENDS Collection, SelectionTheorems

\* What archive holds.
Reading == [t : Nat, taken : Time]

-----------------------------------------------------------------------------
(***************************************************************************)
(* What holds whatever the server has missed.                              *)
(***************************************************************************)
ClockOK == bootAt <= now /\ seenBoot <= boots

\* Readings of this boot, each at least an interval after the one before.
LogOK ==
  /\ \A i \in DOMAIN log : bootAt + Interval <= log[i] /\ log[i] <= now
  /\ \A i, j \in DOMAIN log : i < j => log[i] + Interval <= log[j]

(***************************************************************************)
(* The page of a request was retained when it was answered, and begins     *)
(* where it was asked for unless the device no longer had that.            *)
(***************************************************************************)
RequestOK ==
  request # None =>
    /\ pc \in {"seek", "pages"}
    /\ request.at <= now /\ now - request.at <= MaxDelay
    /\ request.count > 0 => request.from + request.count <= Len(log)
    /\ Asked.from <= request.from
    /\ request.from > Asked.from => request.from <= FirstSequence

\* The search narrows a range of the numbers the status named.
SeekOK ==
  pc = "seek" =>
    /\ status.first <= seek.low /\ seek.low < seek.high /\ seek.high <= status.next
    /\ seek.step > 0 => seek.low = status.first /\ status.next - seek.step < seek.high

\* A cursor, and a pass, need a status to have been seen.
CursorOK == cursor # None \/ pc # "idle" => seen # None

(***************************************************************************)
(* A stored reading is dated late by no more than a delay, and is either   *)
(* from before this boot or in its log.                                    *)
(***************************************************************************)
ArchiveOK ==
  \A i \in DOMAIN archive :
    /\ archive[i].taken <= archive[i].t /\ archive[i].t <= archive[i].taken + MaxDelay
    /\ archive[i].taken <= bootAt \/ \E k \in DOMAIN log : log[k] = archive[i].taken

\* Readings are in the order they were taken, and their dates are.
OrderOK == StoredOnceUnlessLate /\ SecondCopiesAreLate

\* The inductive invariant behind ArchiveIsSound.
SoundInv ==
  /\ TypeOK /\ ClockOK /\ LogOK /\ RequestOK /\ SeekOK /\ CursorOK
  /\ ArchiveOK /\ OrderOK

-----------------------------------------------------------------------------
\* What is assumed of the constants, taken apart.
LEMMA ConstantTypes ==
  /\ Capacity \in Nat /\ Capacity > 0 /\ PageLimit \in Nat /\ PageLimit > 0
  /\ Interval \in Nat /\ Interval > 0 /\ Tolerance \in Nat /\ MaxDelay \in Nat
  /\ Tolerance < Interval
  /\ MaxTime \in Nat /\ MaxTime > 0 /\ MaxReboots \in Nat
  /\ MaxRestarts \in Nat /\ MaxFailures \in Nat /\ None \notin Nat
  BY CollectionAssumption

\* Earlier is not after.
LEMMA NotAfter ==
  \A a, b, c, d \in Nat : a < b /\ c < d => a <= b /\ c <= d
  OBVIOUS

\* An index is the last one or before it.
LEMMA LastOrBefore ==
  \A n \in Nat : \A i \in 1 .. n : i = n \/ i < n
  OBVIOUS

\* The numbers the device retains are those of its log.
LEMMA FirstSequenceBounds ==
  ASSUME log \in Seq(Time)
  PROVE  /\ Len(log) \in Nat
         /\ FirstSequence \in Nat /\ FirstSequence <= Len(log)
         /\ NextSequence = Len(log)
         /\ log # << >> <=> FirstSequence < Len(log)
         /\ \A k \in 0 .. Len(log) - 1 : TakenAt(k) = log[k + 1] /\ TakenAt(k) \in Time
  BY ConstantTypes DEF FirstSequence, NextSequence, TakenAt, Larger

(***************************************************************************)
(* The readings of a page as they arrive.                                  *)
(***************************************************************************)
LEMMA ArrivedPage ==
  ASSUME TypeOK, RequestOK, request # None, NEW nulls \in SUBSET Overwritten
  PROVE  /\ Arrived(nulls) \in Seq(Time \cup {None})
         /\ Len(Arrived(nulls)) = request.count
         /\ request.count \in Nat /\ request.from \in Nat
         /\ \A i \in 1 .. request.count :
              /\ request.from + i \in 1 .. Len(log)
              /\ request.from + i - 1 \in nulls => Arrived(nulls)[i] = None
              /\ request.from + i - 1 \notin nulls =>
                   Arrived(nulls)[i] = log[request.from + i]
<1> USE ConstantTypes
<1>1. request \in [from : Nat, count : 0 .. PageLimit, at : Time] /\ log \in Seq(Time)
  BY DEF TypeOK
<1>2. request.count \in Nat /\ request.from \in Nat /\ Len(log) \in Nat
  BY <1>1
<1>3. ASSUME NEW i \in 1 .. request.count
      PROVE  request.from + i \in 1 .. Len(log)
  BY <1>2, <1>3 DEF RequestOK
<1>4. \A i \in 1 .. request.count : log[request.from + i] \in Time
  BY <1>1, <1>3
<1>5. Arrived(nulls) = [i \in 1 .. request.count |->
                          IF request.from + i - 1 \in nulls THEN None
                          ELSE log[request.from + i]]
  BY <1>2 DEF Arrived, TakenAt
<1>6. Arrived(nulls) \in [1 .. request.count -> Time \cup {None}]
  BY <1>4, <1>5
<1>7. Arrived(nulls) \in Seq(Time \cup {None}) /\ Len(Arrived(nulls)) = request.count
  BY <1>2, <1>6, SeqDef
<1> QED
  BY <1>2, <1>3, <1>5, <1>7

\* The archive as a sequence of readings.
LEMMA ArchiveTyped ==
  ASSUME archive \in Seq([t : Nat, taken : Time])
  PROVE  /\ DOMAIN archive = 1 .. Len(archive) /\ Len(archive) \in Nat
         /\ archive \in Seq(Reading)
         /\ \A i \in DOMAIN archive :
              archive[i].t \in Nat /\ archive[i].taken \in Nat /\ archive[i].taken > 0
<1>1. archive \in Seq(Reading)
  BY DEF Reading
<1>2. DOMAIN archive = 1 .. Len(archive) /\ Len(archive) \in Nat
  BY <1>1
<1>3. \A i \in 1 .. Len(archive) : archive[i] \in Reading
  BY <1>1, ElementOfSeq
<1> QED
  BY <1>1, <1>2, <1>3 DEF Reading, Time

(***************************************************************************)
(* Fresh, in terms of the last stored reading.                             *)
(***************************************************************************)
LEMMA LastStored ==
  ASSUME TypeOK
  PROVE  /\ lastTimestamp \in Nat
         /\ archive = << >> => lastTimestamp = 0
         /\ archive # << >> =>
              /\ Len(archive) \in DOMAIN archive
              /\ lastTimestamp = archive[Len(archive)].t
<1>1. archive \in Seq([t : Nat, taken : Time])
  BY DEF TypeOK
<1>2. CASE archive = << >>
  BY <1>2 DEF lastTimestamp
<1>3. CASE archive # << >>
  <2>1. Len(archive) \in DOMAIN archive /\ archive[Len(archive)] \in [t : Nat, taken : Time]
    BY <1>1, <1>3, LastIsThere, Zenon
  <2>2. lastTimestamp = archive[Len(archive)].t
    BY <1>3 DEF lastTimestamp, Last
  <2> QED
    BY <1>3, <2>1, <2>2
<1> QED
  BY <1>2, <1>3

(***************************************************************************)
(* What a page adds to the archive: readings of the page that arrived and  *)
(* are fresh, all of those, in the order they were taken.                  *)
(***************************************************************************)
KeptOf(nulls, delay) == datePage(Arrived(nulls), delay)

\* They are what datePage keeps of the page.
LEMMA KeptReadings ==
  ASSUME TypeOK, LogOK, RequestOK, request # None,
         NEW nulls \in SUBSET Overwritten, NEW delay \in Nat
  PROVE  /\ KeptOf(nulls, delay) \in Seq(Reading)
         /\ \A i \in 1 .. Len(KeptOf(nulls, delay)) :
              /\ KeptOf(nulls, delay)[i].t = KeptOf(nulls, delay)[i].taken + delay
              /\ Fresh(KeptOf(nulls, delay)[i].t)
              /\ \E k \in 1 .. request.count :
                   /\ request.from + k \in DOMAIN log
                   /\ log[request.from + k] = KeptOf(nulls, delay)[i].taken
         /\ \A i, j \in 1 .. Len(KeptOf(nulls, delay)) :
              i < j => KeptOf(nulls, delay)[i].taken < KeptOf(nulls, delay)[j].taken
         /\ \A k \in 1 .. request.count :
              request.from + k - 1 \notin nulls /\ Fresh(log[request.from + k] + delay) =>
                \E i \in 1 .. Len(KeptOf(nulls, delay)) :
                  KeptOf(nulls, delay)[i].taken = log[request.from + k]
<1> DEFINE page == Arrived(nulls)
           good == {x \in ToSet(page) \ {None} : Fresh(x + delay)}
           there == Selected(page, good)
           kept == [i \in DOMAIN there |->
                      [t |-> there[i] + delay, taken |-> there[i]]]
<1> USE ConstantTypes
<1>1. /\ page \in Seq(Time \cup {None}) /\ Len(page) = request.count
      /\ request.count \in Nat /\ request.from \in Nat
      /\ \A i \in 1 .. request.count :
           /\ request.from + i \in 1 .. Len(log)
           /\ request.from + i - 1 \in nulls => page[i] = None
           /\ request.from + i - 1 \notin nulls => page[i] = log[request.from + i]
  BY ArrivedPage
<1>2. KeptOf(nulls, delay) = kept
  BY DEF KeptOf, datePage
<1>3. \A x : x \in good <=> (\E i \in DOMAIN page : page[i] = x) /\ x # None /\ Fresh(x + delay)
  BY DEF ToSet
<1> HIDE DEF good
<1>4. /\ there \in Seq(Time \cup {None}) /\ SelectionOf(there, page, good)
      /\ AllSelected(there, page, good)
  <2> HIDE DEF page
  <2> QED
    BY <1>1, SelectedProperties, ZenonT(30)
<1> HIDE DEF page, there
<1>5. PICK at \in [1 .. Len(there) -> 1 .. Len(page)] :
        /\ \A i \in 1 .. Len(there) : there[i] = page[at[i]] /\ there[i] \in good
        /\ \A i, j \in 1 .. Len(there) : i < j => at[i] < at[j]
  BY <1>4 DEF SelectionOf
<1>6. ASSUME NEW i \in 1 .. Len(there)
      PROVE  /\ there[i] \in Time /\ Fresh(there[i] + delay)
             /\ at[i] \in 1 .. request.count
             /\ request.from + at[i] \in DOMAIN log /\ there[i] = log[request.from + at[i]]
  <2>1. there[i] \in Time /\ Fresh(there[i] + delay)
    <3>1. there[i] = page[at[i]] /\ there[i] # None /\ Fresh(there[i] + delay)
      BY <1>3, <1>5
    <3>2. at[i] \in 1 .. Len(page)
      BY <1>5
    <3>3. page[at[i]] \in Time \cup {None}
      BY <1>1, <3>2, ElementOfSeq
    <3> QED
      BY <3>1, <3>3
  <2>2. at[i] \in 1 .. request.count /\ there[i] = page[at[i]] /\ page[at[i]] # None
    BY <1>1, <1>5, <2>1 DEF Time
  <2>3. DOMAIN log = 1 .. Len(log)
    BY DEF TypeOK
  <2>4. request.from + at[i] \in 1 .. Len(log)
    BY <1>1, <2>2
  <2>5. request.from + at[i] - 1 \notin nulls
    BY <1>1, <2>2
  <2>6. page[at[i]] = log[request.from + at[i]]
    BY <1>1, <2>2, <2>5
  <2> QED
    BY <2>1, <2>2, <2>3, <2>4, <2>6
<1>7. ASSUME NEW i \in 1 .. Len(there), NEW j \in 1 .. Len(there), i < j
      PROVE  there[i] < there[j]
  <2>1. at[i] \in Nat /\ at[j] \in Nat /\ at[i] < at[j]
    <3>1. at[i] \in 1 .. Len(page) /\ at[j] \in 1 .. Len(page)
      BY <1>5
    <3> QED
      BY <1>1, <1>5, <1>7, <3>1
  <2>2. log[request.from + at[i]] + Interval <= log[request.from + at[j]]
    BY <1>1, <1>6, <2>1 DEF LogOK
  <2>3. there[i] \in Nat /\ there[j] \in Nat
    BY <1>6 DEF Time
  <2>4. there[i] = log[request.from + at[i]] /\ there[j] = log[request.from + at[j]]
    BY <1>6
  <2> QED
    BY <2>2, <2>3, <2>4
<1>8. Len(there) \in Nat /\ DOMAIN there = 1 .. Len(there)
  BY <1>4
<1>9. kept \in Seq(Reading) /\ Len(kept) = Len(there)
  <2>1. \A i \in 1 .. Len(there) :
          [t |-> there[i] + delay, taken |-> there[i]] \in Reading
    BY <1>6 DEF Time, Reading
  <2>2. kept \in [1 .. Len(there) -> Reading]
    BY <1>8, <2>1
  <2> HIDE DEF kept
  <2> QED
    BY <1>8, <2>2, SeqDef
<1>10. \A i \in 1 .. Len(there) :
         kept[i].t = there[i] + delay /\ kept[i].taken = there[i]
  BY <1>8
<1> HIDE DEF kept
<1>11. ASSUME NEW i \in 1 .. Len(kept)
       PROVE  /\ kept[i].t = kept[i].taken + delay
              /\ Fresh(kept[i].t)
              /\ \E k \in 1 .. request.count :
                   request.from + k \in DOMAIN log /\ log[request.from + k] = kept[i].taken
  BY <1>6, <1>9, <1>10
<1>12. ASSUME NEW i \in 1 .. Len(kept), NEW j \in 1 .. Len(kept), i < j
       PROVE  kept[i].taken < kept[j].taken
  BY <1>7, <1>9, <1>10, <1>12
<1>13. ASSUME NEW k \in 1 .. request.count, request.from + k - 1 \notin nulls,
              Fresh(log[request.from + k] + delay)
       PROVE  \E i \in 1 .. Len(kept) : kept[i].taken = log[request.from + k]
  <2>1. page[k] = log[request.from + k] /\ request.from + k \in 1 .. Len(log)
    BY <1>1, <1>13
  <2>2. page[k] \in good
    <3>1. log[request.from + k] \in Time /\ DOMAIN page = 1 .. request.count
      BY <1>1, <2>1, ElementOfSeq DEF TypeOK
    <3>2. page[k] # None /\ k \in DOMAIN page
      BY <2>1, <3>1 DEF Time
    <3> QED
      BY <1>3, <1>13, <2>1, <3>2
  <2>3. PICK i \in 1 .. Len(there) : there[i] = page[k]
    BY <1>1, <1>4, <2>2 DEF AllSelected
  <2> QED
    BY <1>9, <1>10, <2>1, <2>3
<1> QED
  BY <1>2, <1>9, <1>11, <1>12, <1>13

-----------------------------------------------------------------------------
\* The server and the device start sound.
LEMMA SoundInit == Init => SoundInv
<1> SUFFICES ASSUME Init PROVE SoundInv
  OBVIOUS
<1> USE ConstantTypes DEF Init
<1>1. TypeOK
  BY DEF TypeOK, Time, NoStatus, NoSeek
<1>2. ClockOK /\ LogOK /\ RequestOK /\ SeekOK /\ CursorOK
  BY DEF ClockOK, LogOK, RequestOK, SeekOK, CursorOK
<1>3. ArchiveOK /\ OrderOK
  BY DEF ArchiveOK, OrderOK, StoredOnceUnlessLate, SecondCopiesAreLate, StoredOnceInOrder, LateBy
<1> QED
  BY <1>1, <1>2, <1>3 DEF SoundInv

(***************************************************************************)
(* Where the page loop goes next is a number, and so is a cursor it keeps. *)
(***************************************************************************)
LEMMA FetchTypes ==
  ASSUME NEW f \in Nat, NEW known \in Nat \cup {None}, NEW bounded,
         FetchFrom(f, known, bounded)
  PROVE  pc' \in {"idle", "pages"} /\ from' \in Nat /\ cursor' \in Nat \cup {None}
  BY DEF FetchFrom

\* The probe of the search lies inside its range.
LEMMA CandidateBounds ==
  ASSUME TypeOK, SeekOK, pc = "seek"
  PROVE  /\ Candidate(seek, status) \in Nat
         /\ seek.low <= Candidate(seek, status) /\ Candidate(seek, status) < seek.high
         /\ Doubling(seek, status) => Candidate(seek, status) = status.next - seek.step
<1>1. /\ seek.low \in Nat /\ seek.high \in Nat /\ seek.step \in Nat
      /\ status.first \in Nat /\ status.next \in Nat
  BY DEF TypeOK
<1> DEFINE low == seek.low  high == seek.high  step == seek.step
           first == status.first  next == status.next
<1>2. /\ first <= low /\ low < high /\ high <= next
      /\ step > 0 => low = first /\ next - step < high
  BY DEF SeekOK
<1>3. CASE Doubling(seek, status)
  BY <1>1, <1>2, <1>3 DEF Doubling, Candidate
<1>4. CASE ~Doubling(seek, status)
  <2>1. Candidate(seek, status) = low + (high - low) \div 2
    BY <1>4 DEF Candidate
  <2>2. (high - low) \div 2 \in Nat /\ (high - low) \div 2 < high - low
    BY <1>1, <1>2
  <2> QED
    BY <1>1, <1>4, <2>1, <2>2
<1> QED
  BY <1>3, <1>4

\* What a pass asks for is a page.
LEMMA AskedFrom ==
  ASSUME TypeOK, SeekOK, pc \in {"seek", "pages"}
  PROVE  Asked.from \in Nat /\ Asked.limit \in 1 .. PageLimit
  BY CandidateBounds, ConstantTypes DEF Asked, TypeOK

(***************************************************************************)
(* Steps that leave the pass, the request and the archive alone.           *)
(***************************************************************************)
LEMMA PublishSound ==
  ASSUME SoundInv, Publish
  PROVE  SoundInv'
<1> USE ConstantTypes
<1>1. log \in Seq(Time) /\ now \in Time /\ bootAt \in Time
  BY DEF SoundInv, TypeOK
<1>2. /\ now - bootAt >= Interval /\ log' = Append(log, now)
      /\ log # << >> => now - log[Len(log)] >= Interval
  BY DEF Publish, Last
<1>3. UNCHANGED <<now, bootAt, boots, pc, status, seek, from, request, seen, cursor, archive,
                  restarts, failures, seenBoot, mishaps>>
  BY DEF Publish, pass, bounds, ghosts
<1>4. /\ log' \in Seq(Time) /\ Len(log') = Len(log) + 1 /\ log'[Len(log) + 1] = now
      /\ DOMAIN log = 1 .. Len(log) /\ DOMAIN log' = 1 .. Len(log) + 1 /\ Len(log) \in Nat
      /\ \A i \in 1 .. Len(log) : log'[i] = log[i]
      /\ \A i \in 1 .. Len(log) : log[i] \in Nat
  BY <1>1, <1>2 DEF Time
<1>5. TypeOK'
  BY <1>3, <1>4 DEF SoundInv, TypeOK
<1>6. LogOK'
  <2>1. LogOK
    BY DEF SoundInv
  <2>2. now \in Nat /\ bootAt \in Nat
    BY <1>1 DEF Time
  <2>3. bootAt + Interval <= now
    BY <1>2, <2>2
  <2>4. \A i \in 1 .. Len(log) : log[i] + Interval <= now
    <3> SUFFICES ASSUME NEW i \in 1 .. Len(log)
                 PROVE  log[i] + Interval <= now
      OBVIOUS
    <3>1. log # << >> /\ Len(log) \in 1 .. Len(log)
      BY <1>1, <1>4
    <3>2. log[Len(log)] + Interval <= now
      BY <1>2, <1>4, <2>2, <3>1
    <3>3. log[i] <= log[Len(log)]
      BY <1>4, <2>1, <3>1 DEF LogOK
    <3> QED
      BY <1>4, <2>2, <3>1, <3>2, <3>3
  <2>5. \A i \in DOMAIN log' : bootAt' + Interval <= log'[i] /\ log'[i] <= now'
    BY <1>3, <1>4, <2>1, <2>2, <2>3 DEF LogOK
  <2>6. \A i, j \in DOMAIN log' : i < j => log'[i] + Interval <= log'[j]
    BY <1>4, <2>1, <2>4 DEF LogOK
  <2> QED
    BY <2>5, <2>6 DEF LogOK
<1>7. RequestOK'
  <2>1. Asked' = Asked
    BY <1>3 DEF Asked, Candidate, Doubling
  <2>2. FirstSequence <= FirstSequence' /\ FirstSequence \in Nat /\ FirstSequence' \in Nat
    BY <1>4 DEF FirstSequence, Larger
  <2>3. request # None => request.from \in Nat /\ request.count \in Nat
    BY SMTT(30) DEF SoundInv, TypeOK
  <2> QED
    BY <1>3, <1>4, <2>1, <2>2, <2>3 DEF SoundInv, RequestOK
<1>8. ClockOK' /\ SeekOK' /\ CursorOK' /\ OrderOK'
  BY <1>3 DEF SoundInv, ClockOK, SeekOK, CursorOK, OrderOK, StoredOnceUnlessLate,
              SecondCopiesAreLate, StoredOnceInOrder, LateBy
<1>9. ArchiveOK'
  BY <1>3, <1>4 DEF SoundInv, ArchiveOK
<1> QED
  BY <1>5, <1>6, <1>7, <1>8, <1>9 DEF SoundInv

\* A reboot starts a log of its own, after all that was stored.
LEMMA RebootSound ==
  ASSUME SoundInv, Reboot
  PROVE  SoundInv'
<1> USE ConstantTypes
<1>1. /\ boots < MaxReboots /\ boots' = boots + 1 /\ bootAt' = now /\ log' = << >>
      /\ request' = None
      /\ UNCHANGED <<now, pc, status, seek, from, seen, cursor, archive,
                     restarts, failures, seenBoot, mishaps>>
  BY DEF Reboot, pass, bounds, ghosts
<1>2. TypeOK'
  BY <1>1 DEF SoundInv, TypeOK
<1>3. ClockOK' /\ LogOK' /\ RequestOK' /\ SeekOK' /\ CursorOK' /\ OrderOK'
  BY <1>1 DEF SoundInv, TypeOK, Time, ClockOK, LogOK, RequestOK, SeekOK, CursorOK,
              OrderOK, StoredOnceUnlessLate, SecondCopiesAreLate, StoredOnceInOrder, LateBy
<1>4. ArchiveOK'
  <2> SUFFICES ASSUME NEW i \in DOMAIN archive
               PROVE  archive[i].taken <= now
    BY <1>1 DEF SoundInv, ArchiveOK
  <2>1. bootAt \in Nat /\ now \in Nat /\ bootAt <= now
    BY DEF SoundInv, TypeOK, Time, ClockOK
  <2>2. archive[i].taken \in Nat
    BY ArchiveTyped DEF SoundInv, TypeOK
  <2>3. archive[i].taken <= bootAt \/ \E k \in DOMAIN log : log[k] = archive[i].taken
    BY DEF SoundInv, ArchiveOK
  <2> QED
    BY <2>1, <2>2, <2>3 DEF SoundInv, LogOK
<1> QED
  BY <1>2, <1>3, <1>4 DEF SoundInv

\* Time passes while no response is late.
LEMMA TickSound ==
  ASSUME SoundInv, Tick
  PROVE  SoundInv'
<1> USE ConstantTypes
<1>1. /\ now < MaxTime /\ now' = now + 1
      /\ request # None => now - request.at < MaxDelay
      /\ UNCHANGED <<bootAt, log, boots, pc, status, seek, from, request, seen, cursor, archive,
                     restarts, failures, seenBoot, mishaps>>
  BY DEF Tick, device, pass, bounds, ghosts
<1>2. now \in Nat /\ now > 0 /\ bootAt \in Nat /\ log \in Seq(Time)
  BY DEF SoundInv, TypeOK, Time
<1>3. TypeOK'
  BY <1>1, <1>2 DEF SoundInv, TypeOK, Time
<1>4. ClockOK' /\ SeekOK' /\ CursorOK' /\ OrderOK' /\ ArchiveOK'
  BY <1>1, <1>2 DEF SoundInv, ClockOK, SeekOK, CursorOK, ArchiveOK, OrderOK,
              StoredOnceUnlessLate, SecondCopiesAreLate, StoredOnceInOrder, LateBy
<1>5. LogOK'
  <2>1. \A i \in DOMAIN log : log[i] \in Nat
    BY <1>2 DEF Time
  <2> QED
    BY <1>1, <1>2, <2>1 DEF SoundInv, LogOK
<1>6. RequestOK'
  <2>1. Asked' = Asked /\ FirstSequence' = FirstSequence
    BY <1>1 DEF Asked, Candidate, Doubling, FirstSequence
  <2>2. request # None => request.at \in Nat
    BY DEF SoundInv, TypeOK, Time
  <2> QED
    BY <1>1, <1>2, <2>1, <2>2 DEF SoundInv, RequestOK
<1> QED
  BY <1>3, <1>4, <1>5, <1>6 DEF SoundInv

(***************************************************************************)
(* Steps of the server that leave the archive and the device alone.        *)
(***************************************************************************)
LEMMA ServerStepSound ==
  ASSUME SoundInv, TypeOK', RequestOK', SeekOK', CursorOK', seenBoot' <= boots',
         mishaps \subseteq mishaps', UNCHANGED <<now, device, archive>>
  PROVE  SoundInv'
  BY DEF SoundInv, ClockOK, LogOK, ArchiveOK, device, OrderOK, StoredOnceUnlessLate,
              SecondCopiesAreLate, StoredOnceInOrder, LateBy

\* A status keeps the invariant.
LEMMA pollOnceSound ==
  ASSUME SoundInv, pollOnce
  PROVE  SoundInv'
<1> USE ConstantTypes
<1> DEFINE uptime == now - bootAt
           known == Known(uptime)
           first == FirstSequence
           next == NextSequence
           bounded == [first |-> first, next |-> next]
<1>1. /\ pc = "idle" /\ seen' = uptime /\ status' = bounded /\ seenBoot' = boots
      /\ mishaps' = mishaps \/ mishaps' = mishaps \cup {"unnoticed"}
      /\ UNCHANGED <<now, device, request, archive, restarts, failures>>
  BY DEF pollOnce, bounds
<1>2. \/ /\ known # None
         /\ StartAt(known, known, bounded) /\ seek' = NoSeek
      \/ /\ StartAt(first, known, bounded) /\ seek' = NoSeek
      \/ /\ first < next
         /\ pc' = "seek" /\ seek' = [low |-> first, high |-> next, step |-> 1]
         /\ cursor' = known /\ from' = from
  <2>1. first \in Nat /\ next \in Nat
    BY FirstSequenceBounds DEF SoundInv, TypeOK
  <2>2. CASE known # None
    BY <2>2 DEF pollOnce
  <2>3. CASE known = None /\ (lastTimestamp = 0 \/ bounded.next <= bounded.first)
    BY <2>3 DEF pollOnce
  <2>4. CASE known = None /\ ~(lastTimestamp = 0 \/ bounded.next <= bounded.first)
    BY <2>1, <2>4 DEF pollOnce
  <2> QED
    BY <2>2, <2>3, <2>4
<1>3. /\ first \in Nat /\ next \in Nat /\ known \in Nat \cup {None}
      /\ now \in Nat /\ bootAt \in Nat /\ uptime \in Nat
  BY FirstSequenceBounds DEF SoundInv, TypeOK, Time, ClockOK, Known
<1>4. request' = None
  BY <1>1 DEF SoundInv, RequestOK
<1>5. bounded.first = first /\ bounded.next = next /\ bounded \in [first : Nat, next : Nat]
  BY <1>3
<1> HIDE DEF first, next, known, bounded, uptime
<1>6. /\ pc' \in {"idle", "pages", "seek"} /\ from' \in Nat /\ cursor' \in Nat \cup {None}
      /\ seek' \in [low : Nat, high : Nat, step : Nat]
  <2>1. ASSUME NEW start \in Nat, StartAt(start, known, bounded)
        PROVE  pc' \in {"idle", "pages"} /\ from' \in Nat /\ cursor' \in Nat \cup {None}
    <3>1. Larger(start, bounded.first) \in Nat
      BY <1>3, <1>5 DEF Larger
    <3> QED
      BY <1>3, <2>1, <3>1, FetchTypes DEF StartAt
  <2>2. CASE seek' = NoSeek
    BY <1>1, <1>2, <1>3, <2>1, <2>2 DEF NoSeek, SoundInv, TypeOK
  <2>3. CASE seek' = [low |-> first, high |-> next, step |-> 1]
    BY <1>1, <1>2, <1>3, <2>1, <2>3 DEF SoundInv, TypeOK
  <2> QED
    BY <1>2, <2>2, <2>3
<1>7. TypeOK'
  <2>1. mishaps' \subseteq {"unnoticed", "midPass", "late", "early"} /\ boots \in 0 .. MaxReboots
    BY <1>1 DEF SoundInv, TypeOK
  <2>2. UNCHANGED <<now, bootAt, log, boots, archive, restarts, failures, request>>
    BY <1>1 DEF device
  <2> QED
    BY <1>1, <1>3, <1>5, <1>6, <2>1, <2>2 DEF SoundInv, TypeOK
<1>8. SeekOK'
  <2>1. CASE pc' = "seek"
    <3>1. /\ first < next /\ seek' = [low |-> first, high |-> next, step |-> 1]
      BY <1>2, <2>1 DEF StartAt, FetchFrom
    <3>2. seek'.low = first /\ seek'.high = next /\ seek'.step = 1
      BY <3>1
    <3> QED
      BY <1>1, <1>3, <1>5, <3>1, <3>2 DEF SeekOK
  <2> QED
    BY <2>1 DEF SeekOK
<1>9. RequestOK' /\ CursorOK' /\ seenBoot' <= boots'
  <2>1. seen' # None
    BY <1>1, <1>3
  <2> QED
    BY <1>1, <1>4, <2>1 DEF RequestOK, CursorOK, SoundInv, TypeOK, device
<1>10. mishaps \subseteq mishaps'
  BY <1>1
<1> QED
  BY <1>1, <1>7, <1>8, <1>9, <1>10, ServerStepSound

\* The device answers with a page it retains.
LEMMA AnswerSound ==
  ASSUME SoundInv, Answer
  PROVE  SoundInv'
<1> USE ConstantTypes
<1> DEFINE first == Larger(Asked.from, FirstSequence)
           count == Smaller(Larger(NextSequence - first, 0), Asked.limit)
<1>1. /\ pc \in {"seek", "pages"} /\ request' = [from |-> first, count |-> count, at |-> now]
      /\ UNCHANGED <<now, device, pc, status, seek, from, seen, cursor, archive, restarts,
                     failures, seenBoot, mishaps>>
  BY DEF Answer, pass, bounds, ghosts
<1>2. /\ Asked.from \in Nat /\ Asked.limit \in 1 .. PageLimit
      /\ FirstSequence \in Nat /\ NextSequence = Len(log) /\ Len(log) \in Nat
  BY <1>1, AskedFrom, FirstSequenceBounds DEF SoundInv, TypeOK
<1>3. first \in Nat /\ Asked.from <= first /\ (first > Asked.from => first <= FirstSequence)
  BY <1>2 DEF Larger
<1> HIDE DEF first
<1>4. count \in 0 .. PageLimit /\ (count > 0 => first + count <= Len(log))
  BY <1>2, <1>3 DEF Larger, Smaller
<1> HIDE DEF count
<1>5. request' \in [from : Nat, count : 0 .. PageLimit, at : Time]
  <2>1. now \in Time
    BY DEF SoundInv, TypeOK
  <2> QED
    BY <1>1, <1>3, <1>4, <2>1
<1>6. TypeOK'
  <2>1. UNCHANGED <<now, bootAt, log, boots, pc, status, seek, from, seen, cursor, archive,
                    restarts, failures, seenBoot, mishaps>>
    BY <1>1 DEF device
  <2> QED
    BY <1>5, <2>1 DEF SoundInv, TypeOK
<1>7. RequestOK'
  <2>1. Asked' = Asked /\ FirstSequence' = FirstSequence
    BY <1>1 DEF Asked, Candidate, Doubling, FirstSequence, device
  <2>2. request'.from = first /\ request'.count = count /\ request'.at = now
    BY <1>1
  <2>3. now \in Nat /\ now' = now /\ log' = log /\ pc' = pc
    BY <1>1 DEF SoundInv, TypeOK, Time, device
  <2> QED
    BY <1>1, <1>3, <1>4, <2>1, <2>2, <2>3 DEF RequestOK
<1>8. SeekOK' /\ CursorOK' /\ seenBoot' <= boots'
  BY <1>1 DEF SoundInv, SeekOK, CursorOK, ClockOK, device
<1> QED
  BY <1>1, <1>6, <1>7, <1>8, ServerStepSound

\* Failures and restarts drop what is under way.
LEMMA RetrySound ==
  ASSUME SoundInv, Retry \/ GiveUp \/ Restart
  PROVE  SoundInv'
<1> USE ConstantTypes
<1>1. /\ request' = None
      /\ UNCHANGED <<now, device, archive, seenBoot, mishaps>>
      /\ \/ UNCHANGED <<pc, status, seek, from, seen, cursor>>
         \/ /\ pc' = "idle" /\ seek' = NoSeek /\ from' = 0
            /\ UNCHANGED <<status, seen, cursor>>
         \/ /\ pc' = "idle" /\ seek' = NoSeek /\ from' = 0
            /\ status' = NoStatus /\ seen' = None /\ cursor' = None
  BY DEF Retry, GiveUp, Restart, pass, ghosts
<1>2. restarts' \in 0 .. MaxRestarts /\ failures' \in 0 .. MaxFailures
  <2>1. restarts \in 0 .. MaxRestarts /\ failures \in 0 .. MaxFailures
    BY DEF SoundInv, TypeOK
  <2> QED
    BY <2>1 DEF Retry, GiveUp, Restart
<1>3. NoSeek \in [low : Nat, high : Nat, step : Nat] /\ NoStatus \in [first : Nat, next : Nat]
  BY DEF NoSeek, NoStatus
<1>4. UNCHANGED <<now, bootAt, log, boots, archive, seenBoot, mishaps>>
  BY <1>1 DEF device
<1>5. TypeOK'
  <2>1. /\ pc' \in {"idle", "seek", "pages"} /\ status' \in [first : Nat, next : Nat]
        /\ seek' \in [low : Nat, high : Nat, step : Nat] /\ from' \in Nat
        /\ seen' \in Nat \cup {None} /\ cursor' \in Nat \cup {None}
    BY <1>1, <1>3, SMTT(60) DEF SoundInv, TypeOK
  <2> QED
    BY <1>1, <1>2, <1>4, <2>1 DEF SoundInv, TypeOK
<1>6. RequestOK' /\ SeekOK' /\ CursorOK' /\ seenBoot' <= boots'
  BY <1>1, <1>4 DEF SoundInv, RequestOK, SeekOK, CursorOK, ClockOK
<1> QED
  BY <1>1, <1>5, <1>6, ServerStepSound

(***************************************************************************)
(* A probe of seekCursor narrows the search and keeps it in bounds; the    *)
(* search goes on as long as there is something between its bounds.        *)
(***************************************************************************)
LEMMA NarrowedBounds ==
  ASSUME TypeOK, SeekOK, pc = "seek", NEW wanted \in BOOLEAN, NEW narrowed,
         narrowed = Narrowed(seek, status, wanted)
  PROVE  /\ narrowed \in [low : Nat, high : Nat, step : Nat]
         /\ status.first <= narrowed.low /\ narrowed.low <= narrowed.high
         /\ narrowed.high <= status.next
         /\ narrowed.step > 0 =>
              narrowed.low = status.first /\ status.next - narrowed.step < narrowed.high
         /\ wanted =>
              narrowed.low = seek.low /\ narrowed.high = Candidate(seek, status)
         /\ ~wanted =>
              narrowed.low = Candidate(seek, status) + 1 /\ narrowed.high = seek.high
         /\ Found(narrowed, status) => narrowed.low = narrowed.high
         /\ ~Found(narrowed, status) => narrowed.low < narrowed.high
<1> DEFINE low == seek.low  high == seek.high  step == seek.step
           first == status.first  next == status.next
           candidate == Candidate(seek, status)
<1>1. /\ low \in Nat /\ high \in Nat /\ step \in Nat /\ first \in Nat /\ next \in Nat
      /\ seek \in [low : Nat, high : Nat, step : Nat]
  BY DEF TypeOK
<1>2. /\ first <= low /\ low < high /\ high <= next
      /\ step > 0 => low = first /\ next - step < high
  BY DEF SeekOK
<1>3. /\ candidate \in Nat /\ low <= candidate /\ candidate < high
      /\ Doubling(seek, status) => candidate = next - step
  BY CandidateBounds
<1>4. Doubling(seek, status) => step > 0
  BY DEF Doubling
<1> HIDE DEF candidate
<1>5. CASE wanted
  <2>1. /\ narrowed.low = low /\ narrowed.high = candidate
        /\ narrowed.step = IF Doubling(seek, status) THEN 2 * step ELSE 0
        /\ narrowed \in [low : Nat, high : Nat, step : Nat]
    <3> DEFINE step2 == IF Doubling(seek, status) THEN 2 * step ELSE 0
    <3>1. narrowed = [seek EXCEPT !.high = candidate, !.step = step2]
      BY <1>5 DEF Narrowed, candidate
    <3>2. step2 \in Nat
      BY <1>1
    <3> HIDE DEF step2
    <3>3. /\ narrowed.low = low /\ narrowed.high = candidate /\ narrowed.step = step2
          /\ narrowed \in [low : Nat, high : Nat, step : Nat]
      BY <1>1, <1>3, <3>1, <3>2
    <3> QED
      BY <3>3 DEF step2
  <2>2. narrowed.step > 0 => narrowed.low = first /\ next - narrowed.step < narrowed.high
    BY <1>1, <1>2, <1>3, <1>4, <2>1
  <2>3. narrowed.low \in Nat /\ narrowed.high \in Nat /\ narrowed.step \in Nat
    BY <2>1
  <2>4. Doubling(narrowed, status) <=> narrowed.step > 0 /\ next - narrowed.step > first
    BY DEF Doubling
  <2>5. Found(narrowed, status) <=> ~Doubling(narrowed, status) /\ narrowed.low >= narrowed.high
    BY DEF Found
  <2>6. candidate = Candidate(seek, status)
    BY DEF candidate
  <2>7. first <= narrowed.low /\ narrowed.low <= narrowed.high /\ narrowed.high <= next
    BY <1>1, <1>2, <1>3, <2>1
  <2>8. Doubling(narrowed, status) => narrowed.low < narrowed.high
    BY <1>1, <2>2, <2>3, <2>4
  <2>9. /\ Found(narrowed, status) => narrowed.low = narrowed.high
        /\ ~Found(narrowed, status) => narrowed.low < narrowed.high
    BY <2>3, <2>5, <2>7, <2>8
  <2> QED
    BY <1>5, <2>1, <2>2, <2>6, <2>7, <2>9
<1>6. CASE ~wanted
  <2>1. /\ narrowed.low = candidate + 1 /\ narrowed.high = high /\ narrowed.step = 0
        /\ narrowed \in [low : Nat, high : Nat, step : Nat]
    <3> DEFINE above == candidate + 1
               none == 0
    <3>1. narrowed = [seek EXCEPT !.low = above, !.step = none]
      BY <1>6 DEF Narrowed, candidate
    <3>2. above \in Nat /\ none \in Nat
      BY <1>3
    <3> HIDE DEF above, none
    <3>3. /\ narrowed.low = above /\ narrowed.high = high /\ narrowed.step = none
          /\ narrowed \in [low : Nat, high : Nat, step : Nat]
      BY <1>1, <3>1, <3>2
    <3> QED
      BY <3>3 DEF above, none
  <2>2. ~Doubling(narrowed, status)
    BY <2>1 DEF Doubling
  <2>3. Found(narrowed, status) <=> narrowed.low >= narrowed.high
    BY <2>2 DEF Found
  <2>4. candidate = Candidate(seek, status)
    BY DEF candidate
  <2> QED
    BY <1>1, <1>2, <1>3, <1>6, <2>1, <2>3, <2>4
<1> QED
  BY <1>5, <1>6

(***************************************************************************)
(* What a probe does to the pass.                                          *)
(***************************************************************************)
ProbeEnds(nulls) ==
  LET narrowed == Narrowed(seek, status, isWanted(Arrived(nulls), now - request.at))
  IN  \/ /\ Found(narrowed, status)
         /\ StartAt(narrowed.low, cursor, status) /\ seek' = NoSeek
      \/ /\ ~Found(narrowed, status)
         /\ seek' = narrowed /\ UNCHANGED <<pc, from, cursor>>

\* A probe keeps the search inside its range.
LEMMA SeekResponseSound ==
  ASSUME SoundInv, SeekResponse
  PROVE  SoundInv'
<1> USE ConstantTypes
<1>1. /\ pc = "seek" /\ request # None /\ request' = None
      /\ mishaps' = mishaps \cup Strayed(now - request.at)
      /\ UNCHANGED <<now, device, seen, status, archive, restarts, failures, seenBoot>>
  BY DEF SeekResponse, bounds, ghosts
<1>2. PICK nulls \in SUBSET Overwritten : ProbeEnds(nulls)
  BY DEF SeekResponse, Pages, ProbeEnds
<1> DEFINE wanted == isWanted(Arrived(nulls), now - request.at)
           narrowed == Narrowed(seek, status, wanted)
<1>3. wanted \in BOOLEAN
  BY DEF isWanted, Fresh
<1>4. \/ /\ Found(narrowed, status)
         /\ StartAt(narrowed.low, cursor, status) /\ seek' = NoSeek
      \/ /\ ~Found(narrowed, status)
         /\ seek' = narrowed /\ UNCHANGED <<pc, from, cursor>>
  BY <1>2 DEF ProbeEnds
<1> HIDE DEF wanted
<1>5. /\ narrowed \in [low : Nat, high : Nat, step : Nat]
      /\ status.first <= narrowed.low /\ narrowed.high <= status.next
      /\ narrowed.step > 0 =>
           narrowed.low = status.first /\ status.next - narrowed.step < narrowed.high
      /\ ~Found(narrowed, status) => narrowed.low < narrowed.high
  BY <1>1, <1>3, NarrowedBounds DEF SoundInv
<1> HIDE DEF narrowed
<1>6. /\ pc' \in {"idle", "pages", "seek"} /\ from' \in Nat /\ cursor' \in Nat \cup {None}
      /\ seek' \in [low : Nat, high : Nat, step : Nat]
  <2>1. CASE StartAt(narrowed.low, cursor, status) /\ seek' = NoSeek
    <3>1. Larger(narrowed.low, status.first) \in Nat
      BY <1>5 DEF Larger, SoundInv, TypeOK
    <3>2. cursor \in Nat \cup {None}
      BY DEF SoundInv, TypeOK
    <3>3. NoSeek \in [low : Nat, high : Nat, step : Nat]
      BY DEF NoSeek
    <3> QED
      BY <2>1, <3>1, <3>2, <3>3, FetchTypes DEF StartAt
  <2>2. CASE seek' = narrowed /\ UNCHANGED <<pc, from, cursor>>
    BY <1>5, <2>2 DEF SoundInv, TypeOK
  <2> QED
    BY <1>4, <2>1, <2>2
<1>7. UNCHANGED <<now, bootAt, log, boots>>
  BY <1>1 DEF device
<1>8. TypeOK'
  <2>1. mishaps' \subseteq {"unnoticed", "midPass", "late", "early"}
    BY <1>1 DEF Strayed, SoundInv, TypeOK
  <2> QED
    BY <1>1, <1>6, <1>7, <2>1 DEF SoundInv, TypeOK
<1>9. SeekOK'
  <2>1. CASE StartAt(narrowed.low, cursor, status)
    BY <2>1 DEF StartAt, FetchFrom, SeekOK
  <2>2. CASE seek' = narrowed /\ ~Found(narrowed, status)
    BY <1>1, <1>5, <2>2 DEF SeekOK
  <2> QED
    BY <1>4, <2>1, <2>2
<1>10. RequestOK' /\ CursorOK' /\ seenBoot' <= boots'
  BY <1>1, <1>7 DEF SoundInv, RequestOK, CursorOK, ClockOK
<1> QED
  BY <1>1, <1>8, <1>9, <1>10, ServerStepSound

(***************************************************************************)
(* What the delay of a response tells of the newest stored reading.        *)
(***************************************************************************)
LEMMA StrayedTells ==
  ASSUME archive # << >>, request.count # 0, NEW delay
  PROVE  /\ "late" \in Strayed(delay) <=> delay > LateBy(Len(archive)) + Tolerance
         /\ "early" \in Strayed(delay) <=>
              LateBy(Len(archive)) + Tolerance >= delay + Interval
  BY DEF Strayed

(***************************************************************************)
(* A page is stored behind what is there, and dated after it; a reading of *)
(* it that is not newer as well was late by more than the tolerance, and   *)
(* by more than the newest stored one.                                     *)
(***************************************************************************)
LEMMA StoredBehind ==
  ASSUME SoundInv, request # None, NEW nulls \in SUBSET Overwritten,
         archive' = archive \o KeptOf(nulls, now - request.at), UNCHANGED device,
         mishaps \cup Strayed(now - request.at) \subseteq mishaps'
  PROVE  /\ archive' \in Seq([t : Nat, taken : Time])
         /\ ArchiveOK' /\ OrderOK'
         /\ \A i \in DOMAIN archive : i \in DOMAIN archive' /\ archive'[i] = archive[i]
         /\ \A i \in DOMAIN archive' :
              \/ i \in DOMAIN archive
              \/ \E k \in 1 .. Len(KeptOf(nulls, now - request.at)) :
                   archive'[i] = KeptOf(nulls, now - request.at)[k]
         /\ \A k \in 1 .. Len(KeptOf(nulls, now - request.at)) :
              \E i \in DOMAIN archive' : archive'[i] = KeptOf(nulls, now - request.at)[k]
<1> USE ConstantTypes
<1> DEFINE delay == now - request.at
           kept == KeptOf(nulls, delay)
           n == Len(archive)
<1>1. delay \in Nat /\ delay <= MaxDelay
  <2>1. now \in Nat /\ request.at \in Nat
    BY DEF SoundInv, TypeOK, Time
  <2>2. request.at <= now /\ now - request.at <= MaxDelay
    BY DEF SoundInv, RequestOK
  <2> QED
    BY <2>1, <2>2
<1>2. /\ kept \in Seq(Reading)
      /\ \A i \in 1 .. Len(kept) :
           /\ kept[i].t = kept[i].taken + delay
           /\ Fresh(kept[i].t)
           /\ \E k \in 1 .. request.count :
                request.from + k \in DOMAIN log /\ log[request.from + k] = kept[i].taken
      /\ \A i, j \in 1 .. Len(kept) : i < j => kept[i].taken < kept[j].taken
  <2> HIDE DEF delay
  <2> QED
    BY <1>1, KeptReadings DEF SoundInv
<1>3. /\ n \in Nat /\ DOMAIN archive = 1 .. n /\ archive \in Seq(Reading)
      /\ \A i \in 1 .. n : archive[i].t \in Nat /\ archive[i].taken \in Nat
  BY ArchiveTyped DEF SoundInv, TypeOK
<1>4. archive' = archive \o kept
  OBVIOUS
<1> HIDE DEF kept, delay
<1>5. \A i \in 1 .. Len(kept) : kept[i].t \in Nat /\ kept[i].taken \in Nat
  <2>1. \A i \in 1 .. Len(kept) : kept[i] \in Reading
    BY <1>2, ElementOfSeq
  <2> QED
    BY <2>1 DEF Reading, Time
<1>6. /\ archive' \in Seq(Reading) /\ Len(archive') = n + Len(kept)
      /\ \A i \in 1 .. n : archive'[i] = archive[i]
      /\ \A i \in 1 .. Len(kept) : archive'[n + i] = kept[i]
      /\ Len(kept) \in Nat
  <2>1. Len(kept) \in Nat
    BY <1>2
  <2>2. /\ archive \o kept \in Seq(Reading) /\ Len(archive \o kept) = n + Len(kept)
        /\ \A i \in 1 .. n + Len(kept) :
             (archive \o kept)[i] = IF i <= n THEN archive[i] ELSE kept[i - n]
    BY <1>2, <1>3, ConcatProperties
  <2> HIDE DEF n
  <2>3. /\ \A i \in 1 .. n : i \in 1 .. n + Len(kept) /\ i <= n
        /\ \A i \in 1 .. Len(kept) :
             n + i \in 1 .. n + Len(kept) /\ ~(n + i <= n) /\ (n + i) - n = i
    BY <1>3, <2>1
  <2>4. /\ \A i \in 1 .. n : (archive \o kept)[i] = archive[i]
        /\ \A i \in 1 .. Len(kept) : (archive \o kept)[n + i] = kept[i]
    BY <2>2, <2>3
  <2> QED
    BY <1>4, <2>1, <2>2, <2>4, Zenon
<1> HIDE DEF n
<1>7. \A i \in DOMAIN archive' : i \in 1 .. n \/ \E k \in 1 .. Len(kept) : i = n + k
  <2>1. DOMAIN archive' = 1 .. n + Len(kept)
    BY <1>6
  <2>2. \A i \in 1 .. n + Len(kept) : i \in 1 .. n \/ i - n \in 1 .. Len(kept)
    BY <1>3, <1>6
  <2>3. \A i \in 1 .. n + Len(kept) : i = n + (i - n)
    BY <1>3, <1>6
  <2> QED
    BY <2>1, <2>2, <2>3
<1>8. ArchiveOK'
  <2>1. \A i \in 1 .. n :
          /\ archive[i].taken <= archive[i].t /\ archive[i].t <= archive[i].taken + MaxDelay
          /\ archive[i].taken <= bootAt \/ \E k \in DOMAIN log : log[k] = archive[i].taken
    BY <1>3 DEF SoundInv, ArchiveOK
  <2>2. \A k \in 1 .. Len(kept) :
          kept[k].taken <= kept[k].t /\ kept[k].t <= kept[k].taken + MaxDelay
    BY <1>1, <1>2, <1>5
  <2>3. bootAt' = bootAt /\ log' = log
    BY DEF device
  <2> SUFFICES ASSUME NEW i \in DOMAIN archive'
               PROVE  /\ archive'[i].taken <= archive'[i].t
                      /\ archive'[i].t <= archive'[i].taken + MaxDelay
                      /\ \/ archive'[i].taken <= bootAt
                         \/ \E k \in DOMAIN log : log[k] = archive'[i].taken
    BY <2>3 DEF ArchiveOK
  <2>4. CASE i \in 1 .. n
    BY <1>6, <2>1, <2>4
  <2>5. CASE \E k \in 1 .. Len(kept) : i = n + k
    <3>1. PICK k \in 1 .. Len(kept) : i = n + k
      BY <2>5
    <3>2. archive'[i] = kept[k]
      BY <1>6, <3>1
    <3> QED
      BY <1>2, <2>2, <3>1, <3>2
  <2> QED
    BY <1>7, <2>4, <2>5
<1>9. ASSUME NEW i \in 1 .. n, NEW k \in 1 .. Len(kept)
      PROVE  /\ archive[i].t < kept[k].t
             /\ archive[i].taken < kept[k].taken \/ delay > LateBy(i) + Tolerance
             /\ "late" \notin mishaps' => archive[i].taken < kept[k].taken
  <2>1. n \in 1 .. n /\ n \in DOMAIN archive /\ i \in DOMAIN archive
    BY <1>3
  <2>2. lastTimestamp = archive[n].t
    BY <1>3, <2>1, LastStored DEF n, SoundInv
  <2>3. i = n \/ i < n
    BY <1>3, <2>1
  <2>4. archive[i].t <= archive[n].t
    <3>1. CASE i < n
      <4>1. archive[i].t < archive[n].t
        BY <2>1, <3>1 DEF SoundInv, OrderOK, SecondCopiesAreLate
      <4> QED
        BY <1>3, <2>1, <4>1
    <3> QED
      BY <1>3, <2>1, <2>3, <3>1
  <2>5. "late" \notin mishaps' => archive[i].taken <= archive[n].taken
    <3>1. CASE i < n /\ "late" \notin mishaps'
      <4>1. archive[i].taken < archive[n].taken
        BY <2>1, <3>1 DEF SoundInv, OrderOK, StoredOnceUnlessLate, StoredOnceInOrder
      <4> QED
        BY <1>3, <2>1, <4>1
    <3> QED
      BY <1>3, <2>1, <2>3, <3>1
  <2>6. kept[k].t > archive[n].t + Tolerance
    BY <1>2, <2>2 DEF Fresh
  <2>7. /\ archive[i].t \in Nat /\ archive[i].taken \in Nat
        /\ archive[n].t \in Nat /\ archive[n].taken \in Nat
        /\ kept[k].t \in Nat /\ kept[k].taken \in Nat /\ kept[k].t = kept[k].taken + delay
    BY <1>2, <1>3, <1>5, <2>1
  <2>8. "late" \notin mishaps' => ~(delay > (archive[n].t - archive[n].taken) + Tolerance)
    <3>1. archive # << >>
      BY <1>3, <2>1
    <3>2. request.count # 0
      <4>1. PICK q \in 1 .. request.count :
              request.from + q \in DOMAIN log /\ log[request.from + q] = kept[k].taken
        BY <1>2
      <4>2. 1 .. 0 = {}
        OBVIOUS
      <4> QED
        BY <4>1, <4>2
    <3>3. "late" \in Strayed(delay) <=> delay > LateBy(n) + Tolerance
      BY <3>1, <3>2, StrayedTells DEF n
    <3> QED
      BY <3>3 DEF LateBy, delay
  <2> DEFINE a == archive[i].taken  at == archive[i].t
             b == archive[n].taken  bt == archive[n].t
             c == kept[k].taken  ct == kept[k].t
             late == "late" \in mishaps'
  <2>9. /\ a \in Nat /\ at \in Nat /\ b \in Nat /\ bt \in Nat /\ c \in Nat /\ ct \in Nat
        /\ ct = c + delay /\ at <= bt /\ ct > bt + Tolerance
        /\ ~late => a <= b
        /\ ~late => ~(delay > (bt - b) + Tolerance)
    BY <2>4, <2>5, <2>6, <2>7, <2>8
  <2> HIDE DEF a, at, b, bt, c, ct, late
  <2>10. at < ct /\ (a < c \/ delay > (at - a) + Tolerance)
    BY <1>1, <2>9
  <2>11. ~late => a < c
    BY <1>1, <2>9
  <2> QED
    BY <2>10, <2>11 DEF a, at, c, ct, late, LateBy
<1>10. OrderOK'
  <2>1. ASSUME NEW i \in DOMAIN archive', NEW j \in DOMAIN archive', i < j
        PROVE  /\ archive'[i].t < archive'[j].t
               /\ \/ archive'[i].taken < archive'[j].taken
                  \/ archive'[j].t - archive'[j].taken
                       > (archive'[i].t - archive'[i].taken) + Tolerance
               /\ "late" \notin mishaps' => archive'[i].taken < archive'[j].taken
    <3>1. CASE j \in 1 .. n
      <4>1. i \in 1 .. n
        BY <1>3, <1>6, <2>1, <3>1
      <4>2. i \in DOMAIN archive /\ j \in DOMAIN archive
        BY <1>3, <3>1, <4>1
      <4>3. "late" \notin mishaps' => archive[i].taken < archive[j].taken
        BY <2>1, <4>2 DEF SoundInv, OrderOK, StoredOnceUnlessLate, StoredOnceInOrder
      <4>4. /\ archive[i].t < archive[j].t
            /\ \/ archive[i].taken < archive[j].taken
               \/ archive[j].t - archive[j].taken
                    > (archive[i].t - archive[i].taken) + Tolerance
        BY <2>1, <4>2 DEF SoundInv, OrderOK, SecondCopiesAreLate, LateBy
      <4> QED
        BY <1>6, <3>1, <4>1, <4>3, <4>4
    <3>2. CASE \E k \in 1 .. Len(kept) : j = n + k
      <4>1. PICK k \in 1 .. Len(kept) : j = n + k
        BY <3>2
      <4>2. kept[k].t - kept[k].taken = delay
        BY <1>1, <1>2, <1>5
      <4>3. CASE i \in 1 .. n
        BY <1>6, <1>9, <4>1, <4>2, <4>3 DEF LateBy
      <4>4. CASE \E q \in 1 .. Len(kept) : i = n + q
        <5>1. PICK q \in 1 .. Len(kept) : i = n + q
          BY <4>4
        <5>2. q < k
          BY <1>3, <1>6, <2>1, <4>1, <5>1
        <5>3. kept[q].taken < kept[k].taken /\ kept[q].t < kept[k].t
          <6> DEFINE c == kept[q].taken  d == kept[k].taken
          <6>1. /\ c \in Nat /\ d \in Nat /\ c < d
                /\ kept[q].t = c + delay /\ kept[k].t = d + delay
            BY <1>2, <1>5, <5>2
          <6> HIDE DEF c, d
          <6>2. c + delay < d + delay
            BY <1>1, <6>1
          <6> QED
            BY <6>1, <6>2 DEF c, d
        <5> QED
          BY <1>6, <4>1, <5>1, <5>3
      <4> QED
        BY <1>7, <4>3, <4>4
    <3> QED
      BY <1>7, <3>1, <3>2
  <2>2. StoredOnceUnlessLate'
    BY <2>1 DEF StoredOnceUnlessLate, StoredOnceInOrder
  <2>3. SecondCopiesAreLate'
    BY <2>1 DEF SecondCopiesAreLate, LateBy
  <2> QED
    BY <2>2, <2>3 DEF OrderOK
<1>11. /\ \A i \in DOMAIN archive : i \in DOMAIN archive' /\ archive'[i] = archive[i]
       /\ \A i \in DOMAIN archive' :
            i \in DOMAIN archive \/ \E k \in 1 .. Len(kept) : archive'[i] = kept[k]
       /\ \A k \in 1 .. Len(kept) : \E i \in DOMAIN archive' : archive'[i] = kept[k]
  <2>1. DOMAIN archive' = 1 .. n + Len(kept) /\ DOMAIN archive = 1 .. n
    BY <1>3, <1>6
  <2>2. \A i \in 1 .. n : i \in 1 .. n + Len(kept)
    BY <1>3, <1>6
  <2>3. \A k \in 1 .. Len(kept) : n + k \in 1 .. n + Len(kept)
    BY <1>3, <1>6
  <2>4. \A k \in 1 .. Len(kept) : \E i \in DOMAIN archive' : archive'[i] = kept[k]
    BY <1>6, <2>1, <2>3, Zenon
  <2> QED
    BY <1>6, <1>7, <2>1, <2>2, <2>4, ZenonT(60)
<1> QED
  BY <1>6, <1>8, <1>10, <1>11 DEF Reading, kept, delay

(***************************************************************************)
(* What a page does to the pass and to the archive.                        *)
(***************************************************************************)
PageEnds(nulls) ==
  /\ archive' = archive \o KeptOf(nulls, now - request.at)
  /\ mishaps' = mishaps \cup Strayed(now - request.at)
                 \cup (IF archive' # archive /\ seenBoot # boots THEN {"midPass"} ELSE {})

\* What a page adds is fresh, and dated in order.
LEMMA PageResponseSound ==
  ASSUME SoundInv, PageResponse
  PROVE  SoundInv'
<1> USE ConstantTypes
<1>1. /\ pc = "pages" /\ request # None /\ request' = None
      /\ UNCHANGED <<now, device, seen, status, seek, restarts, failures, seenBoot>>
  BY DEF PageResponse, bounds
<1>2. PICK nulls \in SUBSET Overwritten : PageEnds(nulls)
  BY DEF PageResponse, Pages, PageEnds, KeptOf
<1>3. /\ archive' = archive \o KeptOf(nulls, now - request.at)
      /\ mishaps \cup Strayed(now - request.at) \subseteq mishaps'
  BY <1>2 DEF PageEnds
<1>4. /\ archive' \in Seq([t : Nat, taken : Time])
      /\ ArchiveOK' /\ OrderOK'
  BY <1>1, <1>3, StoredBehind
<1>5. mishaps' \subseteq {"unnoticed", "midPass", "late", "early"}
  BY <1>2 DEF PageEnds, Strayed, SoundInv, TypeOK
<1>6. \/ pc' = "idle" /\ from' = 0 /\ cursor' = from
      \/ FetchFrom(request.from + request.count, cursor, status)
  BY DEF PageResponse
<1>7. pc' \in {"idle", "pages"} /\ from' \in Nat /\ cursor' \in Nat \cup {None}
  <2>1. /\ request.from + request.count \in Nat /\ from \in Nat
        /\ cursor \in Nat \cup {None}
    BY <1>1 DEF SoundInv, TypeOK
  <2>2. CASE FetchFrom(request.from + request.count, cursor, status)
    BY <2>1, <2>2, FetchTypes
  <2> QED
    BY <1>6, <2>1, <2>2
<1>8. UNCHANGED <<now, bootAt, log, boots>>
  BY <1>1 DEF device
<1>9. TypeOK'
  BY <1>1, <1>4, <1>5, <1>7, <1>8 DEF SoundInv, TypeOK
<1>10. ClockOK' /\ LogOK' /\ RequestOK' /\ SeekOK' /\ CursorOK'
  BY <1>1, <1>7, <1>8 DEF SoundInv, ClockOK, LogOK, RequestOK, SeekOK, CursorOK
<1> QED
  BY <1>4, <1>9, <1>10 DEF SoundInv

\* Every step keeps the invariant.
LEMMA SoundStep ==
  ASSUME SoundInv, [Next]_vars
  PROVE  SoundInv'
<1>1. CASE UNCHANGED vars
  BY <1>1 DEF vars, SoundInv, TypeOK, ClockOK, LogOK, RequestOK, SeekOK, CursorOK, ArchiveOK,
              OrderOK, StoredOnceUnlessLate, SecondCopiesAreLate, StoredOnceInOrder, LateBy,
              Asked, Candidate, Doubling, FirstSequence
<1> QED
  BY <1>1, PublishSound, RebootSound, TickSound, pollOnceSound, AnswerSound, SeekResponseSound,
     PageResponseSound, RetrySound DEF Next

(***************************************************************************)
(* Each reading is stored once and in the order it was taken, however      *)
(* often its page is fetched again, while no response is later than the    *)
(* newest reading was by more than the tolerance; and whatever the delays, *)
(* only a response as late as that stores one again or behind a later one. *)
(***************************************************************************)
THEOREM SecondCopyNeedsLateResponse == Spec => []ArchiveIsSound
<1>1. SoundInv /\ [Next]_vars => SoundInv'
  BY SoundStep
<1>2. SoundInv => ArchiveIsSound
  BY DEF SoundInv, OrderOK, ArchiveIsSound
<1> QED
  BY <1>1, <1>2, SoundInit, PTL DEF Spec

-----------------------------------------------------------------------------
(***************************************************************************)
(* What the server can be sure of while it has missed nothing: of the      *)
(* readings l the device has taken, those retained below f are in the      *)
(* archive a; there is no gap among those that are; and, unless a response *)
(* was late, none from f on is.                                            *)
(***************************************************************************)
RetainedOf(l) == Larger(0, Len(l) - Capacity) .. Len(l) - 1

\* A reading taken at that time is stored.
StoredIn(a, time) == \E i \in DOMAIN a : a[i].taken = time

\* A reading taken then, or a later one, is stored.
BehindIn(a, time) == \E i \in DOMAIN a : a[i].taken >= time

\* What is retained below f is stored.
CollectedTo(l, a, f) ==
  f <= Len(l) /\ \A k \in RetainedOf(l) : k < f => StoredIn(a, l[k + 1])

\* Nothing retained from f on is stored, nor anything later.
NewFrom(l, a, f) == \A k \in RetainedOf(l) : k >= f => ~BehindIn(a, l[k + 1])

\* What is retained and older than a stored reading is stored.
NoHoles(l, a) ==
  \A k \in RetainedOf(l) : BehindIn(a, l[k + 1]) => StoredIn(a, l[k + 1])

(***************************************************************************)
(* The pass follows the boot the device is in: what is below its cursor,   *)
(* below its next page and below its search is stored, and what is above   *)
(* its search is not unless a response was late.                           *)
(***************************************************************************)
Following ==
  /\ cursor # None => CollectedTo(log, archive, cursor)
  /\ pc = "pages" => CollectedTo(log, archive, from)
  /\ pc = "seek" =>
       /\ CollectedTo(log, archive, seek.low)
       /\ "late" \notin mishaps => NewFrom(log, archive, seek.high)
       /\ request # None => request.count = 1
  /\ pc # "idle" => status.next <= Len(log)

\* The invariant behind NothingSkipped, beside SoundInv.
FollowInv ==
  NothingMissed => NoHoles(log, archive) /\ (seenBoot = boots => Following)

\* The numbers a log retains.
LEMMA RetainedBounds ==
  ASSUME NEW l, Len(l) \in Nat
  PROVE  /\ Larger(0, Len(l) - Capacity) \in Nat
         /\ \A k \in RetainedOf(l) :
              /\ k \in Nat /\ k + 1 \in 1 .. Len(l) /\ k < Len(l)
              /\ k >= Larger(0, Len(l) - Capacity)
         /\ Len(l) > 0 => Larger(0, Len(l) - Capacity) < Len(l)
         /\ Larger(0, Len(l) - Capacity) <= Len(l)
  BY ConstantTypes DEF RetainedOf, Larger

\* Storing more leaves nothing out.
LEMMA StoreMore ==
  ASSUME NEW l, NEW a, NEW b, NEW f,
         \A i \in DOMAIN a : i \in DOMAIN b /\ b[i] = a[i]
  PROVE  CollectedTo(l, a, f) => CollectedTo(l, b, f)
  BY DEF CollectedTo, StoredIn

(***************************************************************************)
(* A reading taken now is newer than all that is stored.                   *)
(***************************************************************************)
LEMMA TakeMore ==
  ASSUME NEW l \in Seq(Nat), NEW a, NEW x \in Nat, NEW l2, l2 = Append(l, x),
         ~BehindIn(a, x)
  PROVE  /\ \A f \in Nat : CollectedTo(l, a, f) => CollectedTo(l2, a, f)
         /\ \A f \in Nat : NewFrom(l, a, f) => NewFrom(l2, a, f)
         /\ NoHoles(l, a) => NoHoles(l2, a)
<1>1. /\ Len(l) \in Nat /\ Len(l2) = Len(l) + 1 /\ l2[Len(l) + 1] = x
      /\ \A i \in 1 .. Len(l) : l2[i] = l[i]
  OBVIOUS
<1>2. ASSUME NEW k \in RetainedOf(l2)
      PROVE  \/ k \in RetainedOf(l) /\ l2[k + 1] = l[k + 1] /\ k < Len(l)
             \/ k = Len(l) /\ l2[k + 1] = x
  <2>1. k \in Nat /\ k <= Len(l) /\ k >= Len(l) + 1 - Capacity
    BY <1>1, ConstantTypes DEF RetainedOf, Larger
  <2>2. CASE k = Len(l)
    BY <1>1, <2>2
  <2>3. CASE k # Len(l)
    <3>1. k \in RetainedOf(l) /\ k + 1 \in 1 .. Len(l) /\ k < Len(l)
      BY <1>1, <2>1, <2>3, ConstantTypes DEF RetainedOf, Larger
    <3> QED
      BY <1>1, <3>1
  <2> QED
    BY <2>2, <2>3
<1>3. ASSUME NEW f \in Nat, CollectedTo(l, a, f)
      PROVE  CollectedTo(l2, a, f)
  <2>1. f <= Len(l2)
    BY <1>1, <1>3 DEF CollectedTo
  <2>2. ASSUME NEW k \in RetainedOf(l2), k < f
        PROVE  StoredIn(a, l2[k + 1])
    <3>1. k # Len(l)
      BY <1>1, <1>3, <2>2 DEF CollectedTo
    <3> QED
      BY <1>2, <1>3, <2>2, <3>1 DEF CollectedTo
  <2> QED
    BY <2>1, <2>2 DEF CollectedTo
<1>4. ASSUME NEW f \in Nat, NewFrom(l, a, f)
      PROVE  NewFrom(l2, a, f)
  BY <1>2, <1>4 DEF NewFrom
<1>5. NoHoles(l, a) => NoHoles(l2, a)
  BY <1>2 DEF NoHoles
<1> QED
  BY <1>3, <1>4, <1>5

(***************************************************************************)
(* A reading behind the newest stored one was taken before it, when the    *)
(* stored ones are in order.                                               *)
(***************************************************************************)
LEMMA BehindTheNewest ==
  ASSUME SoundInv, NEW x \in Nat, archive # << >>
  PROVE  /\ archive[Len(archive)].taken >= x => BehindIn(archive, x)
         /\ "late" \notin mishaps /\ BehindIn(archive, x) => archive[Len(archive)].taken >= x
<1> DEFINE n == Len(archive)
           taken == archive[n].taken
<1>1. /\ n \in Nat /\ DOMAIN archive = 1 .. n /\ n \in 1 .. n
      /\ \A i \in 1 .. n : archive[i].t \in Nat /\ archive[i].taken \in Nat
  BY ArchiveTyped, LastStored DEF SoundInv, TypeOK
<1>2. taken >= x => BehindIn(archive, x)
  BY <1>1 DEF BehindIn
<1>3. ASSUME "late" \notin mishaps, NEW i \in 1 .. n, archive[i].taken >= x
      PROVE  taken >= x
  <2>1. CASE i = n
    BY <1>3, <2>1
  <2>2. CASE i < n
    <3>1. archive[i].taken < taken
      BY <1>1, <1>3, <2>2 DEF SoundInv, OrderOK, StoredOnceUnlessLate, StoredOnceInOrder
    <3>2. archive[i].taken \in Nat /\ taken \in Nat
      BY <1>1
    <3> HIDE DEF taken
    <3> QED
      BY <1>3, <3>1, <3>2
  <2>3. i = n \/ i < n
    BY <1>1, LastOrBefore
  <2> QED
    BY <2>1, <2>2, <2>3
<1> QED
  BY <1>1, <1>2, <1>3 DEF BehindIn

(***************************************************************************)
(* The tolerance tells what is stored from what is not: it finds nothing   *)
(* new stored unless the response is early, and nothing stored new unless  *)
(* a response is late.  Readings are further apart than the tolerance.     *)
(***************************************************************************)
LEMMA FreshMeansNew ==
  ASSUME SoundInv, NEW k \in DOMAIN log, NEW delay \in Nat, request.count # 0
  PROVE  /\ "early" \notin Strayed(delay) /\ ~BehindIn(archive, log[k]) =>
              Fresh(log[k] + delay)
         /\ "late" \notin mishaps \cup Strayed(delay) /\ Fresh(log[k] + delay) =>
              ~BehindIn(archive, log[k])
<1> USE ConstantTypes
<1> DEFINE x == log[k]
           n == Len(archive)
           taken == archive[n].taken
           dated == archive[n].t
<1>1. x \in Nat /\ bootAt \in Nat /\ bootAt + Interval <= x /\ x > 0
  <2>1. log \in Seq(Time) /\ bootAt \in Nat
    BY DEF SoundInv, TypeOK, Time
  <2>2. x \in Time
    BY <2>1
  <2> QED
    BY <2>1, <2>2 DEF SoundInv, LogOK, Time
<1>2. /\ n \in Nat /\ DOMAIN archive = 1 .. n
      /\ \A i \in 1 .. n : archive[i].t \in Nat /\ archive[i].taken \in Nat
  BY ArchiveTyped DEF SoundInv, TypeOK
<1>3. CASE archive = << >>
  <2>1. lastTimestamp = 0 /\ ~BehindIn(archive, x)
    BY <1>3, LastStored DEF BehindIn, SoundInv
  <2>2. x > 0 + Tolerance
    BY <1>1
  <2> QED
    BY <1>1, <2>1, <2>2 DEF Fresh
<1>4. CASE archive # << >>
  <2>1. n \in 1 .. n /\ lastTimestamp = dated /\ dated \in Nat /\ taken \in Nat
    BY <1>2, <1>4, LastStored DEF SoundInv
  <2>2. taken <= dated /\ LateBy(n) = dated - taken
    BY <1>2, <2>1 DEF SoundInv, ArchiveOK, LateBy
  <2>3. taken <= bootAt \/ \E q \in DOMAIN log : log[q] = taken
    BY <1>2, <2>1 DEF SoundInv, ArchiveOK
  <2>4. /\ taken >= x => BehindIn(archive, x)
        /\ "late" \notin mishaps /\ BehindIn(archive, x) => taken >= x
    BY <1>1, <1>4, BehindTheNewest
  <2>5. taken < x => taken + Interval <= x
    <3>1. CASE taken <= bootAt
      BY <1>1, <2>1, <3>1
    <3>2. CASE \E q \in DOMAIN log : log[q] = taken
      <4>1. PICK q \in DOMAIN log : log[q] = taken
        BY <3>2
      <4>2. DOMAIN log = 1 .. Len(log) /\ Len(log) \in Nat
        BY DEF SoundInv, TypeOK
      <4>3. q < k => log[q] + Interval <= log[k]
        BY <4>1 DEF SoundInv, LogOK
      <4>4. k < q => log[k] + Interval <= log[q]
        BY <4>1 DEF SoundInv, LogOK
      <4> QED
        BY <1>1, <2>1, <4>1, <4>2, <4>3, <4>4
    <3> QED
      BY <2>3, <3>1, <3>2
  <2>6. Fresh(x + delay) <=> x + delay > dated + Tolerance
    BY <2>1 DEF Fresh
  <2>7. /\ "late" \in Strayed(delay) <=> delay > dated - taken + Tolerance
        /\ "early" \in Strayed(delay) <=> dated - taken + Tolerance >= delay + Interval
    BY <1>4, <2>2, StrayedTells
  <2> HIDE DEF x, taken, dated
  <2>8. taken + Interval <= x /\ ~(dated - taken + Tolerance >= delay + Interval) =>
          x + delay > dated + Tolerance
    BY <1>1, <2>1
  <2>9. x + delay > dated + Tolerance /\ ~(delay > dated - taken + Tolerance) => ~(taken >= x)
    BY <1>1, <2>1
  <2>10. taken >= x \/ taken < x
    BY <1>1, <2>1
  <2> DEFINE fresh == Fresh(x + delay)
             behind == BehindIn(archive, x)
  <2>11. "early" \notin Strayed(delay) /\ ~behind => fresh
    BY <2>4, <2>5, <2>6, <2>7, <2>8, <2>10
  <2>12. "late" \notin mishaps \cup Strayed(delay) /\ fresh => ~behind
    BY <2>4, <2>6, <2>7, <2>9
  <2> QED
    BY <2>11, <2>12 DEF x
<1> QED
  BY <1>3, <1>4

-----------------------------------------------------------------------------
\* At first nothing is retained.
LEMMA FollowInit == Init => FollowInv
  BY ConstantTypes DEF Init, FollowInv, Following, NoHoles, BehindIn, CollectedTo

(***************************************************************************)
(* Where the page loop goes on, and the cursor it keeps, are no further    *)
(* than what is stored.                                                    *)
(***************************************************************************)
LEMMA FetchFollows ==
  ASSUME NEW f, NEW known, NEW bounded, FetchFrom(f, known, bounded), NEW l, NEW a,
         CollectedTo(l, a, f), known # None => CollectedTo(l, a, known)
  PROVE  /\ cursor' # None => CollectedTo(l, a, cursor')
         /\ pc' = "pages" => CollectedTo(l, a, from')
         /\ pc' \in {"idle", "pages"}
  BY DEF FetchFrom

\* Raising to the first retained number passes nothing retained.
LEMMA NothingBelowFirst ==
  ASSUME NEW l, Len(l) \in Nat, NEW a, NEW f \in Nat, NEW g \in Nat,
         CollectedTo(l, a, f), g <= Larger(0, Len(l) - Capacity)
  PROVE  CollectedTo(l, a, Larger(f, g))
<1>1. /\ Larger(0, Len(l) - Capacity) \in Nat /\ Larger(0, Len(l) - Capacity) <= Len(l)
      /\ \A k \in RetainedOf(l) : k \in Nat /\ k >= Larger(0, Len(l) - Capacity)
  BY RetainedBounds
<1> QED
  BY <1>1 DEF CollectedTo, Larger

\* The times of the readings are in the order of their numbers.
LEMMA LogGrows ==
  ASSUME SoundInv, NEW i \in DOMAIN log, NEW j \in DOMAIN log
  PROVE  /\ log[i] \in Nat /\ log[j] \in Nat
         /\ i <= j <=> log[i] <= log[j]
<1>1. DOMAIN log = 1 .. Len(log) /\ Len(log) \in Nat
  BY DEF SoundInv, TypeOK
<1>2. log[i] \in Nat /\ log[j] \in Nat
  <2>1. log \in Seq(Time)
    BY DEF SoundInv, TypeOK
  <2>2. log[i] \in Time /\ log[j] \in Time
    BY <1>1, <2>1, ElementOfSeq
  <2> QED
    BY <2>2 DEF Time
<1>3. i < j => log[i] + Interval <= log[j]
  BY DEF SoundInv, LogOK
<1>4. j < i => log[j] + Interval <= log[i]
  BY DEF SoundInv, LogOK
<1> QED
  BY <1>1, <1>2, <1>3, <1>4, ConstantTypes

\* What is stored past a reading is past every earlier one.
LEMMA BehindTooOrNeither ==
  ASSUME SoundInv, NEW i \in DOMAIN log, NEW j \in DOMAIN log, i <= j
  PROVE  BehindIn(archive, log[j]) => BehindIn(archive, log[i])
<1>1. log[i] \in Nat /\ log[j] \in Nat /\ log[i] <= log[j]
  BY LogGrows
<1>2. \A k \in DOMAIN archive : archive[k].taken \in Nat
  BY ArchiveTyped DEF SoundInv, TypeOK
<1> QED
  BY <1>1, <1>2 DEF BehindIn

\* A new reading is past the cursor.
LEMMA PublishFollows ==
  ASSUME SoundInv, FollowInv, Publish
  PROVE  FollowInv'
<1> USE ConstantTypes
<1>1. /\ log' = Append(log, now)
      /\ UNCHANGED <<pc, status, seek, from, request, cursor, archive, boots, seenBoot, mishaps>>
  BY DEF Publish, pass, bounds, ghosts
<1>2. log \in Seq(Nat) /\ now \in Nat /\ bootAt \in Nat /\ Len(log) \in Nat
  <2>1. log \in Seq(Time) /\ Time \subseteq Nat
    BY DEF SoundInv, TypeOK, Time
  <2>2. log \in Seq(Nat)
    BY <2>1, SeqMonotonic, Zenon
  <2> QED
    BY <2>2 DEF SoundInv, TypeOK, Time
<1>3. ~BehindIn(archive, now)
  <2> SUFFICES ASSUME NEW i \in DOMAIN archive
               PROVE  archive[i].taken < now
    BY <1>2, ArchiveTyped DEF BehindIn, SoundInv, TypeOK
  <2>1. archive[i].taken \in Nat
    BY ArchiveTyped DEF SoundInv, TypeOK
  <2>2. CASE archive[i].taken <= bootAt
    BY <1>2, <2>1, <2>2 DEF Publish
  <2>3. CASE \E k \in DOMAIN log : log[k] = archive[i].taken
    <3>1. PICK k \in DOMAIN log : log[k] = archive[i].taken
      BY <2>3
    <3>2. /\ k \in DOMAIN log' /\ Len(log) + 1 \in DOMAIN log' /\ k < Len(log) + 1
          /\ log'[k] = log[k] /\ log'[Len(log) + 1] = now
      BY <1>1, <1>2, <3>1
    <3>3. log'[k] + Interval <= log'[Len(log) + 1]
      BY <3>2, PublishSound DEF SoundInv, LogOK
    <3> QED
      BY <1>2, <2>1, <3>1, <3>2, <3>3
  <2> QED
    BY <2>2, <2>3 DEF SoundInv, ArchiveOK
<1>4. /\ \A f \in Nat : CollectedTo(log, archive, f) => CollectedTo(log', archive, f)
      /\ \A f \in Nat : NewFrom(log, archive, f) => NewFrom(log', archive, f)
      /\ NoHoles(log, archive) => NoHoles(log', archive)
  BY <1>1, <1>2, <1>3, TakeMore
<1>5. Len(log') = Len(log) + 1
  BY <1>1, <1>2
<1>6. Following => Following'
  <2>1. /\ cursor # None => cursor \in Nat /\ from \in Nat
        /\ seek.low \in Nat /\ seek.high \in Nat /\ status.next \in Nat /\ from \in Nat
    BY DEF SoundInv, TypeOK
  <2> QED
    BY <1>1, <1>2, <1>4, <1>5, <2>1 DEF Following
<1> QED
  BY <1>1, <1>4, <1>6 DEF FollowInv, NothingMissed

\* A reboot is not followed yet.
LEMMA RebootFollows ==
  ASSUME SoundInv, Reboot
  PROVE  FollowInv'
<1>1. log' = << >> /\ boots' = boots + 1 /\ seenBoot' = seenBoot
  BY DEF Reboot, ghosts
<1>2. seenBoot' # boots'
  BY <1>1, ConstantTypes DEF SoundInv, ClockOK, TypeOK
<1>3. NoHoles(log', archive')
  BY <1>1, ConstantTypes DEF NoHoles, RetainedOf, Larger
<1> QED
  BY <1>2, <1>3 DEF FollowInv

\* Time alone moves no cursor.
LEMMA TickFollows ==
  ASSUME FollowInv, Tick \/ UNCHANGED vars
  PROVE  FollowInv'
<1>1. UNCHANGED <<log, pc, status, seek, from, request, cursor, archive, boots, seenBoot,
                  mishaps>>
  BY DEF Tick, vars, device, pass, bounds, ghosts
<1> QED
  BY <1>1 DEF FollowInv, Following, NothingMissed

\* Failures and restarts move no cursor ahead.
LEMMA RetryFollows ==
  ASSUME FollowInv, Retry \/ GiveUp \/ Restart
  PROVE  FollowInv'
<1>1. /\ request' = None
      /\ UNCHANGED <<log, boots, archive, seenBoot, mishaps>>
      /\ \/ UNCHANGED <<pc, status, seek, from, cursor>>
         \/ pc' = "idle" /\ (cursor' = cursor \/ cursor' = None)
  BY DEF Retry, GiveUp, Restart, pass, ghosts, device
<1>2. Following => Following'
  BY <1>1 DEF Following
<1> QED
  BY <1>1, <1>2 DEF FollowInv, NothingMissed

\* An answer moves no cursor.
LEMMA AnswerFollows ==
  ASSUME SoundInv, FollowInv, Answer
  PROVE  FollowInv'
<1> USE ConstantTypes
<1> DEFINE first == Larger(Asked.from, FirstSequence)
           count == Smaller(Larger(NextSequence - first, 0), Asked.limit)
<1>1. /\ pc \in {"seek", "pages"} /\ request' = [from |-> first, count |-> count, at |-> now]
      /\ UNCHANGED <<log, pc, status, seek, from, cursor, archive, boots, seenBoot, mishaps>>
  BY DEF Answer, pass, bounds, ghosts, device
<1>2. ASSUME Following, pc = "seek"
      PROVE  request'.count = 1
  <2>1. /\ FirstSequence \in Nat /\ NextSequence = Len(log) /\ Len(log) \in Nat
        /\ (log # << >> <=> FirstSequence < Len(log)) /\ FirstSequence <= Len(log)
    BY FirstSequenceBounds DEF SoundInv, TypeOK
  <2>2. /\ Candidate(seek, status) \in Nat /\ Candidate(seek, status) < seek.high
        /\ seek.high <= status.next /\ seek.high \in Nat /\ status.next \in Nat
    BY <1>2, CandidateBounds DEF SoundInv, SeekOK, TypeOK
  <2>3. Asked.from = Candidate(seek, status) /\ Asked.limit = 1
    BY <1>2 DEF Asked
  <2>4. status.next <= Len(log)
    BY <1>2 DEF Following
  <2>5. Candidate(seek, status) < Len(log)
    BY <2>1, <2>2, <2>4
  <2>6. log # << >>
    BY <2>1, <2>2, <2>5
  <2>7. first \in Nat /\ first < Len(log)
    BY <2>1, <2>2, <2>3, <2>5, <2>6 DEF Larger
  <2> HIDE DEF first
  <2>8. count = 1
    BY <2>1, <2>3, <2>7 DEF Larger, Smaller
  <2> QED
    BY <1>1, <2>8
<1>3. Following => Following'
  BY <1>1, <1>2 DEF Following
<1> QED
  BY <1>1, <1>3 DEF FollowInv, NothingMissed

\* A status starts the pass at the cursor, or at a search of all that is retained.
LEMMA pollOnceFollows ==
  ASSUME SoundInv, FollowInv, pollOnce
  PROVE  FollowInv'
<1> USE ConstantTypes
<1> DEFINE uptime == now - bootAt
           known == Known(uptime)
           first == FirstSequence
           next == NextSequence
           bounded == [first |-> first, next |-> next]
<1>1. /\ status' = bounded /\ seenBoot' = boots
      /\ mishaps' = IF cursor # None /\ seenBoot # boots /\ uptime >= seen
                    THEN mishaps \cup {"unnoticed"} ELSE mishaps
      /\ UNCHANGED <<log, boots, archive>>
  BY DEF pollOnce, device
<1>2. \/ StartAt(known, known, bounded) /\ known # None
      \/ StartAt(first, known, bounded) /\ known = None
      \/ /\ pc' = "seek" /\ seek' = [low |-> first, high |-> next, step |-> 1]
         /\ cursor' = known /\ known = None
  <2>1. first \in Nat /\ next \in Nat
    BY FirstSequenceBounds DEF SoundInv, TypeOK
  <2>2. CASE known # None
    BY <2>2 DEF pollOnce
  <2>3. CASE known = None /\ (lastTimestamp = 0 \/ bounded.next <= bounded.first)
    BY <2>3 DEF pollOnce
  <2>4. CASE known = None /\ ~(lastTimestamp = 0 \/ bounded.next <= bounded.first)
    BY <2>1, <2>4 DEF pollOnce
  <2> QED
    BY <2>2, <2>3, <2>4
<1>3. /\ next = Len(log) /\ Len(log) \in Nat /\ first \in Nat
      /\ first = Larger(0, Len(log) - Capacity) /\ first <= Len(log)
  BY FirstSequenceBounds DEF SoundInv, TypeOK, FirstSequence
<1>4. bounded.first = first /\ bounded.next = next
  OBVIOUS
<1>5. request' = None /\ uptime \in Nat
  BY DEF pollOnce, SoundInv, RequestOK, TypeOK, Time, ClockOK
<1> SUFFICES ASSUME NothingMissed'
             PROVE  NoHoles(log, archive) /\ Following'
  BY <1>1 DEF FollowInv
<1>6. /\ NothingMissed /\ NoHoles(log, archive) /\ mishaps' = mishaps
      /\ ~(cursor # None /\ seenBoot # boots /\ uptime >= seen)
  BY <1>1 DEF FollowInv, NothingMissed
<1>7. ASSUME known # None
      PROVE  known \in Nat /\ CollectedTo(log, archive, known)
  <2>1. known = cursor /\ cursor # None /\ seen # None /\ ~(uptime < seen)
    BY <1>7 DEF Known, SoundInv, CursorOK
  <2>2. seen \in Nat /\ cursor \in Nat
    BY <2>1 DEF SoundInv, TypeOK
  <2>3. uptime >= seen
    BY <1>5, <2>1, <2>2
  <2>4. Following
    BY <1>6, <2>1, <2>3 DEF FollowInv
  <2> QED
    BY <2>1, <2>2, <2>4 DEF Following
<1> HIDE DEF first, next, known, bounded, uptime
<1>8. CollectedTo(log, archive, first)
  BY <1>3, RetainedBounds DEF CollectedTo
<1>9. ASSUME NEW start \in Nat, CollectedTo(log, archive, start), StartAt(start, known, bounded)
      PROVE  /\ cursor' # None => CollectedTo(log, archive, cursor')
             /\ pc' = "pages" => CollectedTo(log, archive, from')
             /\ pc' \in {"idle", "pages"}
  <2>1. CollectedTo(log, archive, Larger(start, first))
    BY <1>3, <1>9, NothingBelowFirst
  <2> QED
    BY <1>4, <1>7, <1>9, <2>1, FetchFollows DEF StartAt
<1>10. status'.next <= Len(log)
  BY <1>1, <1>3, <1>4
<1>11. CASE pc' = "seek" /\ seek' = [low |-> first, high |-> next, step |-> 1]
            /\ cursor' = known /\ known = None
  <2>1. NewFrom(log, archive, next)
    BY <1>3, RetainedBounds DEF NewFrom
  <2>2. seek'.low = first /\ seek'.high = next
    BY <1>11
  <2> QED
    BY <1>1, <1>5, <1>6, <1>8, <1>10, <1>11, <2>1, <2>2 DEF Following
<1>12. CASE \E start \in Nat : CollectedTo(log, archive, start) /\ StartAt(start, known, bounded)
  BY <1>1, <1>5, <1>6, <1>9, <1>10, <1>12 DEF Following
<1> QED
  BY <1>2, <1>3, <1>7, <1>8, <1>11, <1>12

\* A sequence of one is not empty.
LEMMA OneIsThere ==
  \A page : Len(page) = 1 => page # << >>
<1>1. Len(<< >>) = 0
  OBVIOUS
<1>2. 0 # 1
  OBVIOUS
<1>3. ASSUME NEW page, Len(page) = 1
      PROVE  page # << >>
  <2>1. CASE page = << >>
    <3>1. Len(page) = 0
      BY <1>1, <2>1, Zenon
    <3> QED
      BY <1>2, <1>3, <3>1, Zenon
  <2> QED
    BY <2>1
<1> QED
  BY <1>3

(***************************************************************************)
(* A probe tells on which side of the boundary its reading is.             *)
(***************************************************************************)
LEMMA ProbeFollows ==
  ASSUME SoundInv, "early" \notin Strayed(now - request.at),
         NoHoles(log, archive), Following, pc = "seek", request # None,
         NEW nulls \in SUBSET Overwritten, NEW narrowed,
         narrowed = Narrowed(seek, status, isWanted(Arrived(nulls), now - request.at))
  PROVE  /\ CollectedTo(log, archive, narrowed.low)
         /\ "late" \notin mishaps \cup Strayed(now - request.at) =>
              NewFrom(log, archive, narrowed.high)
<1> USE ConstantTypes
<1> DEFINE delay == now - request.at
           wanted == isWanted(Arrived(nulls), delay)
           candidate == Candidate(seek, status)
           asked == request.from
           reading == log[asked + 1]
<1>1. /\ request.count = 1 /\ CollectedTo(log, archive, seek.low)
      /\ "late" \notin mishaps => NewFrom(log, archive, seek.high)
      /\ status.next <= Len(log)
  BY DEF Following
<1>2. /\ asked + 1 \in DOMAIN log /\ asked \in Nat
      /\ Len(Arrived(nulls)) = 1 /\ Arrived(nulls) # << >>
      /\ asked \in nulls => Arrived(nulls)[1] = None
      /\ asked \notin nulls => Arrived(nulls)[1] = reading
  <2>1. /\ Arrived(nulls) \in Seq(Time \cup {None})
        /\ Len(Arrived(nulls)) = request.count
        /\ request.count \in Nat /\ request.from \in Nat
        /\ \A i \in 1 .. request.count :
             /\ request.from + i \in 1 .. Len(log)
             /\ request.from + i - 1 \in nulls => Arrived(nulls)[i] = None
             /\ request.from + i - 1 \notin nulls =>
                  Arrived(nulls)[i] = log[request.from + i]
    BY ArrivedPage DEF SoundInv
  <2>2. DOMAIN log = 1 .. Len(log)
    BY DEF SoundInv, TypeOK
  <2>3. 1 \in 1 .. request.count
    BY <1>1
  <2>4. /\ asked + 1 \in 1 .. Len(log)
        /\ asked + 1 - 1 \in nulls => Arrived(nulls)[1] = None
        /\ asked + 1 - 1 \notin nulls => Arrived(nulls)[1] = reading
    BY <2>1, <2>3
  <2>5. asked \in Nat /\ asked + 1 - 1 = asked
    BY <2>1
  <2>6. Arrived(nulls) # << >>
    <3>1. Len(Arrived(nulls)) = 1
      BY <1>1, <2>1
    <3> QED
      BY <3>1, OneIsThere, Zenon
  <2> QED
    BY <1>1, <2>1, <2>2, <2>4, <2>5, <2>6
<1>3. delay \in Nat
  BY DEF SoundInv, TypeOK, RequestOK, Time
<1>4. /\ candidate \in Nat /\ candidate < seek.high /\ candidate <= asked
      /\ asked > candidate => asked <= FirstSequence
  BY CandidateBounds DEF SoundInv, RequestOK, Asked
<1>5. /\ FirstSequence \in Nat /\ Len(log) \in Nat /\ DOMAIN log = 1 .. Len(log)
      /\ \A k \in RetainedOf(log) : k \in Nat /\ k + 1 \in DOMAIN log /\ k >= FirstSequence
  <2>1. Len(log) \in Nat /\ DOMAIN log = 1 .. Len(log)
    BY DEF SoundInv, TypeOK
  <2> QED
    BY <2>1, RetainedBounds DEF FirstSequence
<1>6. \A k \in nulls : k < FirstSequence
  BY DEF Overwritten
<1>7. /\ ~wanted => asked \in nulls \/ BehindIn(archive, reading)
      /\ "late" \notin mishaps \cup Strayed(delay) /\ wanted => ~BehindIn(archive, reading)
  <2>1. reading # None
    <3>1. log \in Seq(Time)
      BY DEF SoundInv, TypeOK
    <3>2. reading \in Time
      BY <1>2, <1>5, <3>1, ElementOfSeq
    <3> QED
      BY <3>2 DEF Time
  <2>2. /\ ~BehindIn(archive, reading) => Fresh(reading + delay)
        /\ "late" \notin mishaps \cup Strayed(delay) /\ Fresh(reading + delay) =>
             ~BehindIn(archive, reading)
    <3>1. request.count # 0 /\ "early" \notin Strayed(delay)
      BY <1>1
    <3> HIDE DEF delay
    <3> QED
      BY <1>2, <1>3, <3>1, FreshMeansNew
  <2>3. wanted <=> Arrived(nulls)[1] # None /\ Fresh(Arrived(nulls)[1] + delay)
    BY <1>2 DEF isWanted
  <2> HIDE DEF wanted, delay, reading, asked
  <2> QED
    BY <1>2, <2>1, <2>2, <2>3
<1>8. narrowed = Narrowed(seek, status, wanted) /\ wanted \in BOOLEAN
  BY DEF isWanted, Fresh
<1> HIDE DEF wanted
<1>9. /\ wanted => narrowed.low = seek.low /\ narrowed.high = candidate
      /\ ~wanted => narrowed.low = candidate + 1 /\ narrowed.high = seek.high
  BY <1>8, NarrowedBounds DEF SoundInv
<1> HIDE DEF candidate
<1>10. CASE wanted
  <2>1. ASSUME "late" \notin mishaps \cup Strayed(delay)
        PROVE  NewFrom(log, archive, candidate)
    <3> SUFFICES ASSUME NEW k \in RetainedOf(log), k >= candidate
                 PROVE  ~BehindIn(archive, log[k + 1])
      BY DEF NewFrom
    <3>1. asked <= k
      BY <1>2, <1>4, <1>5
    <3>2. asked + 1 <= k + 1 /\ k + 1 \in DOMAIN log
      BY <1>2, <1>5, <3>1
    <3> QED
      BY <1>2, <1>7, <1>10, <2>1, <3>2, BehindTooOrNeither
  <2> QED
    BY <1>1, <1>9, <1>10, <2>1
<1>11. CASE ~wanted
  <2>1. candidate + 1 <= Len(log)
    <3>1. seek.high <= status.next /\ seek.high \in Nat /\ status.next \in Nat
      BY DEF SoundInv, SeekOK, TypeOK
    <3> QED
      BY <1>1, <1>4, <1>5, <3>1
  <2>2. ASSUME NEW k \in RetainedOf(log), k < candidate + 1
        PROVE  StoredIn(archive, log[k + 1])
    <3>1. k <= asked /\ k + 1 \in DOMAIN log /\ k + 1 <= asked + 1
      <4>1. k \in Nat /\ k + 1 \in DOMAIN log
        BY <1>5
      <4>2. candidate \in Nat /\ candidate <= asked /\ asked \in Nat
        BY <1>2, <1>4
      <4> HIDE DEF asked
      <4> QED
        BY <2>2, <4>1, <4>2
    <3>2. asked \notin nulls
      BY <1>2, <1>5, <1>6, <3>1
    <3>3. BehindIn(archive, reading)
      BY <1>7, <1>11, <3>2
    <3>4. BehindIn(archive, log[k + 1])
      BY <1>2, <3>1, <3>3, BehindTooOrNeither
    <3> QED
      BY <3>4 DEF NoHoles
  <2>3. CollectedTo(log, archive, candidate + 1)
    BY <2>1, <2>2 DEF CollectedTo
  <2> QED
    BY <1>1, <1>9, <1>11, <2>3
<1> QED
  BY <1>10, <1>11

\* A probe narrows the search to both sides of the boundary.
LEMMA SeekResponseFollows ==
  ASSUME SoundInv, FollowInv, SeekResponse
  PROVE  FollowInv'
<1> USE ConstantTypes
<1>1. /\ pc = "seek" /\ request # None /\ request' = None
      /\ mishaps' = mishaps \cup Strayed(now - request.at)
      /\ UNCHANGED <<log, boots, status, archive, seenBoot>>
  BY DEF SeekResponse, device
<1>2. NothingMissed' => NothingMissed /\ "early" \notin Strayed(now - request.at)
  BY <1>1 DEF NothingMissed
<1> SUFFICES ASSUME NothingMissed', seenBoot = boots
             PROVE  Following'
  BY <1>1, <1>2 DEF FollowInv
<1>3. NoHoles(log, archive) /\ Following
  BY <1>2 DEF FollowInv
<1>4. PICK nulls \in SUBSET Overwritten : ProbeEnds(nulls)
  BY <1>1 DEF SeekResponse, Pages, ProbeEnds
<1> DEFINE wanted == isWanted(Arrived(nulls), now - request.at)
           narrowed == Narrowed(seek, status, wanted)
<1>5. \/ StartAt(narrowed.low, cursor, status)
      \/ seek' = narrowed /\ UNCHANGED <<pc, from, cursor>>
  BY <1>4 DEF ProbeEnds
<1>6. /\ CollectedTo(log, archive, narrowed.low)
      /\ "late" \notin mishaps' => NewFrom(log, archive, narrowed.high)
  BY <1>1, <1>2, <1>3, ProbeFollows
<1>7. /\ narrowed.low \in Nat /\ status.first \in Nat /\ status.first <= narrowed.low
  <2>1. wanted \in BOOLEAN
    BY DEF isWanted, Fresh
  <2> HIDE DEF wanted
  <2> QED
    BY <1>1, <2>1, NarrowedBounds DEF SoundInv, TypeOK
<1> HIDE DEF narrowed
<1>8. CASE StartAt(narrowed.low, cursor, status)
  <2>1. Larger(narrowed.low, status.first) = narrowed.low
    BY <1>7 DEF Larger
  <2>2. FetchFrom(narrowed.low, cursor, status)
    BY <1>8, <2>1 DEF StartAt
  <2>3. cursor # None => CollectedTo(log, archive, cursor)
    BY <1>3 DEF Following
  <2>4. /\ cursor' # None => CollectedTo(log, archive, cursor')
        /\ pc' = "pages" => CollectedTo(log, archive, from')
        /\ pc' \in {"idle", "pages"}
    BY <1>6, <2>2, <2>3, FetchFollows
  <2> QED
    BY <1>1, <1>3, <2>4 DEF Following
<1>9. CASE seek' = narrowed /\ UNCHANGED <<pc, from, cursor>>
  BY <1>1, <1>6, <1>9, <1>3 DEF Following
<1> QED
  BY <1>5, <1>8, <1>9

\* A page is stored before the cursor passes it.
LEMMA PageResponseFollows ==
  ASSUME SoundInv, FollowInv, PageResponse
  PROVE  FollowInv'
<1> USE ConstantTypes
<1> DEFINE delay == now - request.at
           end == request.from + request.count
<1>1. /\ pc = "pages" /\ request # None /\ request' = None
      /\ UNCHANGED <<now, device, status, seenBoot>>
  BY DEF PageResponse
<1>2. UNCHANGED <<log, boots, bootAt>>
  BY <1>1 DEF device
<1>3. PICK nulls \in SUBSET Overwritten : PageEnds(nulls)
  BY DEF PageResponse, Pages, PageEnds, KeptOf
<1> DEFINE kept == KeptOf(nulls, delay)
<1>4. /\ archive' = archive \o kept
      /\ mishaps' = mishaps \cup Strayed(delay)
                     \cup (IF archive' # archive /\ seenBoot # boots THEN {"midPass"} ELSE {})
  BY <1>3 DEF PageEnds
<1>5. delay \in Nat
  BY <1>1 DEF SoundInv, TypeOK, RequestOK, Time
<1>6. /\ kept \in Seq(Reading)
      /\ \A i \in 1 .. Len(kept) :
           \E k \in 1 .. request.count :
             request.from + k \in DOMAIN log /\ log[request.from + k] = kept[i].taken
      /\ \A k \in 1 .. request.count :
           request.from + k - 1 \notin nulls /\ Fresh(log[request.from + k] + delay) =>
             \E i \in 1 .. Len(kept) : kept[i].taken = log[request.from + k]
  <2> HIDE DEF delay
  <2> QED
    BY <1>1, <1>5, KeptReadings, ZenonT(30) DEF SoundInv
<1>7. /\ \A i \in DOMAIN archive : i \in DOMAIN archive' /\ archive'[i] = archive[i]
      /\ \A i \in DOMAIN archive' :
           i \in DOMAIN archive \/ \E k \in 1 .. Len(kept) : archive'[i] = kept[k]
      /\ \A k \in 1 .. Len(kept) : \E i \in DOMAIN archive' : archive'[i] = kept[k]
  BY <1>1, <1>4, StoredBehind
<1>8. \/ /\ request.count = 0
         /\ pc' = "idle" /\ cursor' = from
      \/ /\ request.count # 0
         /\ FetchFrom(end, cursor, status)
  BY DEF PageResponse
<1> SUFFICES ASSUME NothingMissed'
             PROVE  NoHoles(log, archive') /\ (seenBoot = boots => Following')
  BY <1>1, <1>2 DEF FollowInv
<1>9. /\ NothingMissed /\ NoHoles(log, archive) /\ "early" \notin Strayed(delay)
      /\ archive' = archive \/ seenBoot = boots
  BY <1>4 DEF FollowInv, NothingMissed
<1> HIDE DEF kept, delay
<1>10. CASE seenBoot # boots
  BY <1>9, <1>10
<1>11. CASE seenBoot = boots
  <2>1. /\ CollectedTo(log, archive, from) /\ status.next <= Len(log)
        /\ cursor # None => CollectedTo(log, archive, cursor)
    BY <1>1, <1>9, <1>11 DEF FollowInv, Following
  <2>2. /\ request.from \in Nat /\ request.count \in Nat /\ from \in Nat
        /\ Len(log) \in Nat /\ DOMAIN log = 1 .. Len(log) /\ FirstSequence \in Nat
        /\ \A k \in RetainedOf(log) : k \in Nat /\ k + 1 \in DOMAIN log /\ k >= FirstSequence
    <3>1. /\ request.from \in Nat /\ request.count \in Nat /\ from \in Nat
          /\ Len(log) \in Nat /\ DOMAIN log = 1 .. Len(log)
      BY <1>1 DEF SoundInv, TypeOK
    <3> QED
      BY <3>1, RetainedBounds DEF FirstSequence
  <2>3. /\ request.from > from => request.from <= FirstSequence
        /\ request.count > 0 => end <= Len(log)
    BY <1>1 DEF SoundInv, RequestOK, Asked
  <2>4. \A k \in nulls : k < FirstSequence
    BY DEF Overwritten
  <2>5. ASSUME NEW k \in RetainedOf(log), k < end, request.count > 0
        PROVE  StoredIn(archive', log[k + 1])
    <3>1. CASE k < from
      <4>1. StoredIn(archive, log[k + 1])
        BY <2>1, <3>1 DEF CollectedTo
      <4> QED
        BY <1>7, <4>1 DEF StoredIn
    <3>2. CASE k >= from
      <4> DEFINE i == k + 1 - request.from
      <4>1. i \in 1 .. request.count /\ request.from + i = k + 1
        BY <2>2, <2>3, <2>5, <3>2, SMTT(30)
      <4>2. request.from + i - 1 = k
        BY <2>2, <4>1
      <4> HIDE DEF i
      <4>3. request.from + i - 1 \notin nulls
        BY <2>2, <2>4, <4>2
      <4>4. CASE Fresh(log[k + 1] + delay)
        <5>1. PICK q \in 1 .. Len(kept) : kept[q].taken = log[k + 1]
          BY <1>6, <4>1, <4>3, <4>4
        <5> QED
          BY <1>7, <5>1 DEF StoredIn
      <4>5. CASE ~Fresh(log[k + 1] + delay)
        <5>1. k + 1 \in DOMAIN log
          BY <2>2
        <5>2. BehindIn(archive, log[k + 1])
          BY <1>5, <1>9, <2>5, <4>5, <5>1, FreshMeansNew
        <5>3. StoredIn(archive, log[k + 1])
          BY <1>9, <5>2 DEF NoHoles
        <5> QED
          BY <1>7, <5>3 DEF StoredIn
      <4> QED
        BY <4>4, <4>5
    <3> QED
      BY <2>2, <3>1, <3>2
  <2>6. NoHoles(log, archive')
    <3> SUFFICES ASSUME NEW k \in RetainedOf(log), NEW i \in DOMAIN archive',
                        archive'[i].taken >= log[k + 1]
                 PROVE  StoredIn(archive', log[k + 1])
      BY DEF NoHoles, BehindIn
    <3>1. CASE i \in DOMAIN archive
      <4>1. BehindIn(archive, log[k + 1])
        BY <1>7, <3>1 DEF BehindIn
      <4>2. StoredIn(archive, log[k + 1])
        BY <1>9, <4>1 DEF NoHoles
      <4> QED
        BY <1>7, <4>2 DEF StoredIn
    <3>2. CASE \E q \in 1 .. Len(kept) : archive'[i] = kept[q]
      <4>1. PICK q \in 1 .. Len(kept) : archive'[i] = kept[q]
        BY <3>2
      <4>2. PICK m \in 1 .. request.count :
              request.from + m \in DOMAIN log /\ log[request.from + m] = kept[q].taken
        BY <1>6, <4>1
      <4>3. k + 1 \in DOMAIN log /\ log[k + 1] <= log[request.from + m]
        <5>1. k + 1 \in DOMAIN log
          BY <2>2
        <5>2. log[k + 1] \in Nat /\ log[request.from + m] \in Nat
          BY <4>2, <5>1, LogGrows
        <5> QED
          BY <4>1, <4>2, <5>1, <5>2
      <4>4. k + 1 <= request.from + m
        <5> DEFINE low == k + 1
                   high == request.from + m
        <5>1. low \in DOMAIN log /\ high \in DOMAIN log /\ log[low] <= log[high]
          BY <4>2, <4>3
        <5> HIDE DEF low, high
        <5>2. low <= high
          BY <5>1, LogGrows
        <5> QED
          BY <5>2 DEF low, high
      <4>5. k < end /\ request.count > 0
        BY <2>2, <4>2, <4>4
      <4> QED
        BY <2>5, <4>5
    <3> QED
      BY <1>7, <3>1, <3>2
  <2>7. ASSUME NEW f, CollectedTo(log, archive, f)
        PROVE  CollectedTo(log, archive', f)
    BY <1>7, <2>7, StoreMore
  <2>8. Following'
    <3>1. CASE request.count = 0 /\ pc' = "idle" /\ cursor' = from
      BY <1>1, <1>2, <2>1, <2>7, <3>1 DEF Following
    <3>2. CASE request.count # 0 /\ FetchFrom(end, cursor, status)
      <4>1. CollectedTo(log, archive', end)
        BY <2>2, <2>3, <2>5, <3>2 DEF CollectedTo
      <4>2. cursor # None => CollectedTo(log, archive', cursor)
        BY <2>1, <2>7
      <4> HIDE DEF end
      <4>3. /\ cursor' # None => CollectedTo(log, archive', cursor')
            /\ pc' = "pages" => CollectedTo(log, archive', from')
            /\ pc' \in {"idle", "pages"}
        BY <3>2, <4>1, <4>2, FetchFollows
      <4> QED
        BY <1>1, <1>2, <2>1, <4>3 DEF Following
    <3> QED
      BY <1>8, <3>1, <3>2
  <2> QED
    BY <2>6, <2>8
<1> QED
  BY <1>10, <1>11

\* Every step keeps the invariant.
LEMMA FollowStep ==
  ASSUME SoundInv, FollowInv, [Next]_vars
  PROVE  FollowInv'
  BY PublishFollows, RebootFollows, TickFollows, RetryFollows, AnswerFollows, pollOnceFollows,
     SeekResponseFollows, PageResponseFollows DEF Next

-----------------------------------------------------------------------------
(***************************************************************************)
(* The cursor never passes a reading that is retained and not stored, as   *)
(* long as the server has seen every reboot and no response was early: a   *)
(* late one stores too much, and never leaves anything out.                *)
(***************************************************************************)
THEOREM CursorSkipsNothing == Spec => []NothingSkipped
<1>1. SoundInv /\ FollowInv /\ [Next]_vars => (SoundInv /\ FollowInv)'
  BY SoundStep, FollowStep
<1>2. SoundInv /\ FollowInv => NothingSkipped
  <2> SUFFICES ASSUME SoundInv, FollowInv, NothingMissed, cursor # None, seenBoot = boots,
                      NEW seq \in FirstSequence .. Smaller(cursor, NextSequence) - 1
               PROVE  Stored(TakenAt(seq))
    BY DEF NothingSkipped, CollectedToCursor
  <2>1. /\ cursor \in Nat /\ Len(log) \in Nat /\ FirstSequence \in Nat
        /\ FirstSequence = Larger(0, Len(log) - Capacity) /\ NextSequence = Len(log)
    BY FirstSequenceBounds DEF SoundInv, TypeOK, FirstSequence
  <2>2. seq \in RetainedOf(log) /\ seq < cursor
    BY <2>1 DEF RetainedOf, Smaller
  <2>3. CollectedTo(log, archive, cursor)
    BY DEF FollowInv, Following
  <2> QED
    BY <2>2, <2>3 DEF CollectedTo, StoredIn, Stored, TakenAt
<1> QED
  BY <1>1, <1>2, SoundInit, FollowInit, PTL DEF Spec

(***************************************************************************)
(* The search ends at the boundary of what is stored, in however few       *)
(* probes of a ring that keeps moving, when no response was late or early. *)
(***************************************************************************)
THEOREM SearchFindsBoundary == Spec => SeekFindsBoundary
<1> DEFINE AtBoundary ==
             pc = "seek" /\ pc' = "pages" /\ mishaps' = {} /\ seenBoot = boots =>
               \A seq \in FirstSequence .. NextSequence - 1 :
                 Stored(TakenAt(seq)) <=> seq < from'
<1>1. SoundInv /\ FollowInv /\ [Next]_vars => (SoundInv /\ FollowInv)'
  BY SoundStep, FollowStep
<1>2. SoundInv /\ FollowInv /\ [Next]_vars => [AtBoundary]_vars
  <2> SUFFICES ASSUME SoundInv, FollowInv, Next, pc = "seek", pc' = "pages", mishaps' = {},
                      seenBoot = boots, NEW seq \in FirstSequence .. NextSequence - 1
               PROVE  Stored(TakenAt(seq)) <=> seq < from'
    OBVIOUS
  <2>1. SeekResponse
    BY DEF Next, Publish, Reboot, Tick, pollOnce, Answer, PageResponse, Retry, GiveUp, Restart,
           pass
  <2>2. mishaps = {} /\ Strayed(now - request.at) = {} /\ request # None
    BY <2>1 DEF SeekResponse
  <2>3. NoHoles(log, archive) /\ Following
    BY <2>2 DEF FollowInv, NothingMissed
  <2>4. PICK nulls \in SUBSET Overwritten : ProbeEnds(nulls)
    BY <2>1 DEF SeekResponse, Pages, ProbeEnds
  <2> DEFINE wanted == isWanted(Arrived(nulls), now - request.at)
             narrowed == Narrowed(seek, status, wanted)
  <2>5. Found(narrowed, status) /\ StartAt(narrowed.low, cursor, status)
    BY <2>4 DEF ProbeEnds
  <2>6. CollectedTo(log, archive, narrowed.low) /\ NewFrom(log, archive, narrowed.high)
    BY <2>1, <2>2, <2>3, ProbeFollows DEF SeekResponse
  <2>7. /\ narrowed.low \in Nat /\ status.first \in Nat /\ status.first <= narrowed.low
        /\ narrowed.low = narrowed.high
    <3>1. wanted \in BOOLEAN
      BY DEF isWanted, Fresh
    <3> HIDE DEF wanted
    <3> QED
      BY <2>5, <3>1, NarrowedBounds, ConstantTypes DEF SoundInv, TypeOK
  <2> HIDE DEF narrowed
  <2>8. from' = narrowed.low
    BY <2>5, <2>7 DEF StartAt, FetchFrom, Larger
  <2>9. /\ Len(log) \in Nat /\ DOMAIN log = 1 .. Len(log)
        /\ FirstSequence \in Nat
        /\ FirstSequence = Larger(0, Len(log) - Capacity) /\ NextSequence = Len(log)
    BY FirstSequenceBounds DEF SoundInv, TypeOK, FirstSequence
  <2>10. seq \in RetainedOf(log) /\ seq \in Nat /\ seq + 1 \in DOMAIN log
    BY <2>9 DEF RetainedOf
  <2>11. seq < from' => Stored(TakenAt(seq))
    BY <2>6, <2>8, <2>10 DEF CollectedTo, StoredIn, Stored, TakenAt
  <2>12. seq >= from' => ~Stored(TakenAt(seq))
    <3>1. log[seq + 1] \in Nat
      BY <2>10, LogGrows
    <3> QED
      BY <2>6, <2>7, <2>8, <2>10, <3>1 DEF NewFrom, BehindIn, Stored, TakenAt
  <2> QED
    BY <2>7, <2>8, <2>10, <2>11, <2>12
<1>3. [][AtBoundary]_vars => SeekFindsBoundary
  BY PTL DEF SeekFindsBoundary
<1> QED
  BY <1>1, <1>2, <1>3, SoundInit, FollowInit, PTL DEF Spec
=============================================================================
