----------------------------- MODULE Collection -----------------------------
(***************************************************************************)
(* How the collection server follows one sensor: pollOnce, syncSensor,     *)
(* seekCursor, isWanted and datePage of server/poller.js over the requests *)
(* of server/device.js, against a device that keeps publishing, overwrites *)
(* its oldest readings and reboots.                                        *)
(*                                                                         *)
(* The device numbers readings from zero at every boot and dates them by   *)
(* its uptime; the server has the wall clock.  Time is `now`, in ticks.  A *)
(* request is answered at one moment, with the bounds of its page and the  *)
(* uptime fixed, and its response arrives up to MaxDelay later, so what is *)
(* dated against it is late by the delay.  All that bounds the delay is    *)
(* REQUEST_TIMEOUT_MS, and a page of any length takes longer than the      *)
(* tolerance.  A request may have to be tried again, or given up, which    *)
(* ends the pass where it is.                                              *)
(*                                                                         *)
(* The ring and the page are those of ReadingsPage, the archive that of    *)
(* Store with every append whole; a reading is the time it was taken at.   *)
(***************************************************************************)
EXTENDS Integers, FiniteSets, Sequences, SequencesExt, Selections

CONSTANTS Capacity,      \* readings the device retains
          PageLimit,     \* DEVICE_PAGE_LIMIT
          Interval,      \* ticks between two readings, at least
          Tolerance,     \* DUPLICATE_TOLERANCE_MS
          MaxDelay,      \* REQUEST_TIMEOUT_MS, which bounds the delay of a response
          MaxTime,       \* bound on time
          MaxReboots,    \* bound on reboots of the device
          MaxRestarts,   \* bound on restarts of the server
          MaxFailures,   \* bound on requests that fail
          None           \* no cursor; no request; nothing seen; null

ASSUME CollectionAssumption ==
  /\ Capacity \in Nat \ {0} /\ PageLimit \in Nat \ {0} /\ Interval \in Nat \ {0}
  /\ Tolerance \in Nat /\ MaxDelay \in Nat /\ MaxTime \in Nat \ {0}
  /\ Tolerance < Interval
  /\ MaxReboots \in Nat /\ MaxRestarts \in Nat /\ MaxFailures \in Nat
  /\ None \notin Nat

VARIABLES now,        \* wall clock
          bootAt,     \* when the device booted
          log,        \* times of the readings of this boot, by number from 0
          boots,      \* which boot this is
          pc,         \* "idle", "seek" (seekCursor) or "pages" (the page loop)
          request,    \* the answered request, or None while there is none
          seen,       \* deviceUptimeMs
          cursor,     \* cursors.get(sensor)
          status,     \* first_sequence and next_sequence of the last status
          seek,       \* low, high and step of seekCursor
          from,       \* where the page loop is
          archive,    \* the stored readings: dated t, taken at
          restarts, failures,   \* counters for the bounds
          seenBoot,   \* boot the last status came from; no guard reads it
          mishaps     \* reboots and delays the server could not tell; no guard
                      \* reads it

device == <<bootAt, log, boots>>
pass == <<pc, status, seek, from>>
bounds == <<restarts, failures>>
ghosts == <<seenBoot, mishaps>>
vars == <<now, bootAt, log, boots, pc, request, seen, cursor, status, seek, from,
          archive, restarts, failures, seenBoot, mishaps>>

Time == 1 .. MaxTime
Larger(a, b) == IF a > b THEN a ELSE b
Smaller(a, b) == IF a < b THEN a ELSE b

NoSeek == [low |-> 0, high |-> 0, step |-> 0]
NoStatus == [first |-> 0, next |-> 0]

-----------------------------------------------------------------------------
(***************************************************************************)
(* The device.                                                             *)
(***************************************************************************)
NextSequence == Len(log)

FirstSequence == Larger(0, Len(log) - Capacity)

TakenAt(seq) == log[seq + 1]

Publish ==
  /\ now - bootAt >= Interval
  /\ log # << >> => now - Last(log) >= Interval
  /\ log' = Append(log, now)
  /\ UNCHANGED <<now, bootAt, boots, pass, request, seen, cursor, archive,
                 bounds, ghosts>>

(***************************************************************************)
(* The history is lost, and the connection with it; the server tries the   *)
(* request again.                                                          *)
(***************************************************************************)
Reboot ==
  /\ boots < MaxReboots
  /\ boots' = boots + 1
  /\ bootAt' = now
  /\ log' = << >>
  /\ request' = None
  /\ UNCHANGED <<now, pass, seen, cursor, archive, bounds, ghosts>>

(***************************************************************************)
(* Time passes; no response in flight outlasts MaxDelay.                   *)
(***************************************************************************)
Tick ==
  /\ now < MaxTime
  /\ request # None => now - request.at < MaxDelay
  /\ now' = now + 1
  /\ UNCHANGED <<device, pass, request, seen, cursor, archive, bounds, ghosts>>

-----------------------------------------------------------------------------
(***************************************************************************)
(* The archive.                                                            *)
(***************************************************************************)
lastTimestamp == IF archive = << >> THEN 0 ELSE Last(archive).t

\* Mutant of Fresh: the tolerance is left out.
FreshWithoutTolerance(t) == t > lastTimestamp

(***************************************************************************)
(* Told apart from what is stored; the test of both isWanted and datePage. *)
(***************************************************************************)
Fresh(t) == t > lastTimestamp + Tolerance

(***************************************************************************)
(* The readings of a page that are there and new, dated.                   *)
(***************************************************************************)
datePage(page, delay) ==
  LET kept == Selected(page, {t \in ToSet(page) \ {None} : Fresh(t + delay)})
  IN  [i \in DOMAIN kept |-> [t |-> kept[i] + delay, taken |-> kept[i]]]

(***************************************************************************)
(* What the delay of a response can hide: one longer than that of the      *)
(* newest stored reading by more than the tolerance can make a stored      *)
(* reading look new, and one shorter by so much that the tolerance reaches *)
(* over an interval a new reading stored.                                  *)
(***************************************************************************)
LateBy(i) == archive[i].t - archive[i].taken

Strayed(delay) ==
  IF archive = << >> \/ request.count = 0 THEN {}
  ELSE (IF delay > LateBy(Len(archive)) + Tolerance THEN {"late"} ELSE {})
         \cup
       (IF LateBy(Len(archive)) + Tolerance >= delay + Interval THEN {"early"} ELSE {})

-----------------------------------------------------------------------------
(***************************************************************************)
(* seekCursor: halving steps once the doubling ones have ended, which is   *)
(* when one hit a reading that is stored or reached the oldest.            *)
(***************************************************************************)
Doubling(s, bounded) == s.step > 0 /\ bounded.next - s.step > bounded.first
Found(s, bounded) == ~Doubling(s, bounded) /\ s.low >= s.high

Candidate(s, bounded) ==
  IF Doubling(s, bounded) THEN bounded.next - s.step
  ELSE s.low + (s.high - s.low) \div 2

\* Mutant of Narrowed: the halving drops the reading it looked at.
NarrowedPastWanted(s, bounded, wanted) ==
  LET candidate == Candidate(s, bounded)
  IN  IF wanted
      THEN [s EXCEPT !.high = Larger(s.low, candidate - 1),
                     !.step = IF Doubling(s, bounded) THEN 2 * @ ELSE 0]
      ELSE [s EXCEPT !.low = candidate + 1, !.step = 0]

Narrowed(s, bounded, wanted) ==
  LET candidate == Candidate(s, bounded)
  IN  IF wanted
      THEN [s EXCEPT !.high = candidate,
                     !.step = IF Doubling(s, bounded) THEN 2 * @ ELSE 0]
      ELSE [s EXCEPT !.low = candidate + 1, !.step = 0]

-----------------------------------------------------------------------------
(***************************************************************************)
(* The page loop goes on from f, or ends the pass and keeps f.             *)
(***************************************************************************)
FetchFrom(f, known, bounded) ==
  IF f < bounded.next
  THEN pc' = "pages" /\ from' = f /\ cursor' = known
  ELSE pc' = "idle" /\ from' = 0 /\ cursor' = f

StartAt(start, known, bounded) ==
  FetchFrom(Larger(start, bounded.first), known, bounded)

(***************************************************************************)
(* A pass begins: the status is answered and a reboot it tells of clears   *)
(* the cursor.  What follows up to the next request needs no answer: with  *)
(* a cursor the page loop starts there; without one, and with something    *)
(* stored and something retained, the place to start is searched for.      *)
(***************************************************************************)

\* Mutant of Known: a reboot does not clear the cursor.
KnownAfterReboot(uptime) == cursor

Known(uptime) == IF seen # None /\ uptime < seen THEN None ELSE cursor

pollOnce ==
  LET uptime == now - bootAt
      known == Known(uptime)
      bounded == [first |-> FirstSequence, next |-> NextSequence]
  IN  /\ pc = "idle"
      /\ seen' = uptime
      /\ status' = bounded
      /\ IF known # None
         THEN StartAt(known, known, bounded) /\ seek' = NoSeek
         ELSE IF lastTimestamp = 0 \/ bounded.next <= bounded.first
         THEN StartAt(bounded.first, known, bounded) /\ seek' = NoSeek
         ELSE /\ pc' = "seek"
              /\ seek' = [low |-> bounded.first, high |-> bounded.next, step |-> 1]
              /\ cursor' = known
              /\ UNCHANGED from
      /\ seenBoot' = boots
      /\ mishaps' = IF cursor # None /\ seenBoot # boots /\ uptime >= seen
                    THEN mishaps \cup {"unnoticed"} ELSE mishaps
      /\ UNCHANGED <<now, device, request, archive, bounds>>

-----------------------------------------------------------------------------
(***************************************************************************)
(* Requests of the pass.                                                   *)
(***************************************************************************)

\* Mutant of Asked: the page starts one reading late.
AskedPastFrom ==
  IF pc = "seek" THEN [from |-> Candidate(seek, status), limit |-> 1]
  ELSE [from |-> from + 1, limit |-> PageLimit]

Asked ==
  IF pc = "seek" THEN [from |-> Candidate(seek, status), limit |-> 1]
  ELSE [from |-> from, limit |-> PageLimit]

(***************************************************************************)
(* The device settles on the page it will send.                            *)
(***************************************************************************)
Answer ==
  LET first == Larger(Asked.from, FirstSequence)
  IN  /\ pc \in {"seek", "pages"}
      /\ request = None
      /\ request' = [from  |-> first,
                     count |-> Smaller(Larger(NextSequence - first, 0), Asked.limit),
                     at    |-> now]
      /\ UNCHANGED <<now, device, pass, seen, cursor, archive, bounds, ghosts>>

(***************************************************************************)
(* The readings that arrive: a reading overwritten before it was copied    *)
(* out is null, and only those overwritten by now can have been.           *)
(***************************************************************************)
Overwritten ==
  {seq \in request.from .. request.from + request.count - 1 : seq < FirstSequence}

Arrived(nulls) ==
  [i \in 1 .. request.count |->
     IF request.from + i - 1 \in nulls THEN None
     ELSE TakenAt(request.from + i - 1)]

Pages == {Arrived(nulls) : nulls \in SUBSET Overwritten}

(***************************************************************************)
(* isWanted: a reading the device has not taken yet is wanted, one it has  *)
(* no longer is not, any other is if it is newer than what is stored.      *)
(***************************************************************************)
isWanted(readings, delay) ==
  IF readings = << >> THEN TRUE
  ELSE readings[1] # None /\ Fresh(readings[1] + delay)

SeekResponse ==
  /\ pc = "seek"
  /\ request # None
  /\ \E page \in Pages :
       LET wanted == isWanted(page, now - request.at)
           narrowed == Narrowed(seek, status, wanted)
       IN  IF Found(narrowed, status)
           THEN StartAt(narrowed.low, cursor, status) /\ seek' = NoSeek
           ELSE seek' = narrowed /\ UNCHANGED <<pc, from, cursor>>
  /\ request' = None
  /\ mishaps' = mishaps \cup Strayed(now - request.at)
  /\ UNCHANGED <<now, device, seen, status, archive, bounds, seenBoot>>

(***************************************************************************)
(* A page is stored and the loop goes on behind it, counting from where    *)
(* the device started it; an empty page ends the pass.                     *)
(***************************************************************************)
PageResponse ==
  /\ pc = "pages"
  /\ request # None
  /\ \E page \in Pages :
       archive' = archive \o datePage(page, now - request.at)
  /\ mishaps' = mishaps \cup Strayed(now - request.at)
                 \cup (IF archive' # archive /\ seenBoot # boots THEN {"midPass"} ELSE {})
  /\ IF request.count = 0
     THEN pc' = "idle" /\ from' = 0 /\ cursor' = from
     ELSE FetchFrom(request.from + request.count, cursor, status)
  /\ request' = None
  /\ UNCHANGED <<now, device, seen, status, seek, bounds, seenBoot>>

(***************************************************************************)
(* The connection breaks and the request is sent again.                    *)
(***************************************************************************)
Retry ==
  /\ request # None
  /\ failures < MaxFailures
  /\ failures' = failures + 1
  /\ request' = None
  /\ UNCHANGED <<now, device, pass, seen, cursor, archive, restarts, ghosts>>

(***************************************************************************)
(* A request is given up: syncSensor throws, the cursor stays as it was.   *)
(***************************************************************************)

GiveUp ==
  /\ pc \in {"seek", "pages"}
  /\ failures < MaxFailures
  /\ failures' = failures + 1
  /\ request' = None
  /\ pc' = "idle"
  /\ seek' = NoSeek
  /\ from' = 0
  /\ UNCHANGED <<now, device, seen, cursor, status, archive, restarts, ghosts>>

(***************************************************************************)
(* The server restarts: all but the archive is gone.                       *)
(***************************************************************************)
Restart ==
  /\ restarts < MaxRestarts
  /\ restarts' = restarts + 1
  /\ pc' = "idle"
  /\ request' = None
  /\ seen' = None
  /\ cursor' = None
  /\ status' = NoStatus
  /\ seek' = NoSeek
  /\ from' = 0
  /\ UNCHANGED <<now, device, archive, failures, ghosts>>

Init ==
  /\ now = 1
  /\ bootAt = 1
  /\ log = << >>
  /\ boots = 0
  /\ pc = "idle"
  /\ request = None
  /\ seen = None
  /\ cursor = None
  /\ status = NoStatus
  /\ seek = NoSeek
  /\ from = 0
  /\ archive = << >>
  /\ restarts = 0
  /\ failures = 0
  /\ seenBoot = 0
  /\ mishaps = {}

Next ==
  \/ Publish
  \/ Reboot
  \/ Tick
  \/ pollOnce
  \/ Answer
  \/ SeekResponse
  \/ PageResponse
  \/ Retry
  \/ GiveUp
  \/ Restart

Spec == Init /\ [][Next]_vars

(***************************************************************************)
(* The loop keeps polling, and a request in flight ends: with its          *)
(* response, with an error, or with its timeout.  Errors are bounded.      *)
(***************************************************************************)
RequestEnds == request # None /\ request' = None

FairSpec == Spec /\ WF_vars(pollOnce) /\ WF_vars(Answer) /\ WF_request(RequestEnds)

-----------------------------------------------------------------------------
TypeOK ==
  /\ now \in Time /\ bootAt \in Time /\ boots \in 0 .. MaxReboots
  /\ log \in Seq(Time)
  /\ pc \in {"idle", "seek", "pages"}
  /\ request \in [from : Nat, count : 0 .. PageLimit, at : Time] \cup {None}
  /\ seen \in Nat \cup {None}
  /\ cursor \in Nat \cup {None}
  /\ status \in [first : Nat, next : Nat]
  /\ seek \in [low : Nat, high : Nat, step : Nat]
  /\ from \in Nat
  /\ archive \in Seq([t : Nat, taken : Time])
  /\ restarts \in 0 .. MaxRestarts /\ failures \in 0 .. MaxFailures
  /\ seenBoot \in 0 .. MaxReboots
  /\ mishaps \subseteq {"unnoticed", "midPass", "late", "early"}

Stored(time) == \E i \in DOMAIN archive : archive[i].taken = time

(***************************************************************************)
(* Every reading the device retains below the cursor is stored, when the   *)
(* cursor comes from the boot the device is in.                            *)
(***************************************************************************)
CollectedToCursor ==
  cursor # None /\ seenBoot = boots =>
    \A seq \in FirstSequence .. Smaller(cursor, NextSequence) - 1 :
      Stored(TakenAt(seq))

(***************************************************************************)
(* The cursor never passes a reading that is retained and not stored:      *)
(* pages cut by failures, restarts, readings overwritten mid-page, late    *)
(* responses and reboots included, unless a reboot could not be told by    *)
(* the uptime or fell between a status and a page of one pass, or a        *)
(* response was quicker than the one before it by most of an interval.     *)
(***************************************************************************)
NothingMissed == mishaps \subseteq {"late"}

NothingSkipped == NothingMissed => CollectedToCursor

(***************************************************************************)
(* Each reading is stored at most once and in the order it was taken.  A   *)
(* response that is late can break that; the two that follow say when.     *)
(***************************************************************************)
StoredOnceInOrder ==
  \A i, j \in DOMAIN archive :
    i < j => archive[i].taken < archive[j].taken /\ archive[i].t < archive[j].t

(***************************************************************************)
(* However often pages are fetched again: while no response is later than  *)
(* the one the newest reading came by, by more than the tolerance, each    *)
(* reading is stored once.                                                 *)
(***************************************************************************)
StoredOnceUnlessLate == "late" \notin mishaps => StoredOnceInOrder

(***************************************************************************)
(* Whatever the delays, the dates are in order, and a reading stored after *)
(* a later one, or again, was later by more than the tolerance than every  *)
(* one it is behind: no quick response ever stores a second copy.          *)
(***************************************************************************)
SecondCopiesAreLate ==
  \A i, j \in DOMAIN archive :
    i < j => /\ archive[i].t < archive[j].t
             /\ \/ archive[i].taken < archive[j].taken
                \/ LateBy(j) > LateBy(i) + Tolerance

(***************************************************************************)
(* The search for the place to start ends at the boundary: what is         *)
(* retained below is stored, and what is retained from there on is not.    *)
(***************************************************************************)
SeekFindsBoundary ==
  [][pc = "seek" /\ pc' = "pages" /\ mishaps' = {} /\ seenBoot = boots =>
       \A seq \in FirstSequence .. NextSequence - 1 :
         Stored(TakenAt(seq)) <=> seq < from']_vars

(***************************************************************************)
(* Once readings and failures stop, everything still retained is stored,   *)
(* unless a reboot was missed or a response too quick.                     *)
(***************************************************************************)
AllRetainedStored ==
  \A seq \in FirstSequence .. NextSequence - 1 : Stored(TakenAt(seq))

EventuallyCollected == []<>(~NothingMissed \/ AllRetainedStored)

(***************************************************************************)
(* What poller.js says of a reboot: "every sensor has to be picked up from *)
(* the start of its retained history again".  Apart from reboots the       *)
(* uptime does not tell, nothing of the new boot is skipped.               *)
(***************************************************************************)
PickedUpFromStart == mishaps \subseteq {"midPass", "late"} => CollectedToCursor

(***************************************************************************)
(* What software/README.md says: "A client detects a device reboot by      *)
(* uptime_ms being lower than the value it saw previously".  Apart from    *)
(* reboots in the middle of a pass, doing so skips nothing of a new boot.  *)
(***************************************************************************)
UptimeTellsReboots == mishaps \subseteq {"unnoticed", "late"} => CollectedToCursor

(***************************************************************************)
(* What poller.js says of the poller: "the history is continuous as long   *)
(* as this server is running".  Between two stored readings none that was  *)
(* still retained was passed over.                                         *)
(***************************************************************************)
HistoryIsContinuous == restarts = 0 /\ boots = 0 => CollectedToCursor

(***************************************************************************)
(* What is in the archive is sound: typed, and each reading there once and *)
(* in the order it was taken, but for what late responses do to it.        *)
(***************************************************************************)
ArchiveIsSound == TypeOK /\ StoredOnceUnlessLate /\ SecondCopiesAreLate
=============================================================================
