------------------------------- MODULE Store -------------------------------
(***************************************************************************)
(* server/store.js: the readings on disk, one file per sensor and UTC day, *)
(* one line per reading, and the three summaries held in memory.           *)
(*                                                                         *)
(* append writes whole lines behind what a file already holds, one write   *)
(* per day the batch touches, and updates the memory only when all of them *)
(* succeeded.  A write can be cut short: the process is killed, or the     *)
(* write throws (a full disk) and the process goes on.  What is left then  *)
(* is some complete lines and possibly an unterminated one, which the next *)
(* write is glued to.                                                      *)
(*                                                                         *)
(* A reading is its timestamp t.  A line is the reading it parses to, or   *)
(* Bad if it does not parse.                                               *)
(***************************************************************************)
EXTENDS Integers, FiniteSets, Sequences, SequencesExt, Selections

CONSTANTS Sensor,       \* SENSORS
          MaxTime,      \* bound on timestamps
          DayLength,    \* timestamps to a day
          MaxBatch,     \* bound on the readings of one append
          MaxRestarts,  \* bound on restarts of the server
          MaxCuts,      \* bound on writes cut short
          CutKind,      \* what cuts a write short: "killed", "threw" or both
          Bad,          \* a line that does not parse
          None          \* no unterminated line; null; no file

ASSUME StoreAssumption ==
  /\ MaxTime \in Nat \ {0} /\ DayLength \in Nat \ {0} /\ MaxBatch \in Nat
  /\ MaxRestarts \in Nat /\ MaxCuts \in Nat
  /\ CutKind \subseteq {"killed", "threw"}
  /\ Bad \notin Nat /\ None \notin Nat /\ Bad # None

VARIABLES disk,             \* per sensor and day, the file or None
          up,               \* the server is running
          lastTimestamps,   \* per sensor, newest stored; 0 when absent
          oldestStored,     \* over all sensors, or None
          restarts, cuts,   \* counters for the bounds
          injured           \* sensors a cut write has put at risk; no guard
                            \* reads it

memory == <<lastTimestamps, oldestStored>>
vars == <<disk, up, lastTimestamps, oldestStored, restarts, cuts, injured>>

Time == 1 .. MaxTime
dayKey(t) == t \div DayLength
Day == 0 .. dayKey(MaxTime)

File == [lines : Seq(Time \cup {Bad}), tail : Time \cup {Bad, None}]
EmptyFile == [lines |-> << >>, tail |-> None]

\* What stands for a file that does not exist is not a file.
ASSUME NoFileAssumption == None \notin File

-----------------------------------------------------------------------------
(***************************************************************************)
(* Reading files back.                                                     *)
(***************************************************************************)
dayFiles(s) == {d \in Day : disk[s][d] # None}

FirstDay(days) == CHOOSE d \in days : \A e \in days : d <= e
LastDay(days) == CHOOSE d \in days : \A e \in days : e <= d

\* Mutant of Parsed: a line that does not parse costs the file.
ParsedWholly(file) ==
  LET lines == IF file.tail = None THEN file.lines ELSE Append(file.lines, file.tail)
  IN  IF Bad \in ToSet(lines) THEN << >> ELSE lines

(***************************************************************************)
(* Every line that parses; an unterminated last line parses if only its    *)
(* newline is missing.                                                     *)
(***************************************************************************)
Parsed(file) ==
  Selected(IF file.tail = None THEN file.lines ELSE Append(file.lines, file.tail),
           Time)

readDayFile(s, d) == IF disk[s][d] = None THEN << >> ELSE Parsed(disk[s][d])

(***************************************************************************)
(* The first line of a file, provided it is complete and parses.           *)
(***************************************************************************)
firstReadingOf(s, d) ==
  IF disk[s][d].lines = << >> \/ disk[s][d].lines[1] = Bad THEN None
  ELSE disk[s][d].lines[1]

(***************************************************************************)
(* The files in the order of their names, end to end.                      *)
(***************************************************************************)
Archive(s) ==
  FlattenSeq([i \in 1 .. dayKey(MaxTime) + 1 |-> readDayFile(s, i - 1)])

\* The files of a range of days, likewise, without what is out of the range of times.
InRange(s, days, times) ==
  FlattenSeq([i \in 1 .. dayKey(MaxTime) + 1 |->
                IF i - 1 \in dayFiles(s) \cap days
                THEN Selected(readDayFile(s, i - 1), times) ELSE << >>])

\* Mutant of readRange: the last day of the range is left out.
readRangeBeforeLastDay(s, from, to) ==
  InRange(s, dayKey(from) .. dayKey(to) - 1, from .. to)

readRange(s, from, to) == InRange(s, dayKey(from) .. dayKey(to), from .. to)

-----------------------------------------------------------------------------
(***************************************************************************)
(* Writing.                                                                *)
(***************************************************************************)

(***************************************************************************)
(* The readings of a batch that append keeps: each newer than the one kept *)
(* before it, the first newer than the newest stored.                      *)
(***************************************************************************)

\* Mutant of Kept: a reading as old as the newest stored is kept too.
KeptFromNewest(s, batch) == Selected(batch, lastTimestamps[s] .. MaxTime)

Kept(s, batch) ==
  LET newest(kept) == IF kept = << >> THEN lastTimestamps[s] ELSE Last(kept)
      upTo[i \in 0 .. Len(batch)] ==
        IF i = 0 THEN << >>
        ELSE IF batch[i] > newest(upTo[i - 1]) THEN Append(upTo[i - 1], batch[i])
        ELSE upTo[i - 1]
  IN  upTo[Len(batch)]

OfDay(readings, d) == Selected(readings, {t \in Time : dayKey(t) = d})
DaysOf(readings) == {dayKey(readings[i]) : i \in DOMAIN readings}

(***************************************************************************)
(* file with text behind it: some complete lines, then possibly a line     *)
(* that was not terminated.  An unterminated line already there swallows   *)
(* the first new one.                                                      *)
(***************************************************************************)
Appended(file, lines, tail) ==
  LET old == IF file = None THEN EmptyFile ELSE file
      glued == old.tail # None
  IN  IF glued /\ lines # << >>
      THEN [lines |-> old.lines \o <<Bad>> \o Tail(lines), tail |-> tail]
      ELSE IF glued
      THEN [old EXCEPT !.tail = IF tail = None THEN @ ELSE Bad]
      ELSE [lines |-> old.lines \o lines, tail |-> tail]

WithDays(s, readings, days) ==
  [d \in Day |-> IF d \in days THEN Appended(disk[s][d], OfDay(readings, d), None)
                 ELSE disk[s][d]]

OldestWith(old, readings) ==
  IF readings = << >> THEN old
  ELSE IF old = None \/ readings[1] < old THEN readings[1] ELSE old

NewestWith(old, readings) == IF readings = << >> THEN old ELSE Last(readings)

(***************************************************************************)
(* append, every write of it done.  A batch of which nothing is kept       *)
(* writes nothing.                                                         *)
(***************************************************************************)

append(s, batch) ==
  LET kept == Kept(s, batch)
  IN  /\ up
      /\ disk' = [disk EXCEPT ![s] = WithDays(s, kept, DaysOf(kept))]
      /\ lastTimestamps' = [lastTimestamps EXCEPT ![s] = NewestWith(@, kept)]
      /\ oldestStored' = OldestWith(oldestStored, kept)
      /\ UNCHANGED <<up, restarts, cuts, injured>>

(***************************************************************************)
(* append interrupted in the write for day d: the days before it are on    *)
(* disk, of d's lines the first n are, and of the next one nothing, a part *)
(* (Bad) or all but the newline.  Nothing is recorded in memory.           *)
(*                                                                         *)
(* A sensor is at risk from then on if the write threw, for the server     *)
(* does not know what it wrote; if the file it was to begin holds no       *)
(* complete line; or if the line cut was whole but for its newline.        *)
(***************************************************************************)
CutShort(s, batch, d, n, tail, kind) ==
  LET kept == Kept(s, batch)
      lines == OfDay(kept, d)
      before == {e \in DaysOf(kept) : e < d}
      file == Appended(disk[s][d], SubSeq(lines, 1, n), tail)
  IN  /\ up
      /\ cuts < MaxCuts
      /\ kept # << >>
      /\ d \in DaysOf(kept)
      /\ n < Len(lines)
      /\ tail \in {None, Bad, lines[n + 1]}
      /\ disk' = [disk EXCEPT ![s] = [WithDays(s, kept, before) EXCEPT ![d] = file]]
      /\ cuts' = cuts + 1
      /\ injured' = IF kind = "threw" \/ file.lines = << >> \/ file.tail \in Time
                    THEN injured \cup {s} ELSE injured
      /\ \/ /\ kind = "killed"
            /\ up' = FALSE
            /\ lastTimestamps' = [q \in Sensor |-> 0]
            /\ oldestStored' = None
         \/ /\ kind = "threw"
            /\ UNCHANGED <<up, memory>>
      /\ UNCHANGED restarts

-----------------------------------------------------------------------------
(***************************************************************************)
(* initialize: only the last file of each sensor is searched for its       *)
(* newest reading and only the first line of the first file is looked at.  *)
(***************************************************************************)

\* Mutant of Newest: the newest reading is looked for in the first file.
NewestOfFirstFile(s) ==
  LET found == IF dayFiles(s) = {} THEN << >>
               ELSE readDayFile(s, FirstDay(dayFiles(s)))
  IN  IF found = << >> THEN 0 ELSE Last(found)

Newest(s) ==
  LET found == IF dayFiles(s) = {} THEN << >>
               ELSE readDayFile(s, LastDay(dayFiles(s)))
  IN  IF found = << >> THEN 0 ELSE Last(found)

Oldest(s) ==
  IF dayFiles(s) = {} THEN None ELSE firstReadingOf(s, FirstDay(dayFiles(s)))

OldestOf(sensors) ==
  LET found == {Oldest(s) : s \in sensors} \ {None}
  IN  IF found = {} THEN None
      ELSE CHOOSE t \in found : \A q \in found : t <= q

initialize ==
  /\ ~up
  /\ up' = TRUE
  /\ lastTimestamps' = [s \in Sensor |-> Newest(s)]
  /\ oldestStored' = OldestOf(Sensor)
  /\ UNCHANGED <<disk, restarts, cuts, injured>>

(***************************************************************************)
(* The server is stopped between two appends; its memory is gone.          *)
(***************************************************************************)
Stop ==
  /\ up
  /\ restarts < MaxRestarts
  /\ restarts' = restarts + 1
  /\ up' = FALSE
  /\ lastTimestamps' = [s \in Sensor |-> 0]
  /\ oldestStored' = None
  /\ UNCHANGED <<disk, cuts, injured>>

Init ==
  /\ disk = [s \in Sensor |-> [d \in Day |-> None]]
  /\ up = FALSE
  /\ lastTimestamps = [s \in Sensor |-> 0]
  /\ oldestStored = None
  /\ restarts = 0
  /\ cuts = 0
  /\ injured = {}

(***************************************************************************)
(* What the poller hands over: readings of a page, oldest first.  It may   *)
(* hand over again what is stored already.                                 *)
(***************************************************************************)
Batch ==
  UNION {{batch \in [1 .. n -> Time] :
             \A i, j \in 1 .. n : i < j => batch[i] < batch[j]} : n \in 1 .. MaxBatch}

Next ==
  \/ \E s \in Sensor, batch \in Batch : append(s, batch)
  \/ \E s \in Sensor, batch \in Batch, d \in Day, n \in 0 .. MaxBatch - 1,
        tail \in Time \cup {Bad, None}, kind \in CutKind :
          CutShort(s, batch, d, n, tail, kind)
  \/ initialize
  \/ Stop

Spec == Init /\ [][Next]_vars

-----------------------------------------------------------------------------
TypeOK ==
  /\ \A s \in Sensor, d \in Day : disk[s][d] \in File \cup {None}
  /\ up \in BOOLEAN
  /\ lastTimestamps \in [Sensor -> 0 .. MaxTime]
  /\ oldestStored \in Time \cup {None}
  /\ restarts \in 0 .. MaxRestarts
  /\ cuts \in 0 .. MaxCuts
  /\ injured \subseteq Sensor

(***************************************************************************)
(* The readings of a sensor are on disk once each and in order, restarts,  *)
(* repeated pages and writes cut behind a complete line included, as long  *)
(* as no cut write has put the sensor at risk.                             *)
(***************************************************************************)
OneCopyInOrder ==
  \A s \in Sensor \ injured :
    LET all == Archive(s)
    IN  \A i, j \in DOMAIN all : i < j => all[i] < all[j]

(***************************************************************************)
(* What a running server takes for the newest stored reading is no older   *)
(* than any reading on disk, so nothing stored is accepted again, although *)
(* initialize reads the last file only; and it is the newest on disk       *)
(* unless an unterminated line has swallowed a reading.                    *)
(***************************************************************************)
Swallowed(s) ==
  \E d \in dayFiles(s) : \E i \in DOMAIN disk[s][d].lines : disk[s][d].lines[i] = Bad

MemoryKnowsDisk ==
  up => \A s \in Sensor \ injured :
          LET all == Archive(s)
              newest == IF all = << >> THEN 0 ELSE Last(all)
          IN  /\ newest <= lastTimestamps[s]
              /\ ~Swallowed(s) => newest = lastTimestamps[s]

(***************************************************************************)
(* What a running server reports as the oldest stored reading is the       *)
(* oldest on disk over all sensors, although only first lines are read.    *)
(***************************************************************************)
OldestKnowsDisk ==
  up /\ injured = {} =>
    LET stored == UNION {ToSet(Archive(s)) : s \in Sensor}
    IN  IF stored = {} THEN oldestStored = None
        ELSE oldestStored \in stored /\ \A t \in stored : oldestStored <= t

(***************************************************************************)
(* A range query finds every readable reading in the range and no other,   *)
(* although it opens only the files its days name.                         *)
(***************************************************************************)
RangeFindsAll ==
  \A s \in Sensor :
    LET all == Archive(s)
    IN  \A from, to \in Time : readRange(s, from, to) = Selected(all, from .. to)

(***************************************************************************)
(* A reading that can be read can be read ever after: no append, no kill   *)
(* and no write that throws, half way through a batch of several days or   *)
(* in the middle of a line, costs a reading stored before.  The one        *)
(* exception is a last line without its newline, which the next write is   *)
(* glued to.                                                               *)
(***************************************************************************)
StaysReadable ==
  [][\A s \in Sensor, d \in Day :
       LET before == readDayFile(s, d)
       IN  \A t \in ToSet(before) :
             t \in ToSet(readDayFile(s, d)') \/ disk[s][d].tail = t]_vars

(***************************************************************************)
(* What store.js says of append: dropping readings not newer than what is  *)
(* stored "keeps the history from gaining a second copy".                  *)
(***************************************************************************)
NoSecondCopy ==
  \A s \in Sensor :
    \A i, j \in DOMAIN Archive(s) : i # j => Archive(s)[i] # Archive(s)[j]

(***************************************************************************)
(* What store.js says of the store: "every reading pulled is appended to a *)
(* file and stays there".  The reading recorded as the newest stored is    *)
(* one of those in the files.                                              *)
(***************************************************************************)
RecordedReadingIsStored ==
  up => \A s \in Sensor : lastTimestamps[s] \in ToSet(Archive(s)) \cup {0}

(***************************************************************************)
(* The two summaries a running server keeps of its files, the newest       *)
(* reading of each sensor and the oldest of all, agree with the files,     *)
(* although initialize opens two of them only and append reads none.       *)
(***************************************************************************)
SummariesMatchDisk == TypeOK /\ MemoryKnowsDisk /\ OldestKnowsDisk
=============================================================================
