-------------------------- MODULE SensorTasksProofs --------------------------
(* Theorems about the sensor tasks, for any set of tasks driving any of the  *)
(* seven sensors and any number of failed transfers, brown-outs and polls:   *)
(* the bus and the register bank are in order whoever comes next, and        *)
(* nothing stale, unsettled or measured with the wrong settings is           *)
(* published.                                                                *)
(*                                                                           *)
(* The tasks share nothing but the bus, so what a task knows of its chip is  *)
(* stated of the two alone, by the place its program has come to.            *)
EXTENDS SensorTasks, TLAPS

--------------------------------------------------------------------------
(* Places in the read programs: the step that starts the conversion, the     *)
(* step that cannot be passed before the conversion is finished (a delay or  *)
(* a poll), and the step that fetches the result.  The SPS30 starts its      *)
(* measurement in the initialisation.                                        *)
StartAt == [sht41 |-> 2, scd41 |-> 2, sps30 |-> 1, as7343 |-> 4, opt4048 |-> 2, bmp581 |-> 3,
            bmm350 |-> 3]
GateAt == [sht41 |-> 3, scd41 |-> 4, sps30 |-> 2, as7343 |-> 8, opt4048 |-> 6, bmp581 |-> 4,
           bmm350 |-> 4]
FetchAt == [sht41 |-> 4, scd41 |-> 6, sps30 |-> 5, as7343 |-> 9, opt4048 |-> 7, bmp581 |-> 5,
            bmm350 |-> 5]

\* Between two of these places: past the first, not yet past the second.
Within(tk, first, last) == tk.phase = "read" /\ first < tk.step /\ tk.step <= last
\* Past a place.
Past(tk, place) == tk.phase = "read" /\ place < tk.step

\* Initialised, and no error since.
InService(tk) == tk.phase = "read" \/ (tk.phase = "top" /\ ~tk.needsInit)

\* Neither measuring nor with a flag up.
Quiet(c) == c.converting = "no" /\ ~c.ready

--------------------------------------------------------------------------
(* The warm-up: what is still to be discarded and what has been make up the  *)
(* whole of it since the last initialisation.                                *)
WarmsUp(k, tk) ==
    /\ tk.phase = "init" => tk.needsInit
    /\ tk.phase = "read" \/ ~tk.needsInit => tk.settled + tk.warmup >= Sensor(k).warmup

\* The AS7343 is in bank 0 from the last step of the identification to the next one.
InBankZero(k, tk, c) ==
    k = "as7343" /\ (InService(tk) \/ (tk.phase = "init" /\ tk.step >= 8)) => c.bank = 0

--------------------------------------------------------------------------
(* The settings.  In an initialisation without a brown-out, a setting is in  *)
(* force or its step is still to come; after it they all are.                *)
Programs(k, step, setting) ==
    step = setting \/ (k = "sps30" /\ step = "start" /\ setting = "measuring")

\* During an initialisation.
Programmed(k, tk, c) ==
    tk.phase = "init" /\ tk.upset = "no" =>
        \A s \in Sensor(k).settings :
            \/ s \in c.set
            \/ \E i \in tk.step..Len(Sensor(k).init) : Programs(k, Sensor(k).init[i], s)

\* After an initialisation.
Configured(k, tk, c) == InService(tk) /\ tk.upset = "no" => Sensor(k).settings \subseteq c.set

(* A chip that forgot its settings while its task was not initialising it    *)
(* never raises the flag its task waits for: the AS7343 does not measure     *)
(* without its power bit, the BMP581 has no flag to raise.                   *)
Forgetful == {"as7343", "bmp581"}

\* What such a chip looks like until the initialisation that follows.
NoticedLater(k, tk, c) ==
    k \in Forgetful /\ InService(tk) /\ tk.upset \in {"cycle", "earlier"} =>
        /\ c.set = {} /\ ~c.ready
        /\ k = "as7343" => c.converting = "no"
        /\ tk.upset = "earlier" => ~Past(tk, GateAt[k])

\* A start of the OPT4048 programs its control word again.
ControlWritten(k, tk, c) ==
    k = "opt4048" /\ Past(tk, StartAt[k]) => "control" \in c.set \/ tk.upset = "cycle"

\* The result that was fetched was measured with the settings, or nobody could tell.
FetchedConfigured(k, tk) ==
    Past(tk, FetchAt[k]) =>
        \/ tk.configured
        \/ tk.upset \in {"init", "cycle"}
        \/ k \in {"sps30", "bmm350"} /\ tk.upset = "earlier"

--------------------------------------------------------------------------
(* The result.  Before a conversion is started nothing an earlier one left   *)
(* behind can pass for its end: the OPT4048 and the BMP581 are quiet from    *)
(* their initialisation on, the AS7343 is made so by its stop and clear.     *)
OneShot == {"opt4048", "bmp581"}

\* When the chip is quiet, by the place of its task.
QuietBefore(k, tk, c) ==
    /\ k \in OneShot /\ InService(tk) =>
         IF Within(tk, StartAt[k], GateAt[k])
         THEN c.converting # "stale" /\ (c.converting = "this" => ~c.ready)
         ELSE Quiet(c)
    /\ k = "opt4048" /\ tk.phase = "init" /\ tk.step > 4 => c.converting = "no"
    /\ k = "opt4048" /\ tk.phase = "init" /\ tk.step > 5 => ~c.ready
    /\ k = "bmp581" /\ tk.phase = "init" /\ tk.step > 4 => Quiet(c)
    /\ k = "as7343" /\ tk.phase = "read" /\ tk.step = 3 => c.converting = "no"
    /\ k = "as7343" /\ tk.phase = "read" /\ tk.step = 4 => Quiet(c)

(* The gate opens on a result of this cycle only, which is then fetched.     *)
(* Flagged chips open it by the flag, the others by being done.              *)
Flagged == {"as7343", "opt4048", "bmp581"}

\* Whether the task would pass its gate now.
GateOpen(k, c) == IF k \in Flagged THEN c.ready ELSE c.converting = "no"

\* What the chip holds between start and gate, gate and fetch, and what was fetched.
FetchesFresh(k, tk, c) ==
    k # "sps30" =>
        /\ Within(tk, StartAt[k], GateAt[k]) =>
             \/ tk.upset = "cycle"
             \/ c.converting # "stale" /\ (GateOpen(k, c) => c.result = "new")
        /\ Within(tk, GateAt[k], FetchAt[k]) =>
             \/ tk.upset = "cycle"
             \/ c.converting # "stale" /\ c.result = "new"
        /\ Past(tk, FetchAt[k]) => tk.upset = "cycle" \/ tk.got = "new"

(* The SPS30 measures from a start to a stop, and has a new result whenever  *)
(* it raises its flag in between.                                            *)
MeasuresByItself(k, tk, c) ==
    k = "sps30" =>
        /\ "measuring" \in c.set => c.converting = "this" /\ (c.ready => c.result = "new")
        /\ "measuring" \notin c.set => c.converting = "no" /\ c.result # "new"
        /\ tk.upset = "no" /\ Within(tk, GateAt[k], FetchAt[k]) => c.result = "new"
        /\ tk.upset = "no" /\ Past(tk, FetchAt[k]) => tk.got = "new"

--------------------------------------------------------------------------
(* What a task and its chip keep to, and what it has published.              *)
TaskKnowsChip(k, tk, c) ==
    /\ WarmsUp(k, tk) /\ InBankZero(k, tk, c)
    /\ Programmed(k, tk, c) /\ Configured(k, tk, c) /\ NoticedLater(k, tk, c)
    /\ ControlWritten(k, tk, c) /\ FetchedConfigured(k, tk)
    /\ QuietBefore(k, tk, c) /\ FetchesFresh(k, tk, c) /\ MeasuresByItself(k, tk, c)

(* An initialisation knows of a brown-out only if it happened in it, and an  *)
(* error leaves nothing to know.                                             *)
PlaceInProgram(k, tk) ==
    /\ tk.phase = "init" => tk.step <= Len(Sensor(k).init) + 1 /\ tk.upset \in {"no", "init"}
    /\ tk.phase = "read" => tk.step <= Len(Sensor(k).read) + 1

\* The inductive invariant.
IInv ==
    /\ TypeOK /\ FailedTransferStaysLocal
    /\ PublishedIsFresh /\ PublishedAsConfigured /\ SettledBeforePublished
    /\ \A t \in Tasks : PlaceInProgram(kind[t], task[t]) /\ TaskKnowsChip(kind[t], task[t], chip[t])
--------------------------------------------------------------------------
\* The sets TypeOK draws the structured variables from, by name.
TaskStates == [phase : {"top", "init", "read"}, step : 1..20, needsInit : BOOLEAN,
               warmup : 0..6, polls : 0..PollLimit, doomed : BOOLEAN, settled : 0..6,
               upset : {"no", "init", "cycle", "earlier"}, got : Results, configured : BOOLEAN]
ChipStates == [set : SUBSET (Settings \cup {"measuring"}), bank : {0, 1},
               converting : {"no", "this", "stale"}, ready : BOOLEAN, result : Results]
Readings == {NoReading} \cup [published : {TRUE}, result : Results, settled : 0..6,
                              configured : BOOLEAN, upset : {"no", "init", "cycle", "earlier"}]
BusStates == [owner : Tasks \cup {NoTask}, wedged : BOOLEAN]

\* What the three properties say of one reading of a sensor of kind k.
GoodReading(k, o) ==
    o.published =>
        /\ \/ o.result = "new"
           \/ o.upset = "cycle"
           \/ k = "sps30" /\ o.upset # "no"
        /\ \/ o.configured
           \/ o.upset \in {"init", "cycle"}
           \/ k \in {"sps30", "bmm350"} /\ o.upset = "earlier"
        /\ o.settled >= Sensor(k).warmup

\* The whole invariant of one task, its chip and its reading, as one of three values.
Fits(k, tk, c, o) ==
    /\ tk \in TaskStates /\ c \in ChipStates /\ o \in Readings
    /\ PlaceInProgram(k, tk) /\ TaskKnowsChip(k, tk, c) /\ GoodReading(k, o)

\* IInv is that of every task next to what they share.
TaskByTask ==
    /\ kind \in [Tasks -> Kinds] /\ bus \in BusStates
    /\ task \in [Tasks -> TaskStates] /\ chip \in [Tasks -> ChipStates]
    /\ out \in [Tasks -> Readings]
    /\ faults \in 0..MaxFaults /\ upsets \in 0..MaxUpsets
    /\ FailedTransferStaysLocal
    /\ \A t \in Tasks : Fits(kind[t], task[t], chip[t], out[t])

\* The invariant speaks of each task, its chip and its reading by themselves.
LEMMA InvariantParts == IInv <=> TaskByTask
<1> USE DEF Published
<1>1. TypeOK <=> /\ kind \in [Tasks -> Kinds] /\ bus \in BusStates
                 /\ task \in [Tasks -> TaskStates] /\ chip \in [Tasks -> ChipStates]
                 /\ out \in [Tasks -> Readings]
                 /\ faults \in 0..MaxFaults /\ upsets \in 0..MaxUpsets
  BY Zenon DEF TypeOK, TaskStates, ChipStates, Readings, BusStates
<1>2. PublishedIsFresh /\ PublishedAsConfigured /\ SettledBeforePublished
        <=> \A t \in Tasks : GoodReading(kind[t], out[t])
  BY Zenon DEF PublishedIsFresh, PublishedAsConfigured, SettledBeforePublished, GoodReading
<1>3. TypeOK => \A t \in Tasks :
                    task[t] \in TaskStates /\ chip[t] \in ChipStates /\ out[t] \in Readings
  BY <1>1, Zenon
<1> QED
  BY <1>1, <1>2, <1>3, Zenon DEF IInv, Fits, TaskByTask

--------------------------------------------------------------------------
(* The tables of the seven sensors, written out.                             *)
LEMMA Sht41 ==
    /\ Sensor("sht41").init = <<"lock", "reset", "check", "unlock">>
    /\ Sensor("sht41").read = <<"lock", "start", "wait", "read", "unlock">>
    /\ Sensor("sht41").warmup = 2 /\ Sensor("sht41").settings = {}
  BY DEF Sensor, Sht41Task, Sht41Initialize, Sht41ReadOnce, Sht41SoftReset, Sht41SerialNumber,
         Sht41Measure, Held

\* The programs of the SCD41, spelled out.
LEMMA Scd41 ==
    /\ Sensor("scd41").init = <<"lock", "stop", "check", "check", "unlock">>
    /\ Sensor("scd41").read =
         <<"lock", "start", "unlock", "wait", "lock", "read", "unlock">>
    /\ Sensor("scd41").warmup = 1 /\ Sensor("scd41").settings = {}
  BY DEF Sensor, Scd41Task, Scd41Initialize, Scd41ReadOnce, Scd41RunInitChecks,
         Scd41StopPeriodicMeasurement, Scd41SerialNumber, Scd41Settings,
         Scd41StartSingleShot, Scd41ReadMeasurement, Held

\* The programs of the SPS30, spelled out.
LEMMA Sps30 ==
    /\ Sensor("sps30").init = <<"lock", "check", "stop", "start", "unlock">>
    /\ Sensor("sps30").read = <<"lock", "poll", "unlock", "lock", "read", "unlock">>
    /\ Sensor("sps30").warmup = 6 /\ Sensor("sps30").settings = {"measuring"}
  BY DEF Sensor, Sps30Task, Sps30Initialize, Sps30ReadOnce, Sps30SerialNumber,
         Sps30StopMeasurement, Sps30StartMeasurement, Sps30IsDataReady,
         Sps30ReadMeasuredValues, Held

\* The programs of the AS7343, spelled out.
LEMMA As7343 ==
    /\ Sensor("as7343").init =
         <<"lock", "bank1", "auxid", "bank0", "bank1", "auxid", "bank0", "reset", "power",
           "gain", "time", "smux", "unlock">>
    /\ Sensor("as7343").read =
         <<"lock", "stop", "clear", "start", "unlock", "wait", "lock", "poll", "read",
           "stop", "unlock">>
    /\ Sensor("as7343").warmup = 1
    /\ Sensor("as7343").settings = {"power", "gain", "time", "smux"}
  BY DEF Sensor, As7343Task, As7343Initialize, As7343ReadOnce, As7343Identification,
         As7343Init, As7343Reset, As7343PowerOn, As7343SetGain, As7343SetIntegrationTime,
         As7343EnableAutoSmux, As7343StartMeasurement, As7343WaitForMeasurement,
         As7343ReadMeasurement, Held

\* The programs of the OPT4048, spelled out.
LEMMA Opt4048 ==
    /\ Sensor("opt4048").init = <<"lock", "check", "check", "control", "clear", "unlock">>
    /\ Sensor("opt4048").read =
         <<"lock", "start", "unlock", "wait", "lock", "poll", "read", "unlock">>
    /\ Sensor("opt4048").warmup = 1 /\ Sensor("opt4048").settings = {"control"}
  BY DEF Sensor, Opt4048Task, Opt4048Initialize, Opt4048ReadOnce, Opt4048DeviceId,
         Opt4048Configure, Opt4048Flags, Opt4048Init, Opt4048StartMeasurement,
         Opt4048WaitForMeasurement, Opt4048ReadMeasurement, Held

\* The programs of the BMP581, spelled out.
LEMMA Bmp581 ==
    /\ Sensor("bmp581").init =
         <<"lock", "check", "check", "reset", "check", "check", "stop", "osr", "iir", "dsp",
           "drdy", "unlock">>
    /\ Sensor("bmp581").read = <<"lock", "clear", "start", "poll", "read", "unlock">>
    /\ Sensor("bmp581").warmup = 2
    /\ Sensor("bmp581").settings = {"osr", "iir", "dsp", "drdy"}
  BY DEF Sensor, Bmp581Task, Bmp581Initialize, Bmp581ReadOnce, Bmp581Identification,
         Bmp581Reset, Bmp581CheckNvmReady, Bmp581Standby, Bmp581Configure, Bmp581Init,
         Bmp581Measure, Held

\* The programs of the BMM350, spelled out.
LEMMA Bmm350 ==
    /\ Sensor("bmm350").init =
         <<"lock", "reset", "check", "check", "command", "command", "axes", "rate",
           "command", "unlock">>
    /\ Sensor("bmm350").read = <<"lock", "command", "start", "wait", "read", "unlock">>
    /\ Sensor("bmm350").warmup = 1 /\ Sensor("bmm350").settings = {"axes", "rate"}
  BY DEF Sensor, Bmm350Task, Bmm350Initialize, Bmm350ReadOnce, Bmm350SoftReset,
         Bmm350ReadOtp, Bmm350PowerOffOtp, Bmm350MagneticReset, Bmm350SetAxes,
         Bmm350SetDataRate, Bmm350SetDataReadyStatus, Bmm350Configure, Bmm350Init,
         Bmm350SetPowerMode, Bmm350MeasureForced, Held

\* The program a task is in, of its kind and its phase.
ProgramOf(k, tk) == IF tk.phase = "init" THEN Sensor(k).init ELSE Sensor(k).read

(* The lengths of a sensor's two programs.                                   *)
Lengths(k, init, read) == Len(Sensor(k).init) = init /\ Len(Sensor(k).read) = read

(* Every program fits into the step counter.                                 *)
LEMMA ProgramLengths ==
    /\ Lengths("sht41", 4, 5)
    /\ Lengths("scd41", 5, 7)
    /\ Lengths("sps30", 5, 6)
    /\ Lengths("as7343", 13, 11)
    /\ Lengths("opt4048", 6, 8)
    /\ Lengths("bmp581", 12, 6)
    /\ Lengths("bmm350", 10, 6)
<1>1. Lengths("sht41", 4, 5)
  BY Sht41 DEF Lengths
<1>2. Lengths("scd41", 5, 7)
  BY Scd41 DEF Lengths
<1>3. Lengths("sps30", 5, 6)
  BY Sps30 DEF Lengths
<1>4. Lengths("as7343", 13, 11)
  BY As7343 DEF Lengths
<1>5. Lengths("opt4048", 6, 8)
  BY Opt4048 DEF Lengths
<1>6. Lengths("bmp581", 12, 6)
  BY Bmp581 DEF Lengths
<1>7. Lengths("bmm350", 10, 6)
  BY Bmm350 DEF Lengths
<1> QED
  BY <1>1, <1>2, <1>3, <1>4, <1>5, <1>6, <1>7

(* Every program takes the bus first, and no warm-up is longer than six.     *)
LEMMA ProgramsLockFirst ==
    \A k \in Kinds : /\ Sensor(k).init[1] = "lock" /\ Sensor(k).read[1] = "lock"
                     /\ Sensor(k).warmup \in 0..6
  BY Sht41, Scd41, Sps30, As7343, Opt4048, Bmp581, Bmm350 DEF Kinds

(* Only the AS7343 identifies itself in bank 1.                              *)
NeverAuxid(k) ==
    /\ \A i \in 1..Len(Sensor(k).init) : Sensor(k).init[i] # "auxid"
    /\ \A i \in 1..Len(Sensor(k).read) : Sensor(k).read[i] # "auxid"

\* No other sensor has the step that leaves bank 0.
LEMMA OnlyAs7343Identifies == \A k \in Kinds \ {"as7343"} : NeverAuxid(k)
<1>1. NeverAuxid("sht41")
  <2>1. \A i \in 1..4 : Sensor("sht41").init[i] # "auxid"
    BY Sht41
  <2>2. \A i \in 1..5 : Sensor("sht41").read[i] # "auxid"
    BY Sht41
  <2> QED
    BY <2>1, <2>2, ProgramLengths DEF NeverAuxid, Lengths
<1>2. NeverAuxid("scd41")
  <2>1. \A i \in 1..5 : Sensor("scd41").init[i] # "auxid"
    BY Scd41
  <2>2. \A i \in 1..7 : Sensor("scd41").read[i] # "auxid"
    BY Scd41
  <2> QED
    BY <2>1, <2>2, ProgramLengths DEF NeverAuxid, Lengths
<1>3. NeverAuxid("sps30")
  <2>1. \A i \in 1..5 : Sensor("sps30").init[i] # "auxid"
    BY Sps30
  <2>2. \A i \in 1..6 : Sensor("sps30").read[i] # "auxid"
    BY Sps30
  <2> QED
    BY <2>1, <2>2, ProgramLengths DEF NeverAuxid, Lengths
<1>4. NeverAuxid("opt4048")
  <2>1. \A i \in 1..6 : Sensor("opt4048").init[i] # "auxid"
    BY Opt4048
  <2>2. \A i \in 1..8 : Sensor("opt4048").read[i] # "auxid"
    BY Opt4048
  <2> QED
    BY <2>1, <2>2, ProgramLengths DEF NeverAuxid, Lengths
<1>5. NeverAuxid("bmp581")
  <2>1. \A i \in 1..12 : Sensor("bmp581").init[i] # "auxid"
    BY Bmp581
  <2>2. \A i \in 1..6 : Sensor("bmp581").read[i] # "auxid"
    BY Bmp581
  <2> QED
    BY <2>1, <2>2, ProgramLengths DEF NeverAuxid, Lengths
<1>6. NeverAuxid("bmm350")
  <2>1. \A i \in 1..10 : Sensor("bmm350").init[i] # "auxid"
    BY Bmm350
  <2>2. \A i \in 1..6 : Sensor("bmm350").read[i] # "auxid"
    BY Bmm350
  <2> QED
    BY <2>1, <2>2, ProgramLengths DEF NeverAuxid, Lengths
<1> QED
  BY <1>1, <1>2, <1>3, <1>4, <1>5, <1>6 DEF Kinds

(* What the proofs need of the program a task is in.                         *)
LEMMA CurrentProgram ==
    ASSUME NEW k \in Kinds, NEW tk
    PROVE  /\ Len(ProgramOf(k, tk)) \in 4..13
           /\ ProgramOf(k, tk)[1] = "lock"
           /\ \A i \in 1..Len(ProgramOf(k, tk)) :
                ProgramOf(k, tk)[i] = "auxid" => k = "as7343"
<1>1. Len(Sensor(k).init) \in 4..13 /\ Len(Sensor(k).read) \in 4..13
  BY ProgramLengths DEF Lengths, Kinds
<1>2. CASE k = "as7343"
  BY <1>1, <1>2, ProgramsLockFirst DEF ProgramOf
<1>3. CASE k # "as7343"
  BY <1>1, <1>3, ProgramsLockFirst, OnlyAs7343Identifies DEF ProgramOf, NeverAuxid
<1> QED
  BY <1>2, <1>3
--------------------------------------------------------------------------
(* A new cycle or a stop makes no result newer.                              *)
LEMMA OlderTyped ==
    /\ \A x \in Results : Older(x) \in Results /\ Older(x) # "new"
    /\ \A x \in {"no", "this", "stale"} :
         Older(x) \in {"no", "stale"} /\ (Older(x) = "no" <=> x = "no")
  BY DEF Older, Results

(* What the steps of a program do to a chip.                                 *)
LEMMA EffectTyped ==
    ASSUME NEW k \in Kinds, NEW c \in ChipStates, NEW step
    PROVE  Effect(k, step, c) \in ChipStates
<1>1. CASE step \in {"reset", "bank1", "bank0", "control", "clear", "read"}
  BY <1>1 DEF Effect, ChipStates, Settings, Results, PowerOnChip
<1>2. CASE step \in Settings \ {"control"}
  <2>1. Effect(k, step, c) = [c EXCEPT !.set = @ \cup {step}]
    BY <1>2 DEF Effect, Settings
  <2> QED
    BY <1>2, <2>1 DEF ChipStates
<1>3. CASE step = "start"
  <2>1. Effect(k, step, c) = Started(k, c)
    BY <1>3 DEF Effect, Settings
  <2>2. CASE k = "as7343" /\ "power" \notin c.set
    BY <2>1, <2>2 DEF Started
  <2>3. CASE k = "sps30"
    <3>1. Started(k, c) = [c EXCEPT !.set = @ \cup {"measuring"}, !.converting = "this",
                                    !.ready = FALSE]
      BY <2>3 DEF Started
    <3>2. c.set \cup {"measuring"} \in SUBSET (Settings \cup {"measuring"})
      BY DEF ChipStates
    <3> QED
      BY <2>1, <3>1, <3>2, ZenonT(30) DEF ChipStates
  <2>4. CASE k = "opt4048"
    <3>1. Started(k, c) = [c EXCEPT !.set = @ \cup {"control"}, !.converting = "this"]
      BY <2>4 DEF Started
    <3> QED
      BY <2>1, <3>1, ZenonT(30) DEF ChipStates, Settings
  <2>5. CASE k \in {"sht41", "scd41"}
    BY <2>1, <2>5 DEF Started, ChipStates
  <2>6. CASE k \notin {"sps30", "opt4048", "sht41", "scd41"} /\ (k = "as7343" => "power" \in c.set)
    BY <2>1, <2>6 DEF Started, ChipStates
  <2> QED
    BY <2>2, <2>3, <2>4, <2>5, <2>6
<1>4. CASE step = "stop"
  <2>1. Effect(k, step, c) = Stopped(k, c)
    BY <1>4 DEF Effect, Settings
  <2>2. Older(c.result) \in Results
    BY OlderTyped DEF ChipStates
  <2>3. CASE k = "sps30"
    <3>1. Stopped(k, c) = [c EXCEPT !.set = @ \ {"measuring"}, !.converting = "no",
                                    !.result = Older(@)]
      BY <2>3 DEF Stopped
    <3>2. c.set \ {"measuring"} \in SUBSET (Settings \cup {"measuring"})
      BY DEF ChipStates
    <3> QED
      BY <2>1, <2>2, <3>1, <3>2, ZenonT(30) DEF ChipStates
  <2>4. CASE k # "sps30"
    BY <2>1, <2>4 DEF Stopped, ChipStates
  <2> QED
    BY <2>3, <2>4
<1>5. CASE /\ step \notin {"reset", "bank1", "bank0", "control", "clear", "read", "start", "stop"}
           /\ step \notin Settings
  BY <1>5 DEF Effect
<1> QED
  BY <1>1, <1>2, <1>3, <1>4, <1>5

\* The part of the SPS30's invariant that does not ask where its task is.
SelfConsistent(k, c) ==
    k = "sps30" =>
        /\ "measuring" \in c.set => c.converting = "this" /\ (c.ready => c.result = "new")
        /\ "measuring" \notin c.set => c.converting = "no" /\ c.result # "new"

(* No step of its programs leaves the SPS30 with a flag for a result of an   *)
(* earlier measurement; it has no control word.                              *)
LEMMA EffectSelfConsistent ==
    ASSUME NEW k \in Kinds, NEW c \in ChipStates, NEW step, SelfConsistent(k, c),
           k = "sps30" => step # "control"
    PROVE  SelfConsistent(k, Effect(k, step, c))
<1> SUFFICES ASSUME k = "sps30"
             PROVE  SelfConsistent(k, Effect(k, step, c))
  BY DEF SelfConsistent
<1> USE DEF SelfConsistent
<1>1. CASE step \in {"reset", "bank1", "bank0", "clear", "read"}
  BY <1>1 DEF Effect, ChipStates, Settings, Results, PowerOnChip
<1>2. CASE step \in Settings
  <2>1. Effect(k, step, c) = [c EXCEPT !.set = @ \cup {step}]
    BY <1>2 DEF Effect, Settings
  <2>2. step # "measuring"
    BY <1>2 DEF Settings
  <2> QED
    BY <2>1, <2>2 DEF ChipStates
<1>3. CASE step = "start"
  <2>1. Effect(k, step, c) = [c EXCEPT !.set = @ \cup {"measuring"}, !.converting = "this",
                                       !.ready = FALSE]
    BY <1>3 DEF Effect, Settings, Started
  <2> QED
    BY <2>1, ZenonT(30) DEF ChipStates
<1>4. CASE step = "stop"
  <2>1. Effect(k, step, c) = [c EXCEPT !.set = @ \ {"measuring"}, !.converting = "no",
                                       !.result = Older(@)]
    BY <1>4 DEF Effect, Settings, Stopped
  <2> QED
    BY <2>1 DEF Older, ChipStates, Results
<1>5. CASE /\ step \notin {"reset", "bank1", "bank0", "clear", "read", "start", "stop"}
           /\ step \notin Settings
  BY <1>5 DEF Effect, Settings
<1> QED
  BY <1>1, <1>2, <1>3, <1>4, <1>5

--------------------------------------------------------------------------
(* What each kind of step of a task makes of its invariant.                  *)

\* After an error nothing is known but what a chip keeps to by itself.
LEMMA ErrorFits ==
    ASSUME NEW k \in Kinds, NEW tk, NEW c, NEW o, Fits(k, tk, c, o),
           NEW c2 \in ChipStates, SelfConsistent(k, c2)
    PROVE  Fits(k, [tk EXCEPT !.phase = "top", !.needsInit = TRUE], c2, o)
<1> DEFINE tk2 == [tk EXCEPT !.phase = "top", !.needsInit = TRUE]
<1>1. tk2 \in TaskStates /\ tk2.phase = "top" /\ tk2.needsInit
  BY DEF Fits, TaskStates
<1> HIDE DEF tk2
<1>2. PlaceInProgram(k, tk2) /\ WarmsUp(k, tk2)
  BY <1>1 DEF PlaceInProgram, WarmsUp, TaskStates
<1>3. TaskKnowsChip(k, tk2, c2)
  BY <1>1, <1>2
     DEF TaskKnowsChip, InBankZero, Programmed, Configured, NoticedLater, ControlWritten,
         FetchedConfigured, QuietBefore, FetchesFresh, MeasuresByItself, SelfConsistent,
         InService, Within, Past
<1> QED
  BY <1>1, <1>2, <1>3 DEF Fits, tk2

\* A brown-out: nothing is quieter than a chip that has just been switched on.
LEMMA UpsetFits ==
    ASSUME NEW k \in Kinds, NEW tk, NEW c, NEW o, Fits(k, tk, c, o)
    PROVE  Fits(k, [tk EXCEPT !.upset = CASE tk.phase = "init" -> "init"
                                          [] tk.phase = "read" -> "cycle"
                                          [] OTHER -> "earlier"], PowerOnChip, o)
<1> DEFINE u == CASE tk.phase = "init" -> "init"
                  [] tk.phase = "read" -> "cycle"
                  [] OTHER -> "earlier"
           tk2 == [tk EXCEPT !.upset = u]
<1>1. /\ tk \in TaskStates
      /\ u \in {"init", "cycle", "earlier"}
      /\ tk.phase = "init" => u = "init"
      /\ tk.phase = "read" => u = "cycle"
      /\ tk.phase = "top" => u = "earlier"
  BY DEF Fits, TaskStates
<1> HIDE DEF u
<1>2. /\ tk2 \in TaskStates /\ tk2.upset = u
      /\ tk2.phase = tk.phase /\ tk2.step = tk.step /\ tk2.needsInit = tk.needsInit
      /\ tk2.warmup = tk.warmup /\ tk2.settled = tk.settled /\ tk2.got = tk.got
      /\ tk2.configured = tk.configured
  BY <1>1 DEF TaskStates
<1> HIDE DEF tk2
<1>3. /\ PowerOnChip \in ChipStates /\ Quiet(PowerOnChip)
      /\ PowerOnChip.set = {} /\ PowerOnChip.bank = 0 /\ PowerOnChip.result = "none"
      /\ PowerOnChip.converting = "no" /\ ~PowerOnChip.ready
  BY DEF PowerOnChip, ChipStates, Results, Quiet
<1>4. PlaceInProgram(k, tk2) /\ WarmsUp(k, tk2)
  BY <1>1, <1>2 DEF Fits, PlaceInProgram, TaskKnowsChip, WarmsUp
<1>5. /\ InBankZero(k, tk2, PowerOnChip) /\ Programmed(k, tk2, PowerOnChip)
      /\ Configured(k, tk2, PowerOnChip) /\ NoticedLater(k, tk2, PowerOnChip)
      /\ ControlWritten(k, tk2, PowerOnChip) /\ FetchedConfigured(k, tk2)
  BY <1>1, <1>2, <1>3
     DEF InBankZero, Programmed, Configured, NoticedLater, ControlWritten,
         FetchedConfigured, InService, Past
<1>6. QuietBefore(k, tk2, PowerOnChip)
  BY <1>3 DEF QuietBefore
<1>7. FetchesFresh(k, tk2, PowerOnChip) /\ MeasuresByItself(k, tk2, PowerOnChip)
  BY <1>1, <1>2, <1>3 DEF FetchesFresh, MeasuresByItself, Within, Past
<1> QED
  BY <1>2, <1>3, <1>4, <1>5, <1>6, <1>7 DEF Fits, TaskKnowsChip, tk2, u
\* A step that is carried out stands in the program, and the next no further than behind it.
LEMMA StepInProgram ==
    ASSUME NEW i \in 1..20, NEW n \in Nat, i <= n
    PROVE  i \in 1..n /\ i + 1 <= n + 1
  OBVIOUS

\* What is past the end of a program is past every place of it.
LEMMA Beyond ==
    ASSUME NEW a \in Nat, NEW b \in Nat, NEW c \in Nat, a > b, c < b
    PROVE  a > c
  OBVIOUS

(* The order of the places in the read programs.                             *)
LEMMA PlacesInOrder ==
    \A k \in Kinds :
        /\ StartAt[k] \in 1..4 /\ GateAt[k] \in 2..8 /\ FetchAt[k] \in 4..9
        /\ StartAt[k] < GateAt[k] /\ GateAt[k] < FetchAt[k]
        /\ FetchAt[k] < Len(Sensor(k).read) /\ Len(Sensor(k).read) \in 5..11
<1>1. \A k \in Kinds :
         /\ StartAt[k] \in 1..4 /\ GateAt[k] \in 2..8 /\ FetchAt[k] \in 4..9
         /\ StartAt[k] < GateAt[k] /\ GateAt[k] < FetchAt[k]
  BY DEF Kinds, StartAt, GateAt, FetchAt
<1> DEFINE reads == [sht41 |-> 5, scd41 |-> 7, sps30 |-> 6, as7343 |-> 11, opt4048 |-> 8,
                     bmp581 |-> 6, bmm350 |-> 6]
<1>2. \A k \in Kinds : FetchAt[k] < reads[k] /\ reads[k] \in 5..11
  BY DEF Kinds, FetchAt
<1>3. \A k \in Kinds : Len(Sensor(k).read) = reads[k]
  <2>1. /\ reads["sht41"] = 5 /\ reads["scd41"] = 7 /\ reads["sps30"] = 6
        /\ reads["as7343"] = 11 /\ reads["opt4048"] = 8 /\ reads["bmp581"] = 6
        /\ reads["bmm350"] = 6
    OBVIOUS
  <2> HIDE DEF reads
  <2>2. /\ Len(Sensor("sht41").read) = 5 /\ Len(Sensor("scd41").read) = 7
        /\ Len(Sensor("sps30").read) = 6 /\ Len(Sensor("as7343").read) = 11
        /\ Len(Sensor("opt4048").read) = 8 /\ Len(Sensor("bmp581").read) = 6
        /\ Len(Sensor("bmm350").read) = 6
    BY ProgramLengths DEF Lengths
  <2> QED
    BY <2>1, <2>2 DEF Kinds
<1> HIDE DEF reads
<1> QED
  BY <1>1, <1>2, <1>3

(* What a new cycle leaves of a chip.                                        *)
LEMMA AgedFields ==
    ASSUME NEW k \in Kinds, NEW c \in ChipStates
    PROVE  /\ Aged(k, c) \in ChipStates
           /\ Aged(k, c).set = c.set /\ Aged(k, c).bank = c.bank
           /\ Aged(k, c).ready = c.ready
           /\ Aged(k, c).converting = "no" <=> c.converting = "no"
           /\ SelfConsistent(k, c) => SelfConsistent(k, Aged(k, c))
<1>1. CASE k = "sps30"
  BY <1>1 DEF Aged
<1>2. CASE k # "sps30"
  <2>1. /\ Older(c.result) \in Results
        /\ Older(c.converting) \in {"no", "this", "stale"}
        /\ Older(c.converting) = "no" <=> c.converting = "no"
    BY OlderTyped DEF ChipStates
  <2>2. Aged(k, c) = [c EXCEPT !.result = Older(c.result), !.converting = Older(c.converting)]
    BY <1>2 DEF Aged
  <2> QED
    BY <1>2, <2>1, <2>2 DEF ChipStates, SelfConsistent
<1> QED
  BY <1>1, <1>2

\* A read program begins, after an initialisation or after a cycle.
LEMMA CycleFits ==
    ASSUME NEW k \in Kinds, NEW tk \in TaskStates, NEW c \in ChipStates,
           tk.phase = "read", tk.step = 1, WarmsUp(k, tk),
           k = "as7343" => c.bank = 0,
           tk.upset = "no" => Sensor(k).settings \subseteq c.set,
           k \in Forgetful /\ tk.upset \in {"cycle", "earlier"} =>
               /\ c.set = {} /\ ~c.ready
               /\ k = "as7343" => c.converting = "no",
           k \in OneShot => Quiet(c),
           SelfConsistent(k, c)
    PROVE  Fits(k, tk, Aged(k, c), NoReading)
<1> DEFINE c2 == Aged(k, c)
<1>1. /\ c2 \in ChipStates /\ c2.set = c.set /\ c2.bank = c.bank /\ c2.ready = c.ready
      /\ c2.converting = "no" <=> c.converting = "no"
      /\ SelfConsistent(k, c2)
  BY AgedFields
<1> HIDE DEF c2
<1>2. /\ StartAt[k] \in 1..4 /\ GateAt[k] \in 2..8 /\ FetchAt[k] \in 4..9
      /\ Len(Sensor(k).read) >= 1
  BY PlacesInOrder
<1>3. /\ ~Past(tk, StartAt[k]) /\ ~Past(tk, GateAt[k]) /\ ~Past(tk, FetchAt[k])
      /\ ~Within(tk, StartAt[k], GateAt[k]) /\ ~Within(tk, GateAt[k], FetchAt[k])
  BY <1>2 DEF Past, Within
<1>4. PlaceInProgram(k, tk)
  BY <1>2 DEF PlaceInProgram
<1>5. /\ InBankZero(k, tk, c2) /\ Programmed(k, tk, c2) /\ Configured(k, tk, c2)
      /\ NoticedLater(k, tk, c2) /\ ControlWritten(k, tk, c2) /\ FetchedConfigured(k, tk)
  BY <1>1, <1>3
     DEF InBankZero, Programmed, Configured, NoticedLater, ControlWritten, FetchedConfigured
<1>6. QuietBefore(k, tk, c2)
  BY <1>1, <1>3 DEF QuietBefore, Quiet
<1>7. FetchesFresh(k, tk, c2) /\ MeasuresByItself(k, tk, c2)
  BY <1>1, <1>3 DEF FetchesFresh, MeasuresByItself, SelfConsistent
<1>8. NoReading \in Readings /\ GoodReading(k, NoReading)
  BY DEF NoReading, Readings, GoodReading
<1> QED
  BY <1>1, <1>4, <1>5, <1>6, <1>7, <1>8 DEF Fits, TaskKnowsChip, c2

\* A cycle ends: what it fetched is discarded or published.
LEMMA FinishFits ==
    ASSUME NEW k \in Kinds, NEW tk, NEW c, NEW o, Fits(k, tk, c, o),
           tk.phase = "read", tk.step > Len(Sensor(k).read),
           NEW w \in 0..6, w = IF tk.warmup > 0 THEN tk.warmup - 1 ELSE 0,
           NEW n \in 0..6,
           n = IF tk.settled < Sensor(k).warmup THEN tk.settled + 1 ELSE tk.settled
    PROVE  Fits(k, [tk EXCEPT !.phase = "top", !.needsInit = FALSE, !.warmup = w, !.settled = n],
                c, IF tk.warmup > 0 THEN NoReading
                   ELSE [published |-> TRUE, result |-> tk.got, settled |-> tk.settled,
                         configured |-> tk.configured, upset |-> tk.upset])
<1> DEFINE tk2 == [tk EXCEPT !.phase = "top", !.needsInit = FALSE, !.warmup = w, !.settled = n]
           o2 == IF tk.warmup > 0 THEN NoReading
                 ELSE [published |-> TRUE, result |-> tk.got, settled |-> tk.settled,
                       configured |-> tk.configured, upset |-> tk.upset]
<1>1. tk \in TaskStates /\ c \in ChipStates /\ InService(tk)
  BY DEF Fits, InService
<1>2. /\ tk2 \in TaskStates /\ tk2.phase = "top" /\ ~tk2.needsInit /\ tk2.warmup = w
      /\ tk2.settled = n /\ tk2.upset = tk.upset
  BY <1>1 DEF TaskStates
<1> HIDE DEF tk2
<1>3. /\ Past(tk, GateAt[k]) /\ Past(tk, FetchAt[k]) /\ ~Within(tk, StartAt[k], GateAt[k])
      /\ tk.step > 4
  <2>1. /\ StartAt[k] \in Nat /\ GateAt[k] \in Nat /\ FetchAt[k] \in Nat
        /\ GateAt[k] < FetchAt[k] /\ FetchAt[k] < Len(Sensor(k).read)
        /\ Len(Sensor(k).read) \in Nat /\ FetchAt[k] >= 4
    BY PlacesInOrder
  <2>2. tk.step \in Nat
    <3>1. tk.step \in 1..20
      BY <1>1 DEF TaskStates
    <3> QED
      BY <3>1
  <2>3. tk.step > FetchAt[k]
    BY <2>1, <2>2, Beyond
  <2>4. tk.step > GateAt[k]
    BY <2>1, <2>2, <2>3, Beyond
  <2>5. tk.step > 4
    BY <2>1, <2>2, <2>3
  <2> QED
    BY <1>1, <2>1, <2>2, <2>3, <2>4, <2>5 DEF Past, Within
<1>4. /\ InService(tk2) /\ ~Past(tk2, StartAt[k]) /\ ~Past(tk2, GateAt[k])
      /\ ~Past(tk2, FetchAt[k]) /\ ~Within(tk2, StartAt[k], GateAt[k])
      /\ ~Within(tk2, GateAt[k], FetchAt[k])
  BY <1>2 DEF InService, Past, Within
<1>5. PlaceInProgram(k, tk2) /\ WarmsUp(k, tk2)
  <2>1. tk.settled + tk.warmup >= Sensor(k).warmup
    BY DEF Fits, TaskKnowsChip, WarmsUp
  <2>2. n + w >= Sensor(k).warmup
    BY <1>1, <2>1, ProgramsLockFirst, SMTT(30) DEF TaskStates
  <2> QED
    BY <1>2, <2>2 DEF PlaceInProgram, WarmsUp
<1>6. /\ InBankZero(k, tk2, c) /\ Programmed(k, tk2, c) /\ Configured(k, tk2, c)
      /\ NoticedLater(k, tk2, c) /\ ControlWritten(k, tk2, c) /\ FetchedConfigured(k, tk2)
  BY <1>1, <1>2, <1>3, <1>4
     DEF Fits, TaskKnowsChip, InBankZero, Programmed, Configured, NoticedLater,
         ControlWritten, FetchedConfigured
<1>7. QuietBefore(k, tk2, c)
  BY <1>1, <1>2, <1>3, <1>4 DEF Fits, TaskKnowsChip, QuietBefore
<1>8. FetchesFresh(k, tk2, c) /\ MeasuresByItself(k, tk2, c)
  BY <1>4 DEF Fits, TaskKnowsChip, FetchesFresh, MeasuresByItself
<1>9. o2 \in Readings /\ GoodReading(k, o2)
  <2>1. CASE tk.warmup > 0
    BY <2>1 DEF NoReading, Readings, GoodReading
  <2>2. CASE ~(tk.warmup > 0)
    <3>1. /\ o2 \in Readings /\ o2.published /\ o2.result = tk.got
          /\ o2.settled = tk.settled /\ o2.configured = tk.configured /\ o2.upset = tk.upset
      BY <1>1, <2>2 DEF Readings, TaskStates
    <3>2. tk.settled >= Sensor(k).warmup
      BY <1>1, <2>2, ProgramsLockFirst DEF Fits, TaskKnowsChip, WarmsUp, TaskStates
    <3>3. /\ k # "sps30" => tk.upset = "cycle" \/ tk.got = "new"
          /\ k = "sps30" => (tk.upset = "no" => tk.got = "new")
      BY <1>3 DEF Fits, TaskKnowsChip, FetchesFresh, MeasuresByItself
    <3>4. \/ tk.configured
          \/ tk.upset \in {"init", "cycle"}
          \/ k \in {"sps30", "bmm350"} /\ tk.upset = "earlier"
      BY <1>3 DEF Fits, TaskKnowsChip, FetchedConfigured
    <3> HIDE DEF o2
    <3> QED
      BY <3>1, <3>2, <3>3, <3>4 DEF GoodReading
  <2> QED
    BY <2>1, <2>2
<1> QED
  BY <1>1, <1>2, <1>5, <1>6, <1>7, <1>8, <1>9 DEF Fits, TaskKnowsChip, tk2, o2

\* A conversion ends, whatever its task is doing.
LEMMA ConvertFits ==
    ASSUME NEW k \in Kinds, NEW tk, NEW c, NEW o, Fits(k, tk, c, o), c.converting # "no"
    PROVE  Fits(k, tk, [c EXCEPT !.result = IF c.converting = "this" THEN "new" ELSE "old",
                                 !.ready = k = "bmp581" => "drdy" \in c.set,
                                 !.converting = IF k = "sps30" THEN @ ELSE "no"], o)
<1> DEFINE r == IF c.converting = "this" THEN "new" ELSE "old"
           f == k = "bmp581" => "drdy" \in c.set
           c2 == [c EXCEPT !.result = r, !.ready = f,
                           !.converting = IF k = "sps30" THEN @ ELSE "no"]
<1>1. tk \in TaskStates /\ c \in ChipStates /\ r \in Results /\ f \in BOOLEAN
  BY DEF Fits, Results
<1>2. r = "new" <=> c.converting = "this"
  OBVIOUS
<1>3. f <=> (k = "bmp581" => "drdy" \in c.set)
  OBVIOUS
<1> HIDE DEF r, f
<1>4. /\ c2 \in ChipStates /\ c2.set = c.set /\ c2.bank = c.bank /\ c2.result = r
      /\ c2.ready = f
      /\ k # "sps30" => c2.converting = "no"
      /\ k = "sps30" => c2.converting = c.converting
  BY <1>1 DEF ChipStates
<1> HIDE DEF c2
<1>5. /\ InBankZero(k, tk, c2) /\ Programmed(k, tk, c2) /\ Configured(k, tk, c2)
      /\ ControlWritten(k, tk, c2)
  BY <1>4
     DEF Fits, TaskKnowsChip, InBankZero, Programmed, Configured, ControlWritten
<1>6. NoticedLater(k, tk, c2)
  BY <1>3, <1>4 DEF Fits, TaskKnowsChip, NoticedLater, Forgetful
<1>7. QuietBefore(k, tk, c2)
  BY <1>1, <1>4 DEF Fits, TaskKnowsChip, QuietBefore, Quiet, OneShot, TaskStates
<1>8. FetchesFresh(k, tk, c2)
  BY <1>1, <1>2, <1>4 DEF Fits, TaskKnowsChip, FetchesFresh, ChipStates
<1>9. MeasuresByItself(k, tk, c2)
  BY <1>1, <1>2, <1>4 DEF Fits, TaskKnowsChip, MeasuresByItself, ChipStates
<1> QED
  BY <1>1, <1>4, <1>5, <1>6, <1>7, <1>8, <1>9 DEF Fits, TaskKnowsChip, c2, r, f
--------------------------------------------------------------------------
(* Where the steps stand in the programs.                                    *)
ReadStep(k, i, step) ==
    /\ step \in {"lock", "unlock", "wait", "poll", "read", "start", "command", "clear", "stop"}
    /\ step = "read" <=> i = FetchAt[k]
    /\ IF k = "sps30" THEN step # "start" ELSE step = "start" <=> i = StartAt[k]
    /\ IF k \in Flagged \cup {"sps30"} THEN step = "poll" <=> i = GateAt[k]
       ELSE step # "poll" /\ (step = "wait" <=> i = GateAt[k])
    /\ step = "stop" <=> k = "as7343" /\ i \in {2, 10}
    /\ step = "clear" <=> (k = "as7343" /\ i = 3) \/ (k = "bmp581" /\ i = 2)

\* So for every step of the read program.
ReadSteps(k) == \A i \in 1..Len(Sensor(k).read) : ReadStep(k, i, Sensor(k).read[i])

\* What each step of the initialisation is, and what it must come before.
InitSteps(k) ==
    \A i \in 1..Len(Sensor(k).init) :
        LET step == Sensor(k).init[i] IN
        /\ step \notin {"wait", "poll", "read"}
        /\ step = "start" <=> k = "sps30" /\ i = 4
        /\ k = "sps30" => /\ step \notin Settings \cup {"measuring", "reset"}
                          /\ step = "stop" <=> i = 3
        /\ k = "as7343" => /\ step = "bank1" => i < 7
                           /\ i = 7 => step = "bank0"
                           /\ step = "reset" <=> i = 8
        /\ k = "opt4048" => /\ i = 4 <=> step = "control"
                            /\ i = 5 <=> step = "clear"
                            /\ step # "reset"
        /\ k = "bmp581" => (i = 4 <=> step = "reset")
        /\ k = "bmm350" => (i = 2 <=> step = "reset")

\* Which steps a read program has at which places.
LEMMA WhereReadSteps == \A k \in Kinds : ReadSteps(k)
<1>1. ReadSteps("sht41")
  <2>1. Len(Sensor("sht41").read) = 5
    BY ProgramLengths DEF Lengths
  <2> QED
    BY <2>1, Sht41 DEF ReadSteps, ReadStep, Flagged, Settings, StartAt, GateAt, FetchAt
<1>2. ReadSteps("scd41")
  <2>1. Len(Sensor("scd41").read) = 7
    BY ProgramLengths DEF Lengths
  <2> QED
    BY <2>1, Scd41 DEF ReadSteps, ReadStep, Flagged, Settings, StartAt, GateAt, FetchAt
<1>3. ReadSteps("sps30")
  <2>1. Len(Sensor("sps30").read) = 6
    BY ProgramLengths DEF Lengths
  <2> QED
    BY <2>1, Sps30 DEF ReadSteps, ReadStep, Flagged, Settings, StartAt, GateAt, FetchAt
<1>4. ReadSteps("as7343")
  <2>1. Len(Sensor("as7343").read) = 11
    BY ProgramLengths DEF Lengths
  <2> QED
    BY <2>1, As7343, SMTT(30) DEF ReadSteps, ReadStep, Flagged, Settings, StartAt, GateAt, FetchAt
<1>5. ReadSteps("opt4048")
  <2>1. Len(Sensor("opt4048").read) = 8
    BY ProgramLengths DEF Lengths
  <2> QED
    BY <2>1, Opt4048 DEF ReadSteps, ReadStep, Flagged, Settings, StartAt, GateAt, FetchAt
<1>6. ReadSteps("bmp581")
  <2>1. Len(Sensor("bmp581").read) = 6
    BY ProgramLengths DEF Lengths
  <2> QED
    BY <2>1, Bmp581, SMTT(30) DEF ReadSteps, ReadStep, Flagged, Settings, StartAt, GateAt, FetchAt
<1>7. ReadSteps("bmm350")
  <2>1. Len(Sensor("bmm350").read) = 6
    BY ProgramLengths DEF Lengths
  <2> QED
    BY <2>1, Bmm350 DEF ReadSteps, ReadStep, Flagged, Settings, StartAt, GateAt, FetchAt
<1> QED
  BY <1>1, <1>2, <1>3, <1>4, <1>5, <1>6, <1>7 DEF Kinds

\* Which steps an initialisation has at which places.
LEMMA WhereInitSteps == \A k \in Kinds : InitSteps(k)
<1>1. InitSteps("sht41")
  <2>1. Len(Sensor("sht41").init) = 4
    BY ProgramLengths DEF Lengths
  <2> QED
    BY <2>1, Sht41 DEF InitSteps, Flagged, Settings, StartAt, GateAt, FetchAt
<1>2. InitSteps("scd41")
  <2>1. Len(Sensor("scd41").init) = 5
    BY ProgramLengths DEF Lengths
  <2> QED
    BY <2>1, Scd41 DEF InitSteps, Flagged, Settings, StartAt, GateAt, FetchAt
<1>3. InitSteps("sps30")
  <2>1. Len(Sensor("sps30").init) = 5
    BY ProgramLengths DEF Lengths
  <2> QED
    BY <2>1, Sps30 DEF InitSteps, Flagged, Settings, StartAt, GateAt, FetchAt
<1>4. InitSteps("as7343")
  <2> DEFINE step(i) == Sensor("as7343").init[i]
  <2>1. Len(Sensor("as7343").init) = 13
    BY ProgramLengths DEF Lengths
  <2>2. \A i \in 1..13 : step(i) \notin {"wait", "poll", "read", "start"}
    BY As7343
  <2>3. \A i \in 1..13 : /\ step(i) = "bank1" => i < 7
                         /\ step(i) = "reset" => i = 8
    BY As7343
  <2>4. step(7) = "bank0" /\ step(8) = "reset"
    BY As7343
  <2> HIDE DEF step
  <2>5. \A i \in 1..13 : /\ step(i) \notin {"wait", "poll", "read", "start"}
                         /\ step(i) = "bank1" => i < 7
                         /\ i = 7 => step(i) = "bank0"
                         /\ step(i) = "reset" <=> i = 8
    BY <2>2, <2>3, <2>4
  <2> QED
    BY <2>1, <2>5 DEF InitSteps, step
<1>5. InitSteps("opt4048")
  <2>1. Len(Sensor("opt4048").init) = 6
    BY ProgramLengths DEF Lengths
  <2> QED
    BY <2>1, Opt4048 DEF InitSteps, Flagged, Settings, StartAt, GateAt, FetchAt
<1>6. InitSteps("bmp581")
  <2>1. Len(Sensor("bmp581").init) = 12
    BY ProgramLengths DEF Lengths
  <2> QED
    BY <2>1, Bmp581, SMTT(30) DEF InitSteps, Flagged, Settings, StartAt, GateAt, FetchAt
<1>7. InitSteps("bmm350")
  <2>1. Len(Sensor("bmm350").init) = 10
    BY ProgramLengths DEF Lengths
  <2> QED
    BY <2>1, Bmm350 DEF InitSteps, Flagged, Settings, StartAt, GateAt, FetchAt
<1> QED
  BY <1>1, <1>2, <1>3, <1>4, <1>5, <1>6, <1>7 DEF Kinds

(* What an initialisation forgets it programs again further down.            *)
ProgramsAfter(k, i) ==
    \A s \in Sensor(k).settings :
        \E j \in i + 1..Len(Sensor(k).init) : Programs(k, Sensor(k).init[j], s)

\* A step that loses the settings is followed by the steps that write all of them.
LEMMA ForgetsBeforeProgramming ==
    ASSUME NEW k \in Kinds, NEW i \in 1..Len(Sensor(k).init),
           \/ Sensor(k).init[i] = "reset"
           \/ k = "sps30" /\ Sensor(k).init[i] = "stop"
    PROVE  ProgramsAfter(k, i)
<1>1. CASE k \in {"sht41", "scd41"}
  BY <1>1, Sht41, Scd41 DEF ProgramsAfter
<1>2. CASE k = "sps30"
  <2>1. i = 3
    BY <1>2, WhereInitSteps DEF InitSteps
  <2>2. Programs(k, Sensor(k).init[4], "measuring")
    BY <1>2, Sps30 DEF Programs
  <2>3. 4 \in 3 + 1..Len(Sensor(k).init)
    <3>1. Len(Sensor(k).init) = 5
      BY <1>2, ProgramLengths DEF Lengths
    <3> QED
      BY <3>1
  <2> QED
    BY <1>2, <2>1, <2>2, <2>3, Sps30 DEF ProgramsAfter
<1>3. CASE k = "as7343"
  <2>1. i = 8
    BY <1>3, WhereInitSteps DEF InitSteps
  <2>2. /\ Programs(k, Sensor(k).init[9], "power") /\ Programs(k, Sensor(k).init[10], "gain")
        /\ Programs(k, Sensor(k).init[11], "time") /\ Programs(k, Sensor(k).init[12], "smux")
    BY <1>3, As7343 DEF Programs
  <2>3. {9, 10, 11, 12} \subseteq 8 + 1..Len(Sensor(k).init)
    <3>1. Len(Sensor(k).init) = 13
      BY <1>3, ProgramLengths DEF Lengths
    <3> QED
      BY <3>1
  <2> QED
    BY <1>3, <2>1, <2>2, <2>3, As7343 DEF ProgramsAfter
<1>4. CASE k = "opt4048"
  BY <1>4, WhereInitSteps DEF InitSteps
<1>5. CASE k = "bmp581"
  <2>1. i = 4
    BY <1>5, WhereInitSteps DEF InitSteps
  <2>2. /\ Programs(k, Sensor(k).init[8], "osr") /\ Programs(k, Sensor(k).init[9], "iir")
        /\ Programs(k, Sensor(k).init[10], "dsp") /\ Programs(k, Sensor(k).init[11], "drdy")
    BY <1>5, Bmp581 DEF Programs
  <2>3. {8, 9, 10, 11} \subseteq 4 + 1..Len(Sensor(k).init)
    <3>1. Len(Sensor(k).init) = 12
      BY <1>5, ProgramLengths DEF Lengths
    <3> QED
      BY <3>1
  <2> QED
    BY <1>5, <2>1, <2>2, <2>3, Bmp581 DEF ProgramsAfter
<1>6. CASE k = "bmm350"
  <2>1. i = 2
    BY <1>6, WhereInitSteps DEF InitSteps
  <2>2. Programs(k, Sensor(k).init[7], "axes") /\ Programs(k, Sensor(k).init[8], "rate")
    BY <1>6, Bmm350 DEF Programs
  <2>3. {7, 8} \subseteq 2 + 1..Len(Sensor(k).init)
    <3>1. Len(Sensor(k).init) = 10
      BY <1>6, ProgramLengths DEF Lengths
    <3> QED
      BY <3>1
  <2> QED
    BY <1>6, <2>1, <2>2, <2>3, Bmm350 DEF ProgramsAfter
<1> QED
  BY <1>1, <1>2, <1>3, <1>4, <1>5, <1>6 DEF Kinds

(* The SPS30 has no setting but that it measures.                            *)
LEMMA SettingsAreProgrammable ==
    /\ \A k \in Kinds \ {"sps30"} : Sensor(k).settings \subseteq Settings
    /\ Sensor("sps30").settings = {"measuring"}
  BY Sht41, Scd41, Sps30, As7343, Opt4048, Bmp581, Bmm350 DEF Kinds, Settings

--------------------------------------------------------------------------
(* What a step that goes through leaves of the chip: a poll that found the   *)
(* flag set clears it on two of them.                                        *)
AfterStep(k, step, c) ==
    IF step = "poll" THEN [c EXCEPT !.ready = @ /\ k \notin OneShot] ELSE Effect(k, step, c)

\* What each kind of step leaves of the chip.
StepLeaves(k, step, c, c2) ==
    /\ c2 \in ChipStates
    /\ step = "reset" => c2 = PowerOnChip
    /\ step # "reset" /\ ~(k = "sps30" /\ step = "stop") => c.set \subseteq c2.set
    /\ step \in Settings => step \in c2.set
    /\ k = "sps30" /\ step = "start" => "measuring" \in c2.set
    /\ k = "opt4048" /\ step = "start" => "control" \in c2.set
    /\ k \in Forgetful /\ step \notin Settings => c2.set \subseteq c.set
    /\ step \notin {"bank1", "bank0", "reset"} => c2.bank = c.bank
    /\ step = "bank0" => c2.bank = 0
    /\ step \notin {"reset", "control", "start", "stop"} => c2.converting = c.converting
    /\ step \in {"control", "stop"} => c2.converting = "no"
    /\ step = "start" => IF k = "as7343" /\ "power" \notin c.set THEN c2 = c
                         ELSE c2.converting = "this"
    /\ c2.ready => c.ready
    /\ step = "clear" => ~c2.ready
    /\ step = "poll" /\ k \in OneShot => ~c2.ready
    /\ step \notin {"reset", "stop"} => c2.result = c.result

(* Only a reset forgets settings, only a start begins a conversion, and no   *)
(* step raises a flag.                                                       *)
LEMMA AfterStepFields ==
    ASSUME NEW k \in Kinds, NEW c \in ChipStates, NEW step
    PROVE  StepLeaves(k, step, c, AfterStep(k, step, c))
<1> DEFINE c2 == AfterStep(k, step, c)
<1> SUFFICES StepLeaves(k, step, c, c2)
  OBVIOUS
<1> USE DEF StepLeaves
<1>1. c.ready \in BOOLEAN /\ c.set \subseteq Settings \cup {"measuring"}
  BY DEF ChipStates
<1>2. CASE step = "poll"
  <2>1. c2 = [c EXCEPT !.ready = c.ready /\ k \notin OneShot]
    BY <1>2 DEF AfterStep
  <2>2. /\ c2 \in ChipStates /\ c2.set = c.set /\ c2.bank = c.bank
        /\ c2.converting = c.converting /\ c2.result = c.result
        /\ c2.ready <=> c.ready /\ k \notin OneShot
    BY <1>1, <2>1 DEF ChipStates
  <2> HIDE DEF c2
  <2> QED
    BY <1>2, <2>2 DEF Settings
<1>3. CASE step # "poll"
  <2>1. c2 = Effect(k, step, c)
    BY <1>3 DEF AfterStep
  <2>2. c2 \in ChipStates
    BY <2>1, EffectTyped
  <2> HIDE DEF c2
  <2>3. CASE step = "reset"
    <3>1. c2 = PowerOnChip
      BY <2>1, <2>3 DEF Effect, Settings
    <3> QED
      BY <2>2, <2>3, <3>1 DEF PowerOnChip, Settings
  <2>4. CASE step \in {"bank1", "bank0", "clear"}
    <3>1. /\ c2.set = c.set /\ c2.converting = c.converting /\ c2.result = c.result
          /\ step = "bank0" => c2.bank = 0
          /\ step = "clear" => c2.bank = c.bank /\ ~c2.ready
          /\ c2.ready => c.ready
      BY <2>1, <2>4 DEF Effect, ChipStates, Settings
    <3> QED
      BY <2>2, <2>4, <3>1 DEF Settings
  <2>5. CASE step = "read"
    <3>1. /\ c2.set = c.set /\ c2.converting = c.converting /\ c2.result = c.result
          /\ c2.bank = c.bank /\ (c2.ready => c.ready)
      BY <2>1, <2>5 DEF Effect, ChipStates, Settings
    <3> QED
      BY <2>2, <2>5, <3>1 DEF Settings
  <2>6. CASE step \in Settings
    <3>1. CASE step = "control"
      <4>1. /\ c2.set = c.set \cup {step} /\ c2.converting = "no" /\ c2.result = c.result
            /\ c2.bank = c.bank /\ c2.ready = c.ready
        BY <2>1, <3>1 DEF Effect, ChipStates
      <4> QED
        BY <2>2, <2>6, <3>1, <4>1
    <3>2. CASE step # "control"
      <4>1. c2 = [c EXCEPT !.set = @ \cup {step}]
        BY <2>1, <2>6, <3>2 DEF Effect, Settings
      <4>2. /\ c2.set = c.set \cup {step} /\ c2.converting = c.converting
            /\ c2.result = c.result /\ c2.bank = c.bank /\ c2.ready = c.ready
        BY <4>1 DEF ChipStates
      <4>3. step \notin {"reset", "start", "stop", "bank1", "bank0", "clear", "poll"}
        BY <2>6 DEF Settings
      <4> QED
        BY <2>2, <2>6, <3>2, <4>2, <4>3
    <3> QED
      BY <3>1, <3>2
  <2>7. CASE step = "start"
    <3>1. c2 = Started(k, c)
      BY <2>1, <2>7 DEF Effect, Settings
    <3>0. step \notin Settings
      BY <2>7 DEF Settings
    <3>2. CASE k = "as7343" /\ "power" \notin c.set
      <4>1. c2 = c
        BY <3>1, <3>2 DEF Started
      <4> QED
        BY <2>2, <2>7, <3>0, <3>2, <4>1
    <3>3. CASE k = "sps30"
      <4>1. /\ c2.set = c.set \cup {"measuring"} /\ c2.converting = "this"
            /\ c2.result = c.result /\ c2.bank = c.bank /\ ~c2.ready
        BY <3>1, <3>3 DEF Started, ChipStates
      <4> QED
        BY <2>2, <2>7, <3>0, <3>3, <4>1 DEF Forgetful
    <3>4. CASE k = "opt4048"
      <4>1. Started(k, c) = [c EXCEPT !.set = @ \cup {"control"}, !.converting = "this"]
        BY <3>4 DEF Started
      <4>2. /\ c2.set = c.set \cup {"control"} /\ c2.converting = "this"
            /\ c2.result = c.result /\ c2.bank = c.bank /\ c2.ready = c.ready
        BY <3>1, <4>1 DEF ChipStates
      <4> QED
        BY <2>2, <2>7, <3>0, <3>4, <4>2 DEF Forgetful
    <3>5. CASE k \notin {"sps30", "opt4048"} /\ ~(k = "as7343" /\ "power" \notin c.set)
      <4>1. /\ c2.set = c.set /\ c2.converting = "this" /\ c2.result = c.result
            /\ c2.bank = c.bank /\ (c2.ready => c.ready)
        BY <3>1, <3>5 DEF Started, ChipStates
      <4> QED
        BY <2>2, <2>7, <3>0, <3>5, <4>1
    <3> QED
      BY <3>2, <3>3, <3>4, <3>5
  <2>8. CASE step = "stop"
    <3>1. c2 = Stopped(k, c)
      BY <2>1, <2>8 DEF Effect, Settings
    <3>2. /\ k # "sps30" => c2.set = c.set
          /\ c2.set \subseteq c.set
          /\ c2.converting = "no" /\ c2.bank = c.bank /\ c2.ready = c.ready
      BY <3>1 DEF Stopped, ChipStates
    <3> QED
      BY <2>2, <2>8, <3>2 DEF Settings
  <2>9. CASE /\ step \notin {"reset", "bank1", "bank0", "clear", "read", "start", "stop"}
             /\ step \notin Settings
    <3>1. c2 = c
      BY <2>1, <2>9 DEF Effect, Settings
    <3> QED
      BY <1>3, <2>2, <2>9, <3>1 DEF Settings
  <2> QED
    BY <2>3, <2>4, <2>5, <2>6, <2>7, <2>8, <2>9
<1> QED
  BY <1>2, <1>3
--------------------------------------------------------------------------
(* One step of a program goes through: the task moves on and takes what a    *)
(* read fetched.  A delay ends when the conversion has, a poll when the flag *)
(* is set or, of the SPS30, when it does not measure.                        *)
Advances(k, step, tk, c, tk2) ==
    /\ tk.phase \in {"init", "read"} /\ tk.step <= Len(ProgramOf(k, tk))
    /\ step = ProgramOf(k, tk)[tk.step]
    /\ tk2 \in TaskStates
    /\ tk2.phase = tk.phase /\ tk2.step = tk.step + 1 /\ tk2.needsInit = tk.needsInit
    /\ tk2.warmup = tk.warmup /\ tk2.settled = tk.settled /\ tk2.upset = tk.upset
    /\ step = "read" => /\ tk2.got = c.result
                       /\ tk2.configured = (Sensor(k).settings \subseteq c.set)
    /\ step # "read" => tk2.got = tk.got /\ tk2.configured = tk.configured
    /\ step = "wait" /\ k \in {"sht41", "scd41", "bmm350"} => c.converting = "no"
    /\ step = "poll" => c.ready \/ (k = "sps30" /\ c.converting = "no")

\* In an initialisation.
LEMMA InitStepFits ==
    ASSUME NEW k \in Kinds, NEW step, NEW tk, NEW c, NEW o, NEW tk2, NEW c2,
           Fits(k, tk, c, o), Advances(k, step, tk, c, tk2), tk.phase = "init",
           StepLeaves(k, step, c, c2) \/ (k = "sps30" /\ step = "stop" /\ c2 = c),
           SelfConsistent(k, c2)
    PROVE  Fits(k, tk2, c2, o)
<1>1. /\ tk \in TaskStates /\ c \in ChipStates /\ c2 \in ChipStates /\ o \in Readings
      /\ tk2 \in TaskStates /\ tk2.phase = "init" /\ tk2.needsInit = tk.needsInit
      /\ tk2.step = tk.step + 1 /\ tk2.upset = tk.upset
      /\ tk2.warmup = tk.warmup /\ tk2.settled = tk.settled
      /\ step = Sensor(k).init[tk.step] /\ tk.step <= Len(Sensor(k).init)
  BY DEF Fits, Advances, StepLeaves, ProgramOf
<1>2. tk.step \in 1..20 /\ Len(Sensor(k).init) \in 4..13
  <2>1. tk.step \in 1..20
    BY <1>1 DEF TaskStates
  <2>2. Len(Sensor(k).init) \in 4..13
    BY ProgramLengths DEF Lengths, Kinds
  <2> QED
    BY <2>1, <2>2
<1>3. tk.step \in 1..Len(Sensor(k).init)
  <2>1. Len(Sensor(k).init) \in Nat
    BY <1>2
  <2> QED
    BY <1>1, <1>2, <2>1, StepInProgram
<1> DEFINE i == tk.step
<1>4. /\ step \notin {"wait", "poll", "read"}
      /\ step = "start" <=> k = "sps30" /\ i = 4
      /\ k = "sps30" => /\ step \notin Settings \cup {"measuring", "reset"}
                        /\ step = "stop" <=> i = 3
      /\ k = "as7343" => /\ step = "bank1" => i < 7
                         /\ i = 7 => step = "bank0"
                         /\ step = "reset" <=> i = 8
      /\ k = "opt4048" => /\ i = 4 <=> step = "control"
                          /\ i = 5 <=> step = "clear"
                          /\ step # "reset"
      /\ k = "bmp581" => (i = 4 <=> step = "reset")
      /\ k = "bmm350" => (i = 2 <=> step = "reset")
  BY <1>1, <1>3, WhereInitSteps DEF InitSteps
<1> HIDE DEF i
<1>5. k # "sps30" => StepLeaves(k, step, c, c2)
  OBVIOUS
<1>6. PlaceInProgram(k, tk2) /\ WarmsUp(k, tk2)
  <2>1. tk2.step <= Len(Sensor(k).init) + 1
    BY <1>1, <1>2, StepInProgram, SMTT(30)
  <2> QED
    BY <1>1, <2>1 DEF Fits, PlaceInProgram, TaskKnowsChip, WarmsUp
<1>7. ~InService(tk2) /\ \A place : ~Past(tk2, place)
  BY <1>1 DEF InService, Past
<1>8. \A first, last : ~Within(tk2, first, last)
  BY <1>1 DEF Within
<1>9. InBankZero(k, tk2, c2)
  <2> SUFFICES ASSUME k = "as7343", tk2.step >= 8
               PROVE  c2.bank = 0
    BY <1>7 DEF InBankZero
  <2>1. i \in 7..20 /\ (i >= 8 => c.bank = 0)
    BY <1>1, <1>2, SMTT(30) DEF i, Fits, TaskKnowsChip, InBankZero
  <2>2. StepLeaves(k, step, c, c2)
    BY <1>5
  <2>3. CASE i = 7
    BY <1>4, <2>2, <2>3 DEF StepLeaves
  <2>4. CASE i = 8
    BY <1>4, <2>2, <2>4 DEF StepLeaves, PowerOnChip
  <2>5. CASE i > 8
    <3>1. step \notin {"reset", "bank1"}
      BY <1>4, <2>1, <2>5
    <3> QED
      BY <2>1, <2>2, <2>5, <3>1 DEF StepLeaves
  <2> QED
    BY <2>1, <2>3, <2>4, <2>5
<1>10. Configured(k, tk2, c2) /\ NoticedLater(k, tk2, c2)
  BY <1>7 DEF Configured, NoticedLater
<1>11. ControlWritten(k, tk2, c2) /\ FetchedConfigured(k, tk2)
  BY <1>7 DEF ControlWritten, FetchedConfigured
<1>12. QuietBefore(k, tk2, c2)
  <2>1. ASSUME k = "opt4048"
        PROVE  /\ tk2.step > 4 => c2.converting = "no"
               /\ tk2.step > 5 => ~c2.ready
    <3>1. StepLeaves(k, step, c, c2) /\ step \notin {"reset", "start"}
      BY <1>4, <1>5, <2>1
    <3>2. i \in 1..20 /\ (i > 4 => c.converting = "no") /\ (i > 5 => ~c.ready)
      BY <1>1, <1>2, <2>1 DEF i, Fits, TaskKnowsChip, QuietBefore
    <3>3. i >= 4 => c2.converting = "no"
      BY <1>4, <2>1, <3>1, <3>2 DEF StepLeaves
    <3>4. i >= 5 => ~c2.ready
      BY <1>4, <2>1, <3>1, <3>2 DEF StepLeaves
    <3> QED
      BY <1>1, <3>2, <3>3, <3>4, SMTT(30) DEF i
  <2>2. ASSUME k = "bmp581"
        PROVE  tk2.step > 4 => Quiet(c2)
    <3>1. StepLeaves(k, step, c, c2) /\ step # "start"
      BY <1>4, <1>5, <2>2
    <3>2. i \in 1..20 /\ (i > 4 => Quiet(c))
      BY <1>1, <1>2, <2>2 DEF i, Fits, TaskKnowsChip, QuietBefore
    <3>3. i = 4 => Quiet(c2)
      BY <1>4, <2>2, <3>1 DEF StepLeaves, PowerOnChip, Quiet
    <3>4. i > 4 => Quiet(c2)
      BY <1>4, <2>2, <3>1, <3>2 DEF StepLeaves, Quiet
    <3> QED
      BY <1>1, <3>2, <3>3, <3>4, SMTT(30) DEF i
  <2> QED
    BY <1>1, <1>7, <2>1, <2>2 DEF QuietBefore
<1>13. FetchesFresh(k, tk2, c2) /\ MeasuresByItself(k, tk2, c2)
  BY <1>7, <1>8 DEF FetchesFresh, MeasuresByItself, SelfConsistent
<1>14. Programmed(k, tk2, c2)
  <2> SUFFICES ASSUME tk.upset = "no", NEW s \in Sensor(k).settings
               PROVE  \/ s \in c2.set
                      \/ \E j \in i + 1..Len(Sensor(k).init) :
                           Programs(k, Sensor(k).init[j], s)
    BY <1>1 DEF Programmed, i
  <2>1. CASE step = "reset" \/ (k = "sps30" /\ step = "stop")
    BY <1>1, <1>3, <2>1, ForgetsBeforeProgramming DEF ProgramsAfter, i
  <2>2. CASE ~(step = "reset" \/ (k = "sps30" /\ step = "stop"))
    <3>1. StepLeaves(k, step, c, c2)
      BY <2>2
    <3>2. c.set \subseteq c2.set
      BY <2>2, <3>1 DEF StepLeaves
    <3>3. PICK j \in i..Len(Sensor(k).init) :
             s \in c.set \/ Programs(k, Sensor(k).init[j], s)
      <4>1. \/ s \in c.set
            \/ \E j \in i..Len(Sensor(k).init) : Programs(k, Sensor(k).init[j], s)
        BY DEF Fits, TaskKnowsChip, Programmed, i
      <4>2. i \in i..Len(Sensor(k).init)
        BY <1>2, <1>3 DEF i
      <4> QED
        BY <4>1, <4>2
    <3>4. CASE j = i /\ Programs(k, step, s)
      <4>1. CASE k = "sps30"
        <5>1. s = "measuring" /\ step = "start"
          BY <1>4, <3>4, <4>1, SettingsAreProgrammable DEF Programs
        <5> QED
          BY <3>1, <4>1, <5>1 DEF StepLeaves
      <4>2. CASE k # "sps30"
        <5>1. step = s /\ s \in Settings
          BY <3>4, <4>2, SettingsAreProgrammable DEF Programs
        <5> QED
          BY <3>1, <5>1 DEF StepLeaves
      <4> QED
        BY <4>1, <4>2
    <3>5. CASE j # i
      <4>1. j \in i + 1..Len(Sensor(k).init)
        BY <1>2, <3>5, SMTT(30) DEF i
      <4> QED
        BY <3>2, <3>3, <4>1
    <3> QED
      BY <1>1, <3>2, <3>3, <3>4, <3>5 DEF i
  <2> QED
    BY <2>1, <2>2
<1> QED
  BY <1>1, <1>6, <1>9, <1>10, <1>11, <1>12, <1>13, <1>14 DEF Fits, TaskKnowsChip
\* In a cycle.
LEMMA ReadStepFits ==
    ASSUME NEW k \in Kinds, NEW step, NEW tk, NEW c, NEW o, NEW tk2, NEW c2,
           Fits(k, tk, c, o), Advances(k, step, tk, c, tk2), tk.phase = "read",
           StepLeaves(k, step, c, c2), SelfConsistent(k, c2)
    PROVE  Fits(k, tk2, c2, o)
<1>1. /\ tk \in TaskStates /\ c \in ChipStates /\ c2 \in ChipStates /\ o \in Readings
      /\ tk2 \in TaskStates /\ tk2.phase = "read" /\ tk2.needsInit = tk.needsInit
      /\ tk2.step = tk.step + 1 /\ tk2.upset = tk.upset
      /\ tk2.warmup = tk.warmup /\ tk2.settled = tk.settled
      /\ step = Sensor(k).read[tk.step] /\ tk.step <= Len(Sensor(k).read)
  BY DEF Fits, Advances, StepLeaves, ProgramOf
<1>2. /\ tk.step \in 1..20 /\ Len(Sensor(k).read) \in Nat
      /\ tk.step \in 1..Len(Sensor(k).read) /\ tk.step + 1 <= Len(Sensor(k).read) + 1
  <2>1. tk.step \in 1..20
    BY <1>1 DEF TaskStates
  <2>2. Len(Sensor(k).read) \in 5..11
    BY PlacesInOrder
  <2>3. Len(Sensor(k).read) \in Nat
    BY <2>2
  <2> QED
    BY <1>1, <2>1, <2>3, StepInProgram
<1> DEFINE i == tk.step
           S == StartAt[k]
           G == GateAt[k]
           F == FetchAt[k]
<1>3. S \in 1..4 /\ G \in 2..8 /\ F \in 4..9 /\ S < G /\ G < F /\ i \in 1..20
  BY <1>2, PlacesInOrder
<1>4. /\ step \in {"lock", "unlock", "wait", "poll", "read", "start", "command", "clear", "stop"}
      /\ step = "read" <=> i = F
      /\ IF k = "sps30" THEN step # "start" ELSE step = "start" <=> i = S
      /\ IF k \in Flagged \cup {"sps30"} THEN step = "poll" <=> i = G
         ELSE step # "poll" /\ (step = "wait" <=> i = G)
      /\ step = "stop" <=> k = "as7343" /\ i \in {2, 10}
      /\ step = "clear" <=> (k = "as7343" /\ i = 3) \/ (k = "bmp581" /\ i = 2)
  <2>1. ReadSteps(k)
    BY WhereReadSteps
  <2>2. ReadStep(k, i, step)
    BY <1>1, <1>2, <2>1 DEF ReadSteps
  <2> QED
    BY <2>2 DEF ReadStep
<1>5. step \notin Settings /\ step \notin {"reset", "bank1", "bank0"}
  BY <1>4 DEF Settings
<1>6. /\ c.set \subseteq c2.set
      /\ k = "opt4048" /\ i = S => "control" \in c2.set
      /\ k \in Forgetful => c2.set \subseteq c.set
      /\ c2.bank = c.bank
      /\ step \notin {"start", "stop"} => c2.converting = c.converting
      /\ step = "stop" => c2.converting = "no"
      /\ step = "start" => IF k = "as7343" /\ "power" \notin c.set THEN c2 = c
                           ELSE c2.converting = "this"
      /\ c2.ready => c.ready
      /\ step = "clear" => ~c2.ready
      /\ step = "poll" /\ k \in OneShot => ~c2.ready
      /\ step # "stop" => c2.result = c.result
  <2>1. step \notin Settings \cup {"control", "reset", "bank1", "bank0"}
    BY <1>5 DEF Settings
  <2>2. step = "stop" => k = "as7343"
    BY <1>4
  <2>3. /\ c.set \subseteq c2.set
        /\ k \in Forgetful => c2.set \subseteq c.set
        /\ c2.bank = c.bank
    BY <2>1, <2>2 DEF StepLeaves
  <2>4. k = "opt4048" /\ i = S => "control" \in c2.set
    BY <1>4 DEF StepLeaves
  <2>5. /\ step \notin {"start", "stop"} => c2.converting = c.converting
        /\ step = "stop" => c2.converting = "no"
        /\ step = "start" => IF k = "as7343" /\ "power" \notin c.set THEN c2 = c
                             ELSE c2.converting = "this"
        /\ c2.ready => c.ready
        /\ step = "clear" => ~c2.ready
        /\ step = "poll" /\ k \in OneShot => ~c2.ready
        /\ step # "stop" => c2.result = c.result
    BY <2>1 DEF StepLeaves
  <2> QED
    BY <2>3, <2>4, <2>5
<1>7. /\ \A first, last : Within(tk, first, last) <=> first < i /\ i <= last
      /\ \A first, last : Within(tk2, first, last) <=> first < i + 1 /\ i + 1 <= last
      /\ \A place : Past(tk, place) <=> place < i
      /\ \A place : Past(tk2, place) <=> place < i + 1
      /\ InService(tk) /\ InService(tk2)
  BY <1>1 DEF Within, Past, InService
<1>8. /\ i = F => tk2.got = c.result /\ tk2.configured = (Sensor(k).settings \subseteq c.set)
      /\ i # F => tk2.got = tk.got /\ tk2.configured = tk.configured
      /\ i = G => GateOpen(k, c) \/ (k = "sps30" /\ (c.ready \/ c.converting = "no"))
  <2>1. i = G /\ k \in Flagged => c.ready
    BY <1>4 DEF Advances, Flagged
  <2>2. i = G /\ k = "sps30" => c.ready \/ c.converting = "no"
    BY <1>4 DEF Advances
  <2>3. i = G /\ k \notin Flagged \cup {"sps30"} => c.converting = "no"
    BY <1>4 DEF Advances, Flagged, Kinds
  <2> QED
    BY <1>4, <2>1, <2>2, <2>3 DEF Advances, GateOpen
<1> HIDE DEF i, S, G, F
<1> DEFINE calm == \/ tk.upset = "cycle"
                   \/ c.converting # "stale" /\ (GateOpen(k, c) => c.result = "new")
<1>9. PlaceInProgram(k, tk2) /\ WarmsUp(k, tk2)
  <2>1. tk2.step <= Len(Sensor(k).read) + 1
    BY <1>1, <1>2
  <2> QED
    BY <1>1, <2>1 DEF Fits, PlaceInProgram, TaskKnowsChip, WarmsUp
<1>10. InBankZero(k, tk2, c2) /\ Programmed(k, tk2, c2) /\ Configured(k, tk2, c2)
  BY <1>1, <1>6, <1>7
     DEF Fits, TaskKnowsChip, InBankZero, Programmed, Configured
<1>11. NoticedLater(k, tk2, c2)
  <2> SUFFICES ASSUME k \in Forgetful, tk.upset \in {"cycle", "earlier"}
               PROVE  /\ c2.set = {} /\ ~c2.ready
                      /\ k = "as7343" => c2.converting = "no"
                      /\ tk.upset = "earlier" => ~(G < i + 1)
    BY <1>1, <1>7 DEF NoticedLater, G
  <2>1. /\ c.set = {} /\ ~c.ready
        /\ k = "as7343" => c.converting = "no"
        /\ tk.upset = "earlier" => ~(G < i)
    BY <1>7 DEF Fits, TaskKnowsChip, NoticedLater, G
  <2>2. tk.upset = "earlier" => ~(G < i + 1)
    <3>1. k \in Flagged
      BY DEF Forgetful, Flagged
    <3>2. i # G
      BY <1>8, <2>1, <3>1 DEF GateOpen, Flagged
    <3> QED
      BY <1>3, <2>1, <3>2
  <2>3. k = "as7343" => c2.converting = "no"
    BY <1>6, <2>1
  <2> QED
    BY <1>6, <2>1, <2>2, <2>3
<1>12. ControlWritten(k, tk2, c2)
  BY <1>1, <1>3, <1>6, <1>7 DEF Fits, TaskKnowsChip, ControlWritten, S
<1>13. FetchedConfigured(k, tk2)
  <2> SUFFICES ASSUME F < i + 1, tk.upset \notin {"init", "cycle"}
               PROVE  tk2.configured \/ (k \in {"sps30", "bmm350"} /\ tk.upset = "earlier")
    BY <1>1, <1>7 DEF FetchedConfigured, F
  <2>1. CASE i # F
    <3>1. F < i
      BY <1>3, <2>1
    <3> QED
      BY <1>7, <1>8, <2>1, <3>1 DEF Fits, TaskKnowsChip, FetchedConfigured, F
  <2>2. CASE i = F
    <3>1. CASE tk.upset = "no"
      BY <1>7, <1>8, <2>2, <3>1 DEF Fits, TaskKnowsChip, Configured
    <3>2. CASE tk.upset = "earlier"
      <4>1. CASE k \in {"sht41", "scd41"}
        BY <1>8, <2>2, <4>1, Sht41, Scd41
      <4>2. CASE k = "opt4048"
        <5>1. S < i
          BY <1>3, <2>2
        <5>2. "control" \in c.set
          BY <1>7, <3>2, <4>2, <5>1 DEF Fits, TaskKnowsChip, ControlWritten, S
        <5> QED
          BY <1>8, <2>2, <4>2, <5>2, Opt4048
      <4>3. CASE k \in Forgetful
        <5>1. G < i
          BY <1>3, <2>2
        <5> QED
          BY <1>7, <3>2, <4>3, <5>1 DEF Fits, TaskKnowsChip, NoticedLater, G
      <4> QED
        BY <3>2, <4>1, <4>2, <4>3 DEF Kinds, Forgetful
    <3> QED
      BY <1>1, <3>1, <3>2 DEF TaskStates
  <2> QED
    BY <2>1, <2>2
<1>14. QuietBefore(k, tk2, c2)
  <2>1. ASSUME k \in OneShot
        PROVE  IF S < i + 1 /\ i + 1 <= G
               THEN c2.converting # "stale" /\ (c2.converting = "this" => ~c2.ready)
               ELSE Quiet(c2)
    <3>1. IF S < i /\ i <= G
          THEN c.converting # "stale" /\ (c.converting = "this" => ~c.ready)
          ELSE Quiet(c)
      BY <1>7, <2>1 DEF Fits, TaskKnowsChip, QuietBefore, S, G
    <3>2. k \in Flagged /\ k # "as7343" /\ k # "sps30"
      BY <2>1 DEF OneShot, Flagged
    <3>3. step # "stop" /\ (step = "start" <=> i = S) /\ (step = "poll" <=> i = G)
      BY <1>4, <3>2
    <3>4. CASE i = S
      BY <1>3, <1>6, <3>1, <3>2, <3>3, <3>4 DEF Quiet
    <3>5. CASE S < i /\ i < G
      BY <1>3, <1>6, <3>1, <3>3, <3>5
    <3>6. CASE i = G
      <4>1. c.ready /\ c.converting = "no"
        <5>1. c.ready
          BY <1>8, <3>2, <3>6 DEF GateOpen
        <5> QED
          BY <1>1, <1>3, <3>1, <3>6, <5>1 DEF ChipStates
      <4>2. Quiet(c2)
        BY <1>3, <1>6, <2>1, <3>3, <3>6, <4>1 DEF Quiet
      <4> QED
        BY <1>3, <3>6, <4>2
    <3>7. CASE i < S \/ i > G
      <4>1. Quiet(c)
        BY <1>3, <3>1, <3>7
      <4>2. Quiet(c2)
        BY <1>3, <1>6, <3>3, <3>7, <4>1 DEF Quiet
      <4> QED
        BY <1>3, <3>7, <4>2
    <3> QED
      BY <1>3, <3>4, <3>5, <3>6, <3>7
  <2>2. ASSUME k = "as7343"
        PROVE  /\ tk2.step = 3 => c2.converting = "no"
               /\ tk2.step = 4 => Quiet(c2)
    <3>1. i = 2 => c2.converting = "no"
      BY <1>4, <1>6, <2>2
    <3>2. i = 3 => c.converting = "no"
      BY <1>1, <2>2 DEF Fits, TaskKnowsChip, QuietBefore, i
    <3>3. i = 3 => Quiet(c2)
      BY <1>4, <1>6, <2>2, <3>2 DEF Quiet
    <3>4. tk2.step = i + 1
      BY <1>1 DEF i
    <3> QED
      BY <1>3, <3>1, <3>3, <3>4
  <2> QED
    BY <1>1, <1>7, <2>1, <2>2 DEF QuietBefore, S, G
<1>15. FetchesFresh(k, tk2, c2)
  <2> SUFFICES ASSUME k # "sps30", tk.upset # "cycle"
               PROVE  /\ S < i + 1 /\ i + 1 <= G =>
                           /\ c2.converting # "stale"
                           /\ GateOpen(k, c2) => c2.result = "new"
                      /\ G < i + 1 /\ i + 1 <= F =>
                           c2.converting # "stale" /\ c2.result = "new"
                      /\ F < i + 1 => tk2.got = "new"
    BY <1>1, <1>7 DEF FetchesFresh, S, G, F
  <2>1. /\ S < i /\ i <= G => c.converting # "stale" /\ (GateOpen(k, c) => c.result = "new")
        /\ G < i /\ i <= F => c.converting # "stale" /\ c.result = "new"
        /\ F < i => tk.got = "new"
    BY <1>7 DEF Fits, TaskKnowsChip, FetchesFresh, S, G, F
  <2>2. CASE i < S
    BY <1>3, <2>2
  <2>3. CASE i = S
    <3>1. step = "start" /\ step # "poll"
      BY <1>4, <2>3
    <3>2. CASE k \in Flagged
      <4>1. Quiet(c)
        <5>1. CASE k \in OneShot
          BY <1>3, <1>7, <2>3, <5>1 DEF Fits, TaskKnowsChip, QuietBefore, S, G
        <5>2. CASE k = "as7343"
          <6>1. i = 4
            BY <2>3, <5>2 DEF S, StartAt
          <6> QED
            BY <1>1, <5>2, <6>1 DEF Fits, TaskKnowsChip, QuietBefore, i
        <5> QED
          BY <3>2, <5>1, <5>2 DEF Flagged, OneShot
      <4>2. ~c2.ready /\ c2.converting # "stale"
        BY <1>6, <3>1, <4>1 DEF Quiet
      <4> QED
        BY <1>3, <2>3, <3>2, <4>2 DEF GateOpen
    <3>3. CASE k \notin Flagged
      <4>1. c2.converting = "this"
        BY <1>6, <3>1, <3>3 DEF Flagged
      <4> QED
        BY <1>3, <2>3, <3>3, <4>1 DEF GateOpen
    <3> QED
      BY <3>2, <3>3
  <2>4. CASE S < i /\ i < F
    <3>1. step \notin {"start", "stop"}
      <4>1. step # "start"
        BY <1>3, <1>4, <2>4
      <4>2. k = "as7343" => S = 4 /\ F = 9
        BY DEF S, F, StartAt, FetchAt
      <4>3. step # "stop"
        BY <1>3, <1>4, <2>4, <4>2
      <4> QED
        BY <4>1, <4>3
    <3>2. c2.converting = c.converting /\ c2.result = c.result
      BY <1>6, <3>1
    <3>3. GateOpen(k, c2) => GateOpen(k, c)
      BY <1>6, <3>2 DEF GateOpen
    <3>4. i = G => GateOpen(k, c)
      BY <1>8
    <3> QED
      BY <1>3, <2>1, <2>4, <3>2, <3>3, <3>4
  <2>5. CASE i = F
    BY <1>3, <1>8, <2>1, <2>5
  <2>6. CASE F < i
    BY <1>3, <1>8, <2>1, <2>6
  <2> QED
    BY <1>3, <2>2, <2>3, <2>4, <2>5, <2>6
<1>16. MeasuresByItself(k, tk2, c2)
  <2> SUFFICES ASSUME k = "sps30", tk.upset = "no"
               PROVE  /\ G < i + 1 /\ i + 1 <= F => c2.result = "new"
                      /\ F < i + 1 => tk2.got = "new"
    BY <1>1, <1>7 DEF MeasuresByItself, SelfConsistent, G, F
  <2>1. c2.result = c.result
    BY <1>4, <1>6
  <2>2. "measuring" \in c.set
    BY <1>7, Sps30 DEF Fits, TaskKnowsChip, Configured
  <2>3. /\ c.converting = "this" /\ (c.ready => c.result = "new")
        /\ G < i /\ i <= F => c.result = "new"
        /\ F < i => tk.got = "new"
    BY <1>7, <2>2 DEF Fits, TaskKnowsChip, MeasuresByItself, G, F
  <2>4. i = G => c.ready
    <3>1. i = G => step = "poll"
      BY <1>4
    <3> QED
      BY <2>3, <3>1 DEF Advances
  <2> QED
    BY <1>3, <1>8, <2>1, <2>3, <2>4
<1> QED
  BY <1>1, <1>9, <1>10, <1>11, <1>12, <1>13, <1>14, <1>15, <1>16 DEF Fits, TaskKnowsChip
\* A flag is asked for only where a read program has its poll.
LEMMA WherePolls ==
    ASSUME NEW k \in Kinds, NEW tk, NEW c, NEW o, Fits(k, tk, c, o),
           tk.phase \in {"init", "read"}, tk.step <= Len(ProgramOf(k, tk)),
           ProgramOf(k, tk)[tk.step] = "poll"
    PROVE  tk.phase = "read" /\ tk.step = GateAt[k]
<1>1. tk.step \in 1..20
  BY DEF Fits, TaskStates
<1>2. tk.step \in 1..Len(ProgramOf(k, tk))
  <2>1. Len(ProgramOf(k, tk)) \in 4..13
    BY CurrentProgram
  <2>2. Len(ProgramOf(k, tk)) \in Nat
    BY <2>1
  <2> QED
    BY <1>1, <2>2, StepInProgram
<1>3. tk.phase = "read"
  <2>1. InitSteps(k)
    BY WhereInitSteps
  <2> SUFFICES ASSUME tk.phase = "init"
               PROVE  FALSE
    OBVIOUS
  <2>2. tk.step \in 1..Len(Sensor(k).init) /\ Sensor(k).init[tk.step] = "poll"
    BY <1>2 DEF ProgramOf
  <2> QED
    BY <2>1, <2>2 DEF InitSteps
<1>4. ReadStep(k, tk.step, "poll")
  <2>1. ReadSteps(k)
    BY WhereReadSteps
  <2>2. tk.step \in 1..Len(Sensor(k).read) /\ Sensor(k).read[tk.step] = "poll"
    BY <1>2, <1>3 DEF ProgramOf
  <2> QED
    BY <2>1, <2>2 DEF ReadSteps
<1>5. tk.step = GateAt[k]
  BY <1>4 DEF ReadStep
<1> QED
  BY <1>3, <1>5

\* The flag is not set: the driver asks again, the SPS30 task from its lock on.
LEMMA PollAgainFits ==
    ASSUME NEW k \in Kinds, NEW tk, NEW c, NEW o, Fits(k, tk, c, o),
           NEW p \in 0..PollLimit, NEW n,
           n = tk.step \/ (k = "sps30" /\ tk.phase = "read" /\ tk.step = 2 /\ n = 1)
    PROVE  Fits(k, [tk EXCEPT !.step = n, !.polls = p], c, o)
<1> DEFINE tk2 == [tk EXCEPT !.step = n, !.polls = p]
<1>0. tk \in TaskStates /\ n \in 1..20
  BY DEF Fits, TaskStates
<1>1. /\ tk2 \in TaskStates /\ tk2.phase = tk.phase /\ tk2.step = n
      /\ tk2.needsInit = tk.needsInit /\ tk2.warmup = tk.warmup /\ tk2.settled = tk.settled
      /\ tk2.upset = tk.upset /\ tk2.got = tk.got /\ tk2.configured = tk.configured
  BY <1>0 DEF TaskStates
<1> HIDE DEF tk2
<1>2. CASE n = tk.step
  <2>1. PlaceInProgram(k, tk2) /\ WarmsUp(k, tk2)
    BY <1>1, <1>2 DEF Fits, TaskKnowsChip, PlaceInProgram, WarmsUp
  <2>2. /\ InService(tk2) <=> InService(tk)
        /\ \A first, last : Within(tk2, first, last) <=> Within(tk, first, last)
        /\ \A place : Past(tk2, place) <=> Past(tk, place)
    BY <1>1, <1>2 DEF InService, Within, Past
  <2>3. /\ InBankZero(k, tk2, c) /\ Programmed(k, tk2, c) /\ Configured(k, tk2, c)
        /\ NoticedLater(k, tk2, c) /\ ControlWritten(k, tk2, c) /\ FetchedConfigured(k, tk2)
    BY <1>1, <1>2, <2>2
       DEF Fits, TaskKnowsChip, InBankZero, Programmed, Configured, NoticedLater,
           ControlWritten, FetchedConfigured
  <2>4. QuietBefore(k, tk2, c) /\ FetchesFresh(k, tk2, c) /\ MeasuresByItself(k, tk2, c)
    BY <1>1, <1>2, <2>2
       DEF Fits, TaskKnowsChip, QuietBefore, FetchesFresh, MeasuresByItself
  <2> QED
    BY <1>1, <2>1, <2>3, <2>4 DEF Fits, TaskKnowsChip, tk2
<1>3. CASE k = "sps30" /\ tk.phase = "read" /\ tk.step = 2 /\ n = 1
  <2>1. StartAt[k] = 1 /\ GateAt[k] = 2 /\ FetchAt[k] = 5 /\ Len(Sensor(k).read) = 6
    BY <1>3, ProgramLengths DEF StartAt, GateAt, FetchAt, Lengths
  <2>2. PlaceInProgram(k, tk2) /\ WarmsUp(k, tk2)
    BY <1>1, <1>3, <2>1 DEF Fits, TaskKnowsChip, PlaceInProgram, WarmsUp
  <2>3. /\ InService(tk2) /\ InService(tk)
        /\ ~Within(tk2, GateAt[k], FetchAt[k]) /\ ~Past(tk2, FetchAt[k])
    BY <1>1, <1>3, <2>1 DEF InService, Within, Past
  <2>4. /\ InBankZero(k, tk2, c) /\ Programmed(k, tk2, c) /\ Configured(k, tk2, c)
        /\ NoticedLater(k, tk2, c) /\ ControlWritten(k, tk2, c) /\ FetchedConfigured(k, tk2)
    BY <1>1, <1>3, <2>3
       DEF Fits, TaskKnowsChip, InBankZero, Programmed, Configured, NoticedLater,
           ControlWritten, FetchedConfigured, Forgetful
  <2>5. QuietBefore(k, tk2, c) /\ FetchesFresh(k, tk2, c) /\ MeasuresByItself(k, tk2, c)
    BY <1>1, <1>3, <2>3
       DEF Fits, TaskKnowsChip, QuietBefore, FetchesFresh, MeasuresByItself, OneShot
  <2> QED
    BY <1>1, <2>2, <2>4, <2>5 DEF Fits, TaskKnowsChip, tk2
<1> QED
  BY <1>2, <1>3

\* Every setting has its step in the initialisation.
LEMMA InitialisationPrograms == \A k \in Kinds : ProgramsAfter(k, 0)
<1> SUFFICES ASSUME NEW k \in Kinds
             PROVE  ProgramsAfter(k, 0)
  OBVIOUS
<1>1. ASSUME NEW i \in 1..Len(Sensor(k).init), ProgramsAfter(k, i)
      PROVE  ProgramsAfter(k, 0)
  <2>1. Len(Sensor(k).init) \in 4..13
    BY ProgramLengths DEF Lengths, Kinds
  <2>2. i + 1..Len(Sensor(k).init) \subseteq 0 + 1..Len(Sensor(k).init)
    BY <2>1
  <2> QED
    BY <1>1, <2>2 DEF ProgramsAfter
<1>2. CASE k \in {"sht41", "scd41"}
  BY <1>2, Sht41, Scd41 DEF ProgramsAfter
<1>3. CASE k = "opt4048"
  <2>1. Programs(k, Sensor(k).init[4], "control")
    BY <1>3, Opt4048 DEF Programs
  <2>2. 4 \in 0 + 1..Len(Sensor(k).init)
    <3>1. Len(Sensor(k).init) = 6
      BY <1>3, ProgramLengths DEF Lengths
    <3> QED
      BY <3>1
  <2> QED
    BY <1>3, <2>1, <2>2, Opt4048 DEF ProgramsAfter
<1>4. CASE k = "sps30"
  <2>1. 3 \in 1..Len(Sensor(k).init) /\ Sensor(k).init[3] = "stop"
    <3>1. Len(Sensor(k).init) = 5
      BY <1>4, ProgramLengths DEF Lengths
    <3> QED
      BY <1>4, <3>1, Sps30
  <2> QED
    BY <1>1, <1>4, <2>1, ForgetsBeforeProgramming
<1>5. CASE k = "as7343"
  <2>1. 8 \in 1..Len(Sensor(k).init) /\ Sensor(k).init[8] = "reset"
    <3>1. Len(Sensor(k).init) = 13
      BY <1>5, ProgramLengths DEF Lengths
    <3> QED
      BY <1>5, <3>1, As7343, Z3
  <2> QED
    BY <1>1, <2>1, ForgetsBeforeProgramming
<1>6. CASE k = "bmp581"
  <2>1. 4 \in 1..Len(Sensor(k).init) /\ Sensor(k).init[4] = "reset"
    <3>1. Len(Sensor(k).init) = 12
      BY <1>6, ProgramLengths DEF Lengths
    <3> QED
      BY <1>6, <3>1, Bmp581
  <2> QED
    BY <1>1, <2>1, ForgetsBeforeProgramming
<1>7. CASE k = "bmm350"
  <2>1. 2 \in 1..Len(Sensor(k).init) /\ Sensor(k).init[2] = "reset"
    <3>1. Len(Sensor(k).init) = 10
      BY <1>7, ProgramLengths DEF Lengths
    <3> QED
      BY <1>7, <3>1, Bmm350
  <2> QED
    BY <1>1, <2>1, ForgetsBeforeProgramming
<1> QED
  BY <1>2, <1>3, <1>4, <1>5, <1>6, <1>7 DEF Kinds

\* The poll counter starts within its limit.
LEMMA NoPollsYet == 0 \in 0..PollLimit
  BY SensorTasksAssumption

\* A pass of the loop begins with an initialisation.
LEMMA BeginInitFits ==
    ASSUME NEW k \in Kinds, NEW tk, NEW c, NEW o, Fits(k, tk, c, o),
           tk.phase = "top", tk.needsInit
    PROVE  Fits(k, [tk EXCEPT !.phase = "init", !.step = 1, !.polls = 0, !.doomed = FALSE,
                              !.upset = "no"], c, NoReading)
<1> DEFINE tk2 == [tk EXCEPT !.phase = "init", !.step = 1, !.polls = 0, !.doomed = FALSE,
                             !.upset = "no"]
<1>1. /\ tk2 \in TaskStates /\ tk2.phase = "init" /\ tk2.step = 1 /\ tk2.needsInit
      /\ tk2.upset = "no"
  <2>1. tk \in TaskStates /\ 1 \in 1..20
    BY DEF Fits
  <2> QED
    BY <2>1, NoPollsYet DEF TaskStates
<1> HIDE DEF tk2
<1>2. /\ ~InService(tk2)
      /\ \A first, last : ~Within(tk2, first, last)
      /\ \A place : ~Past(tk2, place)
  BY <1>1 DEF InService, Within, Past
<1>3. PlaceInProgram(k, tk2) /\ WarmsUp(k, tk2)
  <2>1. Len(Sensor(k).init) \in 4..13
    BY ProgramLengths DEF Lengths, Kinds
  <2>2. 1 <= Len(Sensor(k).init) + 1
    BY <2>1
  <2> QED
    BY <1>1, <2>2 DEF PlaceInProgram, WarmsUp
<1>4. Programmed(k, tk2, c)
  <2>1. \A s \in Sensor(k).settings :
          \E i \in 1..Len(Sensor(k).init) : Programs(k, Sensor(k).init[i], s)
    BY InitialisationPrograms DEF ProgramsAfter
  <2> QED
    BY <1>1, <2>1 DEF Programmed
<1>5. /\ InBankZero(k, tk2, c) /\ Configured(k, tk2, c) /\ NoticedLater(k, tk2, c)
      /\ ControlWritten(k, tk2, c) /\ FetchedConfigured(k, tk2)
  BY <1>1, <1>2 DEF InBankZero, Configured, NoticedLater, ControlWritten, FetchedConfigured
<1>6. QuietBefore(k, tk2, c) /\ FetchesFresh(k, tk2, c) /\ MeasuresByItself(k, tk2, c)
  BY <1>1, <1>2 DEF Fits, TaskKnowsChip, QuietBefore, FetchesFresh, MeasuresByItself
<1>7. NoReading \in Readings /\ GoodReading(k, NoReading)
  BY DEF NoReading, Readings, GoodReading
<1> QED
  BY <1>1, <1>3, <1>4, <1>5, <1>6, <1>7 DEF Fits, TaskKnowsChip, tk2

\* A pass of the loop begins with a cycle.
LEMMA BeginReadFits ==
    ASSUME NEW k \in Kinds, NEW tk, NEW c, NEW o, Fits(k, tk, c, o),
           tk.phase = "top", ~tk.needsInit,
           NEW u, u = IF tk.upset = "cycle" THEN "earlier" ELSE tk.upset
    PROVE  Fits(k, [tk EXCEPT !.phase = "read", !.step = 1, !.polls = 0, !.upset = u],
                Aged(k, c), NoReading)
<1> DEFINE tk2 == [tk EXCEPT !.phase = "read", !.step = 1, !.polls = 0, !.upset = u]
<1>1. /\ tk2 \in TaskStates /\ tk2.phase = "read" /\ tk2.step = 1
      /\ tk2.needsInit = tk.needsInit /\ tk2.warmup = tk.warmup /\ tk2.settled = tk.settled
      /\ tk2.upset = u /\ c \in ChipStates
  <2>1. tk \in TaskStates /\ c \in ChipStates /\ 1 \in 1..20
    BY DEF Fits
  <2>2. u \in {"no", "init", "cycle", "earlier"}
    BY <2>1 DEF TaskStates
  <2> QED
    BY <2>1, <2>2, NoPollsYet DEF TaskStates
<1> HIDE DEF tk2
<1>2. /\ InService(tk)
      /\ \A first, last : ~Within(tk, first, last)
  BY DEF InService, Within
<1>3. WarmsUp(k, tk2) /\ (k = "as7343" => c.bank = 0) /\ SelfConsistent(k, c)
  BY <1>1, <1>2
     DEF Fits, TaskKnowsChip, WarmsUp, InBankZero, MeasuresByItself, SelfConsistent
<1>4. u = "no" => Sensor(k).settings \subseteq c.set
  BY <1>2 DEF Fits, TaskKnowsChip, Configured
<1>5. k \in Forgetful /\ u \in {"cycle", "earlier"} =>
        /\ c.set = {} /\ ~c.ready
        /\ k = "as7343" => c.converting = "no"
  BY <1>2 DEF Fits, TaskKnowsChip, NoticedLater
<1>6. k \in OneShot => Quiet(c)
  BY <1>2 DEF Fits, TaskKnowsChip, QuietBefore
<1>7. Fits(k, tk2, Aged(k, c), NoReading)
  BY <1>1, <1>3, <1>4, <1>5, <1>6, CycleFits
<1> QED
  BY <1>7 DEF tk2

\* The initialisation went through, and the first cycle begins.
LEMMA InitialisedFits ==
    ASSUME NEW k \in Kinds, NEW tk, NEW c, NEW o, Fits(k, tk, c, o),
           tk.phase = "init", tk.step > Len(Sensor(k).init)
    PROVE  Fits(k, [tk EXCEPT !.phase = "read", !.step = 1, !.polls = 0,
                              !.warmup = Sensor(k).warmup, !.settled = 0],
                Aged(k, c), NoReading)
<1> DEFINE tk2 == [tk EXCEPT !.phase = "read", !.step = 1, !.polls = 0,
                             !.warmup = Sensor(k).warmup, !.settled = 0]
<1>0. Sensor(k).warmup \in 0..6
  BY ProgramsLockFirst
<1>1. /\ tk2 \in TaskStates /\ tk2.phase = "read" /\ tk2.step = 1
      /\ tk2.warmup = Sensor(k).warmup /\ tk2.settled = 0
      /\ tk2.upset = tk.upset /\ tk \in TaskStates /\ c \in ChipStates
  <2>1. tk \in TaskStates /\ c \in ChipStates /\ 1 \in 1..20 /\ 0 \in 0..6
    BY DEF Fits
  <2> QED
    BY <1>0, <2>1, NoPollsYet DEF TaskStates
<1> HIDE DEF tk2
<1>2. tk.step \in Nat /\ Len(Sensor(k).init) \in Nat
  <2>1. tk.step \in 1..20
    BY <1>1 DEF TaskStates
  <2>2. Len(Sensor(k).init) \in 4..13
    BY ProgramLengths DEF Lengths, Kinds
  <2> QED
    BY <2>1, <2>2
<1>3. WarmsUp(k, tk2)
  BY <1>0, <1>1, SMTT(30) DEF WarmsUp
<1>4. k = "as7343" => c.bank = 0
  <2> SUFFICES ASSUME k = "as7343"
               PROVE  c.bank = 0
    OBVIOUS
  <2>1. Len(Sensor(k).init) = 13
    BY ProgramLengths DEF Lengths
  <2>2. tk.step > 13
    BY <2>1, Zenon
  <2>3. tk.step >= 8
    BY <1>2, <2>2
  <2> QED
    BY <2>3 DEF Fits, TaskKnowsChip, InBankZero
<1>5. tk.upset = "no" => Sensor(k).settings \subseteq c.set
  <2> DEFINE n == Len(Sensor(k).init)
  <2>1. \A i \in tk.step..n : FALSE
    <3>1. n \in Nat /\ tk.step \in Nat /\ tk.step > n
      BY <1>2
    <3> HIDE DEF n
    <3> QED
      BY <3>1
  <2> QED
    BY <2>1 DEF Fits, TaskKnowsChip, Programmed
<1>6. tk.upset \in {"no", "init"}
  BY DEF Fits, PlaceInProgram
<1>7. k \in OneShot => Quiet(c)
  <2>1. CASE k = "opt4048"
    <3>1. Len(Sensor(k).init) = 6
      BY <2>1, ProgramLengths DEF Lengths
    <3>2. tk.step > 5 /\ tk.step > 4
      BY <1>2, <3>1
    <3> QED
      BY <2>1, <3>2 DEF Fits, TaskKnowsChip, QuietBefore, Quiet
  <2>2. CASE k = "bmp581"
    <3>1. Len(Sensor(k).init) = 12
      BY <2>2, ProgramLengths DEF Lengths
    <3>2. tk.step > 4
      BY <1>2, <3>1
    <3> QED
      BY <2>2, <3>2 DEF Fits, TaskKnowsChip, QuietBefore
  <2> QED
    BY <2>1, <2>2 DEF OneShot
<1>8. SelfConsistent(k, c)
  BY DEF Fits, TaskKnowsChip, MeasuresByItself, SelfConsistent
<1>9. Fits(k, tk2, Aged(k, c), NoReading)
  BY <1>1, <1>3, <1>4, <1>5, <1>6, <1>7, <1>8, CycleFits
<1> QED
  BY <1>9 DEF tk2
--------------------------------------------------------------------------
(* From one task to all of them.                                             *)

\* A step that goes through, in whichever program.
LEMMA StepFits ==
    ASSUME NEW k \in Kinds, NEW step, NEW tk, NEW c, NEW o, NEW tk2, NEW c2,
           Fits(k, tk, c, o), Advances(k, step, tk, c, tk2),
           StepLeaves(k, step, c, c2) \/ (k = "sps30" /\ step = "stop" /\ c2 = c),
           SelfConsistent(k, c2)
    PROVE  Fits(k, tk2, c2, o)
<1>1. CASE tk.phase = "init"
  BY <1>1, InitStepFits
<1>2. CASE tk.phase = "read"
  <2>1. tk.step \in 1..20 /\ tk.step <= Len(Sensor(k).read) /\ step = Sensor(k).read[tk.step]
    BY <1>2 DEF Fits, TaskStates, Advances, ProgramOf
  <2>2. Len(Sensor(k).read) \in Nat
    <3>1. Len(Sensor(k).read) \in 5..11
      BY PlacesInOrder
    <3> QED
      BY <3>1
  <2>3. ReadSteps(k) /\ tk.step \in 1..Len(Sensor(k).read)
    BY <2>1, <2>2, WhereReadSteps, StepInProgram
  <2>4. ~(k = "sps30" /\ step = "stop")
    BY <2>1, <2>3 DEF ReadSteps, ReadStep
  <2> QED
    BY <1>2, <2>4, ReadStepFits
<1> QED
  BY <1>1, <1>2 DEF Advances

\* The step a task is at: in its program, and not a control word of the SPS30.
LEMMA CurrentStep ==
    ASSUME NEW k \in Kinds, NEW tk, NEW c, NEW o, Fits(k, tk, c, o),
           tk.phase \in {"init", "read"}, tk.step <= Len(ProgramOf(k, tk))
    PROVE  /\ tk.step \in 1..13 /\ tk.step \in 1..Len(ProgramOf(k, tk))
           /\ k = "sps30" => ProgramOf(k, tk)[tk.step] # "control"
           /\ ProgramOf(k, tk)[tk.step] = "auxid" => k = "as7343"
<1>1. tk.step \in 1..20
  BY DEF Fits, TaskStates
<1>2. Len(ProgramOf(k, tk)) \in 4..13
  BY CurrentProgram
<1>3. tk.step \in 1..Len(ProgramOf(k, tk)) /\ tk.step \in 1..13
  <2> DEFINE n == Len(ProgramOf(k, tk))
  <2>1. n \in 4..13 /\ tk.step \in 1..20 /\ tk.step <= n
    BY <1>1, <1>2
  <2> HIDE DEF n
  <2>2. tk.step \in 1..n /\ tk.step \in 1..13
    BY <2>1, SMTT(30)
  <2> QED
    BY <2>2 DEF n
<1>4. k = "sps30" => ProgramOf(k, tk)[tk.step] # "control"
  <2> SUFFICES ASSUME k = "sps30"
               PROVE  ProgramOf(k, tk)[tk.step] # "control"
    OBVIOUS
  <2>1. CASE tk.phase = "init"
    <3>1. InitSteps(k) /\ tk.step \in 1..Len(Sensor(k).init)
      BY <1>3, <2>1, WhereInitSteps DEF ProgramOf
    <3>2. Sensor(k).init[tk.step] \notin Settings
      BY <3>1 DEF InitSteps
    <3> QED
      BY <2>1, <3>2 DEF ProgramOf, Settings
  <2>2. CASE tk.phase = "read"
    <3>1. ReadSteps(k) /\ tk.step \in 1..Len(Sensor(k).read)
      BY <1>3, <2>2, WhereReadSteps DEF ProgramOf
    <3>2. Sensor(k).read[tk.step] # "control"
      BY <3>1 DEF ReadSteps, ReadStep
    <3> QED
      BY <2>2, <3>2 DEF ProgramOf
  <2> QED
    BY <2>1, <2>2
<1>5. ProgramOf(k, tk)[tk.step] = "auxid" => k = "as7343"
  BY <1>3, CurrentProgram
<1> QED
  BY <1>3, <1>4, <1>5

\* The task variables after a step, with what a read fetched.
Moved(k, step, tk, c, d) ==
    [tk EXCEPT !.step = tk.step + 1, !.doomed = d,
               !.got = IF step = "read" THEN c.result ELSE tk.got,
               !.configured = IF step = "read" THEN Sensor(k).settings \subseteq c.set
                              ELSE tk.configured]

\* A task moves on by one step.
LEMMA MovesOn ==
    ASSUME NEW k \in Kinds, NEW step, NEW tk, NEW c, NEW o, Fits(k, tk, c, o),
           tk.phase \in {"init", "read"}, tk.step <= Len(ProgramOf(k, tk)),
           step = ProgramOf(k, tk)[tk.step], NEW d \in BOOLEAN,
           step = "wait" /\ k \in {"sht41", "scd41", "bmm350"} => c.converting = "no",
           step = "poll" => c.ready \/ (k = "sps30" /\ c.converting = "no")
    PROVE  Advances(k, step, tk, c, Moved(k, step, tk, c, d))
<1> DEFINE g == IF step = "read" THEN c.result ELSE tk.got
           b == IF step = "read" THEN Sensor(k).settings \subseteq c.set ELSE tk.configured
           tk2 == [tk EXCEPT !.step = tk.step + 1, !.doomed = d, !.got = g, !.configured = b]
<1>1. tk \in TaskStates /\ c \in ChipStates
  BY DEF Fits
<1>2. tk.step \in 1..13
  BY CurrentStep
<1>3. tk.step + 1 \in 1..20
  <2> DEFINE i == tk.step
  <2>1. i \in 1..13
    BY <1>2
  <2> HIDE DEF i
  <2>2. i + 1 \in 1..20
    BY <2>1
  <2> QED
    BY <2>2 DEF i
<1>4. g \in Results
  BY <1>1 DEF TaskStates, ChipStates
<1>5. b \in BOOLEAN
  BY <1>1, Zenon DEF TaskStates
<1>6. /\ step = "read" => g = c.result /\ b = (Sensor(k).settings \subseteq c.set)
      /\ step # "read" => g = tk.got /\ b = tk.configured
  BY Zenon
<1> HIDE DEF g, b
<1>7. /\ tk2 \in TaskStates /\ tk2.phase = tk.phase /\ tk2.step = tk.step + 1
      /\ tk2.needsInit = tk.needsInit /\ tk2.warmup = tk.warmup
      /\ tk2.settled = tk.settled /\ tk2.upset = tk.upset
      /\ tk2.got = g /\ tk2.configured = b
  BY <1>1, <1>3, <1>4, <1>5 DEF TaskStates
<1> HIDE DEF tk2
<1>8. Advances(k, step, tk, c, tk2)
  BY <1>6, <1>7 DEF Advances
<1> QED
  BY <1>8 DEF tk2, g, b, Moved

\* One task steps, the others keep what they know.
LEMMA OneTaskSteps ==
    ASSUME IInv, NEW t \in Tasks, NEW tk2, NEW c2, NEW o2, Fits(kind[t], tk2, c2, o2),
           kind' = kind, task' = [task EXCEPT ![t] = tk2], chip' = [chip EXCEPT ![t] = c2],
           out' = [out EXCEPT ![t] = o2],
           bus' \in BusStates,
           bus'.owner # NoTask /\ bus'.wedged => kind[bus'.owner] \in {"sps30", "as7343"},
           faults' \in 0..MaxFaults, upsets' \in 0..MaxUpsets
    PROVE  IInv'
<1>1. /\ kind \in [Tasks -> Kinds] /\ task \in [Tasks -> TaskStates]
      /\ chip \in [Tasks -> ChipStates] /\ out \in [Tasks -> Readings]
      /\ \A u \in Tasks : Fits(kind[u], task[u], chip[u], out[u])
  BY InvariantParts DEF TaskByTask
<1>2. tk2 \in TaskStates /\ c2 \in ChipStates /\ o2 \in Readings
  BY DEF Fits
<1>3. /\ kind' \in [Tasks -> Kinds] /\ task' \in [Tasks -> TaskStates]
      /\ chip' \in [Tasks -> ChipStates] /\ out' \in [Tasks -> Readings]
  BY <1>1, <1>2
<1>4. FailedTransferStaysLocal'
  BY DEF FailedTransferStaysLocal
<1>5. ASSUME NEW u \in Tasks
      PROVE  Fits(kind'[u], task'[u], chip'[u], out'[u])
  <2>1. CASE u = t
    <3>1. task'[u] = tk2 /\ chip'[u] = c2 /\ out'[u] = o2
      BY <1>1, <2>1
    <3> QED
      BY <2>1, <3>1
  <2>2. CASE u # t
    <3>1. task'[u] = task[u] /\ chip'[u] = chip[u] /\ out'[u] = out[u]
      BY <1>1, <2>2
    <3> QED
      BY <1>1, <3>1
  <2> QED
    BY <2>1, <2>2
<1>6. IInv' <=> TaskByTask'
  BY InvariantParts, PTL
<1> QED
  BY <1>3, <1>4, <1>5, <1>6, Zenon DEF TaskByTask

\* What a step of a task starts from.
LEMMA OneTask ==
    ASSUME IInv, NEW t \in Tasks
    PROVE  /\ kind \in [Tasks -> Kinds] /\ bus \in BusStates
           /\ task \in [Tasks -> TaskStates] /\ chip \in [Tasks -> ChipStates]
           /\ out \in [Tasks -> Readings]
           /\ faults \in 0..MaxFaults /\ upsets \in 0..MaxUpsets
           /\ kind[t] \in Kinds /\ Fits(kind[t], task[t], chip[t], out[t])
           /\ bus.owner # NoTask /\ bus.wedged => kind[bus.owner] \in {"sps30", "as7343"}
           /\ chip = [chip EXCEPT ![t] = chip[t]] /\ out = [out EXCEPT ![t] = out[t]]
           /\ task = [task EXCEPT ![t] = task[t]]
           /\ Program(t) = ProgramOf(kind[t], task[t])
           /\ SelfConsistent(kind[t], chip[t])
<1>1. /\ kind \in [Tasks -> Kinds] /\ bus \in BusStates
      /\ task \in [Tasks -> TaskStates] /\ chip \in [Tasks -> ChipStates]
      /\ out \in [Tasks -> Readings]
      /\ faults \in 0..MaxFaults /\ upsets \in 0..MaxUpsets
      /\ FailedTransferStaysLocal
      /\ Fits(kind[t], task[t], chip[t], out[t])
  BY InvariantParts DEF TaskByTask
<1>2. SelfConsistent(kind[t], chip[t])
  BY <1>1 DEF Fits, TaskKnowsChip, MeasuresByItself, SelfConsistent
<1>3. /\ chip = [chip EXCEPT ![t] = chip[t]] /\ out = [out EXCEPT ![t] = out[t]]
      /\ task = [task EXCEPT ![t] = task[t]]
  BY <1>1
<1>4. Program(t) = ProgramOf(kind[t], task[t])
  BY DEF Program, ProgramOf
<1> QED
  BY <1>1, <1>2, <1>3, <1>4 DEF FailedTransferStaysLocal
--------------------------------------------------------------------------
(* The actions.                                                              *)
LEMMA BeginKeeps ==
    ASSUME IInv, NEW t \in Tasks, Begin(t)
    PROVE  IInv'
<1> DEFINE k == kind[t]
           tk == task[t]
<1>1. k \in Kinds /\ Fits(k, tk, chip[t], out[t]) /\ tk.phase = "top"
  BY OneTask DEF Begin
<1>2. CASE tk.needsInit
  <2> DEFINE tk2 == [tk EXCEPT !.phase = "init", !.step = 1, !.polls = 0, !.doomed = FALSE,
                               !.upset = "no"]
  <2>1. Fits(k, tk2, chip[t], NoReading)
    BY <1>1, <1>2, BeginInitFits
  <2>2. /\ task' = [task EXCEPT ![t] = tk2] /\ out' = [out EXCEPT ![t] = NoReading]
        /\ chip' = [chip EXCEPT ![t] = chip[t]]
    BY <1>2, OneTask, ZenonT(30) DEF Begin
  <2> HIDE DEF tk2, tk, k
  <2> QED
    BY <2>1, <2>2, OneTask, OneTaskSteps DEF Begin, k
<1>3. CASE ~tk.needsInit
  <2> DEFINE u == IF tk.upset = "cycle" THEN "earlier" ELSE tk.upset
             tk2 == [tk EXCEPT !.phase = "read", !.step = 1, !.polls = 0, !.upset = u]
  <2>1. Fits(k, tk2, Aged(k, chip[t]), NoReading)
    BY <1>1, <1>3, BeginReadFits
  <2>2. /\ task' = [task EXCEPT ![t] = tk2] /\ out' = [out EXCEPT ![t] = NoReading]
        /\ chip' = [chip EXCEPT ![t] = Aged(k, chip[t])]
    BY <1>3, OneTask, ZenonT(30) DEF Begin, BeginRead
  <2> HIDE DEF tk2, tk, k
  <2> QED
    BY <2>1, <2>2, OneTask, OneTaskSteps DEF Begin, k
<1> QED
  BY <1>2, <1>3

\* The end of an initialisation keeps the invariant.
LEMMA InitialisedKeeps ==
    ASSUME IInv, NEW t \in Tasks, Initialised(t)
    PROVE  IInv'
<1> DEFINE k == kind[t]
           tk == task[t]
           tk2 == [tk EXCEPT !.phase = "read", !.step = 1, !.polls = 0,
                             !.warmup = Sensor(k).warmup, !.settled = 0]
<1>1. k \in Kinds /\ Fits(k, tk, chip[t], out[t]) /\ tk.phase = "init"
  BY OneTask DEF Initialised
<1>2. tk.step > Len(Sensor(k).init)
  BY <1>1 DEF Initialised, Program
<1>3. Fits(k, tk2, Aged(k, chip[t]), NoReading)
  BY <1>1, <1>2, InitialisedFits
<1>4. /\ task' = [task EXCEPT ![t] = tk2] /\ out' = [out EXCEPT ![t] = NoReading]
      /\ chip' = [chip EXCEPT ![t] = Aged(k, chip[t])]
  BY OneTask, ZenonT(30) DEF Initialised, BeginRead
<1>5. /\ bus' \in BusStates /\ kind' = kind
      /\ bus'.owner # NoTask /\ bus'.wedged => kind[bus'.owner] \in {"sps30", "as7343"}
      /\ faults' \in 0..MaxFaults /\ upsets' \in 0..MaxUpsets
  BY OneTask DEF Initialised
<1> HIDE DEF tk2
<1> QED
  BY <1>3, <1>4, <1>5, OneTaskSteps, ZenonT(30)

\* A task moves on by one step of its program, and leaves the bus in order.
LEMMA MovesOnKeeps ==
    ASSUME IInv, NEW t \in Tasks, NEW step, AtStep(t, {step}), NEW d \in BOOLEAN,
           step = "wait" /\ kind[t] \in {"sht41", "scd41", "bmm350"} => chip[t].converting = "no",
           step = "poll" => chip[t].ready \/ (kind[t] = "sps30" /\ chip[t].converting = "no"),
           NEW c2,
           \/ c2 = AfterStep(kind[t], step, chip[t])
           \/ kind[t] = "sps30" /\ step = "stop" /\ c2 = chip[t],
           kind' = kind, out' = out, chip' = [chip EXCEPT ![t] = c2],
           task' = [task EXCEPT ![t] = Moved(kind[t], step, task[t], chip[t], d)],
           bus' \in BusStates,
           bus'.owner # NoTask /\ bus'.wedged => kind[bus'.owner] \in {"sps30", "as7343"},
           faults' \in 0..MaxFaults, upsets' \in 0..MaxUpsets
    PROVE  IInv'
<1> DEFINE k == kind[t]
           tk == task[t]
           c == chip[t]
           tk2 == Moved(k, step, tk, c, d)
<1>1. /\ k \in Kinds /\ Fits(k, tk, c, out[t]) /\ SelfConsistent(k, c) /\ c \in ChipStates
      /\ Program(t) = ProgramOf(k, tk)
  BY OneTask DEF Fits
<1>2. /\ tk.phase \in {"init", "read"} /\ tk.step <= Len(ProgramOf(k, tk))
      /\ step = ProgramOf(k, tk)[tk.step]
  BY <1>1 DEF AtStep
<1>3. Advances(k, step, tk, c, tk2)
  BY <1>1, <1>2, MovesOn
<1>4. /\ StepLeaves(k, step, c, c2) \/ (k = "sps30" /\ step = "stop" /\ c2 = c)
      /\ SelfConsistent(k, c2)
  <2>1. CASE c2 = AfterStep(k, step, c)
    <3>1. StepLeaves(k, step, c, c2)
      BY <1>1, <2>1, AfterStepFields
    <3>2. SelfConsistent(k, c2)
      <4>1. CASE step = "poll"
        BY <1>1, <2>1, <4>1 DEF AfterStep, SelfConsistent, ChipStates, OneShot
      <4>2. CASE step # "poll"
        <5>1. k = "sps30" => step # "control"
          BY <1>1, <1>2, CurrentStep
        <5> QED
          BY <1>1, <2>1, <4>2, <5>1, EffectSelfConsistent DEF AfterStep
      <4> QED
        BY <4>1, <4>2
    <3> QED
      BY <3>1, <3>2
  <2>2. CASE k = "sps30" /\ step = "stop" /\ c2 = c
    BY <1>1, <2>2
  <2> QED
    BY <2>1, <2>2
<1>5. task' = [task EXCEPT ![t] = tk2] /\ out' = [out EXCEPT ![t] = out[t]]
  BY OneTask
<1> HIDE DEF tk2
<1>6. Fits(k, tk2, c2, out[t])
  BY <1>1, <1>3, <1>4, StepFits
<1> QED
  BY <1>5, <1>6, OneTaskSteps, ZenonT(30)

\* A step that fetches nothing leaves what was fetched.
LEMMA FetchesNothing ==
    ASSUME IInv, NEW t \in Tasks, NEW step, step # "read"
    PROVE  /\ task[t].doomed \in BOOLEAN
           /\ Next1(t) = [task EXCEPT ![t] =
                             Moved(kind[t], step, task[t], chip[t], task[t].doomed)]
           /\ [Next1(t) EXCEPT ![t].doomed = TRUE]
                = [task EXCEPT ![t] = Moved(kind[t], step, task[t], chip[t], TRUE)]
<1> DEFINE tk == task[t]
           M(d) == Moved(kind[t], step, tk, chip[t], d)
<1>1. tk \in TaskStates /\ task \in [Tasks -> TaskStates]
  BY OneTask
<1>2. \A d : M(d) = [tk EXCEPT !.step = tk.step + 1, !.doomed = d, !.got = tk.got,
                               !.configured = tk.configured]
  BY Zenon DEF Moved
<1> HIDE DEF M
<1>3. M(tk.doomed) = [tk EXCEPT !.step = tk.step + 1]
  BY <1>1, <1>2 DEF TaskStates
<1>4. M(TRUE) = [tk EXCEPT !.step = tk.step + 1, !.doomed = TRUE]
  BY <1>1, <1>2 DEF TaskStates
<1>5. Next1(t) = [task EXCEPT ![t] = [tk EXCEPT !.step = tk.step + 1]]
  BY DEF Next1
<1>6. [Next1(t) EXCEPT ![t].doomed = TRUE] = [task EXCEPT ![t] = M(TRUE)]
  <2>1. Next1(t)[t] = [tk EXCEPT !.step = tk.step + 1]
    BY <1>1, <1>5
  <2>2. [Next1(t)[t] EXCEPT !.doomed = TRUE] = M(TRUE)
    BY <1>4, <2>1
  <2>3. [Next1(t) EXCEPT ![t].doomed = TRUE] = [Next1(t) EXCEPT ![t] = M(TRUE)]
    BY <2>2
  <2> QED
    BY <1>1, <1>5, <2>3
<1> QED
  BY <1>1, <1>3, <1>5, <1>6 DEF TaskStates, M

\* A task moves on by one step that fetches nothing.
LEMMA MovesOnEmptyHanded ==
    ASSUME IInv, NEW t \in Tasks, NEW step, AtStep(t, {step}), step # "read",
           step = "wait" /\ kind[t] \in {"sht41", "scd41", "bmm350"} => chip[t].converting = "no",
           step = "poll" => chip[t].ready \/ (kind[t] = "sps30" /\ chip[t].converting = "no"),
           NEW c2,
           \/ c2 = AfterStep(kind[t], step, chip[t])
           \/ kind[t] = "sps30" /\ step = "stop" /\ c2 = chip[t],
           kind' = kind, out' = out, chip' = [chip EXCEPT ![t] = c2],
           task' = Next1(t) \/ task' = [Next1(t) EXCEPT ![t].doomed = TRUE],
           bus' \in BusStates,
           bus'.owner # NoTask /\ bus'.wedged => kind[bus'.owner] \in {"sps30", "as7343"},
           faults' \in 0..MaxFaults, upsets' \in 0..MaxUpsets
    PROVE  IInv'
<1>1. PICK d \in BOOLEAN :
         task' = [task EXCEPT ![t] = Moved(kind[t], step, task[t], chip[t], d)]
  BY FetchesNothing, ZenonT(60)
<1> QED
  BY <1>1, MovesOnKeeps, ZenonT(60)

\* So does taking the bus, which is not a step on the chip.
LEMMA LockKeeps ==
    ASSUME IInv, NEW t \in Tasks, Lock(t)
    PROVE  IInv'
<1>1. chip[t] = AfterStep(kind[t], "lock", chip[t])
  BY DEF AfterStep, Effect, Settings
<1>2. bus' \in BusStates /\ ~bus'.wedged
  BY DEF Lock, BusStates
<1>3. /\ AtStep(t, {"lock"}) /\ chip' = [chip EXCEPT ![t] = chip[t]] /\ task' = Next1(t)
      /\ kind' = kind /\ out' = out
      /\ faults' \in 0..MaxFaults /\ upsets' \in 0..MaxUpsets
  BY OneTask DEF Lock
<1> QED
  BY <1>1, <1>2, <1>3, MovesOnEmptyHanded

\* So does giving the bus back.
LEMMA UnlockKeeps ==
    ASSUME IInv, NEW t \in Tasks, Unlock(t)
    PROVE  IInv'
<1>1. chip[t] = AfterStep(kind[t], "unlock", chip[t])
  BY DEF AfterStep, Effect, Settings
<1>2. bus' \in BusStates /\ bus'.owner = NoTask
  BY OneTask DEF Unlock, BusStates
<1>3. /\ AtStep(t, {"unlock"}) /\ chip' = [chip EXCEPT ![t] = chip[t]] /\ task' = Next1(t)
      /\ kind' = kind /\ out' = out
      /\ faults' \in 0..MaxFaults /\ upsets' \in 0..MaxUpsets
  BY OneTask DEF Unlock
<1> QED
  BY <1>1, <1>2, <1>3, MovesOnEmptyHanded

\* So does a delay, at whose end the conversion is finished.
LEMMA WaitKeeps ==
    ASSUME IInv, NEW t \in Tasks, Wait(t)
    PROVE  IInv'
<1>1. chip[t] = AfterStep(kind[t], "wait", chip[t])
  BY DEF AfterStep, Effect, Settings
<1>2. /\ AtStep(t, {"wait"}) /\ chip' = [chip EXCEPT ![t] = chip[t]] /\ task' = Next1(t)
      /\ kind[t] \in {"sht41", "scd41", "bmm350"} => chip[t].converting = "no"
      /\ kind' = kind /\ out' = out
      /\ faults' \in 0..MaxFaults /\ upsets' \in 0..MaxUpsets
      /\ bus' \in BusStates
      /\ bus'.owner # NoTask /\ bus'.wedged => kind[bus'.owner] \in {"sps30", "as7343"}
  BY OneTask DEF Wait
<1> QED
  BY <1>1, <1>2, MovesOnEmptyHanded

\* So does the poll that finds the chip ready.
LEMMA PollReadyKeeps ==
    ASSUME IInv, NEW t \in Tasks, PollReady(t)
    PROVE  IInv'
<1> DEFINE c2 == AfterStep(kind[t], "poll", chip[t])
<1>1. c2 = [chip[t] EXCEPT !.ready = kind[t] \notin {"opt4048", "bmp581"}]
  BY DEF AfterStep, PollReady, OneShot
<1>2. /\ AtStep(t, {"poll"}) /\ task' = Next1(t)
      /\ chip' = [chip EXCEPT ![t] = c2] /\ chip[t].ready
      /\ kind' = kind /\ out' = out
      /\ faults' \in 0..MaxFaults /\ upsets' \in 0..MaxUpsets
      /\ bus' \in BusStates
      /\ bus'.owner # NoTask /\ bus'.wedged => kind[bus'.owner] \in {"sps30", "as7343"}
  BY <1>1, OneTask DEF PollReady
<1>3. c2 = AfterStep(kind[t], "poll", chip[t])
  OBVIOUS
<1> HIDE DEF c2
<1> QED
  BY <1>2, <1>3, MovesOnEmptyHanded
\* So does the poll that gives up.
LEMMA PollTimeoutKeeps ==
    ASSUME IInv, NEW t \in Tasks, PollTimeout(t)
    PROVE  IInv'
<1>1. CASE kind[t] = "sps30"
  <2>1. chip[t] = AfterStep(kind[t], "poll", chip[t])
    <3>1. chip[t] \in ChipStates
      BY OneTask DEF Fits
    <3>2. AfterStep(kind[t], "poll", chip[t]) = [chip[t] EXCEPT !.ready = chip[t].ready]
      BY <1>1, <3>1 DEF AfterStep, OneShot, ChipStates
    <3> QED
      BY <3>1, <3>2 DEF ChipStates
  <2>2. /\ AtStep(t, {"poll"}) /\ task' = Next1(t)
        /\ chip' = [chip EXCEPT ![t] = chip[t]] /\ chip[t].converting = "no"
        /\ kind' = kind /\ out' = out
        /\ faults' \in 0..MaxFaults /\ upsets' \in 0..MaxUpsets
        /\ bus' \in BusStates
        /\ bus'.owner # NoTask /\ bus'.wedged => kind[bus'.owner] \in {"sps30", "as7343"}
    BY <1>1, OneTask DEF PollTimeout
  <2> QED
    BY <1>1, <2>1, <2>2, MovesOnEmptyHanded
<1>2. CASE kind[t] # "sps30"
  <2> DEFINE tk2 == [task[t] EXCEPT !.phase = "top", !.needsInit = TRUE]
  <2>1. Fits(kind[t], tk2, chip[t], out[t])
    BY OneTask, ErrorFits DEF Fits
  <2>2. task' = [task EXCEPT ![t] = tk2] /\ chip' = [chip EXCEPT ![t] = chip[t]]
    BY <1>2, OneTask DEF PollTimeout, Failed
  <2>3. /\ bus' \in BusStates /\ bus'.owner = NoTask /\ kind' = kind
        /\ out' = [out EXCEPT ![t] = out[t]]
        /\ faults' \in 0..MaxFaults /\ upsets' \in 0..MaxUpsets
    BY <1>2, OneTask DEF PollTimeout, Failed, BusStates
  <2> HIDE DEF tk2
  <2> QED
    BY <2>1, <2>2, <2>3, OneTaskSteps, ZenonT(30)
<1> QED
  BY <1>1, <1>2

\* So does the poll that is tried again.
LEMMA PollAgainKeeps ==
    ASSUME IInv, NEW t \in Tasks, PollAgain(t)
    PROVE  IInv'
<1> DEFINE k == kind[t]
           tk == task[t]
           n == IF k = "sps30" THEN 1 ELSE tk.step
           p == tk.polls + 1
           tk2 == [tk EXCEPT !.step = n, !.polls = p]
<1>1. /\ k \in Kinds /\ Fits(k, tk, chip[t], out[t]) /\ Program(t) = ProgramOf(k, tk)
      /\ tk \in TaskStates
  BY OneTask DEF Fits
<1>2. /\ tk.phase \in {"init", "read"} /\ tk.step <= Len(ProgramOf(k, tk))
      /\ ProgramOf(k, tk)[tk.step] = "poll" /\ tk.polls < PollLimit
  BY <1>1 DEF PollAgain, AtStep
<1>3. tk.phase = "read" /\ tk.step = GateAt[k]
  BY <1>1, <1>2, WherePolls
<1>4. k = "sps30" => tk.step = 2
  BY <1>3 DEF GateAt
<1>5. p \in 0..PollLimit
  BY <1>1, <1>2, SensorTasksAssumption DEF TaskStates
<1>6. Fits(k, tk2, chip[t], out[t])
  <2>1. n = tk.step \/ (k = "sps30" /\ tk.phase = "read" /\ tk.step = 2 /\ n = 1)
    BY <1>3, <1>4
  <2> HIDE DEF n, p
  <2> QED
    BY <1>1, <1>5, <2>1, PollAgainFits
<1>7. task' = [task EXCEPT ![t] = tk2]
  <2>1. CASE k = "sps30"
    <3>1. n = tk.step - 1
      BY <1>4, <2>1
    <3> HIDE DEF n
    <3> QED
      BY <2>1, <3>1 DEF PollAgain
  <2>2. CASE k # "sps30"
    <3>1. tk2 = [tk EXCEPT !.polls = p]
      BY <1>1, <2>2 DEF TaskStates
    <3>2. task' = [task EXCEPT ![t] = [tk EXCEPT !.polls = p]]
      BY <2>2 DEF PollAgain
    <3> QED
      BY <3>1, <3>2
  <2> QED
    BY <2>1, <2>2
<1>8. /\ bus' \in BusStates /\ kind' = kind
      /\ bus'.owner # NoTask /\ bus'.wedged => kind[bus'.owner] \in {"sps30", "as7343"}
      /\ out' = [out EXCEPT ![t] = out[t]] /\ chip' = [chip EXCEPT ![t] = chip[t]]
      /\ faults' \in 0..MaxFaults /\ upsets' \in 0..MaxUpsets
  <2>1. CASE k = "sps30"
    BY <2>1, OneTask DEF PollAgain, BusStates
  <2>2. CASE k # "sps30"
    BY <2>2, OneTask DEF PollAgain
  <2> QED
    BY <2>1, <2>2
<1> HIDE DEF tk2
<1> QED
  BY <1>6, <1>7, <1>8, OneTaskSteps, ZenonT(30)

\* So does the end of a read, which discards or publishes.
LEMMA FinishKeeps ==
    ASSUME IInv, NEW t \in Tasks, Finish(t)
    PROVE  IInv'
<1> DEFINE k == kind[t]
           tk == task[t]
           w == IF tk.warmup > 0 THEN tk.warmup - 1 ELSE 0
           n == IF tk.settled < Sensor(k).warmup THEN tk.settled + 1 ELSE tk.settled
           tk2 == [tk EXCEPT !.phase = "top", !.needsInit = FALSE, !.warmup = w, !.settled = n]
           o2 == IF tk.warmup > 0 THEN NoReading
                 ELSE [published |-> TRUE, result |-> tk.got, settled |-> tk.settled,
                       configured |-> tk.configured, upset |-> tk.upset]
<1>1. /\ k \in Kinds /\ Fits(k, tk, chip[t], out[t]) /\ tk \in TaskStates
      /\ tk.phase = "read" /\ tk.step > Len(Sensor(k).read)
  BY OneTask DEF Fits, Finish, Program
<1>2. w \in 0..6 /\ n \in 0..6
  BY <1>1, ProgramsLockFirst DEF TaskStates
<1>3. Fits(k, tk2, chip[t], o2)
  BY <1>1, <1>2, FinishFits
<1>4. task' = [task EXCEPT ![t] = tk2] /\ out' = [out EXCEPT ![t] = o2]
  BY DEF Finish
<1>5. /\ bus' \in BusStates /\ kind' = kind
      /\ bus'.owner # NoTask /\ bus'.wedged => kind[bus'.owner] \in {"sps30", "as7343"}
      /\ chip' = [chip EXCEPT ![t] = chip[t]]
      /\ faults' \in 0..MaxFaults /\ upsets' \in 0..MaxUpsets
  BY OneTask DEF Finish
<1> HIDE DEF tk2, o2
<1> QED
  BY <1>3, <1>4, <1>5, OneTaskSteps, ZenonT(30)

\* So does the end of a conversion in the chip.
LEMMA ConvertKeeps ==
    ASSUME IInv, NEW t \in Tasks, Convert(t)
    PROVE  IInv'
<1> DEFINE k == kind[t]
           c == chip[t]
           c2 == [c EXCEPT !.result = IF c.converting = "this" THEN "new" ELSE "old",
                           !.ready = k = "bmp581" => "drdy" \in c.set,
                           !.converting = IF k = "sps30" THEN @ ELSE "no"]
<1>1. Fits(k, task[t], c2, out[t])
  BY OneTask, ConvertFits DEF Convert
<1>2. chip' = [chip EXCEPT ![t] = c2]
  BY DEF Convert
<1>3. /\ bus' \in BusStates /\ kind' = kind
      /\ bus'.owner # NoTask /\ bus'.wedged => kind[bus'.owner] \in {"sps30", "as7343"}
      /\ task' = [task EXCEPT ![t] = task[t]] /\ out' = [out EXCEPT ![t] = out[t]]
      /\ faults' \in 0..MaxFaults /\ upsets' \in 0..MaxUpsets
  BY OneTask DEF Convert
<1> HIDE DEF c2
<1> QED
  BY <1>1, <1>2, <1>3, OneTaskSteps, ZenonT(30)

\* So does a brown-out of a chip.
LEMMA UpsetKeeps ==
    ASSUME IInv, NEW t \in Tasks, Upset(t)
    PROVE  IInv'
<1> DEFINE tk2 == [task[t] EXCEPT !.upset = CASE task[t].phase = "init" -> "init"
                                              [] task[t].phase = "read" -> "cycle"
                                              [] OTHER -> "earlier"]
<1>1. Fits(kind[t], tk2, PowerOnChip, out[t])
  BY OneTask, UpsetFits
<1>2. task' = [task EXCEPT ![t] = tk2] /\ chip' = [chip EXCEPT ![t] = PowerOnChip]
  BY DEF Upset
<1>3. upsets' \in 0..MaxUpsets
  BY OneTask, SensorTasksAssumption DEF Upset
<1>4. /\ bus' \in BusStates /\ kind' = kind
      /\ bus'.owner # NoTask /\ bus'.wedged => kind[bus'.owner] \in {"sps30", "as7343"}
      /\ out' = [out EXCEPT ![t] = out[t]] /\ faults' \in 0..MaxFaults
  BY OneTask DEF Upset
<1> HIDE DEF tk2
<1> QED
  BY <1>1, <1>2, <1>3, <1>4, OneTaskSteps, ZenonT(30)

\* So does a transfer that succeeds, whatever it writes or reads.
LEMMA TransferKeeps ==
    ASSUME IInv, NEW t \in Tasks, Transfer(t)
    PROVE  IInv'
<1> DEFINE k == kind[t]
           tk == task[t]
           c == chip[t]
           step == Program(t)[tk.step]
           c2 == Effect(k, step, c)
<1>1. /\ k \in Kinds /\ Fits(k, tk, c, out[t]) /\ Program(t) = ProgramOf(k, tk)
      /\ tk \in TaskStates /\ c \in ChipStates /\ SelfConsistent(k, c)
  BY OneTask DEF Fits
<1>2. /\ tk.phase \in {"init", "read"} /\ tk.step <= Len(Program(t))
      /\ AtStep(t, {step}) /\ step # "poll" /\ step \notin {"wait", "lock", "unlock"}
      /\ chip' = [chip EXCEPT ![t] = c2]
      /\ kind' = kind /\ out' = out
      /\ faults' \in 0..MaxFaults /\ upsets' \in 0..MaxUpsets
  BY OneTask DEF Transfer, AtTransfer, AtStep, NotTransfers
<1>3. c2 = AfterStep(k, step, c)
  BY <1>2 DEF AfterStep
<1>4. CASE tk.doomed
  <2> DEFINE tk2 == [tk EXCEPT !.phase = "top", !.needsInit = TRUE]
  <2>1. c2 \in ChipStates
    BY <1>1, EffectTyped
  <2>2. k = "sps30" => step # "control"
    BY <1>1, <1>2, CurrentStep
  <2>3. SelfConsistent(k, c2)
    BY <1>1, <2>2, EffectSelfConsistent
  <2>4. Fits(k, tk2, c2, out[t])
    <3> HIDE DEF c2
    <3> QED
      BY <1>1, <2>1, <2>3, ErrorFits
  <2>5. task' = [task EXCEPT ![t] = tk2]
    BY <1>4 DEF Transfer, Failed
  <2>6. bus' \in BusStates /\ bus'.owner = NoTask /\ out' = [out EXCEPT ![t] = out[t]]
    BY <1>4, OneTask DEF Transfer, Failed, BusStates
  <2> HIDE DEF tk2, c2
  <2> QED
    BY <1>2, <2>4, <2>5, <2>6, OneTaskSteps, ZenonT(30)
<1>5. CASE ~tk.doomed
  <2> DEFINE g == IF step = "read" THEN c.result ELSE tk.got
             b == IF step = "read" THEN Sensor(k).settings \subseteq c.set
                  ELSE tk.configured
             tk2 == [tk EXCEPT !.step = tk.step + 1, !.got = g, !.configured = b]
  <2>1. task' = [Next1(t) EXCEPT ![t].got = IF step = "read" THEN chip[t].result ELSE @,
                                 ![t].configured =
                                     IF step = "read"
                                     THEN Sensor(kind[t]).settings \subseteq chip[t].set
                                     ELSE @]
    BY <1>5 DEF Transfer
  <2>2. task \in [Tasks -> TaskStates]
    BY OneTask
  <2>3. Next1(t) = [task EXCEPT ![t] = [tk EXCEPT !.step = tk.step + 1]]
    BY DEF Next1
  <2>4. Next1(t)[t] = [tk EXCEPT !.step = tk.step + 1]
    BY <2>2, <2>3
  <2>5. Next1(t)[t].got = tk.got /\ Next1(t)[t].configured = tk.configured
    BY <1>1, <2>4 DEF TaskStates
  <2>6. task' = [Next1(t) EXCEPT ![t] = [Next1(t)[t] EXCEPT !.got = g, !.configured = b]]
    BY <2>1, <2>5
  <2>7. [Next1(t)[t] EXCEPT !.got = g, !.configured = b] = tk2
    BY <2>4
  <2>8. task' = [task EXCEPT ![t] = tk2]
    BY <2>2, <2>3, <2>6, <2>7
  <2>9. tk2 = Moved(k, step, tk, c, FALSE)
    <3>1. Moved(k, step, tk, c, FALSE)
            = [tk EXCEPT !.step = tk.step + 1, !.doomed = FALSE, !.got = g, !.configured = b]
      BY DEF Moved
    <3>2. tk.doomed = FALSE
      BY <1>1, <1>5 DEF TaskStates
    <3> HIDE DEF g, b
    <3> QED
      BY <1>1, <3>1, <3>2 DEF TaskStates
  <2>10. /\ bus' \in BusStates
         /\ bus'.owner # NoTask /\ bus'.wedged => kind[bus'.owner] \in {"sps30", "as7343"}
    BY <1>5, OneTask DEF Transfer
  <2>11. task' = [task EXCEPT ![t] = Moved(kind[t], step, task[t], chip[t], FALSE)]
    BY <2>8, <2>9
  <2> HIDE DEF tk2, c2, step
  <2> QED
    BY <1>2, <1>3, <2>10, <2>11, MovesOnKeeps, ZenonT(30)
<1> QED
  BY <1>4, <1>5
\* So does a transfer that fails, after which the task starts over.
LEMMA TransferFailsKeeps ==
    ASSUME IInv, NEW t \in Tasks, TransferFails(t)
    PROVE  IInv'
<1> DEFINE k == kind[t]
           tk == task[t]
           c == chip[t]
           step == Program(t)[tk.step]
<1>1. /\ k \in Kinds /\ Fits(k, tk, c, out[t]) /\ Program(t) = ProgramOf(k, tk)
      /\ c \in ChipStates /\ SelfConsistent(k, c) /\ bus \in BusStates
  BY OneTask DEF Fits
<1>2. /\ tk.phase \in {"init", "read"} /\ tk.step <= Len(Program(t)) /\ bus.owner = t
      /\ AtStep(t, {step}) /\ step \notin {"wait", "lock", "unlock"}
      /\ kind' = kind /\ out' = out /\ out' = [out EXCEPT ![t] = out[t]]
      /\ upsets' \in 0..MaxUpsets
  BY OneTask DEF TransferFails, AtTransfer, AtStep, NotTransfers
<1>3. faults' \in 0..MaxFaults
  <2>1. CASE bus.wedged \/ Refused(k, step, c)
    BY <2>1, OneTask DEF TransferFails
  <2>2. CASE ~(bus.wedged \/ Refused(k, step, c))
    <3>1. faults < MaxFaults /\ faults' = faults + 1
      BY <2>2 DEF TransferFails
    <3> QED
      BY <3>1, OneTask, SensorTasksAssumption
  <2> QED
    BY <2>1, <2>2
<1>4. PICK c2 \in {c, Effect(k, step, c)} : chip' = [chip EXCEPT ![t] = c2]
  BY OneTask DEF TransferFails
<1>5. (k = "sps30" => step # "control") /\ (step = "auxid" => k = "as7343")
  BY <1>1, <1>2, CurrentStep
<1>6. CASE k = "sps30" /\ step = "stop"
  <2>1. task' = Next1(t) /\ bus' = [bus EXCEPT !.wedged = TRUE]
    BY <1>6 DEF TransferFails
  <2>2. bus' \in BusStates /\ kind[bus'.owner] \in {"sps30", "as7343"}
    BY <1>1, <1>2, <1>6, <2>1 DEF BusStates
  <2>3. c2 = AfterStep(k, step, c) \/ (k = "sps30" /\ step = "stop" /\ c2 = c)
    BY <1>4, <1>6 DEF AfterStep
  <2>4. step # "read" /\ step # "poll" /\ step # "wait"
    BY <1>6
  <2> HIDE DEF step
  <2> QED
    BY <1>2, <1>3, <1>4, <2>1, <2>2, <2>3, <2>4, MovesOnEmptyHanded, ZenonT(30)
<1>7. CASE step = "auxid"
  <2>1. task' = [Next1(t) EXCEPT ![t].doomed = TRUE] /\ bus' = [bus EXCEPT !.wedged = TRUE]
    BY <1>7 DEF TransferFails
  <2>2. bus' \in BusStates /\ kind[bus'.owner] \in {"sps30", "as7343"}
    BY <1>1, <1>2, <1>5, <1>7, <2>1 DEF BusStates
  <2>3. c2 = AfterStep(k, step, c)
    <3>1. Effect(k, "auxid", c) = c
      BY DEF Effect, Settings
    <3> QED
      BY <1>4, <1>7, <3>1 DEF AfterStep
  <2>4. step # "read" /\ step # "poll" /\ step # "wait"
    BY <1>7
  <2> HIDE DEF step
  <2> QED
    BY <1>2, <1>3, <1>4, <2>1, <2>2, <2>3, <2>4, MovesOnEmptyHanded, ZenonT(30)
<1>8. CASE ~(k = "sps30" /\ step = "stop") /\ step # "auxid"
  <2> DEFINE tk2 == [tk EXCEPT !.phase = "top", !.needsInit = TRUE]
  <2>1. c2 \in ChipStates
    BY <1>1, <1>4, EffectTyped
  <2>2. SelfConsistent(k, c2)
    BY <1>1, <1>4, <1>5, EffectSelfConsistent
  <2>3. Fits(k, tk2, c2, out[t])
    BY <1>1, <2>1, <2>2, ErrorFits
  <2>4. task' = [task EXCEPT ![t] = tk2] /\ bus' = [owner |-> NoTask, wedged |-> TRUE]
    BY <1>8 DEF TransferFails
  <2>5. bus' \in BusStates /\ bus'.owner = NoTask
    BY <2>4 DEF BusStates
  <2> HIDE DEF tk2, step
  <2> QED
    BY <1>2, <1>3, <1>4, <2>3, <2>4, <2>5, OneTaskSteps, ZenonT(30)
<1> QED
  BY <1>6, <1>7, <1>8

--------------------------------------------------------------------------
(* What holds of every execution.                                            *)

\* Nothing is known of a chip before its task has initialised it.
LEMMA InitInvariant == Init => IInv
<1> SUFFICES ASSUME Init
             PROVE  IInv
  OBVIOUS
<1>1. IdleTask \in TaskStates /\ PowerOnChip \in ChipStates /\ NoReading \in Readings
  <2>1. PowerOnChip \in ChipStates
    BY DEF PowerOnChip, ChipStates, Results
  <2>2. IdleTask \in TaskStates
    BY NoPollsYet DEF IdleTask, TaskStates, Results
  <2> QED
    BY <2>1, <2>2 DEF Readings
<1>2. ASSUME NEW k \in Kinds
      PROVE  Fits(k, IdleTask, PowerOnChip, NoReading)
  <2>1. IdleTask.phase = "top" /\ IdleTask.needsInit
    BY DEF IdleTask
  <2>2. ~InService(IdleTask) /\ (\A f, l : ~Within(IdleTask, f, l))
        /\ (\A p : ~Past(IdleTask, p))
    BY <2>1 DEF InService, Within, Past
  <2>3. PowerOnChip.set = {} /\ PowerOnChip.converting = "no" /\ PowerOnChip.result = "none"
    BY DEF PowerOnChip
  <2>4. TaskKnowsChip(k, IdleTask, PowerOnChip) /\ PlaceInProgram(k, IdleTask)
    BY <2>1, <2>2, <2>3
       DEF TaskKnowsChip, PlaceInProgram, WarmsUp, InBankZero, Programmed, Configured,
           NoticedLater, ControlWritten, FetchedConfigured, QuietBefore, FetchesFresh,
           MeasuresByItself
  <2>5. GoodReading(k, NoReading)
    BY DEF GoodReading, NoReading
  <2> QED
    BY <1>1, <2>4, <2>5 DEF Fits
<1>3. kind \in [Tasks -> Kinds] /\ faults \in 0..MaxFaults /\ upsets \in 0..MaxUpsets
  BY SensorTasksAssumption DEF Init
<1>4. bus \in BusStates /\ bus.owner = NoTask
  BY DEF Init, BusStates
<1>5. /\ task \in [Tasks -> TaskStates] /\ chip \in [Tasks -> ChipStates]
      /\ out \in [Tasks -> Readings]
  BY <1>1 DEF Init
<1>6. \A t \in Tasks : Fits(kind[t], task[t], chip[t], out[t])
  BY <1>2, <1>3 DEF Init
<1> QED
  BY <1>3, <1>4, <1>5, <1>6, InvariantParts DEF TaskByTask, FailedTransferStaysLocal

\* Whichever task or chip acts, and whatever fails.
LEMMA NextInvariant == IInv /\ [Next]_vars => IInv'
<1> SUFFICES ASSUME IInv, [Next]_vars
             PROVE  IInv'
  OBVIOUS
<1>1. CASE Next
  <2> PICK t \in Tasks : Step(t) \/ Lock(t) \/ Convert(t) \/ Upset(t)
    BY <1>1 DEF Next
  <2>1. CASE Step(t)
    BY <2>1, BeginKeeps, InitialisedKeeps, UnlockKeeps, TransferKeeps, TransferFailsKeeps,
       PollReadyKeeps, PollAgainKeeps, PollTimeoutKeeps, WaitKeeps, FinishKeeps DEF Step
  <2>2. CASE Lock(t) \/ Convert(t) \/ Upset(t)
    BY <2>2, LockKeeps, ConvertKeeps, UpsetKeeps
  <2> QED
    BY <2>1, <2>2
<1>2. CASE UNCHANGED vars
  <2>1. TaskByTask'
    BY <1>2, InvariantParts, Zenon DEF TaskByTask, FailedTransferStaysLocal, vars
  <2> QED
    BY <2>1, InvariantParts, PTL
<1> QED
  BY <1>1, <1>2

(* The invariant: what every task knows of its chip at every place of its    *)
(* programs, and what the tasks know of the bus.                             *)
THEOREM TasksKnowTheirChips == Spec => []IInv
<1>1. Init => IInv
  BY InitInvariant
<1>2. IInv /\ [Next]_vars => IInv'
  BY NextInvariant
<1> QED
  BY <1>1, <1>2, PTL DEF Spec

(* A task that holds the bus finds the AS7343 in bank 0 outside the          *)
(* identification, and nobody finds a bus another task broke.                *)
THEOREM SharedInOrder == Spec => []BusAndBankInOrder
<1>1. IInv => BusAndBankInOrder
  <2> SUFFICES ASSUME IInv, NEW t \in Tasks, kind[t] = "as7343", AtTransfer(t),
                      ~AtStep(t, {"bank1", "auxid", "bank0"})
               PROVE  chip[t].bank = 0
    BY DEF BusAndBankInOrder, BankZero, IInv
  <2>1. Fits(kind[t], task[t], chip[t], out[t]) /\ task[t].phase \in {"init", "read"}
    BY OneTask DEF AtTransfer
  <2>2. CASE task[t].phase = "read"
    BY <2>1, <2>2 DEF Fits, TaskKnowsChip, InBankZero, InService
  <2>3. CASE task[t].phase = "init"
    <3> DEFINE i == task[t].step
               step == Sensor("as7343").init[i]
    <3>1. i \in 1..20 /\ Program(t) = Sensor("as7343").init
      BY <2>1, <2>3 DEF Fits, TaskStates, Program
    <3>2. step \notin {"lock", "bank1", "auxid", "bank0"}
      BY <2>3, <3>1 DEF AtTransfer, AtStep, NotTransfers
    <3>3. i \notin 1..7
      BY <3>2, As7343
    <3>4. i >= 8
      <4> HIDE DEF i
      <4> QED
        BY <3>1, <3>3
    <3> QED
      BY <2>1, <2>3, <3>4 DEF Fits, TaskKnowsChip, InBankZero
  <2> QED
    BY <2>1, <2>2, <2>3
<1> QED
  BY <1>1, TasksKnowTheirChips, PTL

(* No task publishes a result that a broken-off cycle left in its chip.      *)
THEOREM ReadingsAreFresh == Spec => []PublishedIsFresh
<1>1. IInv => PublishedIsFresh
  BY DEF IInv
<1> QED
  BY <1>1, TasksKnowTheirChips, PTL

(* No task publishes what a chip measured with its defaults, unless it reset *)
(* where nobody can notice.                                                  *)
THEOREM ReadingsAreConfigured == Spec => []PublishedAsConfigured
<1>1. IInv => PublishedAsConfigured
  BY DEF IInv
<1> QED
  BY <1>1, TasksKnowTheirChips, PTL

(* No task publishes before the whole warm-up of its sensor has passed since *)
(* its last initialisation.                                                  *)
THEOREM ReadingsAreSettled == Spec => []SettledBeforePublished
<1>1. IInv => SettledBeforePublished
  BY DEF IInv
<1> QED
  BY <1>1, TasksKnowTheirChips, PTL
============================================================================
