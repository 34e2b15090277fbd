----------------------------- MODULE Bme690Task -----------------------------
(* The BME690 task: cycles of the sensor as BSEC asks for them, every second *)
(* output published once the film has settled, and BSEC's learned state kept *)
(* in one flash record across reboots.  Transfers fail, the sensor browns    *)
(* out, the flash refuses a write and the power is cut at any step, also     *)
(* between the erase and the end of a write.                                 *)
EXTENDS Integers, Sequences, FiniteSets, FiniteSetsExt

CONSTANTS Warmup,        \* DISCARDED_WARMUP_READINGS
          PublishEvery,  \* CYCLES_PER_PUBLISHED_READING
          SaveInterval,  \* cycles in STATE_SAVE_INTERVAL_MS
          MaxFaults,     \* bound: transfers, BSEC calls and flash writes that fail
          MaxUpsets,     \* bound: brown-outs of the sensor
          MaxCuts        \* bound: power cuts of the board

ASSUME Bme690TaskAssumption ==
    /\ {PublishEvery, SaveInterval} \subseteq Nat \ {0}
    /\ {Warmup, MaxFaults, MaxUpsets, MaxCuts} \subseteq Nat

VARIABLES chip,    \* the sensor
          task,    \* the variables of measure_task, and the bus steps it still has to do
          flash,   \* the record: its header and its payload
          seen,    \* what happened since boot, as far as the properties tell it apart
          faults, upsets, cuts

vars == <<chip, task, flash, seen, faults, upsets, cuts>>

Accuracy == 0..3
Nothing == -1
CycleSettings == {"osr", "heater", "gas"}

PowerOnChip == [set |-> {}, mode |-> "sleep", ready |-> FALSE, result |-> "none", whole |-> FALSE]
Booting == [phase |-> "boot", todo |-> <<>>, calibrated |-> FALSE, skip |-> 0, warmup |-> Warmup,
            saved |-> Nothing, age |-> 0, accuracy |-> 0, fresh |-> FALSE, upset |-> FALSE,
            basis |-> "scratch", published |-> FALSE]

(* Outputs since boot, outputs BSEC learned from since its state was last    *)
(* written, whether that state was restored or has been written since boot,  *)
(* writes a better accuracy asked for, and whether the last write failed.    *)
NothingSeen == [heard |-> 0, unsaved |-> 0, recorded |-> FALSE, rises |-> 0, failed |-> FALSE]

Init ==
    /\ chip = PowerOnChip
    /\ task = Booting
    /\ flash = [header |-> FALSE, payload |-> FALSE]
    /\ seen = NothingSeen
    /\ faults = 0
    /\ upsets = 0
    /\ cuts = 0

--------------------------------------------------------------------------
(* The driver: the transfers of each of its functions.  "check" is a read    *)
(* that has to succeed, "mode" a mode change that needs the sensor asleep.   *)
Reset == <<"reset">>
SetOversampling == <<"osr">>
SetHeaterProfile == <<"heater">>
SetGasConfig == <<"gas">>
SetModeSleep == <<"mode">>
MeasureForced == <<"mode", "start", "poll">>
InitSensor == Reset \o <<"check">> \o SetOversampling \o <<"check">>
ReadCalibration == <<"check">>
InitializeSensor == InitSensor \o ReadCalibration

\* What a cycle does for each kind of request of BSEC.
RunCycle(request) ==
    CASE request = "sleep" -> SetModeSleep
      [] request = "setup" -> SetOversampling \o SetHeaterProfile \o SetGasConfig
      [] request = "measure" -> SetOversampling \o SetHeaterProfile \o SetGasConfig \o MeasureForced

At(step) == task.phase = "bus" /\ task.todo # <<>> /\ Head(task.todo) = step
Done(t) == [t EXCEPT !.todo = Tail(@)]

\* Mutant of CycleFails: the sensor is taken to have survived.
CycleFailsCalibrated(t) == [t EXCEPT !.phase = "control", !.todo = <<>>]

\* An error on the bus: the sensor is set up again after a pause.
CycleFails(t) == [t EXCEPT !.phase = "control", !.todo = <<>>, !.calibrated = FALSE]

--------------------------------------------------------------------------
(* FlashStore. *)

\* Mutant of Load: the checksum is not compared.
LoadUnchecked(record) == record.header

\* A record counts when its header is there and its checksum fits the payload.
Load(record) == record.header /\ record.payload

\* initialize_bsec: configuration, restored state, subscription.  One that BSEC refuses ends
\* the task for good.
Boot ==
    /\ task.phase = "boot"
    /\ task' = [task EXCEPT !.phase = "control",
                            !.basis = IF ~Load(flash) THEN "scratch"
                                      ELSE IF flash.payload THEN "record" ELSE "garbage"]
    /\ seen' = [seen EXCEPT !.recorded = Load(flash)]
    /\ UNCHANGED <<chip, flash, faults, upsets, cuts>>

BsecRefuses ==
    /\ task.phase = "boot"
    /\ faults < MaxFaults
    /\ faults' = faults + 1
    /\ task' = [task EXCEPT !.phase = "ended"]
    /\ UNCHANGED <<chip, flash, seen, upsets, cuts>>

--------------------------------------------------------------------------
(* A pass of the loop: the sensor is set up if it has to be, then BSEC says  *)
(* what it wants.  A setting counts as in force when it was written in this  *)
(* cycle, since every cycle may ask for another; outputs of earlier cycles   *)
(* are not looked at again.                                                  *)
Initialize ==
    /\ task.phase = "control"
    /\ ~task.calibrated
    /\ task' = [task EXCEPT !.phase = "bus", !.todo = InitializeSensor, !.fresh = FALSE]
    /\ UNCHANGED <<chip, flash, seen, faults, upsets, cuts>>

Control(request) ==
    /\ task.phase = "control"
    /\ task.calibrated
    /\ task' = [task EXCEPT !.phase = "bus", !.todo = RunCycle(request), !.fresh = FALSE,
                            !.accuracy = 0, !.upset = FALSE, !.published = FALSE]
    /\ chip' = [chip EXCEPT !.set = {}, !.result = IF @ = "new" THEN "old" ELSE @]
    /\ UNCHANGED <<flash, seen, faults, upsets, cuts>>

Write(step) ==
    /\ step \in CycleSettings \cup {"check"}
    /\ At(step)
    /\ chip' = [chip EXCEPT !.set = @ \cup ({step} \cap CycleSettings)]
    /\ task' = Done(task)
    /\ UNCHANGED <<flash, seen, faults, upsets, cuts>>

ResetSensor ==
    /\ At("reset")
    /\ chip' = PowerOnChip
    /\ task' = Done(task)
    /\ UNCHANGED <<flash, seen, faults, upsets, cuts>>

\* set_mode stops a measurement in flight before it goes on.
SetMode ==
    /\ At("mode")
    /\ chip' = [chip EXCEPT !.mode = "sleep"]
    /\ task' = Done(task)
    /\ UNCHANGED <<flash, seen, faults, upsets, cuts>>

Start ==
    /\ At("start")
    /\ chip' = [chip EXCEPT !.mode = "forced"]
    /\ task' = Done(task)
    /\ UNCHANGED <<flash, seen, faults, upsets, cuts>>

\* The result is fetched as soon as the flag is set, which the read clears.
PollReady ==
    /\ At("poll")
    /\ chip.ready
    /\ chip' = [chip EXCEPT !.ready = FALSE]
    /\ task' = [task EXCEPT !.todo = <<>>, !.phase = "steps"]
    /\ UNCHANGED <<flash, seen, faults, upsets, cuts>>

\* The polls outlast a conversion, so they only run out when there is none.
PollTimesOut ==
    /\ At("poll")
    /\ ~chip.ready
    /\ chip.mode = "sleep"
    /\ task' = CycleFails(task)
    /\ UNCHANGED <<chip, flash, seen, faults, upsets, cuts>>

Initialized ==
    /\ task.phase = "bus"
    /\ task.todo = <<>>
    /\ task' = IF task.calibrated THEN [task EXCEPT !.phase = "save"]
               ELSE [task EXCEPT !.calibrated = TRUE, !.phase = "control"]
    /\ UNCHANGED <<chip, flash, seen, faults, upsets, cuts>>

\* A transfer fails, before or after the sensor took it.
TransferFails ==
    /\ task.phase = "bus"
    /\ task.todo # <<>>
    /\ faults < MaxFaults
    /\ faults' = faults + 1
    /\ task' = CycleFails(task)
    /\ \/ UNCHANGED chip
       \/ At("start") /\ chip' = [chip EXCEPT !.mode = "forced"]
       \/ At("poll") /\ chip' = [chip EXCEPT !.ready = FALSE]
    /\ UNCHANGED <<flash, seen, upsets, cuts>>

\* sensor_control fails, or asks for a mode or an oversampling the driver does not know.
ControlFails ==
    /\ task.phase = "control"
    /\ task.calibrated
    /\ faults < MaxFaults
    /\ faults' = faults + 1
    /\ task' \in {task, CycleFails(task)}
    /\ UNCHANGED <<chip, flash, seen, upsets, cuts>>

--------------------------------------------------------------------------
(* do_steps and what is done with its outputs. *)

\* A measurement that yields no output yet, or that BSEC fails on.
NoOutput ==
    /\ task.phase = "steps"
    /\ task' = [task EXCEPT !.phase = "save"]
    /\ UNCHANGED <<chip, flash, seen, faults, upsets, cuts>>

\* Outputs of interest: those until the first publication, and those a timer may leave unsaved.
MaxHeard == Warmup * PublishEvery + 1
MaxUnsaved == SaveInterval + 3
CountedTo(n, limit) == IF n < limit THEN n + 1 ELSE n

\* Mutant of Decimated: the outputs in between count against the warm-up.
DecimatedLast(t) ==
    IF t.skip = 0
    THEN [t EXCEPT !.skip = PublishEvery - 1, !.warmup = IF @ > 0 THEN @ - 1 ELSE 0,
                   !.published = t.warmup = 0]
    ELSE [t EXCEPT !.skip = @ - 1, !.warmup = IF @ > 0 THEN @ - 1 ELSE 0]

\* Mutant of Decimated: the count starts again with every output.
DecimatedRestarts(t) ==
    IF t.skip = 0
    THEN [t EXCEPT !.skip = PublishEvery - 1, !.warmup = IF @ > 0 THEN @ - 1 ELSE 0,
                   !.published = t.warmup = 0]
    ELSE [t EXCEPT !.skip = PublishEvery - 1]

\* Every PublishEvery-th output counts against the warm-up, then is published.
Decimated(t) ==
    IF t.skip = 0
    THEN [t EXCEPT !.skip = PublishEvery - 1, !.warmup = IF @ > 0 THEN @ - 1 ELSE 0,
                   !.published = t.warmup = 0]
    ELSE [t EXCEPT !.skip = @ - 1]

Output(accuracy) ==
    /\ task.phase = "steps"
    /\ task' = [Decimated(task) EXCEPT !.phase = "save", !.fresh = TRUE, !.accuracy = accuracy]
    /\ seen' = [seen EXCEPT !.heard = CountedTo(@, MaxHeard),
                            !.unsaved = CountedTo(@, MaxUnsaved)]
    /\ UNCHANGED <<chip, flash, faults, upsets, cuts>>

--------------------------------------------------------------------------
(* Saving, in the gap before the next cycle. *)

Overdue == task.age >= SaveInterval
ToSave == task.fresh /\ task.saved # Nothing /\ (task.accuracy > task.saved \/ Overdue)

\* The accuracy of the first output is adopted: nothing was learned since the record.
SkipSave ==
    /\ task.phase = "save"
    /\ ~ToSave
    /\ task' = [task EXCEPT !.phase = "wait",
                            !.saved = IF task.fresh /\ @ = Nothing THEN task.accuracy ELSE @]
    /\ UNCHANGED <<chip, flash, seen, faults, upsets, cuts>>

\* What measure_task notes after a save, whatever came of it.
Saved(t) == [t EXCEPT !.phase = "wait", !.age = 0, !.saved = Max({@, t.accuracy})]

\* The write erases the sector first.
Erase ==
    /\ task.phase = "save"
    /\ ToSave
    /\ flash' = [header |-> FALSE, payload |-> FALSE]
    /\ task' = [task EXCEPT !.phase = "header"]
    /\ seen' = [seen EXCEPT !.rises = IF task.accuracy > task.saved THEN @ + 1 ELSE @]
    /\ UNCHANGED <<chip, faults, upsets, cuts>>

WriteHeader ==
    /\ task.phase = "header"
    /\ flash' = [flash EXCEPT !.header = TRUE]
    /\ task' = [task EXCEPT !.phase = "payload"]
    /\ UNCHANGED <<chip, seen, faults, upsets, cuts>>

WritePayload ==
    /\ task.phase = "payload"
    /\ flash' = [flash EXCEPT !.payload = TRUE]
    /\ task' = Saved(task)
    /\ seen' = [seen EXCEPT !.unsaved = 0, !.recorded = TRUE, !.failed = FALSE]
    /\ UNCHANGED <<chip, faults, upsets, cuts>>

\* BSEC does not serialise its state, or the flash refuses the erase or the write.
SaveFails ==
    /\ \/ task.phase = "save" /\ ToSave
       \/ task.phase \in {"header", "payload"}
    /\ faults < MaxFaults
    /\ faults' = faults + 1
    /\ task' = Saved(task)
    /\ seen' = [seen EXCEPT !.failed = TRUE]
    /\ UNCHANGED <<chip, flash, upsets, cuts>>

\* The sleep until the next cycle BSEC asked for.
Wait ==
    /\ task.phase = "wait"
    /\ task' = [task EXCEPT !.phase = "control", !.age = CountedTo(@, SaveInterval)]
    /\ UNCHANGED <<chip, flash, seen, faults, upsets, cuts>>

--------------------------------------------------------------------------
(* The sensor and the power. *)

\* The sensor finishes and goes back to sleep.
Convert ==
    /\ chip.mode = "forced"
    /\ chip' = [chip EXCEPT !.mode = "sleep", !.ready = TRUE,
                            !.result = "new", !.whole = CycleSettings \subseteq chip.set]
    /\ UNCHANGED <<task, flash, seen, faults, upsets, cuts>>

Upset ==
    /\ upsets < MaxUpsets
    /\ upsets' = upsets + 1
    /\ chip' = PowerOnChip
    /\ task' = [task EXCEPT !.upset = TRUE]
    /\ UNCHANGED <<flash, seen, faults, cuts>>

\* The flash keeps what it holds, also half a record; everything else starts over.
PowerCut ==
    /\ cuts < MaxCuts
    /\ cuts' = cuts + 1
    /\ chip' = PowerOnChip
    /\ task' = Booting
    /\ seen' = NothingSeen
    /\ UNCHANGED <<flash, faults, upsets>>

TaskStep ==
    \/ Boot \/ Initialize \/ \E step \in CycleSettings \cup {"check"} : Write(step)
    \/ ResetSensor \/ SetMode \/ Start \/ PollReady \/ PollTimesOut \/ Initialized
    \/ SkipSave \/ Erase \/ WriteHeader \/ WritePayload \/ Wait

Outputs == \E accuracy \in Accuracy : Output(accuracy)
Requests == \E request \in {"sleep", "setup", "measure"} : Control(request)

Next ==
    \/ TaskStep \/ Requests \/ NoOutput \/ Outputs
    \/ BsecRefuses \/ TransferFails \/ ControlFails \/ SaveFails
    \/ Convert \/ Upset \/ PowerCut

(* The executor runs the task, the sensor finishes what it starts, and BSEC  *)
(* keeps asking for measurements and, given enough of them, keeps producing  *)
(* outputs.                                                                  *)
Fairness ==
    /\ WF_vars(TaskStep) /\ WF_vars(Convert) /\ WF_vars(Requests) /\ WF_vars(NoOutput \/ Outputs)
    /\ SF_vars(Control("measure")) /\ SF_vars(Outputs)

Spec == Init /\ [][Next]_vars /\ Fairness

--------------------------------------------------------------------------
(* Types: every variable holds what the code's types allow. *)
TypeOK ==
    /\ chip \in [set : SUBSET CycleSettings, mode : {"sleep", "forced"}, ready : BOOLEAN,
                 result : {"none", "old", "new"}, whole : BOOLEAN]
    /\ task.phase \in {"boot", "ended", "control", "bus", "steps", "save", "header", "payload",
                       "wait"}
    /\ Len(task.todo) <= 6
    /\ task.skip \in 0..(PublishEvery - 1)
    /\ task.warmup \in 0..Warmup
    /\ task.saved \in Accuracy \cup {Nothing}
    /\ task.accuracy \in Accuracy
    /\ task.age \in 0..SaveInterval
    /\ {task.calibrated, task.fresh, task.upset, task.published} \subseteq BOOLEAN
    /\ task.basis \in {"scratch", "record", "garbage"}
    /\ flash \in [header : BOOLEAN, payload : BOOLEAN]
    /\ seen.heard \in 0..MaxHeard /\ seen.unsaved \in 0..MaxUnsaved
    /\ seen.rises \in Nat /\ {seen.recorded, seen.failed} \subseteq BOOLEAN
    /\ faults \in 0..MaxFaults /\ upsets \in 0..MaxUpsets /\ cuts \in 0..MaxCuts

(* BSEC is only fed a measurement of the cycle it asked for, taken with the  *)
(* oversampling, heater profile and gas settings of that cycle, whatever     *)
(* broke off before; what escapes is a brown-out within the cycle itself.    *)
FedAsAsked ==
    task.phase = "steps" /\ ~task.upset => chip.result = "new" /\ chip.whole

(* The settings are never rewritten under a measurement that still runs, not *)
(* even when the transfer that started it was reported as failed.            *)
SettingsSteady == chip.mode = "forced" => \A step \in CycleSettings : ~At(step)

(* The first reading published after a boot comes after the whole warm-up,   *)
(* counted in readings that would have been published; a bus error in the    *)
(* middle neither restarts nor shortens it.  So says bme690_task.rs of its   *)
(* DISCARDED_WARMUP_READINGS; software/README.md says otherwise, see below.  *)
SettledBeforePublished == task.published => seen.heard > Warmup * PublishEvery

(* A state BSEC is started from was written to its last byte: a save the     *)
(* power cut short, at any step, is taken for no state at all.               *)
NoHalfRecordRestored == task.basis # "garbage"

(* What a power cut would cost now, in outputs BSEC learned from: those not  *)
(* in the record, and all it ever learned when the record is gone.           *)
Everything == MaxUnsaved + 1
CostOfACut == IF seen.recorded /\ ~Load(flash) THEN Everything ELSE seen.unsaved

(* A power cut costs no more than a timer's worth of outputs, but for two    *)
(* cases in which it costs everything: it falls into a write, which has      *)
(* erased the old record before the new one is whole; or the last save       *)
(* failed, which is reported to nobody and counts as done until the timer    *)
(* runs out again.                                                           *)
LossIsBounded ==
    ~seen.failed /\ task.phase \notin {"header", "payload"} => CostOfACut <= SaveInterval + 1

(* However the accuracy rises and falls, it is the reason of at most three   *)
(* sector erases in the life of a boot.                                      *)
ThreeAccuracyWrites == seen.rises <= 3

(* Unless BSEC refuses to start, readings keep being published, through bus  *)
(* errors, brown-outs, failed saves and reboots.                             *)
KeepsPublishing == []<>(task.published \/ task.phase = "ended")

(* BSEC is fed what it asked for: a measurement of its cycle, with the       *)
(* settings of its cycle, none of them rewritten while it ran.               *)
BsecIsFedRight == TypeOK /\ FedAsAsked /\ SettingsSteady

(* What BSEC has learned survives: no broken record is restored, outside a   *)
(* write no more than one timer's worth is at stake, and the flash is not    *)
(* worn by it.                                                               *)
StateIsKept == NoHalfRecordRestored /\ LossIsBounded /\ ThreeAccuracyWrites

--------------------------------------------------------------------------
(* What the documents say and the code does not do.                          *)

(* bme690_task.rs and software/README.md say of the save timer that it       *)
(* "bounds how much learning a power cut can cost".  It does not bound the   *)
(* cost of one that falls between the erase and the end of a write.          *)
TimerBoundsLoss == ~seen.failed => CostOfACut <= SaveInterval + 1

(* software/README.md says: "The BME690 does not discard anything, because   *)
(* BSEC reports its own readiness instead."  The task discards the first     *)
(* DISCARDED_WARMUP_READINGS readings that it would publish.                 *)
NothingDiscarded ==
    [][\A accuracy \in Accuracy : Output(accuracy) /\ task.skip = 0 => task'.published]_vars

(* software/README.md says of the warm-up: "The countdown restarts on every  *)
(* re-initialisation, not only at boot".  The one of this task does not.     *)
WarmupRestarts == [][~task.calibrated /\ task'.calibrated => task'.warmup = Warmup]_vars
=============================================================================
