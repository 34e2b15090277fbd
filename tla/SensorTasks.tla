---------------------------- MODULE SensorTasks ----------------------------
(* The sensor tasks of the firmware on the I2C bus they share.  Each task    *)
(* initialises its chip, discards some readings while it settles, then       *)
(* measures and publishes until something fails, when it starts over.  The   *)
(* transfers are those of SensorDrivers; each of them may fail, a chip may   *)
(* lose its state to a brown-out at any moment without a word, and the tasks *)
(* interleave wherever one waits for the bus or for a delay.                 *)
EXTENDS SensorDrivers, Naturals, FiniteSets

CONSTANTS Tasks,       \* the sensor tasks
          NoTask,      \* nobody holds the bus
          Assignments, \* which sensors the tasks may drive
          PollLimit,   \* polls of a result flag before a driver gives up
          MaxFaults,   \* bound: transfers that fail by themselves
          MaxUpsets    \* bound: brown-outs

ASSUME SensorTasksAssumption ==
    /\ NoTask \notin Tasks
    /\ Assignments \subseteq [Tasks -> Kinds]
    /\ {PollLimit, MaxFaults, MaxUpsets} \subseteq Nat

VARIABLES kind,     \* which sensor each task drives
          bus,      \* who holds the bus, and whether a broken-off transfer left it unusable
          task,     \* the variables of each task, and how far its program is
          chip,     \* the state of each chip
          out,      \* the reading each task published in its last cycle, if it did
          faults, upsets   \* failures and brown-outs so far

vars == <<kind, bus, task, chip, out, faults, upsets>>

NoReading == [published |-> FALSE]

--------------------------------------------------------------------------
(* The chips.  A result is "new" when its conversion was started in the     *)
(* current cycle (of the SPS30, in the current measurement), "old" when in  *)
(* an earlier one, "none" when the chip has not measured since its reset.   *)
Results == {"none", "old", "new"}

PowerOnChip == [set |-> {}, bank |-> 0, converting |-> "no", ready |-> FALSE, result |-> "none"]

Older(x) == CASE x = "new" -> "old" [] x = "this" -> "stale" [] OTHER -> x

\* What a new cycle makes of the results the chip still has.
Aged(k, c) ==
    IF k = "sps30" THEN c
    ELSE [c EXCEPT !.result = Older(@), !.converting = Older(@)]

\* The AS7343 measures nothing without its analog block, and a start of the OPT4048
\* writes its settings as well.
Started(k, c) ==
    CASE k = "as7343" /\ "power" \notin c.set -> c
      [] k = "sps30" -> [c EXCEPT !.set = @ \cup {"measuring"}, !.converting = "this", !.ready = FALSE]
      [] k = "opt4048" -> [c EXCEPT !.set = @ \cup {"control"}, !.converting = "this"]
      [] k \in {"sht41", "scd41"} -> [c EXCEPT !.converting = "this", !.ready = FALSE]
      [] OTHER -> [c EXCEPT !.converting = "this"]

Stopped(k, c) ==
    IF k = "sps30"
    THEN [c EXCEPT !.set = @ \ {"measuring"}, !.converting = "no", !.result = Older(@)]
    ELSE [c EXCEPT !.converting = "no"]

Effect(k, step, c) ==
    CASE step = "reset" -> PowerOnChip
      [] step = "bank1" -> [c EXCEPT !.bank = 1]
      [] step = "bank0" -> [c EXCEPT !.bank = 0]
      [] step = "control" -> [c EXCEPT !.set = @ \cup {"control"}, !.converting = "no"]
      [] step \in Settings \ {"control"} -> [c EXCEPT !.set = @ \cup {step}]
      [] step = "start" -> Started(k, c)
      [] step = "stop" -> Stopped(k, c)
      [] step = "clear" -> [c EXCEPT !.ready = FALSE]
      [] step = "read" -> [c EXCEPT !.ready = @ /\ k \notin {"sht41", "scd41", "sps30"}]
      [] OTHER -> c

\* What the chip refuses or cannot answer, so that the transfer fails whatever the bus does.
Refused(k, step, c) ==
    \/ k = "sps30" /\ step = "start" /\ "measuring" \in c.set
    \/ k \in {"sht41", "scd41"} /\ step = "read" /\ ~c.ready
    \/ step = "auxid" /\ c.bank # 1

--------------------------------------------------------------------------
(* The tasks. *)
IdleTask == [phase |-> "top", step |-> 1, needsInit |-> TRUE, warmup |-> 0, polls |-> 0,
             doomed |-> FALSE, settled |-> 0, upset |-> "no", got |-> "none", configured |-> FALSE]

Init ==
    /\ kind \in Assignments
    /\ bus = [owner |-> NoTask, wedged |-> FALSE]
    /\ task = [t \in Tasks |-> IdleTask]
    /\ chip = [t \in Tasks |-> PowerOnChip]
    /\ out = [t \in Tasks |-> NoReading]
    /\ faults = 0
    /\ upsets = 0

Program(t) == IF task[t].phase = "init" THEN Sensor(kind[t]).init ELSE Sensor(kind[t]).read

AtStep(t, steps) ==
    /\ task[t].phase \in {"init", "read"}
    /\ task[t].step <= Len(Program(t))
    /\ Program(t)[task[t].step] \in steps

NotTransfers == {"lock", "unlock", "wait"}

AtTransfer(t) ==
    /\ task[t].phase \in {"init", "read"}
    /\ task[t].step <= Len(Program(t))
    /\ Program(t)[task[t].step] \notin NotTransfers
    /\ bus.owner = t

Next1(t) == [task EXCEPT ![t].step = @ + 1]

\* The error return of a driver: the bus is released, and the task starts over after a pause.
Failed(t) ==
    /\ task' = [task EXCEPT ![t].phase = "top", ![t].needsInit = TRUE]
    /\ bus' = [bus EXCEPT !.owner = NoTask]

BeginRead(t) ==
    /\ chip' = [chip EXCEPT ![t] = Aged(kind[t], @)]
    /\ out' = [out EXCEPT ![t] = NoReading]

\* A pass of the loop, after the pause of an error or the tick of the schedule.
Begin(t) ==
    /\ task[t].phase = "top"
    /\ IF task[t].needsInit
       THEN /\ task' = [task EXCEPT ![t].phase = "init", ![t].step = 1, ![t].polls = 0,
                                    ![t].doomed = FALSE, ![t].upset = "no"]
            /\ out' = [out EXCEPT ![t] = NoReading]
            /\ UNCHANGED chip
       ELSE /\ task' = [task EXCEPT ![t].phase = "read", ![t].step = 1, ![t].polls = 0,
                                    ![t].upset = IF @ = "cycle" THEN "earlier" ELSE @]
            /\ BeginRead(t)
    /\ UNCHANGED <<kind, bus, faults, upsets>>

\* Mutant of Initialised: a warm-up that was broken off goes on where it was.
InitialisedResumes(t) ==
    /\ task[t].phase = "init"
    /\ task[t].step > Len(Program(t))
    /\ task' = [task EXCEPT ![t].phase = "read", ![t].step = 1, ![t].polls = 0,
                            ![t].warmup = IF @ > 0 THEN @ ELSE Sensor(kind[t]).warmup,
                            ![t].settled = 0]
    /\ BeginRead(t)
    /\ UNCHANGED <<kind, bus, faults, upsets>>

\* The initialisation went through: the warm-up starts again and the first reading is taken.
Initialised(t) ==
    /\ task[t].phase = "init"
    /\ task[t].step > Len(Program(t))
    /\ task' = [task EXCEPT ![t].phase = "read", ![t].step = 1, ![t].polls = 0,
                            ![t].warmup = Sensor(kind[t]).warmup, ![t].settled = 0]
    /\ BeginRead(t)
    /\ UNCHANGED <<kind, bus, faults, upsets>>

\* Mutant of Lock: the bus is taken as it is.
LockWithoutRecovery(t) ==
    /\ AtStep(t, {"lock"})
    /\ bus.owner = NoTask
    /\ bus' = [bus EXCEPT !.owner = t]
    /\ task' = Next1(t)
    /\ UNCHANGED <<kind, chip, out, faults, upsets>>

\* Acquiring the bus clocks it free and builds a fresh peripheral on it.
Lock(t) ==
    /\ AtStep(t, {"lock"})
    /\ bus.owner = NoTask
    /\ bus' = [owner |-> t, wedged |-> FALSE]
    /\ task' = Next1(t)
    /\ UNCHANGED <<kind, chip, out, faults, upsets>>

Unlock(t) ==
    /\ AtStep(t, {"unlock"})
    /\ bus' = [bus EXCEPT !.owner = NoTask]
    /\ task' = Next1(t)
    /\ UNCHANGED <<kind, chip, out, faults, upsets>>

\* A transfer that goes through, but for a poll.  The last step of a driver function that
\* only cleans up after a failed read reports the failure.
Transfer(t) ==
    /\ AtTransfer(t)
    /\ ~AtStep(t, {"poll"})
    /\ LET step == Program(t)[task[t].step] IN
       /\ ~Refused(kind[t], step, chip[t])
       /\ chip' = [chip EXCEPT ![t] = Effect(kind[t], step, @)]
       /\ IF task[t].doomed
          THEN Failed(t)
          ELSE /\ task' = [Next1(t) EXCEPT
                              ![t].got = IF step = "read" THEN chip[t].result ELSE @,
                              ![t].configured = IF step = "read"
                                                THEN Sensor(kind[t]).settings \subseteq chip[t].set
                                                ELSE @]
               /\ UNCHANGED bus
    /\ UNCHANGED <<kind, out, faults, upsets>>

\* A transfer that fails, before or after the chip took it.  The SPS30 task goes on after a
\* failed stop, and the AS7343 driver selects bank 0 again after a failed read in bank 1.
TransferFails(t) ==
    /\ AtTransfer(t)
    /\ LET step == Program(t)[task[t].step] IN
       /\ faults < MaxFaults \/ bus.wedged \/ Refused(kind[t], step, chip[t])
       /\ faults' = IF bus.wedged \/ Refused(kind[t], step, chip[t]) THEN faults ELSE faults + 1
       /\ \/ UNCHANGED chip
          \/ /\ ~Refused(kind[t], step, chip[t])
             /\ chip' = [chip EXCEPT ![t] = Effect(kind[t], step, @)]
       /\ CASE kind[t] = "sps30" /\ step = "stop" ->
                 /\ task' = Next1(t)
                 /\ bus' = [bus EXCEPT !.wedged = TRUE]
            [] step = "auxid" ->
                 /\ task' = [Next1(t) EXCEPT ![t].doomed = TRUE]
                 /\ bus' = [bus EXCEPT !.wedged = TRUE]
            [] OTHER ->
                 /\ task' = [task EXCEPT ![t].phase = "top", ![t].needsInit = TRUE]
                 /\ bus' = [owner |-> NoTask, wedged |-> TRUE]
    /\ UNCHANGED <<kind, out, upsets>>

\* The flag is set.  Reading the flags of the OPT4048 and the BMP581 clears them.
PollReady(t) ==
    /\ AtTransfer(t)
    /\ AtStep(t, {"poll"})
    /\ chip[t].ready
    /\ chip' = [chip EXCEPT ![t].ready = kind[t] \notin {"opt4048", "bmp581"}]
    /\ task' = Next1(t)
    /\ UNCHANGED <<kind, bus, out, faults, upsets>>

\* The flag is not set.  The SPS30 task releases the bus between polls and reads whatever
\* there is after the last; the drivers of the other chips hold it and give up.  The limit
\* is longer than a conversion, so it is only reached when the chip does not measure.
PollAgain(t) ==
    /\ AtTransfer(t)
    /\ AtStep(t, {"poll"})
    /\ ~chip[t].ready
    /\ task[t].polls < PollLimit
    /\ IF kind[t] = "sps30"
       THEN /\ task' = [task EXCEPT ![t].step = @ - 1, ![t].polls = @ + 1]
            /\ bus' = [bus EXCEPT !.owner = NoTask]
       ELSE /\ task' = [task EXCEPT ![t].polls = @ + 1]
            /\ UNCHANGED bus
    /\ UNCHANGED <<kind, chip, out, faults, upsets>>

\* Mutant of PollTimeout: a driver that gave up is not initialised again.
PollTimeoutRetries(t) ==
    /\ AtTransfer(t)
    /\ AtStep(t, {"poll"})
    /\ ~chip[t].ready
    /\ task[t].polls = PollLimit
    /\ chip[t].converting = "no"
    /\ IF kind[t] = "sps30"
       THEN /\ task' = Next1(t)
            /\ UNCHANGED bus
       ELSE /\ task' = [task EXCEPT ![t].phase = "top"]
            /\ bus' = [bus EXCEPT !.owner = NoTask]
    /\ UNCHANGED <<kind, chip, out, faults, upsets>>

PollTimeout(t) ==
    /\ AtTransfer(t)
    /\ AtStep(t, {"poll"})
    /\ ~chip[t].ready
    /\ task[t].polls = PollLimit
    /\ chip[t].converting = "no"
    /\ IF kind[t] = "sps30"
       THEN /\ task' = Next1(t)
            /\ UNCHANGED bus
       ELSE Failed(t)
    /\ UNCHANGED <<kind, chip, out, faults, upsets>>

\* Where the result is read without asking for a flag, the delay is the datasheet's maximum
\* for the conversion.
Wait(t) ==
    /\ AtStep(t, {"wait"})
    /\ kind[t] \in {"sht41", "scd41", "bmm350"} => chip[t].converting = "no"
    /\ task' = Next1(t)
    /\ UNCHANGED <<kind, bus, chip, out, faults, upsets>>

\* The reading is discarded while the sensor settles and published afterwards.
Finish(t) ==
    /\ task[t].phase = "read"
    /\ task[t].step > Len(Program(t))
    /\ task' = [task EXCEPT ![t].phase = "top", ![t].needsInit = FALSE,
                            ![t].warmup = IF @ > 0 THEN @ - 1 ELSE 0,
                            ![t].settled = IF @ < Sensor(kind[t]).warmup THEN @ + 1 ELSE @]
    /\ out' = [out EXCEPT ![t] =
                  IF task[t].warmup > 0 THEN NoReading
                  ELSE [published |-> TRUE, result |-> task[t].got, settled |-> task[t].settled,
                        configured |-> task[t].configured, upset |-> task[t].upset]]
    /\ UNCHANGED <<kind, bus, chip, faults, upsets>>

\* The chip finishes a conversion.  The BMP581 only flags one once told to, the SPS30 goes on.
Convert(t) ==
    /\ chip[t].converting # "no"
    /\ chip' = [chip EXCEPT
                  ![t].result = IF chip[t].converting = "this" THEN "new" ELSE "old",
                  ![t].ready = kind[t] = "bmp581" => "drdy" \in chip[t].set,
                  ![t].converting = IF kind[t] = "sps30" THEN @ ELSE "no"]
    /\ chip' # chip
    /\ UNCHANGED <<kind, bus, task, out, faults, upsets>>

\* A brown-out: the chip is back in its power-on state and says nothing.
Upset(t) ==
    /\ upsets < MaxUpsets
    /\ upsets' = upsets + 1
    /\ chip' = [chip EXCEPT ![t] = PowerOnChip]
    /\ task' = [task EXCEPT ![t].upset =
                   CASE task[t].phase = "init" -> "init"
                     [] task[t].phase = "read" -> "cycle"
                     [] OTHER -> "earlier"]
    /\ UNCHANGED <<kind, bus, out, faults>>

Step(t) ==
    \/ Begin(t) \/ Initialised(t) \/ Unlock(t) \/ Transfer(t) \/ TransferFails(t)
    \/ PollReady(t) \/ PollAgain(t) \/ PollTimeout(t) \/ Wait(t) \/ Finish(t)

Next == \E t \in Tasks : Step(t) \/ Lock(t) \/ Convert(t) \/ Upset(t)

(* The executor polls every ready task and the chips finish what they       *)
(* start.  The mutex has no queue, but tasks hold it only between two of     *)
(* their own delays, so a task that keeps waiting gets it.                  *)
Fairness ==
    \A t \in Tasks : WF_vars(Step(t)) /\ SF_vars(Lock(t)) /\ WF_vars(Convert(t))

Spec == Init /\ [][Next]_vars /\ Fairness
--------------------------------------------------------------------------
(* Types: every variable holds what the code's types allow. *)
TypeOK ==
    /\ kind \in [Tasks -> Kinds]
    /\ bus \in [owner : Tasks \cup {NoTask}, wedged : BOOLEAN]
    /\ task \in [Tasks -> [phase : {"top", "init", "read"}, step : 1..20, needsInit : BOOLEAN,
                           warmup : 0..6, polls : 0..PollLimit, doomed : BOOLEAN, settled : 0..6,
                           upset : {"no", "init", "cycle", "earlier"},
                           got : Results, configured : BOOLEAN]]
    /\ chip \in [Tasks -> [set : SUBSET (Settings \cup {"measuring"}), bank : {0, 1},
                           converting : {"no", "this", "stale"}, ready : BOOLEAN,
                           result : Results]]
    /\ out \in [Tasks -> {NoReading} \cup
                 [published : {TRUE}, result : Results, settled : 0..6, configured : BOOLEAN,
                  upset : {"no", "init", "cycle", "earlier"}]]
    /\ faults \in 0..MaxFaults
    /\ upsets \in 0..MaxUpsets

Published(t) == out[t].published

(* What a task publishes was measured in the cycle that publishes it, never  *)
(* a result a broken-off cycle left in the chip; only a chip that lost its   *)
(* state in the middle of the cycle, or the SPS30 at any time (its task      *)
(* reads after the last poll whatever the flag says), can slip one past.     *)
PublishedIsFresh ==
    \A t \in Tasks : Published(t) =>
        \/ out[t].result = "new"
        \/ out[t].upset = "cycle"
        \/ kind[t] = "sps30" /\ out[t].upset # "no"

(* What a task publishes was measured with every setting its initialisation  *)
(* programs, whatever failed before: a chip that came back with its defaults *)
(* between two cycles is noticed before it is believed.  Not noticed are a   *)
(* reset in the middle of an initialisation or of a cycle, and any reset of  *)
(* the SPS30 and the BMM350, which measure without being configured.         *)
PublishedAsConfigured ==
    \A t \in Tasks : Published(t) =>
        \/ out[t].configured
        \/ out[t].upset \in {"init", "cycle"}
        \/ kind[t] \in {"sps30", "bmm350"} /\ out[t].upset = "earlier"

(* Between an initialisation and the next publication lies the whole warm-up *)
(* of the sensor, also when the initialisation followed an error in the      *)
(* middle of a warm-up.                                                      *)
SettledBeforePublished ==
    \A t \in Tasks : Published(t) => out[t].settled >= Sensor(kind[t]).warmup

(* A task that holds the bus finds the AS7343 in register bank 0 at every    *)
(* step outside the identification, also after an error inside it.           *)
BankZero ==
    \A t \in Tasks :
        kind[t] = "as7343" /\ AtTransfer(t) /\ ~AtStep(t, {"bank1", "auxid", "bank0"}) =>
            chip[t].bank = 0

(* A transfer broken off by one task does not reach another: whoever holds   *)
(* the bus either has it in order or broke it in the same lock scope, which  *)
(* only the two drivers that go on after an error do.                        *)
FailedTransferStaysLocal ==
    bus.owner # NoTask /\ bus.wedged => kind[bus.owner] \in {"sps30", "as7343"}

(* Whatever failed, and whatever a chip forgot, every task comes back to     *)
(* publishing readings.                                                      *)
KeepsPublishing == \A t \in Tasks : []<>Published(t)

(* The two things the drivers share are in order whoever uses them next: the *)
(* bus after a failed transfer and the register bank after a failed          *)
(* identification.                                                           *)
BusAndBankInOrder == TypeOK /\ BankZero /\ FailedTransferStaysLocal
============================================================================
