-------------------------- MODULE Bme690TaskProofs --------------------------
(* Theorems about the BME690 task, for any warm-up, publication rate, save   *)
(* timer and number of accidents: BSEC is fed what it asked for, the first   *)
(* reading is published after the whole warm-up, and what BSEC has learned   *)
(* is kept at the cost of few erases.                                        *)
EXTENDS Bme690Task, TLAPS

--------------------------------------------------------------------------
(* The types, by name.  What is left of a driver function is an end of one   *)
(* of the four sequences a pass of the loop runs.                            *)
InitTodos ==
    {<<"reset", "check", "osr", "check", "check">>, <<"check", "osr", "check", "check">>,
     <<"osr", "check", "check">>, <<"check", "check">>, <<"check">>, <<>>}

\* What run_cycle() and set_sleep may leave to do.
CycleTodos ==
    {<<"osr", "heater", "gas", "mode", "start", "poll">>,
     <<"heater", "gas", "mode", "start", "poll">>, <<"gas", "mode", "start", "poll">>,
     <<"mode", "start", "poll">>, <<"start", "poll">>, <<"poll">>,
     <<"osr", "heater", "gas">>, <<"heater", "gas">>, <<"gas">>, <<"mode">>, <<>>}

\* The states of the sensor, the task, the observations and the flash record.
ChipStates == [set : SUBSET CycleSettings, mode : {"sleep", "forced"}, ready : BOOLEAN,
               result : {"none", "old", "new"}, whole : BOOLEAN]

TaskStates == [phase : {"boot", "ended", "control", "bus", "steps", "save", "header",
                        "payload", "wait"},
               todo : InitTodos \cup CycleTodos, calibrated : BOOLEAN,
               skip : 0..(PublishEvery - 1), warmup : 0..Warmup,
               saved : Accuracy \cup {Nothing}, age : 0..SaveInterval, accuracy : Accuracy,
               fresh : BOOLEAN, upset : BOOLEAN, basis : {"scratch", "record", "garbage"},
               published : BOOLEAN]

SeenStates == [heard : 0..MaxHeard, unsaved : 0..MaxUnsaved, recorded : BOOLEAN, rises : Nat,
               failed : BOOLEAN]
Records == [header : BOOLEAN, payload : BOOLEAN]

--------------------------------------------------------------------------
(* What is left to do on the bus is left of the sequence that was begun.     *)
WorksInOrder(tk) ==
    /\ tk.phase # "bus" => tk.todo = <<>>
    /\ tk.phase = "bus" => tk.todo \in IF tk.calibrated THEN CycleTodos ELSE InitTodos
    /\ tk.phase = "steps" => tk.calibrated

(* A sensor that counts as set up measures only while its flag is polled     *)
(* for, and a flag an error left behind does not outlive the reset.          *)
AtRest(c) == c.mode = "sleep" /\ ~c.ready

\* Outside the poll for its own result an initialised sensor sleeps without a flag.
RestsOtherwise(c, tk) ==
    /\ tk.calibrated /\ tk.todo # <<"poll">> => AtRest(c)
    /\ ~tk.calibrated /\ tk.phase = "bus" /\ tk.todo # InitializeSensor => AtRest(c)
    /\ tk.todo = <<"poll">> /\ c.ready => c.mode = "sleep"

(* The settings a measurement is started with were written in its cycle, and *)
(* its flag stands for its own result.                                       *)
SetUp(c, tk) ==
    tk.calibrated /\ ~tk.upset =>
        /\ tk.todo = <<"heater", "gas", "mode", "start", "poll">> => "osr" \in c.set
        /\ tk.todo = <<"gas", "mode", "start", "poll">> => {"osr", "heater"} \subseteq c.set
        /\ tk.todo \in {<<"mode", "start", "poll">>, <<"start", "poll">>, <<"poll">>} =>
             CycleSettings \subseteq c.set
        /\ tk.todo = <<"poll">> /\ c.ready => c.result = "new" /\ c.whole
        /\ tk.phase = "steps" => c.result = "new" /\ c.whole

(* Every output counted against the warm-up stands for PublishEvery of them. *)
CountsOutputs(tk, s) ==
    /\ s.heard + tk.skip >= (Warmup - tk.warmup) * PublishEvery
    /\ tk.published => s.heard > Warmup * PublishEvery

(* While saves succeed, at most one output more than the timer has cycles is *)
(* not in the flash: the one the task is about to act upon.  The first       *)
(* output of a boot is adopted without being written.                        *)
Justified(tk) == (tk.phase = "save" /\ tk.fresh) \/ tk.phase \in {"header", "payload"}

\* How many outputs are not in the flash, by where the task is in its pass.
TimerBounds(tk, s) ==
    ~s.failed =>
        /\ ~Justified(tk) /\ tk.phase # "wait" =>
             s.unsaved <= tk.age /\ (tk.saved = Nothing => s.unsaved = 0)
        /\ Justified(tk) => s.unsaved <= tk.age + 1 /\ (tk.saved = Nothing => s.unsaved <= 1)
        /\ tk.phase = "wait" =>
             /\ s.unsaved <= CountedTo(tk.age, SaveInterval)
             /\ tk.saved = Nothing => s.unsaved = 0

(* Every erase a better accuracy asked for has raised the accuracy that the  *)
(* next one has to beat, or is about to, whether the write succeeds or not.  *)
Writing(tk) == tk.phase \in {"header", "payload"}

\* How many erases a better accuracy has asked for since the boot.
ErasesCount(tk, s) ==
    /\ Writing(tk) => tk.saved # Nothing
    /\ \/ s.rises = 0
       \/ tk.saved # Nothing /\ s.rises <= tk.saved
       \/ Writing(tk) /\ s.rises <= tk.accuracy

(* Outside a write, a state that was recorded since boot still is, unless    *)
(* the last save failed; and the payload is written behind a header.         *)
RecordKept(tk, s, record) ==
    /\ tk.phase = "payload" => record.header
    /\ s.recorded /\ ~s.failed /\ ~Writing(tk) => Load(record)

\* The inductive invariant.
IInv ==
    /\ chip \in ChipStates /\ task \in TaskStates /\ flash \in Records /\ seen \in SeenStates
    /\ faults \in 0..MaxFaults /\ upsets \in 0..MaxUpsets /\ cuts \in 0..MaxCuts
    /\ WorksInOrder(task) /\ RestsOtherwise(chip, task) /\ SetUp(chip, task)
    /\ CountsOutputs(task, seen) /\ TimerBounds(task, seen) /\ ErasesCount(task, seen)
    /\ RecordKept(task, seen, flash) /\ NoHalfRecordRestored
--------------------------------------------------------------------------
(* The sequences, and their ends.                                            *)
LEMMA DriverSequences ==
    /\ InitializeSensor = <<"reset", "check", "osr", "check", "check">>
    /\ RunCycle("sleep") = <<"mode">>
    /\ RunCycle("setup") = <<"osr", "heater", "gas">>
    /\ RunCycle("measure") = <<"osr", "heater", "gas", "mode", "start", "poll">>
<1>1. <<"reset", "check", "osr", "check", "check">> = InitializeSensor
  BY DEF InitializeSensor, InitSensor, Reset, SetOversampling, ReadCalibration
<1>2. RunCycle("sleep") = <<"mode">>
  BY DEF RunCycle, SetModeSleep
<1>3. RunCycle("setup") = <<"osr", "heater", "gas">>
  <2>1. RunCycle("setup") = SetOversampling \o SetHeaterProfile \o SetGasConfig
    BY DEF RunCycle
  <2> QED
    BY <2>1 DEF SetOversampling, SetHeaterProfile, SetGasConfig
<1>4. RunCycle("measure") = <<"osr", "heater", "gas", "mode", "start", "poll">>
  <2>1. RunCycle("measure") =
          SetOversampling \o SetHeaterProfile \o SetGasConfig \o MeasureForced
    BY DEF RunCycle
  <2> QED
    BY <2>1 DEF SetOversampling, SetHeaterProfile, SetGasConfig, MeasureForced
<1> QED
  BY <1>1, <1>2, <1>3, <1>4

\* What is left of an initialisation after its next step.
LEMMA InitEnds ==
    ASSUME NEW s \in InitTodos, s # <<>>
    PROVE  /\ Tail(s) \in InitTodos /\ Tail(s) # InitializeSensor
           /\ Head(s) \in {"reset", "check", "osr"}
           /\ Head(s) = "reset" <=> s = InitializeSensor
           /\ Tail(s) # <<"poll">> /\ s # <<"poll">>
<1> USE DriverSequences
<1>1. CASE s = <<"reset", "check", "osr", "check", "check">>
  BY <1>1 DEF InitTodos
<1>2. CASE s = <<"check", "osr", "check", "check">>
  BY <1>2 DEF InitTodos
<1>3. CASE s = <<"osr", "check", "check">>
  BY <1>3 DEF InitTodos
<1>4. CASE s = <<"check", "check">>
  BY <1>4 DEF InitTodos
<1>5. CASE s = <<"check">>
  BY <1>5 DEF InitTodos
<1> QED
  BY <1>1, <1>2, <1>3, <1>4, <1>5 DEF InitTodos

\* What is left of a cycle after its next step.
CycleEnd(s) ==
    /\ Tail(s) \in CycleTodos
    /\ Head(s) \in {"osr", "heater", "gas", "mode", "start", "poll"}
    /\ Head(s) = "poll" <=> s = <<"poll">>
    /\ Tail(s) = <<"poll">> => s = <<"start", "poll">>
    /\ Head(s) = "start" => s = <<"start", "poll">>
    /\ Tail(s) = <<"heater", "gas", "mode", "start", "poll">> => Head(s) = "osr"
    /\ Tail(s) = <<"gas", "mode", "start", "poll">> =>
         s = <<"heater", "gas", "mode", "start", "poll">> /\ Head(s) = "heater"
    /\ Tail(s) = <<"mode", "start", "poll">> =>
         s = <<"gas", "mode", "start", "poll">> /\ Head(s) = "gas"
    /\ Tail(s) = <<"start", "poll">> => s = <<"mode", "start", "poll">>

\* Every rest of a cycle has a next step, and it is the one its name says.
LEMMA CycleEnds == \A s \in CycleTodos \ {<<>>} : CycleEnd(s)
<1> SUFFICES ASSUME NEW s \in CycleTodos, s # <<>>
             PROVE  CycleEnd(s)
  OBVIOUS
<1>1. CASE s = <<"osr", "heater", "gas", "mode", "start", "poll">>
  BY <1>1 DEF CycleTodos, CycleEnd
<1>2. CASE s = <<"heater", "gas", "mode", "start", "poll">>
  BY <1>2 DEF CycleTodos, CycleEnd
<1>3. CASE s = <<"gas", "mode", "start", "poll">>
  BY <1>3 DEF CycleTodos, CycleEnd
<1>4. CASE s = <<"mode", "start", "poll">>
  BY <1>4 DEF CycleTodos, CycleEnd
<1>5. CASE s = <<"start", "poll">>
  BY <1>5 DEF CycleTodos, CycleEnd
<1>6. CASE s = <<"poll">>
  BY <1>6 DEF CycleTodos, CycleEnd
<1>7. CASE s = <<"osr", "heater", "gas">>
  BY <1>7 DEF CycleTodos, CycleEnd
<1>8. CASE s = <<"heater", "gas">>
  BY <1>8 DEF CycleTodos, CycleEnd
<1>9. CASE s = <<"gas">>
  BY <1>9 DEF CycleTodos, CycleEnd
<1>10. CASE s = <<"mode">>
  BY <1>10 DEF CycleTodos, CycleEnd
<1> QED
  BY <1>1, <1>2, <1>3, <1>4, <1>5, <1>6, <1>7, <1>8, <1>9, <1>10 DEF CycleTodos

\* No driver function has more than six transfers to go.
LEMMA SixStepsAtMost ==
    ASSUME NEW s \in InitTodos \cup CycleTodos
    PROVE  Len(s) <= 6
<1>1. s = <<"reset", "check", "osr", "check", "check">> => Len(s) <= 6
  OBVIOUS
<1>2. s = <<"check", "osr", "check", "check">> => Len(s) <= 6
  OBVIOUS
<1>3. s = <<"osr", "check", "check">> => Len(s) <= 6
  OBVIOUS
<1>4. s = <<"check", "check">> => Len(s) <= 6
  OBVIOUS
<1>5. s = <<"check">> => Len(s) <= 6
  OBVIOUS
<1>6. s = <<>> => Len(s) <= 6
  OBVIOUS
<1>7. s = <<"osr", "heater", "gas", "mode", "start", "poll">> => Len(s) <= 6
  OBVIOUS
<1>8. s = <<"heater", "gas", "mode", "start", "poll">> => Len(s) <= 6
  OBVIOUS
<1>9. s = <<"gas", "mode", "start", "poll">> => Len(s) <= 6
  OBVIOUS
<1>10. s = <<"mode", "start", "poll">> => Len(s) <= 6
  OBVIOUS
<1>11. s = <<"start", "poll">> => Len(s) <= 6
  OBVIOUS
<1>12. s = <<"poll">> => Len(s) <= 6
  OBVIOUS
<1>13. s = <<"osr", "heater", "gas">> => Len(s) <= 6
  OBVIOUS
<1>14. s = <<"heater", "gas">> => Len(s) <= 6
  OBVIOUS
<1>15. s = <<"gas">> => Len(s) <= 6
  OBVIOUS
<1>16. s = <<"mode">> => Len(s) <= 6
  OBVIOUS
<1>a. s \in InitTodos => Len(s) <= 6
  BY <1>1, <1>2, <1>3, <1>4, <1>5, <1>6, Zenon DEF InitTodos
<1>b. s \in CycleTodos => Len(s) <= 6
  BY <1>6, <1>7, <1>8, <1>9, <1>10, <1>11,
     <1>12, <1>13, <1>14, <1>15, <1>16, Zenon DEF CycleTodos
<1> QED
  BY <1>a, <1>b

\* An empty rest and the beginnings of the sequences are none of the places above.
LEMMA Beginnings ==
    /\ <<>> \in InitTodos /\ <<>> \in CycleTodos /\ InitializeSensor \in InitTodos
    /\ \A request \in {"sleep", "setup", "measure"} :
         LET s == RunCycle(request) IN
         /\ s \in CycleTodos
         /\ s \notin {<<"heater", "gas", "mode", "start", "poll">>,
                      <<"gas", "mode", "start", "poll">>, <<"mode", "start", "poll">>,
                      <<"start", "poll">>, <<"poll">>}
    /\ <<>> \notin {<<"heater", "gas", "mode", "start", "poll">>,
                    <<"gas", "mode", "start", "poll">>, <<"mode", "start", "poll">>,
                    <<"start", "poll">>, <<"poll">>}
<1>1. <<>> \in InitTodos /\ <<>> \in CycleTodos /\ InitializeSensor \in InitTodos
  BY DriverSequences DEF InitTodos, CycleTodos
<1>2. <<>> \notin {<<"heater", "gas", "mode", "start", "poll">>,
                   <<"gas", "mode", "start", "poll">>, <<"mode", "start", "poll">>,
                   <<"start", "poll">>, <<"poll">>}
  OBVIOUS
<1> DEFINE Later == {<<"heater", "gas", "mode", "start", "poll">>,
                     <<"gas", "mode", "start", "poll">>, <<"mode", "start", "poll">>,
                     <<"start", "poll">>, <<"poll">>}
<1>3. <<"mode">> \in CycleTodos /\ <<"mode">> \notin Later
  BY DEF CycleTodos
<1>4. <<"osr", "heater", "gas">> \in CycleTodos /\ <<"osr", "heater", "gas">> \notin Later
  BY DEF CycleTodos
<1>5. /\ <<"osr", "heater", "gas", "mode", "start", "poll">> \in CycleTodos
      /\ <<"osr", "heater", "gas", "mode", "start", "poll">> \notin Later
  BY DEF CycleTodos
<1> QED
  BY <1>1, <1>2, <1>3, <1>4, <1>5, DriverSequences

\* The greater of two numbers.
LEMMA MaxOfTwo ==
    ASSUME NEW a \in Int, NEW b \in Int
    PROVE  Max({a, b}) \in {a, b} /\ Max({a, b}) >= a /\ Max({a, b}) >= b
<1>1. \E x \in {a, b} : \A y \in {a, b} : x >= y
  OBVIOUS
<1> QED
  BY <1>1 DEF Max
--------------------------------------------------------------------------
(* What the actions have in common.                                          *)

\* The constants are numbers.
LEMMA ConstantTypes ==
    /\ PublishEvery \in Nat /\ SaveInterval \in Nat /\ PublishEvery >= 1 /\ SaveInterval >= 1
    /\ Warmup \in Nat /\ MaxFaults \in Nat /\ MaxUpsets \in Nat /\ MaxCuts \in Nat
  BY Bme690TaskAssumption

(* Between two saves the task only works with the sensor; a boot notes       *)
(* besides whether it started from a record.                                 *)
LEMMA SensorOrBootSteps ==
    ASSUME IInv, task.phase \in {"boot", "ended", "control", "bus", "steps"},
           task'.phase \in {"ended", "control", "bus", "steps", "save"},
           task' \in TaskStates, chip' \in ChipStates,
           WorksInOrder(task'), RestsOtherwise(chip', task'), SetUp(chip', task'),
           task'.skip = task.skip, task'.warmup = task.warmup, task'.saved = task.saved,
           task'.age = task.age, task'.published => task.published,
           task'.basis # "garbage", flash' = flash, NEW r \in BOOLEAN, r => Load(flash),
           seen' = seen \/ seen' = [seen EXCEPT !.recorded = r],
           faults' \in 0..MaxFaults, upsets' \in 0..MaxUpsets, cuts' \in 0..MaxCuts
    PROVE  IInv'
<1>1. /\ flash' \in Records /\ seen \in SeenStates /\ task \in TaskStates
      /\ CountsOutputs(task, seen) /\ TimerBounds(task, seen) /\ ErasesCount(task, seen)
      /\ RecordKept(task, seen, flash)
  BY DEF IInv
<1>2. /\ seen' \in SeenStates /\ seen'.heard = seen.heard /\ seen'.unsaved = seen.unsaved
      /\ seen'.rises = seen.rises /\ seen'.failed = seen.failed
      /\ seen'.recorded => seen.recorded \/ Load(flash)
  BY <1>1 DEF SeenStates
<1>3. CountsOutputs(task', seen')
  BY <1>1, <1>2 DEF CountsOutputs
<1>4. TimerBounds(task', seen')
  <2>1. ~Justified(task) /\ task.phase # "wait" /\ task'.phase # "wait"
    BY DEF Justified
  <2>2. seen.unsaved \in Int /\ task.age \in Int
    BY <1>1 DEF SeenStates, TaskStates
  <2> SUFFICES ASSUME ~seen.failed
               PROVE  /\ seen.unsaved <= task.age /\ seen.unsaved <= task.age + 1
                      /\ task.saved = Nothing => seen.unsaved = 0 /\ seen.unsaved <= 1
    BY <1>2, <2>1 DEF TimerBounds
  <2> QED
    BY <1>1, <2>1, <2>2 DEF TimerBounds
<1>5. ErasesCount(task', seen') /\ RecordKept(task', seen', flash')
  <2>1. ~Writing(task) /\ ~Writing(task')
    BY DEF Writing
  <2>2. ErasesCount(task', seen')
    BY <1>1, <1>2, <2>1 DEF ErasesCount
  <2>3. task'.phase # "payload" /\ (seen'.recorded /\ ~seen'.failed => Load(flash'))
    BY <1>1, <1>2, <2>1 DEF RecordKept, Load
  <2> QED
    BY <2>2, <2>3 DEF RecordKept
<1>6. NoHalfRecordRestored'
  BY DEF NoHalfRecordRestored
<1> QED
  BY <1>1, <1>2, <1>3, <1>4, <1>5, <1>6 DEF IInv

\* After the boot nothing is noted of it again.
LEMMA SensorSteps ==
    ASSUME IInv, task.phase \in {"boot", "ended", "control", "bus", "steps"},
           task'.phase \in {"ended", "control", "bus", "steps", "save"},
           task' \in TaskStates, chip' \in ChipStates,
           WorksInOrder(task'), RestsOtherwise(chip', task'), SetUp(chip', task'),
           task'.skip = task.skip, task'.warmup = task.warmup, task'.saved = task.saved,
           task'.age = task.age, task'.published => task.published,
           task'.basis # "garbage", flash' = flash, seen' = seen,
           faults' \in 0..MaxFaults, upsets' \in 0..MaxUpsets, cuts' \in 0..MaxCuts
    PROVE  IInv'
<1>1. FALSE \in BOOLEAN /\ (FALSE => Load(flash))
  OBVIOUS
<1> QED
  BY <1>1, SensorOrBootSteps

\* From a cycle to the next the sensor is left alone.
LEMMA SaveSteps ==
    ASSUME IInv, task.phase \in {"save", "header", "payload", "wait"},
           task'.phase \in {"control", "header", "payload", "wait"},
           task' \in TaskStates, chip' = chip,
           task'.todo = task.todo, task'.calibrated = task.calibrated,
           task'.upset = task.upset,
           task'.skip = task.skip, task'.warmup = task.warmup,
           task'.published = task.published, task'.basis = task.basis,
           seen'.heard = seen.heard, seen' \in SeenStates, flash' \in Records,
           TimerBounds(task', seen'), ErasesCount(task', seen'),
           RecordKept(task', seen', flash'),
           faults' \in 0..MaxFaults, upsets' \in 0..MaxUpsets, cuts' \in 0..MaxCuts
    PROVE  IInv'
<1>1. WorksInOrder(task')
  BY DEF IInv, WorksInOrder
<1>2. RestsOtherwise(chip', task') /\ SetUp(chip', task')
  BY DEF IInv, RestsOtherwise, SetUp
<1>3. CountsOutputs(task', seen')
  BY DEF IInv, CountsOutputs
<1>4. NoHalfRecordRestored'
  BY DEF IInv, NoHalfRecordRestored
<1>5. chip' \in ChipStates
  BY DEF IInv
<1> QED
  BY <1>1, <1>2, <1>3, <1>4, <1>5 DEF IInv

\* What the sensor does leaves the task where it is.
LEMMA ChipSteps ==
    ASSUME IInv, chip' \in ChipStates, NEW u \in BOOLEAN,
           task' = [task EXCEPT !.upset = u],
           RestsOtherwise(chip', task'), SetUp(chip', task'),
           flash' = flash, seen' = seen,
           faults' \in 0..MaxFaults, upsets' \in 0..MaxUpsets, cuts' \in 0..MaxCuts
    PROVE  IInv'
<1>1. task \in TaskStates
  BY DEF IInv
<1>2. /\ task' \in TaskStates /\ task'.phase = task.phase /\ task'.todo = task.todo
      /\ task'.calibrated = task.calibrated /\ task'.skip = task.skip
      /\ task'.warmup = task.warmup /\ task'.saved = task.saved /\ task'.age = task.age
      /\ task'.accuracy = task.accuracy /\ task'.fresh = task.fresh
      /\ task'.basis = task.basis /\ task'.published = task.published
  BY <1>1 DEF TaskStates
<1>3. WorksInOrder(task')
  BY <1>2 DEF IInv, WorksInOrder
<1>4. CountsOutputs(task', seen') /\ NoHalfRecordRestored'
  BY <1>2 DEF IInv, CountsOutputs, NoHalfRecordRestored
<1>5. TimerBounds(task', seen') /\ ErasesCount(task', seen') /\ RecordKept(task', seen', flash')
  BY <1>2 DEF IInv, TimerBounds, Justified, ErasesCount, Writing, RecordKept
<1>6. flash' \in Records /\ seen' \in SeenStates
  BY DEF IInv
<1> QED
  BY <1>2, <1>3, <1>4, <1>5, <1>6 DEF IInv

\* After an error the sensor is set up again whatever it does by then.
LEMMA CycleFailsFits ==
    ASSUME IInv
    PROVE  LET tk == CycleFails(task) IN
           /\ tk \in TaskStates /\ tk.phase = "control" /\ ~tk.calibrated
           /\ tk.skip = task.skip /\ tk.warmup = task.warmup /\ tk.saved = task.saved
           /\ tk.age = task.age /\ tk.published = task.published /\ tk.basis = task.basis
           /\ WorksInOrder(tk)
           /\ \A c : RestsOtherwise(c, tk) /\ SetUp(c, tk)
<1> DEFINE tk == CycleFails(task)
<1>1. task \in TaskStates
  BY DEF IInv
<1>2. <<>> \in InitTodos \cup CycleTodos /\ <<>> # <<"poll">>
  BY Beginnings
<1>3. /\ tk \in TaskStates /\ tk.phase = "control" /\ tk.calibrated = FALSE /\ tk.todo = <<>>
      /\ tk.skip = task.skip /\ tk.warmup = task.warmup /\ tk.saved = task.saved
      /\ tk.age = task.age /\ tk.published = task.published /\ tk.basis = task.basis
  BY <1>1, <1>2 DEF CycleFails, TaskStates
<1> HIDE DEF tk
<1>4. WorksInOrder(tk)
  BY <1>3 DEF WorksInOrder
<1>5. \A c : RestsOtherwise(c, tk) /\ SetUp(c, tk)
  BY <1>2, <1>3 DEF RestsOtherwise, SetUp
<1> QED
  BY <1>3, <1>4, <1>5 DEF tk

\* The next step of the bus: where it stands, and what is left after it.
LEMMA NextOnTheBus ==
    ASSUME IInv, NEW step, At(step)
    PROVE  LET tk == Done(task) IN
           /\ task.todo # <<>> /\ Head(task.todo) = step /\ tk.todo = Tail(task.todo)
           /\ tk \in TaskStates /\ tk.phase = "bus" /\ task.phase = "bus"
           /\ tk.calibrated = task.calibrated /\ tk.upset = task.upset
           /\ tk.skip = task.skip /\ tk.warmup = task.warmup /\ tk.saved = task.saved
           /\ tk.age = task.age /\ tk.published = task.published /\ tk.basis = task.basis
           /\ WorksInOrder(tk)
           /\ task.calibrated => task.todo \in CycleTodos /\ CycleEnd(task.todo)
           /\ ~task.calibrated =>
                /\ task.todo \in InitTodos /\ Tail(task.todo) # InitializeSensor
                /\ Tail(task.todo) # <<"poll">> /\ task.todo # <<"poll">>
                /\ step = "reset" <=> task.todo = InitializeSensor
<1> DEFINE tk == Done(task)
<1>1. /\ task \in TaskStates /\ WorksInOrder(task)
      /\ task.phase = "bus" /\ task.todo # <<>> /\ Head(task.todo) = step
  BY DEF IInv, At
<1>2. task.calibrated => task.todo \in CycleTodos /\ CycleEnd(task.todo)
  BY <1>1, CycleEnds DEF WorksInOrder
<1>3. ~task.calibrated =>
        /\ task.todo \in InitTodos /\ Tail(task.todo) # InitializeSensor
        /\ Tail(task.todo) \in InitTodos
        /\ Tail(task.todo) # <<"poll">> /\ task.todo # <<"poll">>
        /\ step = "reset" <=> task.todo = InitializeSensor
  BY <1>1, InitEnds DEF WorksInOrder
<1>4. Tail(task.todo) \in InitTodos \cup CycleTodos
  BY <1>2, <1>3 DEF CycleEnd
<1>5. /\ tk \in TaskStates /\ tk.phase = "bus" /\ tk.todo = Tail(task.todo)
      /\ tk.calibrated = task.calibrated /\ tk.upset = task.upset
      /\ tk.skip = task.skip /\ tk.warmup = task.warmup /\ tk.saved = task.saved
      /\ tk.age = task.age /\ tk.published = task.published /\ tk.basis = task.basis
  BY <1>1, <1>4 DEF Done, TaskStates
<1> HIDE DEF tk
<1>6. WorksInOrder(tk)
  BY <1>2, <1>3, <1>5 DEF WorksInOrder, CycleEnd
<1> QED
  BY <1>1, <1>2, <1>3, <1>5, <1>6 DEF tk
--------------------------------------------------------------------------
(* The actions: starting, and what the bus and BSEC make of a cycle.         *)

\* What the bounds of the accidents allow.
LEMMA AccidentsTyped ==
    ASSUME IInv
    PROVE  /\ faults \in 0..MaxFaults /\ upsets \in 0..MaxUpsets /\ cuts \in 0..MaxCuts
           /\ faults < MaxFaults => faults + 1 \in 0..MaxFaults
           /\ upsets < MaxUpsets => upsets + 1 \in 0..MaxUpsets
           /\ cuts < MaxCuts => cuts + 1 \in 0..MaxCuts
  BY ConstantTypes DEF IInv

\* Where nothing is left to do on the bus.
LEMMA OffTheBus ==
    ASSUME NEW c, NEW tk, tk.todo = <<>>, ~tk.calibrated \/ AtRest(c),
           tk.phase \notin {"bus", "steps"}
    PROVE  WorksInOrder(tk) /\ RestsOtherwise(c, tk) /\ SetUp(c, tk)
<1>1. <<>> \notin {<<"heater", "gas", "mode", "start", "poll">>,
                   <<"gas", "mode", "start", "poll">>, <<"mode", "start", "poll">>,
                   <<"start", "poll">>, <<"poll">>}
  BY Beginnings
<1> QED
  BY <1>1 DEF WorksInOrder, RestsOtherwise, SetUp

\* Starting BSEC, with or without the record of the flash, keeps the invariant.
LEMMA BootKeeps ==
    ASSUME IInv, Boot \/ BsecRefuses
    PROVE  IInv'
<1>1. /\ task \in TaskStates /\ chip \in ChipStates /\ flash \in Records
      /\ task.phase = "boot" /\ task.todo = <<>> /\ task.basis # "garbage"
      /\ task.calibrated => AtRest(chip)
  BY Beginnings DEF IInv, Boot, BsecRefuses, WorksInOrder, RestsOtherwise, NoHalfRecordRestored
<1>2. /\ task' \in TaskStates /\ task'.phase \in {"control", "ended"}
      /\ task'.todo = <<>> /\ task'.calibrated = task.calibrated
      /\ task'.skip = task.skip /\ task'.warmup = task.warmup /\ task'.saved = task.saved
      /\ task'.age = task.age /\ task'.published = task.published
      /\ task'.basis # "garbage"
  <2>1. CASE Boot
    <3> DEFINE b == IF ~Load(flash) THEN "scratch"
                    ELSE IF flash.payload THEN "record" ELSE "garbage"
    <3>1. b \in {"scratch", "record"}
      BY DEF Load
    <3>2. task' = [task EXCEPT !.phase = "control", !.basis = b]
      BY <2>1 DEF Boot
    <3> HIDE DEF b
    <3> QED
      BY <1>1, <3>1, <3>2 DEF TaskStates
  <2>2. CASE BsecRefuses
    <3>1. task' = [task EXCEPT !.phase = "ended"]
      BY <2>2 DEF BsecRefuses
    <3> QED
      BY <1>1, <3>1 DEF TaskStates
  <2> QED
    BY <2>1, <2>2
<1>3. /\ chip' = chip /\ flash' = flash
      /\ seen' = seen \/ seen' = [seen EXCEPT !.recorded = Load(flash)]
      /\ faults' \in 0..MaxFaults /\ upsets' \in 0..MaxUpsets /\ cuts' \in 0..MaxCuts
  BY AccidentsTyped DEF Boot, BsecRefuses
<1>4. WorksInOrder(task') /\ RestsOtherwise(chip', task') /\ SetUp(chip', task')
  BY <1>1, <1>2, <1>3, OffTheBus
<1>5. Load(flash) \in BOOLEAN
  BY <1>1 DEF Load, Records
<1> QED
  BY <1>1, <1>2, <1>3, <1>4, <1>5, SensorOrBootSteps

\* So does beginning the initialisation of the sensor.
LEMMA InitializeKeeps ==
    ASSUME IInv, Initialize
    PROVE  IInv'
<1>1. task \in TaskStates /\ chip \in ChipStates /\ task.basis # "garbage"
  BY DEF IInv, NoHalfRecordRestored
<1>2. task' = [task EXCEPT !.phase = "bus", !.todo = InitializeSensor, !.fresh = FALSE]
  BY DEF Initialize
<1>3. InitializeSensor \in InitTodos /\ InitializeSensor # <<"poll">>
  BY Beginnings, DriverSequences
<1>4. /\ task' \in TaskStates /\ task'.phase = "bus" /\ task'.todo = InitializeSensor
      /\ task'.calibrated = FALSE
      /\ task'.skip = task.skip /\ task'.warmup = task.warmup /\ task'.saved = task.saved
      /\ task'.age = task.age /\ task'.published = task.published
      /\ task'.basis = task.basis
  BY <1>1, <1>2, <1>3, ZenonT(30) DEF TaskStates, Initialize
<1>5. WorksInOrder(task') /\ RestsOtherwise(chip, task') /\ SetUp(chip, task')
  BY <1>3, <1>4 DEF WorksInOrder, RestsOtherwise, SetUp
<1> QED
  BY <1>1, <1>4, <1>5, AccidentsTyped, SensorSteps DEF Initialize

\* So does every answer of BSEC to what to do next.
LEMMA ControlKeeps ==
    ASSUME IInv, NEW request \in {"sleep", "setup", "measure"}, Control(request)
    PROVE  IInv'
<1> DEFINE s == RunCycle(request)
<1>1. /\ task \in TaskStates /\ chip \in ChipStates /\ task.basis # "garbage"
      /\ task.todo = <<>> /\ AtRest(chip)
  BY Beginnings DEF IInv, NoHalfRecordRestored, Control, WorksInOrder, RestsOtherwise
<1>2. /\ s \in CycleTodos
      /\ s \notin {<<"heater", "gas", "mode", "start", "poll">>,
                   <<"gas", "mode", "start", "poll">>, <<"mode", "start", "poll">>,
                   <<"start", "poll">>, <<"poll">>}
  BY Beginnings
<1>3. task' = [task EXCEPT !.phase = "bus", !.todo = s, !.fresh = FALSE, !.accuracy = 0,
                           !.upset = FALSE, !.published = FALSE]
  BY DEF Control
<1> HIDE DEF s
<1>4. /\ task' \in TaskStates /\ task'.phase = "bus" /\ task'.todo = s
      /\ task'.calibrated /\ task'.published = FALSE
      /\ task'.skip = task.skip /\ task'.warmup = task.warmup /\ task'.saved = task.saved
      /\ task'.age = task.age /\ task'.basis = task.basis
  <2>1. 0 \in Accuracy
    BY DEF Accuracy
  <2> QED
    BY <1>1, <1>2, <1>3, <2>1, ZenonT(30) DEF TaskStates, Control
<1>5. chip' \in ChipStates /\ AtRest(chip')
  BY <1>1 DEF Control, ChipStates, AtRest
<1>6. WorksInOrder(task') /\ RestsOtherwise(chip', task') /\ SetUp(chip', task')
  BY <1>2, <1>4, <1>5 DEF WorksInOrder, RestsOtherwise, SetUp
<1>7. /\ flash' = flash /\ seen' = seen /\ task.phase = "control"
      /\ faults' \in 0..MaxFaults /\ upsets' \in 0..MaxUpsets /\ cuts' \in 0..MaxCuts
  BY AccidentsTyped DEF Control
<1> QED
  BY <1>1, <1>4, <1>5, <1>6, <1>7, SensorSteps

\* So does the end of the initialisation.
LEMMA InitializedKeeps ==
    ASSUME IInv, Initialized
    PROVE  IInv'
<1>1. /\ task \in TaskStates /\ chip \in ChipStates /\ task.basis # "garbage"
      /\ task.todo = <<>> /\ task.phase = "bus" /\ AtRest(chip)
  <2>1. <<>> # <<"poll">> /\ <<>> # InitializeSensor
    BY Beginnings, DriverSequences
  <2> QED
    BY <2>1 DEF IInv, NoHalfRecordRestored, Initialized, RestsOtherwise
<1>2. /\ task' \in TaskStates /\ task'.phase \in {"save", "control"} /\ task'.todo = <<>>
      /\ task'.skip = task.skip /\ task'.warmup = task.warmup /\ task'.saved = task.saved
      /\ task'.age = task.age /\ task'.published = task.published
      /\ task'.basis = task.basis
  BY <1>1 DEF Initialized, TaskStates
<1>3. WorksInOrder(task') /\ RestsOtherwise(chip, task') /\ SetUp(chip, task')
  BY <1>1, <1>2, OffTheBus
<1>4. /\ chip' = chip /\ flash' = flash /\ seen' = seen
      /\ faults' \in 0..MaxFaults /\ upsets' \in 0..MaxUpsets /\ cuts' \in 0..MaxCuts
  BY AccidentsTyped DEF Initialized
<1> QED
  BY <1>1, <1>2, <1>3, <1>4, SensorSteps

\* So does a pass that publishes nothing.
LEMMA NoOutputKeeps ==
    ASSUME IInv, NoOutput
    PROVE  IInv'
<1>1. /\ task \in TaskStates /\ chip \in ChipStates /\ task.basis # "garbage"
      /\ task.todo = <<>> /\ AtRest(chip)
  BY Beginnings DEF IInv, NoHalfRecordRestored, NoOutput, WorksInOrder, RestsOtherwise
<1>2. /\ task' \in TaskStates /\ task'.phase = "save" /\ task'.todo = <<>>
      /\ task'.skip = task.skip /\ task'.warmup = task.warmup /\ task'.saved = task.saved
      /\ task'.age = task.age /\ task'.published = task.published
      /\ task'.basis = task.basis
  BY <1>1 DEF NoOutput, TaskStates
<1>3. WorksInOrder(task') /\ RestsOtherwise(chip, task') /\ SetUp(chip, task')
  BY <1>1, <1>2, OffTheBus
<1>4. /\ chip' = chip /\ flash' = flash /\ seen' = seen /\ task.phase = "steps"
      /\ faults' \in 0..MaxFaults /\ upsets' \in 0..MaxUpsets /\ cuts' \in 0..MaxCuts
  BY AccidentsTyped DEF NoOutput
<1> QED
  BY <1>1, <1>2, <1>3, <1>4, SensorSteps

\* Whatever fails on the bus or in BSEC's request.
LEMMA FailuresKeep ==
    ASSUME IInv, PollTimesOut \/ TransferFails \/ ControlFails
    PROVE  IInv'
<1>1. chip \in ChipStates /\ task.basis # "garbage"
  BY DEF IInv, NoHalfRecordRestored
<1>2. /\ flash' = flash /\ seen' = seen /\ task.phase \in {"bus", "control"}
      /\ faults' \in 0..MaxFaults /\ upsets' \in 0..MaxUpsets /\ cuts' \in 0..MaxCuts
  BY AccidentsTyped DEF PollTimesOut, TransferFails, ControlFails, At
<1>3. chip' \in ChipStates
  BY <1>1 DEF PollTimesOut, TransferFails, ControlFails, ChipStates
<1>4. CASE task' = CycleFails(task)
  <2> DEFINE tk == CycleFails(task)
  <2> HIDE DEF tk
  <2>1. /\ tk \in TaskStates /\ tk.phase = "control"
        /\ tk.skip = task.skip /\ tk.warmup = task.warmup /\ tk.saved = task.saved
        /\ tk.age = task.age /\ tk.published = task.published /\ tk.basis = task.basis
        /\ WorksInOrder(tk)
        /\ RestsOtherwise(chip', tk) /\ SetUp(chip', tk)
    BY CycleFailsFits DEF tk
  <2> QED
    BY <1>1, <1>2, <1>3, <1>4, <2>1, SensorSteps DEF tk
<1>5. CASE task' # CycleFails(task)
  <2>1. ControlFails /\ task' = task /\ chip' = chip
    BY <1>5 DEF PollTimesOut, TransferFails, ControlFails
  <2>2. task.phase = "control"
    BY <2>1 DEF ControlFails
  <2> QED
    BY <1>1, <1>2, <2>1, <2>2, SensorSteps DEF IInv
<1> QED
  BY <1>4, <1>5

--------------------------------------------------------------------------
(* The steps on the bus.                                                     *)
LEMMA WriteKeeps ==
    ASSUME IInv, NEW step \in CycleSettings \cup {"check"}, Write(step)
    PROVE  IInv'
<1> DEFINE tk == Done(task)
           s == task.todo
<1>1. At(step) /\ task' = tk /\ chip \in ChipStates /\ task.basis # "garbage"
  BY DEF Write, IInv, NoHalfRecordRestored
<1>2. /\ tk.todo = Tail(s) /\ tk \in TaskStates /\ tk.phase = "bus" /\ task.phase = "bus"
      /\ tk.calibrated = task.calibrated /\ tk.upset = task.upset
      /\ tk.skip = task.skip /\ tk.warmup = task.warmup /\ tk.saved = task.saved
      /\ tk.age = task.age /\ tk.published = task.published /\ tk.basis = task.basis
      /\ WorksInOrder(tk) /\ Head(s) = step
      /\ task.calibrated => CycleEnd(s)
      /\ ~task.calibrated => /\ Tail(s) # <<"poll">> /\ s # <<"poll">>
                             /\ step = "reset" <=> s = InitializeSensor
  BY <1>1, NextOnTheBus
<1> HIDE DEF tk
<1>3. step \notin {"reset", "mode", "start", "poll"}
  BY DEF CycleSettings
<1>4. /\ chip' \in ChipStates /\ chip'.mode = chip.mode /\ chip'.ready = chip.ready
      /\ chip.set \subseteq chip'.set
      /\ step \in CycleSettings => step \in chip'.set
  BY <1>1 DEF Write, ChipStates
<1>5. AtRest(chip)
  <2>1. CASE task.calibrated
    <3>1. s # <<"poll">>
      BY <1>2, <1>3, <2>1 DEF CycleEnd
    <3> QED
      BY <2>1, <3>1 DEF IInv, RestsOtherwise
  <2>2. CASE ~task.calibrated
    BY <1>2, <1>3, <2>2 DEF IInv, RestsOtherwise
  <2> QED
    BY <2>1, <2>2
<1>6. RestsOtherwise(chip', tk)
  BY <1>4, <1>5 DEF RestsOtherwise, AtRest
<1>7. SetUp(chip', tk)
  <2> SUFFICES ASSUME task.calibrated, ~task.upset
               PROVE  SetUp(chip', tk)
    BY <1>2 DEF SetUp
  <2>1. CycleEnd(s) /\ SetUp(chip, task)
    BY <1>2 DEF IInv
  <2>2. Tail(s) \notin {<<"start", "poll">>, <<"poll">>}
    <3>1. Tail(s) = <<"poll">> => Head(s) = "start"
      <4>1. Head(<<"start", "poll">>) = "start"
        OBVIOUS
      <4> QED
        BY <2>1, <4>1 DEF CycleEnd
    <3>2. Tail(s) = <<"start", "poll">> => Head(s) = "mode"
      <4>1. Head(<<"mode", "start", "poll">>) = "mode"
        OBVIOUS
      <4> QED
        BY <2>1, <4>1 DEF CycleEnd
    <3> QED
      BY <1>2, <1>3, <3>1, <3>2
  <2>3. Tail(s) = <<"heater", "gas", "mode", "start", "poll">> => "osr" \in chip'.set
    BY <1>2, <1>4, <2>1 DEF CycleEnd, CycleSettings
  <2>4. Tail(s) = <<"gas", "mode", "start", "poll">> => {"osr", "heater"} \subseteq chip'.set
    BY <1>2, <1>4, <2>1 DEF CycleEnd, CycleSettings, SetUp
  <2>5. Tail(s) = <<"mode", "start", "poll">> => CycleSettings \subseteq chip'.set
    BY <1>2, <1>4, <2>1 DEF CycleEnd, CycleSettings, SetUp
  <2> QED
    BY <1>2, <2>2, <2>3, <2>4, <2>5 DEF SetUp
<1>8. /\ flash' = flash /\ seen' = seen
      /\ faults' \in 0..MaxFaults /\ upsets' \in 0..MaxUpsets /\ cuts' \in 0..MaxCuts
  BY AccidentsTyped DEF Write
<1> QED
  BY <1>1, <1>2, <1>4, <1>6, <1>7, <1>8, SensorSteps

\* So does the reset command, which leaves a stale flag behind it.
LEMMA ResetKeeps ==
    ASSUME IInv, ResetSensor
    PROVE  IInv'
<1> DEFINE tk == Done(task)
           s == task.todo
<1>1. At("reset") /\ task' = tk /\ chip' = PowerOnChip /\ task.basis # "garbage"
  BY DEF ResetSensor, IInv, NoHalfRecordRestored
<1>2. /\ tk.todo = Tail(s) /\ tk \in TaskStates /\ tk.phase = "bus" /\ task.phase = "bus"
      /\ tk.calibrated = task.calibrated
      /\ tk.skip = task.skip /\ tk.warmup = task.warmup /\ tk.saved = task.saved
      /\ tk.age = task.age /\ tk.published = task.published /\ tk.basis = task.basis
      /\ WorksInOrder(tk) /\ Head(s) = "reset"
      /\ task.calibrated => CycleEnd(s)
  BY <1>1, NextOnTheBus
<1> HIDE DEF tk
<1>3. ~tk.calibrated
  BY <1>2 DEF CycleEnd
<1>4. PowerOnChip \in ChipStates /\ AtRest(PowerOnChip)
  BY DEF PowerOnChip, ChipStates, AtRest
<1>5. RestsOtherwise(chip', tk) /\ SetUp(chip', tk)
  BY <1>1, <1>3, <1>4 DEF RestsOtherwise, SetUp, AtRest
<1>6. /\ flash' = flash /\ seen' = seen
      /\ faults' \in 0..MaxFaults /\ upsets' \in 0..MaxUpsets /\ cuts' \in 0..MaxCuts
  BY AccidentsTyped DEF ResetSensor
<1> QED
  BY <1>1, <1>2, <1>4, <1>5, <1>6, SensorSteps

\* The mode change before a start, and the start.
LEMMA ModeAndStartKeep ==
    ASSUME IInv, SetMode \/ Start
    PROVE  IInv'
<1> DEFINE tk == Done(task)
           s == task.todo
           step == IF SetMode THEN "mode" ELSE "start"
<1>0. step \in {"mode", "start"}
  OBVIOUS
<1>1. /\ At(step) /\ task' = tk /\ chip \in ChipStates /\ task.basis # "garbage"
      /\ step = "start" => Start
      /\ step = "mode" => SetMode
  BY DEF SetMode, Start, IInv, NoHalfRecordRestored
<1> HIDE DEF step
<1>2. /\ tk.todo = Tail(s) /\ tk \in TaskStates /\ tk.phase = "bus" /\ task.phase = "bus"
      /\ tk.calibrated = task.calibrated /\ tk.upset = task.upset
      /\ tk.skip = task.skip /\ tk.warmup = task.warmup /\ tk.saved = task.saved
      /\ tk.age = task.age /\ tk.published = task.published /\ tk.basis = task.basis
      /\ WorksInOrder(tk) /\ Head(s) = step
      /\ task.calibrated => CycleEnd(s)
      /\ ~task.calibrated => s \in InitTodos /\ s # <<>>
  BY <1>1, NextOnTheBus
<1> HIDE DEF tk
<1>3. task.calibrated /\ CycleEnd(s)
  BY <1>0, <1>2, InitEnds
<1>4. AtRest(chip) /\ SetUp(chip, task)
  BY <1>0, <1>2, <1>3 DEF CycleEnd, IInv, RestsOtherwise
<1>5. /\ chip' \in ChipStates /\ chip'.set = chip.set /\ ~chip'.ready
      /\ step = "mode" => AtRest(chip')
  BY <1>0, <1>1, <1>4 DEF SetMode, Start, ChipStates, AtRest
<1>6. step = "start" => Tail(s) = <<"poll">>
  <2>1. Tail(<<"start", "poll">>) = <<"poll">>
    OBVIOUS
  <2> QED
    BY <1>2, <1>3, <2>1 DEF CycleEnd
<1>7. RestsOtherwise(chip', tk)
  BY <1>0, <1>2, <1>3, <1>5, <1>6 DEF RestsOtherwise
<1>8. SetUp(chip', tk)
  <2> SUFFICES ASSUME ~task.upset
               PROVE  SetUp(chip', tk)
    BY <1>2 DEF SetUp
  <2>1. Tail(s) = <<"poll">> => CycleSettings \subseteq chip.set
    BY <1>3, <1>4 DEF CycleEnd, SetUp
  <2>2. Tail(s) = <<"start", "poll">> => CycleSettings \subseteq chip.set
    BY <1>3, <1>4 DEF CycleEnd, SetUp
  <2>3. Tail(s) \notin {<<"heater", "gas", "mode", "start", "poll">>,
                        <<"gas", "mode", "start", "poll">>, <<"mode", "start", "poll">>}
    BY <1>0, <1>2, <1>3 DEF CycleEnd
  <2> QED
    BY <1>2, <1>5, <2>1, <2>2, <2>3 DEF SetUp
<1>9. /\ flash' = flash /\ seen' = seen
      /\ faults' \in 0..MaxFaults /\ upsets' \in 0..MaxUpsets /\ cuts' \in 0..MaxCuts
  BY AccidentsTyped DEF SetMode, Start
<1> QED
  BY <1>1, <1>2, <1>5, <1>7, <1>8, <1>9, SensorSteps

\* So does the poll that finds the flag up and takes the result.
LEMMA PollReadyKeeps ==
    ASSUME IInv, PollReady
    PROVE  IInv'
<1>1. /\ At("poll") /\ chip.ready /\ chip \in ChipStates /\ task \in TaskStates
      /\ task.basis # "garbage" /\ task.phase = "bus"
  BY DEF PollReady, IInv, NoHalfRecordRestored, At
<1>2. task.calibrated /\ task.todo = <<"poll">>
  BY <1>1, NextOnTheBus, InitEnds DEF CycleEnd
<1>3. chip.mode = "sleep" /\ SetUp(chip, task)
  BY <1>1, <1>2 DEF IInv, RestsOtherwise
<1>4. /\ chip' \in ChipStates /\ AtRest(chip') /\ chip'.result = chip.result
      /\ chip'.whole = chip.whole
  BY <1>1, <1>3 DEF PollReady, ChipStates, AtRest
<1>5. /\ task' \in TaskStates /\ task'.phase = "steps" /\ task'.todo = <<>>
      /\ task'.calibrated = task.calibrated /\ task'.upset = task.upset
      /\ task'.skip = task.skip /\ task'.warmup = task.warmup /\ task'.saved = task.saved
      /\ task'.age = task.age /\ task'.published = task.published
      /\ task'.basis = task.basis
  <2>1. <<>> \in InitTodos
    BY Beginnings
  <2> QED
    BY <1>1, <2>1 DEF PollReady, TaskStates
<1>6. WorksInOrder(task') /\ RestsOtherwise(chip', task')
  BY <1>2, <1>4, <1>5 DEF WorksInOrder, RestsOtherwise, AtRest
<1>7. SetUp(chip', task')
  BY <1>1, <1>2, <1>3, <1>4, <1>5, Beginnings DEF SetUp
<1>8. /\ flash' = flash /\ seen' = seen
      /\ faults' \in 0..MaxFaults /\ upsets' \in 0..MaxUpsets /\ cuts' \in 0..MaxCuts
  BY AccidentsTyped DEF PollReady
<1> QED
  BY <1>1, <1>4, <1>5, <1>6, <1>7, <1>8, SensorSteps
--------------------------------------------------------------------------
(* The outputs of BSEC.                                                      *)

\* One reading less to come is PublishEvery outputs less.
LEMMA OneReadingLess ==
    ASSUME NEW w \in 0..Warmup, w > 0
    PROVE  (Warmup - (w - 1)) * PublishEvery = (Warmup - w) * PublishEvery + PublishEvery
  BY ConstantTypes

\* So does an output of BSEC, which is counted, discarded or published.
LEMMA OutputKeeps ==
    ASSUME IInv, NEW accuracy \in Accuracy, Output(accuracy)
    PROVE  IInv'
<1> DEFINE done == Warmup * PublishEvery
           left == (Warmup - task.warmup) * PublishEvery
           w == IF task.skip = 0 /\ task.warmup > 0 THEN task.warmup - 1 ELSE task.warmup
           k == IF task.skip = 0 THEN PublishEvery - 1 ELSE task.skip - 1
           p == IF task.skip = 0 THEN task.warmup = 0 ELSE task.published
           tk == [task EXCEPT !.skip = k, !.warmup = w, !.published = p, !.phase = "save",
                              !.fresh = TRUE, !.accuracy = accuracy]
<1>1. /\ task \in TaskStates /\ chip \in ChipStates /\ seen \in SeenStates
      /\ task.phase = "steps" /\ task.todo = <<>> /\ AtRest(chip)
      /\ task.basis # "garbage"
      /\ CountsOutputs(task, seen) /\ TimerBounds(task, seen) /\ ErasesCount(task, seen)
  BY Beginnings DEF IInv, NoHalfRecordRestored, Output, WorksInOrder, RestsOtherwise
<1>2. /\ task.skip \in 0..(PublishEvery - 1) /\ task.warmup \in 0..Warmup
      /\ task.published \in BOOLEAN
  BY <1>1 DEF TaskStates
<1>3. k \in 0..(PublishEvery - 1) /\ w \in 0..Warmup
  BY <1>2, ConstantTypes
<1>4. p \in BOOLEAN
  BY <1>2, Zenon
<1>5. task' = tk
  <2>1. CASE task.skip = 0
    <3>1. Decimated(task) = [task EXCEPT !.skip = PublishEvery - 1,
                                         !.warmup = IF task.warmup > 0 THEN task.warmup - 1 ELSE 0,
                                         !.published = task.warmup = 0]
      BY <2>1 DEF Decimated
    <3>2. /\ k = PublishEvery - 1 /\ p = (task.warmup = 0)
          /\ w = IF task.warmup > 0 THEN task.warmup - 1 ELSE 0
      BY <1>2, <2>1, ConstantTypes
    <3> HIDE DEF k, w, p
    <3>3. Decimated(task) = [task EXCEPT !.skip = k, !.warmup = w, !.published = p]
      BY <3>1, <3>2
    <3> QED
      BY <3>3 DEF Output
  <2>2. CASE task.skip # 0
    <3>1. Decimated(task) = [task EXCEPT !.skip = task.skip - 1]
      BY <2>2 DEF Decimated
    <3>2. k = task.skip - 1 /\ w = task.warmup
      BY <2>2
    <3>3. p = task.published
      BY <2>2, Zenon
    <3> HIDE DEF k, w, p
    <3>4. Decimated(task) = [task EXCEPT !.skip = k, !.warmup = w, !.published = p]
      BY <1>1, <3>1, <3>2, <3>3 DEF TaskStates
    <3> QED
      BY <3>4 DEF Output
  <2> QED
    BY <2>1, <2>2
<1>6. /\ task' \in TaskStates /\ task'.phase = "save" /\ task'.todo = <<>> /\ task'.fresh
      /\ task'.skip = k /\ task'.warmup = w /\ task'.published = p
      /\ task'.saved = task.saved /\ task'.age = task.age /\ task'.basis = task.basis
  <2> HIDE DEF k, w, p
  <2> QED
    BY <1>1, <1>3, <1>4, <1>5 DEF TaskStates
<1>7. WorksInOrder(task') /\ RestsOtherwise(chip', task') /\ SetUp(chip', task')
  BY <1>1, <1>6, OffTheBus DEF Output
<1>8. /\ seen.heard \in 0..MaxHeard /\ MaxHeard = done + 1 /\ done \in Nat /\ left \in Nat
      /\ seen.heard + task.skip >= left /\ left <= done
      /\ task.warmup = 0 => left = done
      /\ task.published => seen.heard > done
  <2>1. left \in Nat /\ done \in Nat
    BY <1>2, ConstantTypes
  <2>2. left <= done
    <3>1. Warmup - task.warmup <= Warmup
      BY <1>2, ConstantTypes
    <3> QED
      BY <1>2, <3>1, ConstantTypes
  <2>3. task.warmup = 0 => left = done
    BY ConstantTypes
  <2> QED
    BY <1>1, <2>1, <2>2, <2>3 DEF SeenStates, MaxHeard, CountsOutputs
<1>9. seen'.heard = CountedTo(seen.heard, MaxHeard)
      /\ seen'.unsaved = CountedTo(seen.unsaved, MaxUnsaved)
      /\ seen'.rises = seen.rises /\ seen'.failed = seen.failed
      /\ seen'.recorded = seen.recorded
  BY <1>1 DEF Output, SeenStates
<1>10. seen' \in SeenStates
  <2>1. MaxHeard \in Nat /\ MaxUnsaved \in Nat
    BY <1>8, ConstantTypes DEF MaxUnsaved
  <2>2. /\ CountedTo(seen.heard, MaxHeard) \in 0..MaxHeard
        /\ CountedTo(seen.unsaved, MaxUnsaved) \in 0..MaxUnsaved
    BY <1>1, <2>1 DEF SeenStates, CountedTo
  <2> QED
    BY <1>1, <2>2 DEF Output, SeenStates
<1>11. CountsOutputs(task', seen')
  <2> DEFINE h == CountedTo(seen.heard, MaxHeard)
             left2 == (Warmup - w) * PublishEvery
  <2>1. h \in Nat /\ (h = seen.heard + 1 \/ (h = seen.heard /\ h = done + 1)) /\ h <= done + 1
    BY <1>8 DEF CountedTo
  <2>2. left2 \in Nat /\ left2 <= done
    <3> HIDE DEF w
    <3>1. Warmup - w <= Warmup /\ Warmup - w \in Nat
      BY <1>3, ConstantTypes
    <3> QED
      BY <3>1, ConstantTypes
  <2>3. task.skip = 0 => left2 <= left + PublishEvery
    <3>1. CASE task.warmup > 0 /\ task.skip = 0
      <4>1. w = task.warmup - 1
        BY <3>1
      <4>2. (Warmup - (task.warmup - 1)) * PublishEvery = left + PublishEvery
        BY <1>2, <3>1, OneReadingLess
      <4>3. left2 = left + PublishEvery
        BY <4>1, <4>2
      <4> HIDE DEF left, left2
      <4> QED
        BY <1>8, <4>3, ConstantTypes
    <3>2. CASE ~(task.warmup > 0 /\ task.skip = 0)
      <4>1. left2 = left
        BY <3>2
      <4> HIDE DEF left2, left
      <4> QED
        BY <1>8, <4>1, ConstantTypes
    <3> QED
      BY <3>1, <3>2
  <2>4. task.skip # 0 => left2 = left
    OBVIOUS
  <2> HIDE DEF left, left2, done, w
  <2>5. h + k >= left2
    BY <1>2, <1>8, <2>1, <2>2, <2>3, <2>4, ConstantTypes
  <2>6. p => h > done
    <3>1. CASE task.skip = 0
      <4>1. p => task.warmup = 0
        BY <3>1
      <4> HIDE DEF p
      <4> QED
        BY <1>2, <1>8, <2>1, <3>1, <4>1
    <3>2. CASE task.skip # 0
      <4>1. p => task.published
        BY <3>2
      <4> HIDE DEF p
      <4> QED
        BY <1>8, <2>1, <3>2, <4>1
    <3> QED
      BY <3>1, <3>2
  <2> HIDE DEF p, k, h
  <2> QED
    BY <1>6, <1>9, <2>5, <2>6 DEF CountsOutputs, h, left2, done
<1> HIDE DEF tk, k, w, p
<1>12. TimerBounds(task', seen')
  <2>1. Justified(task')
    BY <1>6 DEF Justified
  <2>2. seen.unsaved \in Int /\ MaxUnsaved \in Int /\ task.age \in Int
    BY <1>1, ConstantTypes DEF SeenStates, TaskStates, MaxUnsaved
  <2>3. CountedTo(seen.unsaved, MaxUnsaved) <= seen.unsaved + 1
    BY <2>2 DEF CountedTo
  <2>4. ~seen.failed => /\ seen.unsaved <= task.age
                        /\ task.saved = Nothing => seen.unsaved = 0
    BY <1>1 DEF TimerBounds, Justified
  <2>5. CountedTo(seen.unsaved, MaxUnsaved) \in Int
    BY <2>2 DEF CountedTo
  <2> SUFFICES ASSUME ~seen.failed
               PROVE  /\ seen'.unsaved <= task.age + 1
                      /\ task.saved = Nothing => seen'.unsaved <= 1
    BY <1>6, <1>9, <2>1 DEF TimerBounds
  <2> QED
    BY <1>9, <2>2, <2>3, <2>4, <2>5
<1>13. ErasesCount(task', seen') /\ RecordKept(task', seen', flash')
  BY <1>1, <1>6, <1>9 DEF ErasesCount, Writing, RecordKept, IInv, Output
<1>14. NoHalfRecordRestored'
  BY <1>1, <1>6 DEF NoHalfRecordRestored
<1>15. /\ flash' \in Records /\ chip' \in ChipStates
       /\ faults' \in 0..MaxFaults /\ upsets' \in 0..MaxUpsets /\ cuts' \in 0..MaxCuts
  BY AccidentsTyped DEF Output, IInv
<1> QED
  BY <1>6, <1>7, <1>10, <1>11, <1>12, <1>13, <1>14, <1>15 DEF IInv
--------------------------------------------------------------------------
(* The steps of a save, and the sleep after it.                              *)

\* What measure_task notes after a save raises what the next one has to beat.
LEMMA SavedFits ==
    ASSUME IInv
    PROVE  LET tk == Saved(task) IN
           /\ tk \in TaskStates /\ tk.phase = "wait" /\ tk.age = 0 /\ tk.saved # Nothing
           /\ tk.todo = task.todo /\ tk.calibrated = task.calibrated /\ tk.upset = task.upset
           /\ tk.skip = task.skip /\ tk.warmup = task.warmup
           /\ tk.published = task.published /\ tk.basis = task.basis
           /\ tk.saved \in Int /\ tk.saved >= task.saved /\ tk.saved >= task.accuracy
<1> DEFINE tk == Saved(task)
           m == Max({task.saved, task.accuracy})
<1>1. task \in TaskStates
  BY DEF IInv
<1>2. /\ task.saved \in Int /\ task.accuracy \in Int /\ task.accuracy \in Accuracy
      /\ task.saved \in Accuracy \cup {Nothing} /\ task.accuracy >= 0
  BY <1>1 DEF TaskStates, Accuracy, Nothing
<1>3. /\ m \in {task.saved, task.accuracy} /\ m >= task.saved /\ m >= task.accuracy
  BY <1>2, MaxOfTwo
<1> HIDE DEF m
<1>4. m \in Accuracy \cup {Nothing} /\ m # Nothing /\ m \in Int
  BY <1>2, <1>3 DEF Nothing
<1>5. 0 \in 0..SaveInterval
  BY ConstantTypes
<1>6. tk = [task EXCEPT !.phase = "wait", !.age = 0, !.saved = m]
  BY DEF Saved, m
<1>7. /\ tk \in TaskStates /\ tk.phase = "wait" /\ tk.age = 0 /\ tk.saved = m
      /\ tk.todo = task.todo /\ tk.calibrated = task.calibrated /\ tk.upset = task.upset
      /\ tk.skip = task.skip /\ tk.warmup = task.warmup
      /\ tk.published = task.published /\ tk.basis = task.basis
  <2> HIDE DEF tk
  <2> QED
    BY <1>1, <1>4, <1>5, <1>6 DEF TaskStates
<1> QED
  BY <1>3, <1>4, <1>7

\* So does deciding that nothing needs saving.
LEMMA SkipSaveKeeps ==
    ASSUME IInv, SkipSave
    PROVE  IInv'
<1> DEFINE adopts == task.fresh /\ task.saved = Nothing
           m == IF adopts THEN task.accuracy ELSE task.saved
<1>1. /\ task \in TaskStates /\ seen \in SeenStates /\ task.phase = "save"
      /\ TimerBounds(task, seen) /\ ErasesCount(task, seen)
      /\ task' = [task EXCEPT !.phase = "wait", !.saved = m]
  BY DEF IInv, SkipSave
<1>2. m \in Accuracy \cup {Nothing}
  BY <1>1 DEF TaskStates
<1>3. /\ task' \in TaskStates /\ task'.phase = "wait" /\ task'.saved = m
      /\ task'.todo = task.todo /\ task'.calibrated = task.calibrated
      /\ task'.upset = task.upset
      /\ task'.skip = task.skip /\ task'.warmup = task.warmup /\ task'.age = task.age
      /\ task'.published = task.published /\ task'.basis = task.basis
  <2> HIDE DEF m
  <2> QED
    BY <1>1, <1>2 DEF TaskStates
<1>4. TimerBounds(task', seen)
  <2> DEFINE n == CountedTo(task.age, SaveInterval)
  <2>1. /\ task.age \in 0..SaveInterval /\ seen.unsaved \in Nat /\ SaveInterval >= 1
        /\ SaveInterval \in Nat
    BY <1>1, ConstantTypes DEF TaskStates, SeenStates, MaxUnsaved
  <2>2. /\ n \in Nat /\ task.age <= n
        /\ task.age < SaveInterval => n = task.age + 1
        /\ n >= 1
    BY <2>1 DEF CountedTo
  <2>3. CASE ~task.fresh
    <3>1. ~Justified(task) /\ m = task.saved
      BY <1>1, <2>3 DEF Justified
    <3>2. ~seen.failed => /\ seen.unsaved <= task.age
                          /\ task.saved = Nothing => seen.unsaved = 0
      BY <1>1, <3>1 DEF TimerBounds
    <3> HIDE DEF n, m
    <3>3. ~seen.failed => seen.unsaved <= n
      BY <2>1, <2>2, <3>2
    <3> QED
      BY <1>3, <3>1, <3>2, <3>3 DEF TimerBounds, n, Justified
  <2>4. CASE task.fresh
    <3>1. ~seen.failed => /\ seen.unsaved <= task.age + 1
                          /\ task.saved = Nothing => seen.unsaved <= 1
      BY <1>1, <2>4 DEF TimerBounds, Justified
    <3>2. m # Nothing
      BY <1>1, <2>4 DEF TaskStates, Accuracy, Nothing
    <3>3. task.saved # Nothing => task.age < SaveInterval
      BY <2>1, <2>4 DEF SkipSave, ToSave, Overdue
    <3> HIDE DEF n, m
    <3>4. ~seen.failed => seen.unsaved <= n
      BY <2>1, <2>2, <3>1, <3>3
    <3> QED
      BY <1>3, <3>2, <3>4 DEF TimerBounds, n, Justified
  <2> QED
    BY <2>3, <2>4
<1>5. ErasesCount(task', seen)
  <2>1. ~Writing(task) /\ ~Writing(task')
    BY <1>1, <1>3 DEF Writing
  <2>2. seen.rises = 0 \/ (task.saved # Nothing /\ seen.rises <= task.saved)
    BY <1>1, <2>1 DEF ErasesCount
  <2>3. task.saved # Nothing => m = task.saved
    OBVIOUS
  <2> HIDE DEF m
  <2> QED
    BY <1>3, <2>1, <2>2, <2>3 DEF ErasesCount
<1>6. /\ chip' = chip /\ seen' = seen /\ flash' \in Records
      /\ faults' \in 0..MaxFaults /\ upsets' \in 0..MaxUpsets /\ cuts' \in 0..MaxCuts
  BY AccidentsTyped DEF SkipSave, IInv
<1>7. RecordKept(task', seen', flash')
  BY <1>1, <1>3, <1>6 DEF RecordKept, Writing, IInv, SkipSave
<1> HIDE DEF m
<1> QED
  BY <1>1, <1>3, <1>4, <1>5, <1>6, <1>7, SaveSteps

\* So does erasing the record that is to be replaced.
LEMMA EraseKeeps ==
    ASSUME IInv, Erase
    PROVE  IInv'
<1>1. /\ task \in TaskStates /\ seen \in SeenStates /\ task.phase = "save"
      /\ TimerBounds(task, seen) /\ ErasesCount(task, seen)
      /\ task.fresh /\ task.saved # Nothing
  BY DEF IInv, Erase, ToSave
<1>2. /\ task' \in TaskStates /\ task'.phase = "header" /\ task'.saved = task.saved
      /\ task'.todo = task.todo /\ task'.calibrated = task.calibrated
      /\ task'.upset = task.upset /\ task'.accuracy = task.accuracy
      /\ task'.skip = task.skip /\ task'.warmup = task.warmup /\ task'.age = task.age
      /\ task'.published = task.published /\ task'.basis = task.basis
  BY <1>1 DEF Erase, TaskStates
<1> DEFINE r == IF task.accuracy > task.saved THEN seen.rises + 1 ELSE seen.rises
<1>3. /\ seen' \in SeenStates /\ seen'.rises = r /\ seen'.heard = seen.heard
      /\ seen'.unsaved = seen.unsaved /\ seen'.failed = seen.failed
  <2>1. r \in Nat
    BY <1>1 DEF SeenStates
  <2>2. seen' = [seen EXCEPT !.rises = r]
    BY DEF Erase
  <2> HIDE DEF r
  <2> QED
    BY <1>1, <2>1, <2>2 DEF SeenStates
<1>4. TimerBounds(task', seen')
  <2>1. Justified(task) /\ Justified(task') /\ task'.phase # "wait"
    BY <1>1, <1>2 DEF Justified
  <2> QED
    BY <1>1, <1>2, <1>3, <2>1 DEF TimerBounds
<1>5. ErasesCount(task', seen')
  <2>1. ~Writing(task) /\ Writing(task')
    BY <1>1, <1>2 DEF Writing
  <2>2. seen.rises = 0 \/ seen.rises <= task.saved
    BY <1>1, <2>1 DEF ErasesCount
  <2>3. task.saved \in 0..3 /\ task.accuracy \in 0..3 /\ seen.rises \in Nat
    BY <1>1 DEF TaskStates, SeenStates, Accuracy
  <2>4. r = 0 \/ r <= task.saved \/ r <= task.accuracy
    BY <2>2, <2>3
  <2> HIDE DEF r
  <2> QED
    BY <1>1, <1>2, <1>3, <2>1, <2>4 DEF ErasesCount
<1>6. /\ chip' = chip /\ flash' \in Records
      /\ faults' \in 0..MaxFaults /\ upsets' \in 0..MaxUpsets /\ cuts' \in 0..MaxCuts
  BY AccidentsTyped DEF Erase, Records
<1>7. RecordKept(task', seen', flash')
  BY <1>2 DEF RecordKept, Writing
<1> HIDE DEF r
<1> QED
  BY <1>1, <1>2, <1>3, <1>4, <1>5, <1>6, <1>7, SaveSteps

\* So does writing the header of the new record.
LEMMA WriteHeaderKeeps ==
    ASSUME IInv, WriteHeader
    PROVE  IInv'
<1>1. /\ task \in TaskStates /\ seen \in SeenStates /\ task.phase = "header"
      /\ TimerBounds(task, seen) /\ ErasesCount(task, seen) /\ flash \in Records
  BY DEF IInv, WriteHeader
<1>2. /\ task' \in TaskStates /\ task'.phase = "payload" /\ task'.saved = task.saved
      /\ task'.todo = task.todo /\ task'.calibrated = task.calibrated
      /\ task'.upset = task.upset /\ task'.accuracy = task.accuracy
      /\ task'.skip = task.skip /\ task'.warmup = task.warmup /\ task'.age = task.age
      /\ task'.published = task.published /\ task'.basis = task.basis
  BY <1>1 DEF WriteHeader, TaskStates
<1>3. TimerBounds(task', seen)
  <2>1. Justified(task) /\ Justified(task') /\ task'.phase # "wait"
    BY <1>1, <1>2 DEF Justified
  <2> QED
    BY <1>1, <1>2, <2>1 DEF TimerBounds
<1>4. ErasesCount(task', seen)
  BY <1>1, <1>2 DEF ErasesCount, Writing
<1>5. /\ chip' = chip /\ flash' \in Records /\ seen' = seen
      /\ faults' \in 0..MaxFaults /\ upsets' \in 0..MaxUpsets /\ cuts' \in 0..MaxCuts
  BY <1>1, AccidentsTyped DEF WriteHeader, Records
<1>6. RecordKept(task', seen', flash')
  BY <1>1, <1>2 DEF RecordKept, Writing, WriteHeader, Records
<1> QED
  BY <1>1, <1>2, <1>3, <1>4, <1>5, <1>6, SaveSteps

\* A save ends, whatever came of it.
LEMMA SaveEndsKeep ==
    ASSUME IInv, WritePayload \/ SaveFails
    PROVE  IInv'
<1> DEFINE tk == Saved(task)
<1>1. /\ task \in TaskStates /\ seen \in SeenStates /\ task.phase \in {"save", "header", "payload"}
      /\ ErasesCount(task, seen) /\ flash \in Records /\ task' = tk
  BY DEF IInv, WritePayload, SaveFails
<1>2. /\ tk \in TaskStates /\ tk.phase = "wait" /\ tk.age = 0 /\ tk.saved # Nothing
      /\ tk.todo = task.todo /\ tk.calibrated = task.calibrated /\ tk.upset = task.upset
      /\ tk.skip = task.skip /\ tk.warmup = task.warmup
      /\ tk.published = task.published /\ tk.basis = task.basis
      /\ tk.saved \in Int /\ tk.saved >= task.saved /\ tk.saved >= task.accuracy
  BY SavedFits
<1> HIDE DEF tk
<1>3. /\ seen' \in SeenStates /\ seen'.heard = seen.heard /\ seen'.rises = seen.rises
      /\ seen'.failed \/ seen'.unsaved = 0
  <2>1. 0 \in 0..MaxUnsaved
    BY ConstantTypes DEF MaxUnsaved
  <2> QED
    BY <1>1, <2>1 DEF WritePayload, SaveFails, SeenStates
<1>4. TimerBounds(tk, seen')
  <2>1. CountedTo(tk.age, SaveInterval) >= 0
    BY <1>2, ConstantTypes DEF CountedTo
  <2> QED
    BY <1>2, <1>3, <2>1 DEF TimerBounds, Justified
<1>5. ErasesCount(tk, seen')
  <2>1. task.saved \in Int /\ task.accuracy \in Int /\ seen.rises \in Int
    BY <1>1 DEF TaskStates, SeenStates, Accuracy, Nothing
  <2>2. seen.rises = 0 \/ seen.rises <= task.saved \/ seen.rises <= task.accuracy
    BY <1>1 DEF ErasesCount
  <2>3. seen.rises = 0 \/ seen.rises <= tk.saved
    BY <1>2, <2>1, <2>2
  <2> QED
    BY <1>2, <1>3, <2>3 DEF ErasesCount, Writing
<1>6. /\ chip' = chip /\ flash' \in Records
      /\ faults' \in 0..MaxFaults /\ upsets' \in 0..MaxUpsets /\ cuts' \in 0..MaxCuts
  BY <1>1, AccidentsTyped DEF WritePayload, SaveFails, Records
<1>7. RecordKept(tk, seen', flash')
  <2>1. CASE WritePayload
    <3>1. flash.header /\ flash' = [flash EXCEPT !.payload = TRUE]
      BY <2>1 DEF WritePayload, IInv, RecordKept
    <3>2. Load(flash')
      BY <1>1, <3>1 DEF Load, Records
    <3> QED
      BY <1>2, <3>2 DEF RecordKept
  <2>2. CASE SaveFails
    <3>1. seen'.failed
      BY <1>1, <2>2 DEF SaveFails, SeenStates
    <3> QED
      BY <1>2, <3>1 DEF RecordKept
  <2> QED
    BY <2>1, <2>2
<1> QED
  BY <1>1, <1>2, <1>3, <1>4, <1>5, <1>6, <1>7, SaveSteps

\* So does the pause at the end of a pass.
LEMMA WaitKeeps ==
    ASSUME IInv, Wait
    PROVE  IInv'
<1> DEFINE n == CountedTo(task.age, SaveInterval)
<1>1. /\ task \in TaskStates /\ seen \in SeenStates /\ task.phase = "wait"
      /\ TimerBounds(task, seen) /\ ErasesCount(task, seen)
  BY DEF IInv, Wait
<1>2. n \in 0..SaveInterval
  BY <1>1, ConstantTypes DEF TaskStates, CountedTo
<1>3. /\ task' \in TaskStates /\ task'.phase = "control" /\ task'.saved = task.saved
      /\ task'.todo = task.todo /\ task'.calibrated = task.calibrated
      /\ task'.upset = task.upset /\ task'.accuracy = task.accuracy
      /\ task'.skip = task.skip /\ task'.warmup = task.warmup /\ task'.age = n
      /\ task'.published = task.published /\ task'.basis = task.basis
  <2>1. task' = [task EXCEPT !.phase = "control", !.age = n]
    BY DEF Wait
  <2> HIDE DEF n
  <2> QED
    BY <1>1, <1>2, <2>1 DEF TaskStates
<1>4. TimerBounds(task', seen)
  BY <1>1, <1>3 DEF TimerBounds, Justified
<1>5. ErasesCount(task', seen)
  BY <1>1, <1>3 DEF ErasesCount, Writing
<1>6. /\ chip' = chip /\ flash' \in Records /\ seen' = seen
      /\ faults' \in 0..MaxFaults /\ upsets' \in 0..MaxUpsets /\ cuts' \in 0..MaxCuts
  BY AccidentsTyped DEF Wait, IInv
<1>7. RecordKept(task', seen', flash')
  BY <1>1, <1>3, <1>6 DEF RecordKept, Writing, IInv, Wait
<1> HIDE DEF n
<1> QED
  BY <1>1, <1>3, <1>4, <1>5, <1>6, <1>7, SaveSteps

--------------------------------------------------------------------------
(* The sensor and the power.                                                 *)
LEMMA ConvertKeeps ==
    ASSUME IInv, Convert
    PROVE  IInv'
<1> DEFINE b == CycleSettings \subseteq chip.set
<1>1. /\ chip \in ChipStates /\ task \in TaskStates /\ chip.mode = "forced"
      /\ RestsOtherwise(chip, task) /\ SetUp(chip, task) /\ WorksInOrder(task)
      /\ task' = task
  BY DEF IInv, Convert
<1>2. /\ chip' \in ChipStates /\ chip'.mode = "sleep" /\ chip'.result = "new"
      /\ chip'.set = chip.set
      /\ chip'.whole <=> CycleSettings \subseteq chip.set
  <2>1. chip' = [chip EXCEPT !.mode = "sleep", !.ready = TRUE, !.result = "new", !.whole = b]
    BY DEF Convert
  <2>2. b \in BOOLEAN /\ (b <=> CycleSettings \subseteq chip.set)
    OBVIOUS
  <2> HIDE DEF b
  <2> QED
    BY <1>1, <2>1, <2>2 DEF ChipStates
<1>3. /\ task.calibrated => task.todo = <<"poll">>
      /\ ~task.calibrated /\ task.phase = "bus" => task.todo = InitializeSensor
  BY <1>1 DEF RestsOtherwise, AtRest
<1>4. task.phase # "steps"
  BY <1>1, <1>3, Beginnings DEF WorksInOrder
<1>5. RestsOtherwise(chip', task)
  BY <1>2, <1>3 DEF RestsOtherwise
<1>6. SetUp(chip', task)
  BY <1>1, <1>2, <1>3, <1>4 DEF SetUp
<1>7. task.upset \in BOOLEAN /\ task' = [task EXCEPT !.upset = task.upset]
  BY <1>1 DEF TaskStates
<1>8. /\ flash' = flash /\ seen' = seen
      /\ faults' \in 0..MaxFaults /\ upsets' \in 0..MaxUpsets /\ cuts' \in 0..MaxCuts
  BY AccidentsTyped DEF Convert
<1> QED
  BY <1>1, <1>2, <1>5, <1>6, <1>7, <1>8, ChipSteps

\* So does a brown-out of the sensor.
LEMMA UpsetKeeps ==
    ASSUME IInv, Upset
    PROVE  IInv'
<1>1. PowerOnChip \in ChipStates /\ AtRest(PowerOnChip) /\ chip' = PowerOnChip
  BY DEF PowerOnChip, ChipStates, AtRest, Upset
<1>2. task' = [task EXCEPT !.upset = TRUE] /\ task'.upset
  BY DEF Upset, IInv, TaskStates
<1>3. RestsOtherwise(chip', task') /\ SetUp(chip', task')
  BY <1>1, <1>2 DEF RestsOtherwise, SetUp, AtRest
<1>4. /\ flash' = flash /\ seen' = seen
      /\ faults' \in 0..MaxFaults /\ upsets' \in 0..MaxUpsets /\ cuts' \in 0..MaxCuts
  BY AccidentsTyped DEF Upset
<1> QED
  BY <1>1, <1>2, <1>3, <1>4, ChipSteps

\* A boot starts from nothing but the flash.
LEMMA BootingFits ==
    /\ Booting \in TaskStates /\ PowerOnChip \in ChipStates /\ NothingSeen \in SeenStates
    /\ WorksInOrder(Booting) /\ RestsOtherwise(PowerOnChip, Booting)
    /\ SetUp(PowerOnChip, Booting)
    /\ CountsOutputs(Booting, NothingSeen) /\ TimerBounds(Booting, NothingSeen)
    /\ ErasesCount(Booting, NothingSeen) /\ Booting.basis # "garbage"
    /\ \A record : RecordKept(Booting, NothingSeen, record)
<1>1. PowerOnChip \in ChipStates /\ AtRest(PowerOnChip)
  BY DEF PowerOnChip, ChipStates, AtRest
<1>2. /\ 0 \in 0..(PublishEvery - 1) /\ Warmup \in 0..Warmup /\ 0 \in 0..SaveInterval
      /\ 0 \in 0..MaxUnsaved /\ MaxHeard \in Nat
  BY ConstantTypes DEF MaxUnsaved, MaxHeard
<1>3. /\ Booting \in TaskStates /\ Booting.phase = "boot" /\ Booting.todo = <<>>
      /\ ~Booting.calibrated /\ Booting.skip = 0 /\ Booting.warmup = Warmup
      /\ Booting.saved = Nothing /\ Booting.age = 0 /\ ~Booting.fresh /\ ~Booting.published
      /\ Booting.basis = "scratch"
  <2>1. <<>> \in InitTodos /\ 0 \in Accuracy
    BY Beginnings DEF Accuracy
  <2> QED
    BY <1>2, <2>1 DEF Booting, TaskStates
<1>4. /\ NothingSeen \in SeenStates /\ NothingSeen.heard = 0 /\ NothingSeen.unsaved = 0
      /\ NothingSeen.rises = 0 /\ ~NothingSeen.recorded
  BY <1>2 DEF NothingSeen, SeenStates
<1>5. /\ WorksInOrder(Booting) /\ RestsOtherwise(PowerOnChip, Booting)
      /\ SetUp(PowerOnChip, Booting)
  BY <1>1, <1>3, OffTheBus
<1>6. CountsOutputs(Booting, NothingSeen)
  <2>1. (Warmup - Warmup) * PublishEvery = 0
    BY ConstantTypes
  <2> QED
    BY <1>3, <1>4, <2>1 DEF CountsOutputs
<1>7. TimerBounds(Booting, NothingSeen) /\ ErasesCount(Booting, NothingSeen)
  BY <1>3, <1>4 DEF TimerBounds, ErasesCount, Justified, Writing
<1>8. \A record : RecordKept(Booting, NothingSeen, record)
  BY <1>3, <1>4 DEF RecordKept
<1> QED
  BY <1>1, <1>3, <1>4, <1>5, <1>6, <1>7, <1>8

\* So does a power cut of the board, which only the flash survives.
LEMMA PowerCutKeeps ==
    ASSUME IInv, PowerCut
    PROVE  IInv'
<1>1. /\ flash' \in Records
      /\ faults' \in 0..MaxFaults /\ upsets' \in 0..MaxUpsets /\ cuts' \in 0..MaxCuts
  BY AccidentsTyped DEF PowerCut, IInv
<1>2. chip' = PowerOnChip /\ task' = Booting /\ seen' = NothingSeen
  BY DEF PowerCut
<1> QED
  BY <1>1, <1>2, BootingFits DEF IInv, NoHalfRecordRestored

--------------------------------------------------------------------------
(* What holds of every execution.                                            *)

\* A board that was never on.
LEMMA InitInvariant == Init => IInv
<1> SUFFICES ASSUME Init
             PROVE  IInv
  OBVIOUS
<1>1. flash \in Records
  BY DEF Init, Records
<1>2. faults \in 0..MaxFaults /\ upsets \in 0..MaxUpsets /\ cuts \in 0..MaxCuts
  BY ConstantTypes DEF Init
<1>3. chip = PowerOnChip /\ task = Booting /\ seen = NothingSeen
  BY DEF Init
<1> QED
  BY <1>1, <1>2, <1>3, BootingFits DEF IInv, NoHalfRecordRestored

\* Whatever the task, the sensor, BSEC, the flash and the power do.
LEMMA NextInvariant == IInv /\ [Next]_vars => IInv'
<1> SUFFICES ASSUME IInv, [Next]_vars
             PROVE  IInv'
  OBVIOUS
<1>1. CASE TaskStep
  BY <1>1, BootKeeps, InitializeKeeps, WriteKeeps, ResetKeeps, ModeAndStartKeep,
     PollReadyKeeps, FailuresKeep, InitializedKeeps, SkipSaveKeeps, EraseKeeps,
     WriteHeaderKeeps, SaveEndsKeep, WaitKeeps DEF TaskStep
<1>2. CASE Requests \/ NoOutput \/ Outputs
  BY <1>2, ControlKeeps, NoOutputKeeps, OutputKeeps DEF Requests, Outputs
<1>3. CASE BsecRefuses \/ TransferFails \/ ControlFails \/ SaveFails
  BY <1>3, BootKeeps, FailuresKeep, SaveEndsKeep
<1>4. CASE Convert \/ Upset \/ PowerCut
  BY <1>4, ConvertKeeps, UpsetKeeps, PowerCutKeeps
<1>5. CASE UNCHANGED vars
  BY <1>5 DEF IInv, NoHalfRecordRestored, vars
<1> QED
  BY <1>1, <1>2, <1>3, <1>4, <1>5 DEF Next

(* The invariant: where the task is in its work with the sensor, how far the *)
(* warm-up has come, and what the flash is owed.                             *)
THEOREM TaskInvariant == Spec => []IInv
<1>1. Init => IInv
  BY InitInvariant
<1>2. IInv /\ [Next]_vars => IInv'
  BY NextInvariant
<1> QED
  BY <1>1, <1>2, PTL DEF Spec

(* BSEC is only fed measurements of the cycle it asked for, taken with its   *)
(* settings, which are never rewritten under a running measurement.          *)
THEOREM BsecIsFedWhatItAskedFor == Spec => []BsecIsFedRight
<1>1. IInv => BsecIsFedRight
  <2> SUFFICES ASSUME IInv
               PROVE  BsecIsFedRight
    OBVIOUS
  <2>1. TypeOK
    <3>1. Len(task.todo) <= 6
      BY SixStepsAtMost DEF IInv, TaskStates
    <3>2. /\ chip \in ChipStates /\ task \in TaskStates /\ flash \in Records
          /\ seen \in SeenStates
          /\ faults \in 0..MaxFaults /\ upsets \in 0..MaxUpsets /\ cuts \in 0..MaxCuts
      BY DEF IInv
    <3>3. {task.calibrated, task.fresh, task.upset, task.published} \subseteq BOOLEAN
      BY <3>2 DEF TaskStates
    <3>4. {seen.recorded, seen.failed} \subseteq BOOLEAN
      BY <3>2 DEF SeenStates
    <3>5. /\ task.phase \in {"boot", "ended", "control", "bus", "steps", "save", "header",
                             "payload", "wait"}
          /\ task.skip \in 0..(PublishEvery - 1) /\ task.warmup \in 0..Warmup
          /\ task.saved \in Accuracy \cup {Nothing} /\ task.accuracy \in Accuracy
          /\ task.age \in 0..SaveInterval
          /\ task.basis \in {"scratch", "record", "garbage"}
      BY <3>2 DEF TaskStates
    <3>6. /\ seen.heard \in 0..MaxHeard /\ seen.unsaved \in 0..MaxUnsaved /\ seen.rises \in Nat
      BY <3>2 DEF SeenStates
    <3> QED
      BY <3>1, <3>2, <3>3, <3>4, <3>5, <3>6, Zenon DEF TypeOK, ChipStates, Records
  <2>2. FedAsAsked
    BY DEF IInv, WorksInOrder, SetUp, FedAsAsked
  <2>3. SettingsSteady
    <3> SUFFICES ASSUME chip.mode = "forced", NEW step \in CycleSettings, At(step)
                 PROVE  FALSE
      BY DEF SettingsSteady
    <3>1. ~AtRest(chip) /\ step \notin {"reset", "poll"}
      BY DEF AtRest, CycleSettings
    <3>2. /\ Head(task.todo) = step /\ task.phase = "bus"
          /\ task.calibrated => CycleEnd(task.todo)
          /\ ~task.calibrated => (step = "reset" <=> task.todo = InitializeSensor)
      BY NextOnTheBus
    <3> QED
      BY <3>1, <3>2 DEF IInv, RestsOtherwise, CycleEnd
  <2> QED
    BY <2>1, <2>2, <2>3 DEF BsecIsFedRight
<1> QED
  BY <1>1, TaskInvariant, PTL

(* No reading is published before the whole warm-up, counted in readings     *)
(* that would have been published.                                           *)
THEOREM ReadingsAreSettled == Spec => []SettledBeforePublished
<1>1. IInv => SettledBeforePublished
  BY DEF IInv, CountsOutputs, SettledBeforePublished
<1> QED
  BY <1>1, TaskInvariant, PTL

(* No broken record is restored, a power cut costs no more than one timer's  *)
(* worth unless it falls into a write or the last save failed, and the       *)
(* accuracy is the reason of three erases at most.                           *)
THEOREM WhatWasLearnedIsKept == Spec => []StateIsKept
<1>1. IInv => StateIsKept
  <2> SUFFICES ASSUME IInv
               PROVE  StateIsKept
    OBVIOUS
  <2>1. NoHalfRecordRestored
    BY DEF IInv
  <2>2. /\ task.age \in 0..SaveInterval /\ task.saved \in Accuracy \cup {Nothing}
        /\ task.accuracy \in 0..3 /\ seen.unsaved \in Int /\ seen.rises \in Nat
        /\ SaveInterval \in Nat
    BY ConstantTypes DEF IInv, TaskStates, SeenStates, Accuracy, MaxUnsaved
  <2>3. LossIsBounded
    <3>1. CountedTo(task.age, SaveInterval) <= SaveInterval
      BY <2>2 DEF CountedTo
    <3>2. CountedTo(task.age, SaveInterval) \in Int
      BY <2>2 DEF CountedTo
    <3>3. ~seen.failed => \/ seen.unsaved <= task.age
                          \/ seen.unsaved <= task.age + 1
                          \/ seen.unsaved <= CountedTo(task.age, SaveInterval)
      BY DEF IInv, TimerBounds
    <3>4. ~seen.failed /\ ~Writing(task) => CostOfACut = seen.unsaved
      BY DEF IInv, RecordKept, CostOfACut
    <3> QED
      BY <2>2, <3>1, <3>2, <3>3, <3>4 DEF LossIsBounded, Writing
  <2>4. ThreeAccuracyWrites
    <3>1. \/ seen.rises = 0
          \/ task.saved # Nothing /\ seen.rises <= task.saved
          \/ seen.rises <= task.accuracy
      BY DEF IInv, ErasesCount
    <3>2. task.saved # Nothing => task.saved \in 0..3
      BY <2>2 DEF Accuracy
    <3> QED
      BY <2>2, <3>1, <3>2 DEF ThreeAccuracyWrites
  <2> QED
    BY <2>1, <2>3, <2>4 DEF StateIsKept
<1> QED
  BY <1>1, TaskInvariant, PTL
=============================================================================
