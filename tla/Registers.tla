----------------------------- MODULE Registers -----------------------------
(* How the drivers put their settings into a chip's registers.  Several      *)
(* settings share a register, so most writes are a read, a replacement of    *)
(* the bits under a mask, and a write; the masks and shifts of a setting are *)
(* separate constants, and some registers are written whole.  Any transfer   *)
(* may break the call off, leaving a part of its settings written; the tasks *)
(* then start over with the driver's init.  A chip finishes a measurement,   *)
(* and clears the mode that started it, whenever it likes.                   *)
(*                                                                           *)
(* Left out: transfers that change nothing (identification, status), the     *)
(* delays, and the register banks of the AS7343 (SensorTasks has them).      *)
EXTENDS BitFields, Sequences, SequencesExt

CONSTANTS
    Chips,           \* the chips looked at
    Settings,        \* chip -> the configurations its init is given
    Durations        \* heater-on times asked of the BME690, in milliseconds

VARIABLES
    chip,            \* the chip, or "none"
    regs,            \* register -> its bits
    pristine,        \* the registers as the last reset left them, or as found
    settled,         \* field -> what the calls that succeeded left it at
    call,            \* the call in progress
    seen,            \* the registers as read for the next write
    failed,          \* a call broke off: init comes next
    disturbed        \* a write has landed altered since the last reset

registerVars == <<chip, regs, pristine, settled, call, seen, failed, disturbed>>

--------------------------------------------------------------------------
(* Writes: for each register of one transfer, which bits of it are replaced  *)
(* and by what.                                                              *)
Update(register, mask, value) == register :> [mask |-> mask, value |-> value]
Write(register, value) == Update(register, 0..15, value)
Raw(n, shift) == ShiftUp(BitsOf(n), shift)

\* (current & !mask) | (value & mask)
Merged(current, change) == (current \ change.mask) \union (change.value \intersect change.mask)

(* A call: what it sets, and its steps.  A step is a transfer, a write that  *)
(* is read back, a reset, or the wait for sleep before a mode is written.    *)
Change(writes) == [kind |-> "change", writes |-> writes]
Verified(writes) == [kind |-> "verified", writes |-> writes]
Step(kind) == [kind |-> kind, writes |-> <<>>]
Call(init, sets, steps) == [init |-> init, sets |-> sets, steps |-> steps]
NoCall == Call(FALSE, <<>>, <<>>)

(* BMP581 *)
Bmp581SetPowerMode(mode) == Change(Update("ODR_CONFIG", {7, 1, 0}, {7} \union BitsOf(mode)))
Bmp581Configure(c) ==
    <<Bmp581SetPowerMode(0),
      Change(Update("OSR_CONFIG", (0..2) \union (3..5) \union {6},
                    Raw(c.osr_t, 0) \union Raw(c.osr_p, 3) \union Raw(c.press_en, 6))),
      Change(Update("DSP_IIR", (0..2) \union (3..5), Raw(c.iir_t, 0) \union Raw(c.iir_p, 3))),
      Change(Update("DSP_CONFIG", {3, 5, 2},
                    (IF c.iir_t # 0 THEN {3} ELSE {}) \union (IF c.iir_p # 0 THEN {5} ELSE {})
                        \union Raw(c.flush, 2))),
      Change(Update("INT_SOURCE", {0}, {0}))>>
Bmp581Calls ==
    {Call(TRUE, c @@ [mode |-> 0, deep_dis |-> 1, drdy |-> 1],
          <<Step("reset")>> \o Bmp581Configure(c)) : c \in Settings["bmp581"]}
    \union {Call(FALSE, [mode |-> 2], <<Bmp581SetPowerMode(2)>>)}

(* OPT4048: all of a configuration and the mode share one word.  A change of *)
(* the mode rebuilds it from the driver's copy of the configuration; the     *)
(* tasks make a new driver for every call, whose copy is the default.        *)

\* Mutant of Opt4048Default: the default is not what the task configures.
Opt4048DefaultLonger == [range |-> 12, time |-> 9, latch |-> 1]

Opt4048Default == [range |-> 12, time |-> 8, latch |-> 1]

Opt4048ControlWord(c, mode) ==
    Raw(c.range, 10) \union Raw(c.time, 6) \union Raw(mode, 4) \union Raw(c.latch, 3)
Opt4048Configure(c, mode) == Change(Write("CONTROL", Opt4048ControlWord(c, mode)))
Opt4048Calls ==
    {Call(TRUE, c @@ [mode |-> 0], <<Opt4048Configure(c, 0)>>) : c \in Settings["opt4048"]}
    \union {Call(FALSE, [mode |-> mode], <<Opt4048Configure(Opt4048Default, mode)>>) :
                mode \in {1, 2}}
    \union {Call(FALSE, [threshold |-> ch], <<Change(Update("INT_CONTROL", {5, 6}, Raw(ch, 5)))>>) :
                ch \in {1, 2}}

(* AS7343 *)
As7343SetIntegrationTime(atime, astep) ==
    <<Change(Write("ATIME", BitsOf(atime))),
      Change(Write("ASTEP_L", BitsOf(astep) \intersect (0..7))),
      Change(Write("ASTEP_H", ShiftDown(BitsOf(astep), 8)))>>
As7343SetSpectral(on) == Change(Update("ENABLE", {1}, Raw(on, 1)))
As7343Calls ==
    {Call(TRUE, c @@ [pon |-> 1, sp_en |-> 0, smux |-> 3],
          <<Step("reset"), Change(Update("ENABLE", {0}, {0})),
            Change(Update("CFG1", 0..4, Raw(c.again, 0)))>>
          \o As7343SetIntegrationTime(c.atime, c.astep)
          \o <<Change(Update("CFG20", {5, 6}, {5, 6}))>>) : c \in Settings["as7343"]}
    \union {Call(FALSE, [sp_en |-> 1], <<As7343SetSpectral(0), As7343SetSpectral(1)>>),
            Call(FALSE, [sp_en |-> 0], <<As7343SetSpectral(0)>>)}
    \union {Call(FALSE, [led_act |-> act, led_ma |-> ma],
                 <<Change(Write("LED", Raw(act, 7)
                        \union (BitsOf((Min({Max({ma, 4}), 258}) - 4) \div 2) \intersect (0..6))))>>) :
                act \in {0, 1}, ma \in {0, 21, 300}}

(* BMM350: an averaging that does not fit the data rate is lowered first. *)
Bmm350Averaging(rate, averaging) ==
    LET fits == CASE rate = 2 -> 0 [] rate = 3 -> 1 [] rate = 4 -> 2 [] OTHER -> 3
    IN  Min({averaging, fits})
Bmm350UpdateOdrAvg == Change(Write("PMU_CMD", BitsOf(2)))
Bmm350Configure(c) ==
    <<Change(Update("AXIS_EN", 0..2, BitsOf(c.axes))), Bmm350UpdateOdrAvg,
      Change(Update("AGGR_SET", (0..3) \union (4..5),
                    Raw(c.odr, 0) \union Raw(Bmm350Averaging(c.odr, c.avg), 4))),
      Bmm350UpdateOdrAvg,
      Change(Update("INT_CTRL", {7}, Raw(c.drdy, 7)))>>
Bmm350Calls ==
    {Call(TRUE, [c EXCEPT !.avg = Bmm350Averaging(c.odr, c.avg)],
          <<Step("reset"), Change(Write("PMU_CMD", BitsOf(7))), Change(Write("PMU_CMD", BitsOf(5)))>>
          \o Bmm350Configure(c)) : c \in {c \in Settings["bmm350"] : c.axes # 0}}
    \union {Call(FALSE, <<>>, <<Step("suspend"), Change(Write("PMU_CMD", BitsOf(mode)))>>) :
                mode \in {3, 4}}

(* BME690: the heater profile and the gas conversion are each one transfer   *)
(* to two registers.                                                         *)
\* A 6-bit count and a 2-bit exponent of four.
GasWaitRegister(ms) ==
    IF ms >= 4032 THEN 255
    ELSE LET multiplier == Min({m \in 0..3 : ms \div 4^m <= 63})
         IN  (ms \div 4^multiplier) + 64 * multiplier

Bme690SetMode(mode) ==
    <<Step("sleep")>> \o (IF mode = 0 THEN <<>>
                          ELSE <<Change(Update("CTRL_MEAS", 0..1, BitsOf(mode)))>>)
Bme690SetOversampling(c) ==
    <<Change(Write("CTRL_HUM", Raw(c.osrs_h, 0))),
      Change(Update("CTRL_MEAS", 2..7, Raw(c.osrs_t, 5) \union Raw(c.osrs_p, 2)))>>
Bme690Calls ==
    {Call(TRUE, c @@ [mode |-> 0],
          <<Step("reset")>> \o Bme690SetOversampling(c)
            \o <<Change(Update("CONFIG", {2, 3, 4}, Raw(c.filter, 2)))>>) : c \in Settings["bme690"]}
    \union {Call(FALSE, [osrs_h |-> c.osrs_h, osrs_t |-> c.osrs_t, osrs_p |-> c.osrs_p],
                 Bme690SetOversampling(c)) : c \in Settings["bme690"]}
    \union {Call(FALSE, [heater_ms |-> ms],
                 <<Change(Write("RES_HEAT0", {0}) @@ Write("GAS_WAIT0", BitsOf(GasWaitRegister(ms))))>>) :
                ms \in Durations}
    \union {Call(FALSE, [heat_off |-> 1 - on, run_gas |-> on, profile |-> 0],
                 <<Change(Update("CTRL_GAS_0", {3}, Raw(1 - on, 3))
                          @@ Update("CTRL_GAS_1", {5} \union (0..3), Raw(on, 5)))>>) : on \in {0, 1}}
    \union {Call(FALSE, [mode |-> mode], Bme690SetMode(mode)) : mode \in {0, 1}}

(* MLX90640: the control register is written and read back. *)
Mlx90640Calls ==
    {Call(TRUE, c, <<Verified(Update("CONTROL1", (7..9) \union (10..11) \union {12},
                        Raw(c.rate, 7) \union Raw(c.resolution, 10) \union Raw(c.chess, 12)))>>) :
        c \in Settings["mlx90640"]}

Calls ==
    CASE chip = "bmp581" -> Bmp581Calls
      [] chip = "opt4048" -> Opt4048Calls
      [] chip = "as7343" -> As7343Calls
      [] chip = "bmm350" -> Bmm350Calls
      [] chip = "bme690" -> Bme690Calls
      [] chip = "mlx90640" -> Mlx90640Calls

--------------------------------------------------------------------------
(* Where a chip keeps each setting, as the drivers that read it back decode  *)
(* it: register, lowest bit, number of bits.                                 *)
Fields ==
    [bmp581 |-> [osr_t |-> <<"OSR_CONFIG", 0, 3>>, osr_p |-> <<"OSR_CONFIG", 3, 3>>,
                 press_en |-> <<"OSR_CONFIG", 6, 1>>, iir_t |-> <<"DSP_IIR", 0, 3>>,
                 iir_p |-> <<"DSP_IIR", 3, 3>>, flush |-> <<"DSP_CONFIG", 2, 1>>,
                 shadow_t |-> <<"DSP_CONFIG", 3, 1>>, shadow_p |-> <<"DSP_CONFIG", 5, 1>>,
                 drdy |-> <<"INT_SOURCE", 0, 1>>,
                 deep_dis |-> <<"ODR_CONFIG", 7, 1>>, mode |-> <<"ODR_CONFIG", 0, 2>>],
     opt4048 |-> [range |-> <<"CONTROL", 10, 4>>, time |-> <<"CONTROL", 6, 4>>,
                  mode |-> <<"CONTROL", 4, 2>>, latch |-> <<"CONTROL", 3, 1>>,
                  threshold |-> <<"INT_CONTROL", 5, 2>>],
     as7343 |-> [again |-> <<"CFG1", 0, 5>>, atime |-> <<"ATIME", 0, 8>>,
                 astep_l |-> <<"ASTEP_L", 0, 8>>, astep_h |-> <<"ASTEP_H", 0, 8>>,
                 smux |-> <<"CFG20", 5, 2>>, pon |-> <<"ENABLE", 0, 1>>,
                 sp_en |-> <<"ENABLE", 1, 1>>, led_act |-> <<"LED", 7, 1>>,
                 led_ma |-> <<"LED", 0, 7>>],
     bmm350 |-> [axes |-> <<"AXIS_EN", 0, 3>>, odr |-> <<"AGGR_SET", 0, 4>>,
                 avg |-> <<"AGGR_SET", 4, 2>>, drdy |-> <<"INT_CTRL", 7, 1>>,
                 command |-> <<"PMU_CMD", 0, 4>>],
     bme690 |-> [osrs_h |-> <<"CTRL_HUM", 0, 3>>, osrs_t |-> <<"CTRL_MEAS", 5, 3>>,
                 osrs_p |-> <<"CTRL_MEAS", 2, 3>>, mode |-> <<"CTRL_MEAS", 0, 2>>,
                 filter |-> <<"CONFIG", 2, 3>>, heat_off |-> <<"CTRL_GAS_0", 3, 1>>,
                 run_gas |-> <<"CTRL_GAS_1", 5, 1>>, profile |-> <<"CTRL_GAS_1", 0, 4>>,
                 heater_ms |-> <<"GAS_WAIT0", 0, 8>>, resistance |-> <<"RES_HEAT0", 0, 8>>],
     mlx90640 |-> [rate |-> <<"CONTROL1", 7, 3>>, resolution |-> <<"CONTROL1", 10, 2>>,
                   chess |-> <<"CONTROL1", 12, 1>>]]

FieldsOf == Fields[chip]
RegistersOf(c) == {Fields[c][f][1] : f \in DOMAIN Fields[c]}
Owned(c, register) ==
    UNION {Fields[c][f][2]..(Fields[c][f][2] + Fields[c][f][3] - 1) :
                f \in {f \in DOMAIN Fields[c] : Fields[c][f][1] = register}}
Value(f) ==
    Unsigned(ShiftDown(regs[FieldsOf[f][1]], FieldsOf[f][2]) \intersect (0..FieldsOf[f][3] - 1))
Mode == IF "mode" \in DOMAIN FieldsOf THEN Value("mode") ELSE 0

\* Registers that are written whole, without being read.
WrittenWhole == {"CONTROL", "ATIME", "ASTEP_L", "ASTEP_H", "LED", "PMU_CMD", "CTRL_HUM",
                 "GAS_WAIT0", "RES_HEAT0"}

Widest(c) == IF c \in {"opt4048", "mlx90640"} THEN 15 ELSE 7

\* External: what a reset leaves, or what is found: nothing measuring, the
\* bits that no setting owns either way.
PowerOn(c) ==
    {[r \in RegistersOf(c) |-> others \ Owned(c, r)] : others \in {{}, 0..Widest(c)}}
Found(c) == {[r \in RegistersOf(c) |-> bits] : bits \in {{}, 0..Widest(c)}}

RegistersInit ==
    /\ chip \in Chips
    /\ regs \in Found(chip) /\ pristine = regs
    /\ settled = <<>> /\ call = NoCall /\ seen = <<>>
    /\ failed = TRUE /\ disturbed = FALSE

--------------------------------------------------------------------------
Head1 == Head(call.steps)
Doing(kind) == call.steps # <<>> /\ Head1.kind = kind

\* External: the tasks.  After a failure init comes first; the BME690's
\* settings are changed between its measurements.
Begin ==
    /\ call = NoCall
    /\ \E c \in Calls :
        /\ failed => c.init
        /\ chip = "bme690" /\ ~c.init /\ "mode" \notin DOMAIN c.sets => Mode = 0
        /\ call' = c
    /\ UNCHANGED <<chip, regs, pristine, settled, seen, failed, disturbed>>

\* The step is done; after the last one the call has succeeded.
Done ==
    /\ seen' = <<>>
    /\ IF Len(call.steps) > 1
       THEN /\ call' = [call EXCEPT !.steps = Tail(@)]
            /\ UNCHANGED <<settled, failed>>
       ELSE /\ call' = NoCall
            /\ settled' = IF call.init THEN call.sets ELSE call.sets @@ settled
            /\ failed' = FALSE

Whole == \A r \in DOMAIN Head1.writes : 0..7 \subseteq Head1.writes[r].mask

Read ==
    /\ Doing("change") \/ Doing("verified")
    /\ seen = <<>> /\ ~Whole
    /\ seen' = [r \in DOMAIN Head1.writes |-> regs[r]]
    /\ UNCHANGED <<chip, regs, pristine, settled, call, failed, disturbed>>

Meant == [r \in DOMAIN Head1.writes |-> Merged(IF Whole THEN {} ELSE seen[r], Head1.writes[r])]

\* A transfer carries all of the registers of its step; one bit of one of
\* them may land altered.
Written ==
    /\ seen # <<>> \/ Whole
    /\ \/ /\ regs' = Meant @@ regs
          /\ UNCHANGED disturbed
       \/ /\ ~disturbed
          /\ \E r \in DOMAIN Meant, b \in {0, 7} :
                regs' = [Meant EXCEPT ![r] = Xor(@, {b})] @@ regs
          /\ disturbed' = TRUE
    /\ UNCHANGED <<chip, pristine>>
WriteChange == Doing("change") /\ Written /\ Done

\* write_word_verified: written, then read back.
WriteVerified ==
    /\ Doing("verified") /\ Written
    /\ call' = [call EXCEPT !.steps[1].kind = "check"]
    /\ UNCHANGED <<settled, seen, failed>>

Breaks == call' = NoCall /\ seen' = <<>> /\ failed' = TRUE /\ UNCHANGED settled

Check ==
    /\ Doing("check")
    /\ IF \A r \in DOMAIN Meant : regs[r] = Meant[r] THEN Done ELSE Breaks
    /\ UNCHANGED <<chip, regs, pristine, disturbed>>

Reset ==
    /\ Doing("reset")
    /\ regs' \in PowerOn(chip) /\ pristine' = regs'
    /\ disturbed' = FALSE
    /\ Done
    /\ UNCHANGED chip

\* The wait for sleep mode: a measurement still running is stopped first.
StopMeasuring ==
    /\ Doing("sleep") /\ Mode # 0
    /\ regs' = [regs EXCEPT !.CTRL_MEAS = @ \ (0..1)]
    /\ UNCHANGED <<chip, pristine, settled, call, seen, failed, disturbed>>
Asleep ==
    /\ Doing("sleep") /\ Mode = 0
    /\ Done
    /\ UNCHANGED <<chip, regs, pristine, disturbed>>

\* The BMM350 takes a mode only in suspend.
Suspend ==
    /\ Doing("suspend")
    /\ regs' = [regs EXCEPT !.PMU_CMD = IF Value("command") \in {1, 2} THEN {} ELSE @]
    /\ Done
    /\ UNCHANGED <<chip, pristine, disturbed>>

\* A transfer fails, or the chip does not answer as expected.
BreaksOff ==
    /\ call.steps # <<>> /\ Breaks
    /\ UNCHANGED <<chip, regs, pristine, disturbed>>

\* External: a measurement ends and the chip clears the mode it ran in.
Measured ==
    /\ chip \in {"bmp581", "opt4048", "bme690"} /\ Mode # 0
    /\ LET mode == FieldsOf["mode"]
       IN  regs' = [regs EXCEPT ![mode[1]] = @ \ (mode[2]..(mode[2] + 1))]
    /\ UNCHANGED <<chip, pristine, settled, call, seen, failed, disturbed>>

RegistersNext ==
    Begin \/ Read \/ WriteChange \/ WriteVerified \/ Check \/ Reset \/ StopMeasuring
        \/ Asleep \/ Suspend \/ BreaksOff \/ Measured

--------------------------------------------------------------------------
\* Whether a setting reads back as it was asked for.  A heater-on time, an
\* LED current and a split integration step are compared as what they mean;
\* a mode ends by itself.
Holds(f) ==
    CASE f = "mode" -> Mode \in {0, settled[f]}
      [] f = "astep" -> Value("astep_l") + 256 * Value("astep_h") = settled[f]
      [] f = "led_ma" ->
            LET ma == 2 * Value(f) + 4
            IN  ma <= Max({settled[f], 4}) /\ (settled[f] < ma + 2 \/ ma = 258)
      [] f = "heater_ms" ->
            LET multiplier == Value(f) \div 64
                ms == (Value(f) % 64) * 4^multiplier
            IN  ms <= settled[f] /\ (settled[f] < ms + 4^multiplier \/ ms = 4032)
      [] OTHER -> Value(f) = settled[f]

\* Between calls every setting of every call that succeeded still stands,
\* whichever calls followed and wherever others broke off before: none
\* clobbers a neighbour in its register, and init forgets all of what a
\* broken call left.  A write that landed altered voids this, except for the
\* MLX90640, whose control register is read back.  (update_register,
\* configure, control_word, set_configuration and the setters.)
SettingsStand ==
    call = NoCall /\ ~failed /\ (disturbed => chip = "mlx90640") =>
        \A f \in DOMAIN settled : Holds(f)

\* Bits of a shared register that belong to no setting of the driver are
\* never changed, by whatever sequence of calls.
OthersUntouched ==
    chip # "none" /\ ~disturbed =>
        \A r \in RegistersOf(chip) \ WrittenWhole :
            regs[r] \ Owned(chip, r) = pristine[r] \ Owned(chip, r)
=============================================================================
