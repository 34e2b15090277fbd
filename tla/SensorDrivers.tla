--------------------------- MODULE SensorDrivers ---------------------------
(* What the drivers of the seven register-and-command sensors send over the  *)
(* bus, as the order of their transfers.  A driver function is the sequence  *)
(* of its steps, a task function the sequence of what it calls; SensorTasks  *)
(* executes them and says what each step does to the chip.                   *)
(*                                                                           *)
(* Steps that reach the chip: "check" reads something that must be right     *)
(* (an identity, a status, a serial number with its checksums), "command"    *)
(* writes something no property depends on, "reset" returns the chip to its  *)
(* power-on state, "bank1" and "bank0" select a register bank and "auxid"    *)
(* reads the identity in bank 1, "start" and "stop" control a conversion,    *)
(* "clear" drops a result flag, "poll" asks for it, "read" fetches the       *)
(* result, and every member of Settings programs the setting it names.       *)
(* "lock" and "unlock" take and release the bus, "wait" is a datasheet delay *)
(* that stands between a conversion and its result.  Other delays and reads  *)
(* that are only printed are left out, and reads that fail alike and change  *)
(* nothing are one "check".                                                  *)
EXTENDS Sequences

\* One bus lock scope around the steps of a driver.
Held(steps) == <<"lock">> \o steps \o <<"unlock">>

--------------------------------------------------------------------------
(* SHT41: commands with checksummed answers; no settings of its own. *)
Sht41SoftReset == <<"reset">>
Sht41SerialNumber == <<"check">>
Sht41Measure == <<"start", "wait", "read">>
Sht41Initialize == Held(Sht41SoftReset \o Sht41SerialNumber)
Sht41ReadOnce == Held(Sht41Measure)

(* SCD41: single shots; the bus is free for the five seconds of one. *)
Scd41StopPeriodicMeasurement == <<"stop">>
Scd41SerialNumber == <<"check">>
Scd41Settings == <<"check">>
Scd41StartSingleShot == <<"start">>
Scd41ReadMeasurement == <<"read">>
Scd41RunInitChecks == Scd41StopPeriodicMeasurement \o Scd41SerialNumber \o Scd41Settings
Scd41Initialize == Held(Scd41RunInitChecks)
Scd41ReadOnce == Held(Scd41StartSingleShot) \o <<"wait">> \o Held(Scd41ReadMeasurement)

(* SPS30: measures by itself once started; polled and read under locks of   *)
(* their own.                                                               *)
Sps30SerialNumber == <<"check">>
Sps30StopMeasurement == <<"stop">>
Sps30StartMeasurement == <<"start">>
Sps30IsDataReady == <<"poll">>
Sps30ReadMeasuredValues == <<"read">>
Sps30Initialize == Held(Sps30SerialNumber \o Sps30StopMeasurement \o Sps30StartMeasurement)
Sps30ReadOnce == Held(Sps30IsDataReady) \o Held(Sps30ReadMeasuredValues)

(* AS7343: identity in bank 1, everything else in bank 0; the analog block  *)
(* has to be powered before a measurement is enabled.                       *)

As7343Identification == <<"bank1", "auxid", "bank0">>
As7343Reset == <<"reset">>
As7343PowerOn == <<"power">>
As7343SetGain == <<"gain">>
As7343SetIntegrationTime == <<"time">>
As7343EnableAutoSmux == <<"smux">>
As7343Init == As7343Identification \o As7343Reset \o As7343PowerOn \o As7343SetGain
              \o As7343SetIntegrationTime \o As7343EnableAutoSmux

\* Mutant of As7343StartMeasurement: it powers the analog block up itself.
As7343StartMeasurementPowers == <<"power", "stop", "clear", "start">>

As7343StartMeasurement == <<"stop", "clear", "start">>
As7343WaitForMeasurement == <<"poll">>
As7343ReadMeasurement == As7343WaitForMeasurement \o <<"read", "stop">>
As7343Initialize == Held(As7343Identification \o As7343Init)
As7343ReadOnce == Held(As7343StartMeasurement) \o <<"wait">> \o Held(As7343ReadMeasurement)

(* OPT4048: range, conversion time and mode share one control word, so a    *)
(* start programs them again; its flags are cleared by being read.          *)
Opt4048DeviceId == <<"check">>
Opt4048Configure == <<"control">>
Opt4048Flags == <<"clear">>

\* Mutant of Opt4048Init: the flags are not cleared.
Opt4048InitKeepsFlags == Opt4048DeviceId \o Opt4048Configure

Opt4048Init == Opt4048DeviceId \o Opt4048Configure \o Opt4048Flags
Opt4048StartMeasurement == <<"start">>
Opt4048WaitForMeasurement == <<"poll">>
Opt4048ReadMeasurement == Opt4048WaitForMeasurement \o <<"read">>
Opt4048Initialize == Held(Opt4048DeviceId \o Opt4048Init)
Opt4048ReadOnce == Held(Opt4048StartMeasurement) \o <<"wait">> \o Held(Opt4048ReadMeasurement)

(* BMP581: the finished-measurement flag only exists once its interrupt     *)
(* source is enabled; the bus is held for the whole short conversion.       *)
Bmp581Identification == <<"check">>
Bmp581Reset == <<"reset", "check">>
Bmp581CheckNvmReady == <<"check">>
Bmp581Standby == <<"stop">>
Bmp581Configure == Bmp581Standby \o <<"osr", "iir", "dsp", "drdy">>
Bmp581Init == Bmp581Identification \o Bmp581Reset \o Bmp581CheckNvmReady \o Bmp581Configure
Bmp581Measure == <<"clear", "start", "poll", "read">>
Bmp581Initialize == Held(Bmp581Identification \o Bmp581Init)
Bmp581ReadOnce == Held(Bmp581Measure)

(* BMM350: the conversion time is waited out inside the mode change and the *)
(* result read without asking for a flag.                                   *)
Bmm350SoftReset == <<"reset">>
Bmm350ReadOtp == <<"check">>
Bmm350PowerOffOtp == <<"command">>
Bmm350MagneticReset == <<"command">>
Bmm350SetAxes == <<"axes">>
Bmm350SetDataRate == <<"rate">>
Bmm350SetDataReadyStatus == <<"command">>
Bmm350Configure == Bmm350SetAxes \o Bmm350SetDataRate \o Bmm350SetDataReadyStatus
Bmm350Init == Bmm350SoftReset \o <<"check">> \o Bmm350ReadOtp \o Bmm350PowerOffOtp
              \o Bmm350MagneticReset \o Bmm350Configure
Bmm350SetPowerMode == <<"command", "start", "wait">>
Bmm350MeasureForced == Bmm350SetPowerMode \o <<"read">>
Bmm350Initialize == Held(Bmm350Init)
Bmm350ReadOnce == Held(Bmm350MeasureForced)

--------------------------------------------------------------------------
(* The tasks: what they run on the bus, how many readings they discard      *)
(* after every initialisation, and the settings it is meant to leave in     *)
(* force.                                                                   *)
Sht41Task == [init |-> Sht41Initialize, read |-> Sht41ReadOnce, warmup |-> 2, settings |-> {}]
Scd41Task == [init |-> Scd41Initialize, read |-> Scd41ReadOnce, warmup |-> 1, settings |-> {}]
Sps30Task == [init |-> Sps30Initialize, read |-> Sps30ReadOnce, warmup |-> 6,
              settings |-> {"measuring"}]
As7343Task == [init |-> As7343Initialize, read |-> As7343ReadOnce, warmup |-> 1,
               settings |-> {"power", "gain", "time", "smux"}]
Opt4048Task == [init |-> Opt4048Initialize, read |-> Opt4048ReadOnce, warmup |-> 1,
                settings |-> {"control"}]
Bmp581Task == [init |-> Bmp581Initialize, read |-> Bmp581ReadOnce, warmup |-> 2,
               settings |-> {"osr", "iir", "dsp", "drdy"}]
Bmm350Task == [init |-> Bmm350Initialize, read |-> Bmm350ReadOnce, warmup |-> 1,
               settings |-> {"axes", "rate"}]

Kinds == {"sht41", "scd41", "sps30", "as7343", "opt4048", "bmp581", "bmm350"}

Sensor(k) ==
    CASE k = "sht41" -> Sht41Task
      [] k = "scd41" -> Scd41Task
      [] k = "sps30" -> Sps30Task
      [] k = "as7343" -> As7343Task
      [] k = "opt4048" -> Opt4048Task
      [] k = "bmp581" -> Bmp581Task
      [] k = "bmm350" -> Bmm350Task

\* Everything that can be programmed into a chip by a step of its own.
Settings == {"power", "gain", "time", "smux", "control", "osr", "iir", "dsp", "drdy",
             "axes", "rate"}
============================================================================
