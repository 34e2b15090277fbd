-------------------------------- MODULE Poller --------------------------------
(***************************************************************************)
(* The poller of the collection server: the loop of server/poller.js over  *)
(* the requests of server/device.js, from start to stop.                   *)
(*                                                                         *)
(* A pass asks for the status, the thermal image and then each sensor in   *)
(* turn.  What a sensor's requests ask for is Collection; here they are a  *)
(* number of requests, any of which can fail.  A request is an attempt     *)
(* that may be repeated after a pause if the connection broke, and is      *)
(* given up at once if it timed out, was aborted or got an answer that is  *)
(* not a page.  Some resources may fail every time.                        *)
(***************************************************************************)
EXTENDS Integers, FiniteSets, Sequences, SequencesExt

CONSTANTS Status, Thermal,  \* /api/status and /api/thermal
          Sensors,          \* SENSORS, a sequence
          Retries,          \* RETRY_DELAYS_MS.length
          MaxRequests,      \* bound on the requests of one sensor in a pass
          MaxBroken,        \* bound on resources never to be fetched
          MaxFailures,      \* bound on failures of what can be fetched
          MaxBoots,         \* bound on reboots of the device
          MaxUptime,        \* bound on the device's uptime
          Null              \* null: no cursor, no image, no uptime seen

\* What a pass asks for, in its order.
Resources == <<Status, Thermal>> \o Sensors

ASSUME PollerAssumption ==
  /\ Sensors \in Seq(ToSet(Sensors)) /\ Sensors # << >> /\ IsInjective(Resources)
  /\ Retries \in Nat /\ MaxRequests \in Nat \ {0}
  /\ MaxBroken \in Nat /\ MaxFailures \in Nat
  /\ MaxBoots \in Nat /\ MaxUptime \in Nat \ {0}
  /\ Null \notin Nat

VARIABLES boot, uptime, pictured,   \* of the device; it has an image
          broken,       \* resources that fail every time
          unbuffered,   \* sensors whose history has no capacity
          started,      \* started of poller.js
          pc,           \* "off", "pass", "waiting" between passes, "ended"
          at,           \* which resource the pass is at
          call,         \* the request: "none", "queued", "open", "lost" with
                        \* its connection, "paused" before a retry, "aborted"
          attempt,      \* attemptIndex
          left,         \* requests the sensor's turn still takes
          deviceOnline, failed,     \* lastError of each resource
          deviceUptime, rebootsSeen, cursors, thermal,
          failures,     \* counter for its bound
          passBoot,     \* boot the last status came from; no guard reads it
          unnoticed     \* a reboot the uptimes did not tell; no guard reads it

device == <<boot, uptime, pictured, broken, unbuffered>>
pass == <<pc, at, call, attempt, left>>
remembered == <<deviceOnline, failed, deviceUptime, rebootsSeen, cursors, thermal>>
ghosts == <<passBoot, unnoticed>>
pollerVars == <<boot, uptime, pictured, broken, unbuffered, started, pc, at, call,
          attempt, left, deviceOnline, failed, deviceUptime, rebootsSeen,
          cursors, thermal, failures, passBoot, unnoticed>>

Resource == Resources[at]
All == ToSet(Resources)

-----------------------------------------------------------------------------
(***************************************************************************)
(* The device.                                                             *)
(***************************************************************************)
Tick ==
  /\ uptime < MaxUptime
  /\ uptime' = uptime + 1
  /\ UNCHANGED <<boot, pictured, broken, unbuffered, started, pass, remembered,
                 failures, ghosts>>

Picture ==
  /\ ~pictured
  /\ uptime > 0
  /\ pictured' = TRUE
  /\ UNCHANGED <<boot, uptime, broken, unbuffered, started, pass, remembered,
                 failures, ghosts>>

Reboot ==
  /\ boot < MaxBoots
  /\ boot' = boot + 1
  /\ uptime' = 0
  /\ pictured' = FALSE
  /\ call' = IF call = "open" THEN "lost" ELSE call
  /\ UNCHANGED <<broken, unbuffered, started, pc, at, attempt, left, remembered,
                 failures, ghosts>>

-----------------------------------------------------------------------------
(***************************************************************************)
(* Where the pass goes next.                                               *)
(***************************************************************************)
Queue == call' = "queued" /\ attempt' = 0

\* The pass is over: the loop waits, or returns if it was stopped meanwhile.
EndPass ==
  /\ pc' = IF started THEN "waiting" ELSE "ended"
  /\ at' = 1
  /\ call' = "none"
  /\ attempt' = 0
  /\ left' = 0

(***************************************************************************)
(* The thermal image is always asked for, a sensor when its turn begins.   *)
(***************************************************************************)
GoOn ==
  IF at = Len(Resources) THEN EndPass
  ELSE /\ at' = at + 1
       /\ attempt' = 0
       /\ call' = IF Resources[at + 1] = Thermal THEN "queued" ELSE "none"
       /\ left' = 0
       /\ UNCHANGED pc

BeginPass == pc' = "pass" /\ at' = 1 /\ left' = 0 /\ Queue

start ==
  /\ pc = "off"
  /\ ~started
  /\ started' = TRUE
  /\ BeginPass
  /\ UNCHANGED <<device, remembered, failures, ghosts>>

\* The timer between two passes comes due.
Wake ==
  /\ pc = "waiting"
  /\ started
  /\ BeginPass
  /\ UNCHANGED <<device, started, remembered, failures, ghosts>>

\* Mutant of Resolved: the timer is cleared and the wait left unresolved.
ResolvedByTimer == pc

(***************************************************************************)
(* stop: the wait between passes ends and with it the loop; the request in *)
(* flight is aborted, and only the request: the pass goes on from there.   *)
(***************************************************************************)
Resolved == IF pc = "waiting" THEN "ended" ELSE pc

stop ==
  /\ started
  /\ started' = FALSE
  /\ pc' = Resolved
  /\ call' = IF call \in {"open", "lost"} THEN "aborted" ELSE call
  /\ UNCHANGED <<device, at, attempt, left, remembered, failures, ghosts>>

-----------------------------------------------------------------------------
(***************************************************************************)
(* syncSensor returns: its cursor is that of the status it was run with.   *)
(***************************************************************************)
Synced ==
  /\ cursors' = [cursors EXCEPT ![Resource] = passBoot]
  /\ failed' = [failed EXCEPT ![Resource] = FALSE]
  /\ UNCHANGED <<deviceOnline, deviceUptime, rebootsSeen, thermal>>

\* A history without capacity is passed over.
SkipSensor ==
  /\ pc = "pass" /\ call = "none"
  /\ Resource \in unbuffered
  /\ GoOn
  /\ UNCHANGED <<device, started, remembered, failures, ghosts>>

(***************************************************************************)
(* A sensor's turn: with nothing new it takes no request at all.           *)
(***************************************************************************)
BeginSensor ==
  /\ pc = "pass" /\ call = "none"
  /\ Resource \notin unbuffered
  /\ \/ Synced /\ GoOn
     \/ /\ left' \in 1 .. MaxRequests
        /\ Queue
        /\ UNCHANGED <<pc, at, remembered>>
  /\ UNCHANGED <<device, started, failures, ghosts>>

\* A request is sent, after the gap or after the pause before a retry.
Open ==
  /\ call \in {"queued", "paused"}
  /\ call' = "open"
  /\ UNCHANGED <<device, started, pc, at, attempt, left, remembered, failures, ghosts>>

-----------------------------------------------------------------------------
(***************************************************************************)
(* Answers.  A status with an uptime below the last one clears the cursors.*)
(***************************************************************************)
Rebooted == deviceUptime # Null /\ uptime < deviceUptime

\* Mutant of Restarted: sensors that failed keep their cursor.
RestartedUnlessFailed ==
  [s \in DOMAIN cursors |-> IF Rebooted /\ ~failed[s] THEN Null ELSE cursors[s]]

Restarted == [s \in DOMAIN cursors |-> IF Rebooted THEN Null ELSE cursors[s]]

Answerable == call = "open" /\ Resource \notin broken

StatusAnswer ==
  /\ Answerable
  /\ Resource = Status
  /\ deviceOnline' = TRUE
  /\ failed' = [failed EXCEPT ![Status] = FALSE]
  /\ cursors' = Restarted
  /\ rebootsSeen' = rebootsSeen + (IF Rebooted THEN 1 ELSE 0)
  /\ deviceUptime' = uptime
  /\ GoOn
  /\ passBoot' = boot
  /\ unnoticed' = (unnoticed \/ (deviceUptime # Null /\ passBoot # boot /\ ~Rebooted))
  /\ UNCHANGED <<device, started, thermal, failures>>

\* Mutant of Held: an image replaces only one that was fetched at a lower uptime.
HeldIfNewer ==
  IF thermal # Null /\ uptime <= thermal.uptime
  THEN IF pictured THEN thermal ELSE Null
  ELSE IF pictured THEN [boot |-> boot, uptime |-> uptime] ELSE thermal

(***************************************************************************)
(* The newest image replaces the one held; if there is none, one that was  *)
(* fetched at a higher uptime is of an earlier boot.                       *)
(***************************************************************************)
Held ==
  IF pictured THEN [boot |-> boot, uptime |-> uptime]
  ELSE IF thermal # Null /\ uptime < thermal.uptime THEN Null
  ELSE thermal

ThermalAnswer ==
  /\ Answerable
  /\ Resource = Thermal
  /\ thermal' = Held
  /\ failed' = [failed EXCEPT ![Thermal] = FALSE]
  /\ GoOn
  /\ UNCHANGED <<device, started, deviceOnline, deviceUptime, rebootsSeen,
                 cursors, failures, ghosts>>

SensorAnswer ==
  /\ Answerable
  /\ Resource \in ToSet(Sensors)
  /\ IF left > 1 THEN left' = left - 1 /\ Queue /\ UNCHANGED <<pc, at, remembered>>
     ELSE Synced /\ GoOn
  /\ UNCHANGED <<device, started, failures, ghosts>>

-----------------------------------------------------------------------------
\* Mutant of EndsPass: a sensor's failure is not caught.
EndsPassUncaught == Resource # Thermal

(***************************************************************************)
(* The request is given up.  Without a status there is no pass, and the    *)
(* device counts as gone; an image or a sensor costs itself alone.         *)
(***************************************************************************)
EndsPass == Resource = Status

Catch ==
  /\ IF EndsPass
     THEN /\ failed' = [failed EXCEPT ![Status] = TRUE]
          /\ deviceOnline' = FALSE
          /\ EndPass
     ELSE /\ failed' = [failed EXCEPT ![Resource] = TRUE]
          /\ UNCHANGED deviceOnline
          /\ GoOn
  /\ UNCHANGED <<deviceUptime, rebootsSeen, cursors, thermal>>

Again == attempt < Retries

Pause == call' = "paused" /\ attempt' = attempt + 1 /\ UNCHANGED <<pc, at, left, remembered>>

Failing ==
  \/ /\ call = "lost" \/ (call = "open" /\ Resource \in broken)
     /\ UNCHANGED failures
  \/ /\ call = "open" /\ Resource \notin broken
     /\ failures < MaxFailures
     /\ failures' = failures + 1

\* The connection is refused or breaks: isTransient.
ConnectionFails ==
  /\ Failing
  /\ IF Again THEN Pause ELSE Catch
  /\ UNCHANGED <<device, started, ghosts>>

\* The request times out, or its answer is not a page.
RequestFails ==
  /\ Failing
  /\ Catch
  /\ UNCHANGED <<device, started, ghosts>>

Aborted ==
  /\ call = "aborted"
  /\ Catch
  /\ UNCHANGED <<device, started, failures, ghosts>>

-----------------------------------------------------------------------------
PollerInit ==
  /\ boot = 0 /\ uptime = 0 /\ pictured = FALSE
  /\ broken \in SUBSET (All \ {Status})
  /\ unbuffered \in SUBSET (ToSet(Sensors) \ broken)
  /\ Cardinality(broken \cup unbuffered) <= MaxBroken
  /\ started = FALSE
  /\ pc = "off" /\ at = 1 /\ call = "none" /\ attempt = 0 /\ left = 0
  /\ deviceOnline = FALSE
  /\ failed = [r \in All |-> FALSE]
  /\ deviceUptime = Null /\ rebootsSeen = 0
  /\ cursors = [s \in ToSet(Sensors) |-> Null]
  /\ thermal = Null
  /\ failures = 0
  /\ passBoot = 0 /\ unnoticed = FALSE

Step ==
  \/ start
  \/ Wake
  \/ SkipSensor
  \/ BeginSensor
  \/ Open
  \/ StatusAnswer
  \/ ThermalAnswer
  \/ SensorAnswer
  \/ ConnectionFails
  \/ RequestFails
  \/ Aborted

PollerNext == Step \/ stop \/ Tick \/ Picture \/ Reboot

(***************************************************************************)
(* The event loop runs on, and a request ends: with an answer, with an     *)
(* error, or with its timeout.                                             *)
(***************************************************************************)
PollerSpec == PollerInit /\ [][PollerNext]_pollerVars /\ WF_pollerVars(Step)

-----------------------------------------------------------------------------
PollerTypeOK ==
  /\ boot \in 0 .. MaxBoots /\ uptime \in 0 .. MaxUptime /\ pictured \in BOOLEAN
  /\ broken \subseteq All \ {Status} /\ unbuffered \subseteq ToSet(Sensors)
  /\ started \in BOOLEAN
  /\ pc \in {"off", "pass", "waiting", "ended"}
  /\ at \in DOMAIN Resources
  /\ call \in {"none", "queued", "open", "lost", "paused", "aborted"}
  /\ attempt \in 0 .. Retries /\ left \in 0 .. MaxRequests
  /\ deviceOnline \in BOOLEAN /\ failed \in [All -> BOOLEAN]
  /\ deviceUptime \in 0 .. MaxUptime \cup {Null} /\ rebootsSeen \in Nat
  /\ cursors \in [ToSet(Sensors) -> 0 .. MaxBoots \cup {Null}]
  /\ thermal \in [boot : 0 .. MaxBoots, uptime : 0 .. MaxUptime] \cup {Null}
  /\ failures \in 0 .. MaxFailures
  /\ passBoot \in 0 .. MaxBoots /\ unnoticed \in BOOLEAN

(***************************************************************************)
(* Every cursor is of the boot of the last status, for the sensors a pass  *)
(* could not reach as for the others, unless the uptimes hid a reboot.     *)
(***************************************************************************)
CursorsOfOneBoot ==
  ~unnoticed => \A s \in DOMAIN cursors : cursors[s] \in {Null, passBoot}

(***************************************************************************)
(* A reboot is counted once, however many passes follow it.                *)
(***************************************************************************)
RebootsCountedOnce == rebootsSeen <= boot

(***************************************************************************)
(* The device goes unreachable only by a status that could not be fetched, *)
(* never by a sensor or the camera.                                        *)
(***************************************************************************)
SensorsDoNotCostTheDevice ==
  [][deviceOnline /\ ~deviceOnline' => Resource = Status]_pollerVars

(***************************************************************************)
(* Every sensor, and the camera, that can be fetched is fetched again and  *)
(* again until the poller is stopped, whatever others always fail.         *)
(***************************************************************************)
Fetched(r) == pc = "pass" /\ Resource = r /\ at' # at /\ ~failed[r]'

EverySensorIsFetched ==
  \A r \in All : r \in broken \cup unbuffered \/ <>(pc = "ended") \/ []<><<Fetched(r)>>_pollerVars

(***************************************************************************)
(* Once failures have ceased, the device is shown reachable and no error   *)
(* is left of anything that can be fetched.                                *)
(***************************************************************************)
ErrorsPass ==
  \/ <>(pc = "ended")
  \/ <>[](deviceOnline /\ \A r \in All \ (broken \cup unbuffered) : ~failed[r])

(***************************************************************************)
(* The image held catches up with the device through reboots, failures and *)
(* retries: once they have ceased it is one of this boot if there is any,  *)
(* and otherwise none whose uptime the device has yet to reach.            *)
(***************************************************************************)
HeldImageCatchesUp ==
  \/ Thermal \in broken
  \/ <>(pc = "ended")
  \/ <>[](IF pictured THEN thermal # Null /\ thermal.boot = boot
         ELSE thermal = Null \/ thermal.uptime <= uptime)

(***************************************************************************)
(* After stop the loop returns.                                            *)
(***************************************************************************)
StopEndsLoop == [](pc # "off" /\ ~started => <>(pc = "ended"))

(***************************************************************************)
(* A reboot the uptime tells is followed up once and for every sensor,     *)
(* those the pass could not reach included.                                *)
(***************************************************************************)
BootsAreFollowed == PollerTypeOK /\ CursorsOfOneBoot /\ RebootsCountedOnce

(***************************************************************************)
(* A failure stays with what failed and passes: it neither ends the pass   *)
(* for the others nor outlives its cause.                                  *)
(***************************************************************************)
FailuresPass == SensorsDoNotCostTheDevice /\ EverySensorIsFetched /\ ErrorsPass
=============================================================================
