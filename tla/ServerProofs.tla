----------------------------- MODULE ServerProofs -----------------------------
(***************************************************************************)
(* Theorems about the collection server.                                   *)
(*                                                                         *)
(* The poller, for any sensors, retries, requests, failures and reboots: a *)
(* reboot the uptime tells is counted once and resets every cursor, and    *)
(* only a status that cannot be fetched makes the device count as gone.    *)
(*                                                                         *)
(* The store, for any readings, days, batches, restarts and cut writes:    *)
(* readings are stored once and in order, the summaries in memory agree    *)
(* with the files, a range query is complete, and what can be read stays   *)
(* readable.                                                               *)
(*                                                                         *)
(* The charts, for any range and number of points: every reading counts    *)
(* once, and the points are in order, in the range and in no gap of it.    *)
(***************************************************************************)
EXTENDS Poller, HistoryQuery, SelectionTheorems

-----------------------------------------------------------------------------
\* A request is only under way within a pass; within one, the status comes before what has
\* no request queued, and everything after it was preceded by an answer to it.
PassInOrder ==
  /\ call # "none" => pc = "pass"
  /\ pc = "pass" /\ call = "none" => at # 1
  /\ pc = "pass" /\ at # 1 => deviceUptime # Null

\* Without a status there is no cursor.
CursorsFollowStatus == deviceUptime = Null => \A s \in DOMAIN cursors : cursors[s] = Null

\* The last status was of no later a boot, and of no later a moment if it was of this one.
StatusIsPast ==
  /\ passBoot <= boot
  /\ deviceUptime # Null /\ passBoot = boot => deviceUptime <= uptime

\* No reboot after the one of the last status was counted.
CountedUpToStatus == rebootsSeen <= passBoot

\* The inductive invariant of the poller.
PollerInv ==
  /\ PollerTypeOK /\ PassInOrder /\ CursorsFollowStatus /\ StatusIsPast /\ CountedUpToStatus
  /\ CursorsOfOneBoot

-----------------------------------------------------------------------------
\* The sets PollerTypeOK draws the structured variables from, by name.
Errors == [All -> BOOLEAN]
Cursors == [ToSet(Sensors) -> 0 .. MaxBoots \cup {Null}]
Images == [boot : 0 .. MaxBoots, uptime : 0 .. MaxUptime] \cup {Null}

\* PollerTypeOK by whose state it is: the device, the pass, what the poller remembers, the ghosts.
DeviceTyped ==
  /\ boot \in 0 .. MaxBoots /\ uptime \in 0 .. MaxUptime /\ pictured \in BOOLEAN
  /\ broken \subseteq All \ {Status} /\ unbuffered \subseteq ToSet(Sensors)
PassTyped ==
  /\ pc \in {"off", "pass", "waiting", "ended"}
  /\ at \in DOMAIN Resources
  /\ call \in {"none", "queued", "open", "lost", "paused", "aborted"}
  /\ attempt \in 0 .. Retries /\ left \in 0 .. MaxRequests
MemoryTyped ==
  /\ deviceOnline \in BOOLEAN /\ failed \in Errors
  /\ deviceUptime \in 0 .. MaxUptime \cup {Null} /\ rebootsSeen \in Nat
  /\ cursors \in Cursors
  /\ thermal \in Images
GhostsTyped == passBoot \in 0 .. MaxBoots /\ unnoticed \in BOOLEAN

\* The parts make up the type invariant.
LEMMA TypeParts ==
  PollerTypeOK <=> /\ DeviceTyped /\ PassTyped /\ MemoryTyped /\ GhostsTyped
             /\ started \in BOOLEAN /\ failures \in 0 .. MaxFailures
  BY Zenon DEF PollerTypeOK, DeviceTyped, PassTyped, MemoryTyped, GhostsTyped, Errors,
               Cursors, Images

\* The constants are numbers, and nothing known is none of them.
LEMMA PollerConstants ==
  /\ Retries \in Nat /\ MaxRequests \in Nat /\ MaxRequests > 0
  /\ MaxBroken \in Nat /\ MaxFailures \in Nat
  /\ MaxBoots \in Nat /\ MaxUptime \in Nat /\ MaxUptime > 0
  /\ Null \notin Nat
  BY PollerAssumption

(***************************************************************************)
(* A pass asks for the status and the image first, and no sensor's request *)
(* is one of those.                                                        *)
(***************************************************************************)
LEMMA OrderOfResources ==
  /\ Len(Resources) \in Nat /\ Len(Resources) > 2 /\ DOMAIN Resources = 1 .. Len(Resources)
  /\ Resources[1] = Status /\ Resources[2] = Thermal
  /\ \A i \in DOMAIN Resources : Resources[i] = Status => i = 1
  /\ Status \notin ToSet(Sensors)
<1> DEFINE S == ToSet(Sensors) \cup {Status, Thermal}
<1>1. Sensors \in Seq(ToSet(Sensors)) /\ Sensors # << >> /\ IsInjective(Resources)
  BY PollerAssumption
<1>2. Sensors \in Seq(S) /\ <<Status, Thermal>> \in Seq(S)
  BY <1>1
<1>3. /\ Resources \in Seq(S) /\ Len(Resources) = 2 + Len(Sensors)
      /\ \A i \in 1 .. Len(Resources) :
           Resources[i] = IF i <= 2 THEN <<Status, Thermal>>[i] ELSE Sensors[i - 2]
  BY <1>2 DEF Resources
<1>4. Len(Sensors) \in Nat /\ Len(Sensors) > 0 /\ DOMAIN Sensors = 1 .. Len(Sensors)
  BY <1>1
<1>5. DOMAIN Resources = 1 .. Len(Resources)
  BY <1>3
<1>6. Resources[1] = Status /\ Resources[2] = Thermal
  BY <1>3, <1>4
<1>7. \A i \in DOMAIN Resources : Resources[i] = Status => i = 1
  BY <1>1, <1>3, <1>4, <1>5, <1>6 DEF IsInjective
<1>8. ASSUME Status \in ToSet(Sensors)
      PROVE  FALSE
  <2>1. PICK i \in 1 .. Len(Sensors) : Sensors[i] = Status
    BY <1>4, <1>8 DEF ToSet
  <2>2. Resources[i + 2] = Status /\ i + 2 \in DOMAIN Resources
    BY <1>3, <1>4, <1>5, <2>1
  <2> QED
    BY <1>7, <2>1, <2>2
<1> QED
  BY <1>3, <1>4, <1>5, <1>6, <1>7, <1>8

(***************************************************************************)
(* How a pass goes on: to the next resource, or to its end.                *)
(***************************************************************************)
LEMMA GoesOn ==
  ASSUME PassTyped, started \in BOOLEAN, GoOn
  PROVE  /\ PassTyped'
         /\ \/ pc' = pc /\ at' # 1
            \/ pc' # "pass" /\ call' = "none"
<1> USE PollerConstants, OrderOfResources DEF PassTyped
<1>1. CASE at = Len(Resources)
  BY <1>1 DEF GoOn, EndPass
<1>2. CASE at # Len(Resources)
  BY <1>2 DEF GoOn
<1> QED
  BY <1>1, <1>2

\* Ending a pass leaves no call behind.
LEMMA Ends ==
  ASSUME PassTyped, started \in BOOLEAN, EndPass
  PROVE  PassTyped' /\ pc' # "pass" /\ call' = "none"
  BY PollerConstants, OrderOfResources DEF PassTyped, EndPass

(***************************************************************************)
(* A request is given up: the pass ends or goes on, the error is kept.     *)
(***************************************************************************)
LEMMA Catches ==
  ASSUME PollerTypeOK, Catch
  PROVE  /\ PassTyped' /\ MemoryTyped'
         /\ \/ Resource # Status /\ pc' = pc /\ at' # 1
            \/ pc' # "pass" /\ call' = "none"
         /\ UNCHANGED <<deviceUptime, rebootsSeen, cursors, thermal>>
<1>0. PassTyped /\ MemoryTyped /\ started \in BOOLEAN
  BY TypeParts
<1>1. CASE EndsPass
  <2>1. failed' \in Errors
    BY <1>0, <1>1 DEF Catch, MemoryTyped, Errors
  <2> QED
    BY <1>0, <1>1, <2>1, Ends DEF Catch, MemoryTyped
<1>2. CASE ~EndsPass
  <2>1. failed' \in Errors
    BY <1>0, <1>2 DEF Catch, MemoryTyped, Errors
  <2> QED
    BY <1>0, <1>2, <2>1, GoesOn DEF Catch, MemoryTyped, EndsPass
<1> QED
  BY <1>1, <1>2

\* A page that was stored moves cursors to the boot of the pass, and no others.
LEMMA Syncs ==
  ASSUME MemoryTyped, GhostsTyped, Synced
  PROVE  /\ MemoryTyped'
         /\ \A s \in DOMAIN cursors : cursors'[s] \in {cursors[s], passBoot}
         /\ DOMAIN cursors' = DOMAIN cursors
         /\ UNCHANGED <<deviceUptime, rebootsSeen>>
<1>1. failed' \in Errors
  BY DEF Synced, MemoryTyped, Errors
<1>2. /\ cursors \in Cursors /\ passBoot \in 0 .. MaxBoots
      /\ cursors' = [cursors EXCEPT ![Resource] = passBoot]
  BY DEF Synced, MemoryTyped, GhostsTyped
<1>3. /\ cursors' \in Cursors /\ DOMAIN cursors' = DOMAIN cursors
      /\ \A s \in DOMAIN cursors : cursors'[s] \in {cursors[s], passBoot}
  BY <1>2 DEF Cursors
<1> QED
  BY <1>1, <1>3 DEF Synced, MemoryTyped

(***************************************************************************)
(* A status with a lower uptime leaves no cursor, any other keeps them.    *)
(***************************************************************************)
LEMMA Restarts ==
  ASSUME cursors \in Cursors
  PROVE  /\ Restarted \in Cursors
         /\ Rebooted => \A s \in DOMAIN cursors : Restarted[s] = Null
         /\ ~Rebooted => Restarted = cursors
<1>1. DOMAIN cursors = ToSet(Sensors)
  BY DEF Cursors
<1>2. CASE Rebooted
  BY <1>1, <1>2 DEF Restarted, Cursors
<1>3. CASE ~Rebooted
  <2>1. Restarted = [s \in DOMAIN cursors |-> cursors[s]]
    BY <1>3 DEF Restarted
  <2> QED
    BY <1>3, <2>1 DEF Cursors
<1> QED
  BY <1>2, <1>3

(***************************************************************************)
(* No step of the device, the poller or a request takes a variable out of  *)
(* its type: in particular the pass stays within its resources and a       *)
(* request within its retries.                                             *)
(***************************************************************************)
LEMMA TypeStep == PollerTypeOK /\ [PollerNext]_pollerVars => PollerTypeOK'
<1> SUFFICES ASSUME DeviceTyped, PassTyped, MemoryTyped, GhostsTyped, started \in BOOLEAN,
                    failures \in 0 .. MaxFailures, PollerTypeOK, [PollerNext]_pollerVars
             PROVE  /\ DeviceTyped' /\ PassTyped' /\ MemoryTyped' /\ GhostsTyped'
                    /\ started' \in BOOLEAN /\ failures' \in 0 .. MaxFailures
  <2>1. TypeParts'
    BY TypeParts, PTL
  <2> QED
    BY TypeParts, <2>1
<1> USE PollerConstants, OrderOfResources DEF device, pass, remembered, ghosts
<1>a. UNCHANGED device => DeviceTyped'
  BY DEF DeviceTyped
<1>b. UNCHANGED pass => PassTyped'
  BY DEF PassTyped
<1>c. UNCHANGED remembered => MemoryTyped'
  BY DEF MemoryTyped
<1>d. UNCHANGED ghosts => GhostsTyped'
  BY DEF GhostsTyped
<1>e. PassTyped /\ BeginPass => PassTyped'
  BY DEF PassTyped, BeginPass, Queue
<1>1. CASE start
  BY <1>1, <1>a, <1>c, <1>d, <1>e DEF start
<1>2. CASE Wake
  BY <1>2, <1>a, <1>c, <1>d, <1>e DEF Wake
<1>3. CASE SkipSensor
  BY <1>3, <1>a, <1>c, <1>d, GoesOn DEF SkipSensor
<1>4. CASE BeginSensor
  <2>1. CASE Synced /\ GoOn
    BY <1>4, <1>a, <1>d, <2>1, Syncs, GoesOn DEF BeginSensor
  <2>2. CASE ~(Synced /\ GoOn)
    <3>1. PassTyped'
      BY <1>4, <2>2 DEF BeginSensor, Queue, PassTyped
    <3> QED
      BY <1>4, <2>2, <1>a, <1>c, <1>d, <3>1 DEF BeginSensor
  <2> QED
    BY <2>1, <2>2
<1>5. CASE Open
  <2>1. PassTyped'
    BY <1>5 DEF Open, PassTyped
  <2> QED
    BY <1>5, <1>a, <1>c, <1>d, <2>1 DEF Open
<1>6. CASE StatusAnswer
  <2>1. failed' \in Errors
    BY <1>6 DEF StatusAnswer, MemoryTyped, Errors
  <2>2. cursors' \in Cursors
    BY <1>6, Restarts DEF StatusAnswer, MemoryTyped
  <2>3. rebootsSeen' \in Nat
    BY <1>6 DEF StatusAnswer, MemoryTyped
  <2>4. MemoryTyped'
    BY <1>6, <2>1, <2>2, <2>3 DEF StatusAnswer, MemoryTyped, DeviceTyped
  <2>5. GhostsTyped'
    BY <1>6 DEF StatusAnswer, GhostsTyped, DeviceTyped
  <2> QED
    BY <1>6, <1>a, <2>4, <2>5, GoesOn DEF StatusAnswer
<1>7. CASE ThermalAnswer
  <2>1. failed' \in Errors
    BY <1>7 DEF ThermalAnswer, MemoryTyped, Errors
  <2>2. thermal' \in Images
    BY <1>7 DEF ThermalAnswer, Held, MemoryTyped, DeviceTyped, Images
  <2>3. MemoryTyped'
    BY <1>7, <2>1, <2>2 DEF ThermalAnswer, MemoryTyped
  <2> QED
    BY <1>7, <1>a, <1>d, <2>3, GoesOn DEF ThermalAnswer
<1>8. CASE SensorAnswer
  <2>1. CASE left > 1
    <3>1. PassTyped'
      BY <1>8, <2>1 DEF SensorAnswer, Queue, PassTyped
    <3> QED
      BY <1>8, <1>a, <1>c, <1>d, <2>1, <3>1 DEF SensorAnswer
  <2>2. CASE ~(left > 1)
    BY <1>8, <1>a, <1>d, <2>2, Syncs, GoesOn DEF SensorAnswer
  <2> QED
    BY <2>1, <2>2
<1>9. ASSUME Failing PROVE failures' \in 0 .. MaxFailures
  BY <1>9 DEF Failing
<1>10. CASE ConnectionFails
  <2>1. CASE Again
    <3>1. PassTyped'
      BY <1>10, <2>1 DEF ConnectionFails, Again, Pause, PassTyped
    <3> QED
      BY <1>9, <1>10, <1>a, <1>c, <1>d, <2>1, <3>1 DEF ConnectionFails, Pause
  <2>2. CASE ~Again
    BY <1>9, <1>10, <1>a, <1>d, <2>2, Catches DEF ConnectionFails
  <2> QED
    BY <2>1, <2>2
<1>11. CASE RequestFails
  BY <1>9, <1>11, <1>a, <1>d, Catches DEF RequestFails
<1>12. CASE Aborted
  BY <1>12, <1>a, <1>d, Catches DEF Aborted
<1>13. CASE stop
  <2>1. PassTyped'
    BY <1>13 DEF stop, Resolved, PassTyped
  <2> QED
    BY <1>13, <1>a, <1>c, <1>d, <2>1 DEF stop
<1>14. CASE Tick
  <2>1. DeviceTyped'
    BY <1>14 DEF Tick, DeviceTyped
  <2> QED
    BY <1>14, <1>b, <1>c, <1>d, <2>1 DEF Tick
<1>15. CASE Picture
  <2>1. DeviceTyped'
    BY <1>15 DEF Picture, DeviceTyped
  <2> QED
    BY <1>15, <1>b, <1>c, <1>d, <2>1 DEF Picture
<1>16. CASE Reboot
  <2>1. DeviceTyped'
    <3>1. boot' \in 0 .. MaxBoots /\ uptime' \in 0 .. MaxUptime
      BY <1>16 DEF Reboot, DeviceTyped
    <3> QED
      BY <1>16, <3>1 DEF Reboot, DeviceTyped
  <2>2. PassTyped'
    BY <1>16 DEF Reboot, PassTyped
  <2> QED
    BY <1>16, <1>c, <1>d, <2>1, <2>2 DEF Reboot
<1>17. CASE UNCHANGED pollerVars
  BY <1>17, <1>a, <1>b, <1>c, <1>d DEF pollerVars
<1> QED
  BY <1>1, <1>2, <1>3, <1>4, <1>5, <1>6, <1>7, <1>8, <1>10, <1>11, <1>12, <1>13, <1>14,
     <1>15, <1>16, <1>17 DEF PollerNext, Step

-----------------------------------------------------------------------------
(***************************************************************************)
(* Requests stay inside a pass, and nothing of a pass but its first        *)
(* request comes before an answer to the status.                           *)
(***************************************************************************)
LEMMA OrderStep == PollerInv /\ [PollerNext]_pollerVars => PassInOrder'
<1> SUFFICES ASSUME PollerInv, [PollerNext]_pollerVars
             PROVE  PassInOrder'
  OBVIOUS
<1>0. /\ PollerTypeOK /\ PassInOrder /\ PassTyped /\ started \in BOOLEAN /\ MemoryTyped
      /\ DeviceTyped /\ GhostsTyped
  BY TypeParts DEF PollerInv
<1> USE PollerConstants, OrderOfResources DEF device, pass, remembered, ghosts
<1>1. CASE start \/ Wake
  BY <1>0, <1>1 DEF start, Wake, BeginPass, Queue, PassInOrder
<1>2. CASE SkipSensor
  BY <1>0, <1>2, GoesOn DEF SkipSensor, PassInOrder
<1>3. CASE BeginSensor
  <2>1. CASE Synced /\ GoOn
    BY <1>0, <1>3, <2>1, GoesOn, Syncs DEF BeginSensor, PassInOrder
  <2>2. CASE ~(Synced /\ GoOn)
    BY <1>0, <1>3, <2>2 DEF BeginSensor, Queue, PassInOrder
  <2> QED
    BY <2>1, <2>2
<1>4. CASE Open
  BY <1>0, <1>4 DEF Open, PassInOrder
<1>5. CASE StatusAnswer
  <2>1. deviceUptime' # Null
    BY <1>0, <1>5 DEF StatusAnswer, DeviceTyped
  <2>2. pc = "pass"
    BY <1>0, <1>5 DEF StatusAnswer, Answerable, PassInOrder
  <2> QED
    BY <1>0, <1>5, <2>1, <2>2, GoesOn DEF StatusAnswer, PassInOrder
<1>6. CASE ThermalAnswer \/ SensorAnswer
  <2>1. call = "open" /\ pc = "pass"
    BY <1>0, <1>6 DEF ThermalAnswer, SensorAnswer, Answerable, PassInOrder
  <2>2. Resource # Status
    BY <1>0, <1>6, PollerAssumption DEF ThermalAnswer, SensorAnswer, IsInjective
  <2>3. at # 1 /\ deviceUptime # Null
    BY <1>0, <2>1, <2>2 DEF Resource, PassInOrder
  <2>4. UNCHANGED deviceUptime
    BY <1>6 DEF ThermalAnswer, SensorAnswer, Synced
  <2>5. CASE GoOn
    BY <1>0, <2>1, <2>3, <2>4, <2>5, GoesOn DEF PassInOrder
  <2>6. CASE ~GoOn
    BY <1>6, <2>1, <2>3, <2>4, <2>6 DEF ThermalAnswer, SensorAnswer, Queue, PassInOrder
  <2> QED
    BY <2>5, <2>6
<1>7. ASSUME Catch, call # "none"
      PROVE  PassInOrder'
  <2>1. pc = "pass" /\ (at # 1 => deviceUptime # Null)
    BY <1>0, <1>7 DEF PassInOrder
  <2>2. at = 1 => Resource = Status
    BY DEF Resource
  <2> QED
    BY <1>0, <1>7, <2>1, <2>2, Catches DEF PassInOrder
<1>8. CASE ConnectionFails \/ RequestFails \/ Aborted
  <2>1. call # "none" /\ (Catch \/ Pause)
    BY <1>8 DEF ConnectionFails, RequestFails, Aborted, Failing
  <2>2. CASE Pause
    BY <1>0, <2>1, <2>2 DEF Pause, PassInOrder
  <2> QED
    BY <1>7, <2>1, <2>2
<1>9. CASE stop
  BY <1>0, <1>9 DEF stop, Resolved, PassInOrder
<1>10. CASE Tick \/ Picture
  BY <1>0, <1>10 DEF Tick, Picture, PassInOrder
<1>11. CASE Reboot
  BY <1>0, <1>11 DEF Reboot, PassInOrder
<1>12. CASE UNCHANGED pollerVars
  BY <1>0, <1>12 DEF pollerVars, PassInOrder
<1> QED
  BY <1>1, <1>2, <1>3, <1>4, <1>5, <1>6, <1>8, <1>9, <1>10, <1>11, <1>12 DEF PollerNext, Step

-----------------------------------------------------------------------------
\* What the last status told, and what was concluded from it.
told == <<passBoot, unnoticed, deviceUptime, rebootsSeen>>

(***************************************************************************)
(* Only a status tells of boots; only a sensor's turn moves its cursor, and*)
(* only within a pass that has a status.                                   *)
(***************************************************************************)
LEMMA WhoChangesWhat ==
  ASSUME PollerInv, [PollerNext]_pollerVars
  PROVE  \/ StatusAnswer
         \/ UNCHANGED <<boot, uptime, told>> /\ Synced /\ deviceUptime # Null
         \/ (Tick \/ Reboot \/ UNCHANGED <<boot, uptime>>) /\ UNCHANGED <<told, cursors>>
<1>0. PassInOrder
  BY DEF PollerInv
<1> USE DEF device, pass, remembered, ghosts, told
<1>1. CASE start \/ Wake \/ SkipSensor \/ Open \/ ThermalAnswer \/ stop \/ Tick \/ Picture \/ Reboot
  BY <1>1 DEF start, Wake, SkipSensor, Open, ThermalAnswer, stop, Tick, Picture, Reboot
<1>2. CASE BeginSensor
  <2>1. deviceUptime # Null
    BY <1>0, <1>2 DEF BeginSensor, PassInOrder
  <2> QED
    BY <1>2, <2>1 DEF BeginSensor, Synced
<1>3. CASE SensorAnswer
  <2>1. Resource # Status /\ call = "open"
    BY <1>3, OrderOfResources DEF SensorAnswer, Answerable
  <2>2. deviceUptime # Null
    BY <1>0, <2>1, OrderOfResources DEF PassInOrder, Resource
  <2> QED
    BY <1>3, <2>2 DEF SensorAnswer, Synced
<1>4. CASE ConnectionFails \/ RequestFails \/ Aborted
  BY <1>4 DEF ConnectionFails, RequestFails, Aborted, Pause, Catch
<1>5. CASE UNCHANGED pollerVars
  BY <1>5 DEF pollerVars
<1> QED
  BY <1>1, <1>2, <1>3, <1>4, <1>5 DEF PollerNext, Step

(***************************************************************************)
(* The uptime of the last status is behind the device's while it is of the *)
(* same boot, so a lower one is of a later boot than the last status.      *)
(***************************************************************************)
LEMMA StatusStep ==
  PollerInv /\ [PollerNext]_pollerVars => StatusIsPast' /\ CountedUpToStatus'
<1> SUFFICES ASSUME PollerInv, [PollerNext]_pollerVars
             PROVE  StatusIsPast' /\ CountedUpToStatus'
  OBVIOUS
<1>0. /\ boot \in Nat /\ uptime \in Nat /\ passBoot \in Nat /\ rebootsSeen \in Nat
      /\ deviceUptime \in Nat \cup {Null} /\ Null \notin Nat
      /\ StatusIsPast /\ CountedUpToStatus
  BY TypeParts, PollerConstants DEF PollerInv, DeviceTyped, MemoryTyped, GhostsTyped
<1>1. CASE StatusAnswer
  <2>1. Rebooted => passBoot < boot
    BY <1>0 DEF Rebooted, StatusIsPast
  <2>2. /\ UNCHANGED <<boot, uptime>> /\ passBoot' = boot /\ deviceUptime' = uptime
        /\ rebootsSeen' = rebootsSeen + (IF Rebooted THEN 1 ELSE 0)
    BY <1>1 DEF StatusAnswer, device
  <2>3. StatusIsPast'
    BY <1>0, <2>2 DEF StatusIsPast
  <2>4. rebootsSeen' <= boot
    <3>1. CASE Rebooted
      BY <1>0, <2>1, <2>2, <3>1 DEF CountedUpToStatus
    <3>2. CASE ~Rebooted
      BY <1>0, <2>2, <3>2 DEF CountedUpToStatus, StatusIsPast
    <3> QED
      BY <3>1, <3>2
  <2> QED
    BY <2>2, <2>3, <2>4 DEF CountedUpToStatus
<1>2. CASE Tick /\ UNCHANGED told
  BY <1>0, <1>2 DEF Tick, told, StatusIsPast, CountedUpToStatus
<1>3. CASE Reboot /\ UNCHANGED told
  BY <1>0, <1>3 DEF Reboot, told, StatusIsPast, CountedUpToStatus
<1>4. CASE UNCHANGED <<boot, uptime, told>>
  BY <1>0, <1>4 DEF told, StatusIsPast, CountedUpToStatus
<1> QED
  BY <1>1, <1>2, <1>3, <1>4, WhoChangesWhat DEF told

(***************************************************************************)
(* A status that tells a reboot leaves no cursor; one that does not is of  *)
(* the same boot as the last, unless the reboot went unnoticed.            *)
(***************************************************************************)
LEMMA CursorStep ==
  PollerInv /\ [PollerNext]_pollerVars => CursorsFollowStatus' /\ CursorsOfOneBoot'
<1> SUFFICES ASSUME PollerInv, [PollerNext]_pollerVars
             PROVE  CursorsFollowStatus' /\ CursorsOfOneBoot'
  OBVIOUS
<1>0. /\ MemoryTyped /\ GhostsTyped /\ cursors \in Cursors /\ uptime \in Nat /\ Null \notin Nat
      /\ CursorsFollowStatus /\ CursorsOfOneBoot
  BY TypeParts, PollerConstants DEF PollerInv, DeviceTyped, MemoryTyped
<1>1. CASE StatusAnswer
  <2>1. /\ cursors' = Restarted /\ passBoot' = boot /\ deviceUptime' = uptime
        /\ unnoticed' = (unnoticed \/ (deviceUptime # Null /\ passBoot # boot /\ ~Rebooted))
    BY <1>1 DEF StatusAnswer
  <2>2. CursorsFollowStatus'
    BY <1>0, <2>1 DEF CursorsFollowStatus
  <2>3. SUFFICES ASSUME ~unnoticed', NEW s \in DOMAIN cursors'
                 PROVE  cursors'[s] \in {Null, boot}
    BY <2>1, <2>2 DEF CursorsOfOneBoot
  <2>4. s \in DOMAIN cursors
    BY <2>1 DEF Restarted
  <2>5. CASE Rebooted
    BY <1>0, <2>1, <2>4, <2>5, Restarts
  <2>6. CASE ~Rebooted /\ deviceUptime = Null
    BY <1>0, <2>1, <2>4, <2>6, Restarts DEF CursorsFollowStatus
  <2>7. CASE ~Rebooted /\ deviceUptime # Null
    <3>1. ~unnoticed /\ passBoot = boot
      BY <2>1, <2>3, <2>7, Zenon
    <3> QED
      BY <1>0, <2>1, <2>4, <2>7, <3>1, Restarts DEF CursorsOfOneBoot
  <2> QED
    BY <2>5, <2>6, <2>7
<1>2. CASE UNCHANGED told /\ Synced /\ deviceUptime # Null
  BY <1>0, <1>2, Syncs DEF told, CursorsFollowStatus, CursorsOfOneBoot
<1>3. CASE UNCHANGED <<told, cursors>>
  BY <1>0, <1>3 DEF told, CursorsFollowStatus, CursorsOfOneBoot
<1> QED
  BY <1>1, <1>2, <1>3, WhoChangesWhat DEF told

-----------------------------------------------------------------------------
\* A poller that was never started.
LEMMA PollerInvInit == PollerInit => PollerInv
<1> SUFFICES ASSUME PollerInit
             PROVE  PollerInv
  OBVIOUS
<1> USE PollerConstants, OrderOfResources DEF PollerInit
<1>1. DeviceTyped
  <2>1. boot \in 0 .. MaxBoots /\ uptime \in 0 .. MaxUptime
    OBVIOUS
  <2>2. broken \subseteq All \ {Status} /\ unbuffered \subseteq ToSet(Sensors)
    BY Zenon
  <2> QED
    BY <2>1, <2>2 DEF DeviceTyped
<1>2. PassTyped
  BY DEF PassTyped
<1>3. MemoryTyped
  BY DEF MemoryTyped, Errors, Cursors, Images
<1>4. GhostsTyped /\ started \in BOOLEAN /\ failures \in 0 .. MaxFailures
  <2>1. passBoot \in 0 .. MaxBoots /\ failures \in 0 .. MaxFailures
    OBVIOUS
  <2>2. unnoticed \in BOOLEAN /\ started \in BOOLEAN
    OBVIOUS
  <2> QED
    BY <2>1, <2>2 DEF GhostsTyped
<1>5. PollerTypeOK
  BY <1>1, <1>2, <1>3, <1>4, TypeParts
<1>6. PassInOrder /\ CursorsFollowStatus /\ StatusIsPast /\ CountedUpToStatus /\ CursorsOfOneBoot
  BY DEF PassInOrder, CursorsFollowStatus, StatusIsPast, CountedUpToStatus, CursorsOfOneBoot
<1> QED
  BY <1>5, <1>6 DEF PollerInv

\* Whatever the pass, the device and the network do.
LEMMA PollerInvNext == PollerInv /\ [PollerNext]_pollerVars => PollerInv'
  BY TypeStep, OrderStep, StatusStep, CursorStep DEF PollerInv

(***************************************************************************)
(* The order of a pass, and what its status was compared with, hold in     *)
(* every run of the poller.                                                *)
(***************************************************************************)
THEOREM PassInvariant == PollerSpec => []PollerInv
  BY PollerInvInit, PollerInvNext, PTL DEF PollerSpec

(***************************************************************************)
(* A reboot the uptime tells is counted once, and clears the cursor of     *)
(* every sensor, those the pass could not reach included.                  *)
(***************************************************************************)
THEOREM RebootsAreFollowed == PollerSpec => []BootsAreFollowed
<1>1. PollerInv => RebootsCountedOnce
  <2> SUFFICES ASSUME PollerInv
               PROVE  rebootsSeen <= boot
    BY DEF RebootsCountedOnce
  <2>1. rebootsSeen \in Nat /\ passBoot \in Nat /\ boot \in Nat
    BY TypeParts, PollerConstants DEF PollerInv, DeviceTyped, MemoryTyped, GhostsTyped
  <2> QED
    BY <2>1 DEF PollerInv, CountedUpToStatus, StatusIsPast
<1>2. PollerInv => BootsAreFollowed
  BY <1>1 DEF PollerInv, BootsAreFollowed
<1> QED
  BY <1>2, PassInvariant, PTL

(***************************************************************************)
(* Only a status that could not be fetched makes the device count as gone. *)
(***************************************************************************)
THEOREM SensorsKeepTheDevice == PollerSpec => SensorsDoNotCostTheDevice
<1> DEFINE Cost == deviceOnline /\ ~deviceOnline' => Resource = Status
<1>1. [PollerNext]_pollerVars => [Cost]_pollerVars
  BY DEF PollerNext, Step, pollerVars, device, pass, remembered, ghosts, start, Wake,
         SkipSensor, BeginSensor, Synced, Open, StatusAnswer, ThermalAnswer, SensorAnswer,
         ConnectionFails, RequestFails, Aborted, Pause, Catch, EndsPass, stop, Tick, Picture, Reboot
<1> QED
  BY <1>1, PTL DEF PollerSpec, SensorsDoNotCostTheDevice

-----------------------------------------------------------------------------
\* What of a file can be read.
Readable(file) ==
  IF file = None THEN {} ELSE (ToSet(file.lines) \cup {file.tail}) \cap Time

\* A file holds readings of its day.
Placed(file, d) == \A t \in Readable(file) : dayKey(t) = d

(***************************************************************************)
(* A file no cut write has put at risk: it begins with a complete line     *)
(* that parses, its readings are in order, and an unterminated line is no  *)
(* reading.                                                                *)
(***************************************************************************)
Whole(file) ==
  file # None =>
    /\ file.lines # << >> /\ file.lines[1] \in Time /\ file.tail \notin Time
    /\ IncreasingIn(file.lines, Time)

\* The constants are numbers, and what stands for no line or no number is none.
LEMMA ConstantTypes ==
  /\ MaxTime \in Nat /\ MaxTime > 0 /\ DayLength \in Nat \ {0} /\ MaxBatch \in Nat
  /\ MaxRestarts \in Nat /\ MaxCuts \in Nat
  /\ Time \subseteq Nat /\ 0 \notin Time
  /\ Bad \notin Nat /\ None \notin Nat /\ Bad # None /\ None \notin File
  BY StoreAssumption, NoFileAssumption DEF Time

\* A later time is of no earlier day.
LEMMA DaysOfTimes ==
  /\ \A t \in Nat : dayKey(t) \in Nat
  /\ \A t, q \in Nat : t <= q => dayKey(t) <= dayKey(q)
  BY ConstantTypes DEF dayKey

\* A later day has later readings, and every reading has a day.
LEMMA DayKeys ==
  /\ dayKey(MaxTime) \in Nat
  /\ \A t \in Time : dayKey(t) \in Day
  /\ \A t, q \in Time : t <= q => dayKey(t) <= dayKey(q)
  BY DaysOfTimes, ConstantTypes DEF Day, Time

\* The same, the other way round.
LEMMA DaysOrderReadings ==
  ASSUME NEW t \in Time, NEW q \in Time, dayKey(t) < dayKey(q)
  PROVE  t < q
<1>1. t \in Nat /\ q \in Nat /\ dayKey(t) \in Nat /\ dayKey(q) \in Nat
  BY ConstantTypes, DayKeys DEF Day
<1>2. q <= t => dayKey(q) <= dayKey(t)
  BY DayKeys
<1> QED
  BY <1>1, <1>2

(***************************************************************************)
(* Parsed returns what of a file can be read, in order if the file is      *)
(* whole.                                                                  *)
(***************************************************************************)
LEMMA ParsedFile ==
  ASSUME NEW file \in File
  PROVE  /\ Parsed(file) \in Seq(Time)
         /\ ToSet(Parsed(file)) = Readable(file)
         /\ Whole(file) => Increasing(Parsed(file))
<1> DEFINE S == Time \cup {Bad}
           lines == IF file.tail = None THEN file.lines ELSE Append(file.lines, file.tail)
<1>1. /\ file # None /\ file.lines \in Seq(S) /\ file.tail \in S \cup {None}
      /\ None \notin Time
  BY ConstantTypes DEF File
<1>2. lines \in Seq(S) /\ ToSet(lines) \cap Time = (ToSet(file.lines) \cup {file.tail}) \cap Time
  <2>1. CASE file.tail = None
    BY <1>1, <2>1
  <2>2. CASE file.tail # None
    <3>1. file.tail \in S
      BY <1>1, <2>2
    <3>2. /\ lines \in Seq(S) /\ DOMAIN lines = 1 .. Len(file.lines) + 1
          /\ DOMAIN file.lines = 1 .. Len(file.lines) /\ Len(file.lines) \in Nat
          /\ \A i \in 1 .. Len(file.lines) : lines[i] = file.lines[i]
          /\ lines[Len(file.lines) + 1] = file.tail
      BY <1>1, <2>2, <3>1
    <3> HIDE DEF lines, S
    <3>3. \A i : i \in 1 .. Len(file.lines) + 1 <=>
                   i \in 1 .. Len(file.lines) \/ i = Len(file.lines) + 1
      BY <3>2
    <3>4. ToSet(lines) = ToSet(file.lines) \cup {file.tail}
      BY <3>2, <3>3 DEF ToSet
    <3> QED
      BY <3>2, <3>4
  <2> QED
    BY <2>1, <2>2
<1>3. Parsed(file) = Selected(lines, Time)
  BY Zenon DEF Parsed
<1>4. Whole(file) => IncreasingIn(lines, Time)
  <2> SUFFICES ASSUME Whole(file)
               PROVE  IncreasingIn(lines, Time)
    OBVIOUS
  <2>1. file.tail \notin Time /\ IncreasingIn(file.lines, Time)
    BY <1>1 DEF Whole
  <2>2. CASE file.tail = None
    BY <2>1, <2>2
  <2>3. CASE file.tail # None
    <3>1. file.tail \in S
      BY <1>1, <2>3
    <3>2. /\ DOMAIN lines = 1 .. Len(file.lines) + 1
          /\ DOMAIN file.lines = 1 .. Len(file.lines) /\ Len(file.lines) \in Nat
          /\ \A i \in 1 .. Len(file.lines) : lines[i] = file.lines[i]
          /\ lines[Len(file.lines) + 1] = file.tail
      BY <1>1, <2>3, <3>1
    <3> HIDE DEF lines, S
    <3>3. \A i \in DOMAIN lines : lines[i] \in Time => i \in DOMAIN file.lines
      BY <2>1, <3>2
    <3> QED
      BY <2>1, <3>2, <3>3 DEF IncreasingIn
  <2> QED
    BY <2>2, <2>3
<1> HIDE DEF lines
<1>5. /\ Selected(lines, Time) \in Seq(S \cap Time)
      /\ ToSet(Selected(lines, Time)) = ToSet(lines) \cap Time
  BY <1>2, SelectedSet, ZenonT(30)
<1>6. S \cap Time = Time
  OBVIOUS
<1> HIDE DEF S
<1>7. Whole(file) => Increasing(Parsed(file))
  BY <1>2, <1>3, <1>4, SelectedIncreasing, ZenonT(30)
<1>8. Parsed(file) \in Seq(Time) /\ ToSet(Parsed(file)) = Readable(file)
  BY <1>1, <1>2, <1>3, <1>5, <1>6, Zenon DEF Readable
<1> QED
  BY <1>7, <1>8, Zenon

-----------------------------------------------------------------------------
\* The lines of a file, of which one that is not there has none.
Lines(file) == IF file = None THEN << >> ELSE file.lines

\* A file has a line that did not parse.
Spoilt(file) == Bad \in ToSet(Lines(file))

(***************************************************************************)
(* ext is what the lines came to: themselves, or Bad for the first of them *)
(* that was glued to an unterminated line.                                 *)
(***************************************************************************)
Extension(ext, lines) ==
  /\ ext \in Seq(Time \cup {Bad})
  /\ ToSet(ext) \cap Time \subseteq ToSet(lines)
  /\ Increasing(lines) => IncreasingIn(ext, Time)
  /\ ToSet(lines) \subseteq ToSet(ext) \/ Bad \in ToSet(ext)

\* The lines glued to an unterminated one.
LEMMA GluedLines ==
  ASSUME NEW lines \in Seq(Time), lines # << >>
  PROVE  Extension(<<Bad>> \o Tail(lines), lines)
<1> DEFINE ext == <<Bad>> \o Tail(lines)
           n == Len(lines)
<1>1. lines \in Seq(Time \cup {Bad}) /\ Bad \notin Time
  <2>1. Bad \notin Time
    BY ConstantTypes
  <2> QED
    BY <2>1
<1>2. /\ ext \in Seq(Time \cup {Bad}) /\ n \in Nat /\ DOMAIN ext = 1 .. n /\ DOMAIN lines = 1 .. n
      /\ ext[1] = Bad /\ 1 \in 1 .. n
      /\ \A i \in 1 .. n : i # 1 => ext[i] = lines[i]
  <2>1. /\ Tail(lines) \in Seq(Time \cup {Bad}) /\ Len(Tail(lines)) = n - 1 /\ n \in Nat /\ n > 0
        /\ \A i \in 1 .. n - 1 : Tail(lines)[i] = lines[i + 1]
    BY <1>1
  <2> DEFINE rest == Tail(lines)
  <2> HIDE DEF rest, n
  <2>2. /\ rest \in Seq(Time \cup {Bad}) /\ Len(rest) = n - 1 /\ n \in Nat /\ n > 0
        /\ \A i \in 1 .. n - 1 : rest[i] = lines[i + 1]
        /\ ext = <<Bad>> \o rest
    BY <2>1 DEF rest
  <2> HIDE DEF ext
  <2>3. /\ ext \in Seq(Time \cup {Bad}) /\ Len(ext) = n /\ ext[1] = Bad
        /\ \A i \in 1 .. n - 1 : ext[i + 1] = rest[i]
    BY <2>2
  <2>4. ASSUME NEW i \in 1 .. n, i # 1
        PROVE  ext[i] = lines[i]
    <3>1. i - 1 \in 1 .. n - 1 /\ (i - 1) + 1 = i
      BY <2>2, <2>4
    <3> QED
      BY <2>2, <2>3, <3>1
  <2>5. DOMAIN ext = 1 .. n /\ DOMAIN lines = 1 .. n
    BY <2>3 DEF n
  <2>6. 1 \in 1 .. n
    BY <2>2
  <2> QED
    BY <2>2, <2>3, <2>4, <2>5, <2>6
<1> HIDE DEF ext, n
<1>3. ASSUME NEW i \in 1 .. n, ext[i] \in Time
      PROVE  i # 1 /\ ext[i] = lines[i]
  BY <1>1, <1>2, <1>3
<1>4. ToSet(ext) \cap Time \subseteq ToSet(lines)
  <2> SUFFICES ASSUME NEW i \in 1 .. n, ext[i] \in Time
               PROVE  ext[i] \in ToSet(lines)
    BY <1>2 DEF ToSet
  <2> QED
    BY <1>2, <1>3 DEF ToSet
<1>5. Increasing(lines) => IncreasingIn(ext, Time)
  BY <1>2, <1>3, Zenon DEF Increasing, IncreasingIn
<1>6. Bad \in ToSet(ext)
  BY <1>2 DEF ToSet
<1>7. Extension(ext, lines)
  BY <1>2, <1>4, <1>5, <1>6, Zenon DEF Extension
<1> QED
  BY <1>7 DEF ext

\* The lines as they are.
LEMMA WholeLines ==
  ASSUME NEW lines \in Seq(Time)
  PROVE  Extension(lines, lines)
<1>1. lines \in Seq(Time \cup {Bad})
  OBVIOUS
<1>2. Increasing(lines) => IncreasingIn(lines, Time)
  BY DEF Increasing, IncreasingIn
<1> QED
  BY <1>1, <1>2 DEF Extension

(***************************************************************************)
(* The file after a write: its lines, and behind them the new ones, spoilt *)
(* only behind an unterminated line.  That line is gone unless nothing was *)
(* written.                                                                *)
(***************************************************************************)
AppendsTo(new, file, lines, tail) ==
  /\ new \in File
  /\ \E ext : /\ new.lines = Lines(file) \o ext /\ Extension(ext, lines)
              /\ lines # << >> => ext # << >>
              /\ file = None => ext = lines
  /\ \/ new.tail = tail
     \/ lines = << >> /\ file # None /\ new.tail \in {file.tail, Bad}

\* Appended writes like that.
LEMMA AppendedFile ==
  ASSUME NEW file \in File \cup {None}, NEW lines \in Seq(Time),
         NEW tail \in Time \cup {Bad, None}
  PROVE  AppendsTo(Appended(file, lines, tail), file, lines, tail)
<1> DEFINE old == IF file = None THEN EmptyFile ELSE file
           new == Appended(file, lines, tail)
           S == Time \cup {Bad}
<1>1. /\ old \in File /\ old.lines \in Seq(S) /\ old.lines = Lines(file)
      /\ file # None => old = file
      /\ file = None => old.tail = None /\ old.lines = << >>
  BY DEF File, EmptyFile, Lines
<1>2. new = IF old.tail # None /\ lines # << >>
            THEN [lines |-> old.lines \o <<Bad>> \o Tail(lines), tail |-> tail]
            ELSE IF old.tail # None
            THEN [old EXCEPT !.tail = IF tail = None THEN @ ELSE Bad]
            ELSE [lines |-> old.lines \o lines, tail |-> tail]
  BY Zenon DEF Appended
<1> HIDE DEF old, new
<1>3. CASE old.tail # None /\ lines # << >>
  <2> DEFINE ext == <<Bad>> \o Tail(lines)
  <2>1. Extension(ext, lines)
    BY <1>3, GluedLines
  <2>2. ext \in Seq(S) /\ ext # << >>
    BY <1>3
  <2>3. old.lines \o <<Bad>> \o Tail(lines) = old.lines \o ext
    <3>1. <<Bad>> \in Seq(S) /\ Tail(lines) \in Seq(S)
      BY <1>3
    <3> QED
      BY <1>1, <3>1, ConcatAssociative
  <2> HIDE DEF ext
  <2>4. new.lines = old.lines \o ext /\ new.tail = tail /\ new \in File
    <3>1. new = [lines |-> old.lines \o ext, tail |-> tail]
      BY <1>2, <1>3, <2>3, Zenon
    <3>2. old.lines \o ext \in Seq(S)
      BY <1>1, <2>2
    <3> QED
      BY <3>1, <3>2 DEF File
  <2>5. file # None
    BY <1>1, <1>3
  <2>6. AppendsTo(new, file, lines, tail)
    BY <1>1, <1>3, <2>1, <2>2, <2>4, <2>5, Zenon DEF AppendsTo
  <2> QED
    BY <2>6 DEF new
<1>4. CASE old.tail # None /\ lines = << >>
  <2>1. new = [old EXCEPT !.tail = IF tail = None THEN @ ELSE Bad]
    BY <1>2, <1>4, Zenon
  <2>2. /\ new \in File /\ new.lines = old.lines /\ new.tail \in {old.tail, Bad}
        /\ file # None /\ old = file
    BY <1>1, <1>4, <2>1 DEF File
  <2>3. << >> \in Seq(S) /\ old.lines \o << >> = old.lines
    BY <1>1, ConcatEmptySeq
  <2>4. Extension(<< >>, lines)
    BY <1>4, WholeLines, Zenon
  <2>5. AppendsTo(new, file, lines, tail)
    BY <1>1, <1>4, <2>2, <2>3, <2>4, Zenon DEF AppendsTo
  <2> QED
    BY <2>5 DEF new
<1>5. CASE old.tail = None
  <2>1. new = [lines |-> old.lines \o lines, tail |-> tail]
    BY <1>2, <1>5, Zenon
  <2>2. lines \in Seq(S)
    OBVIOUS
  <2>3. old.lines \o lines \in Seq(S)
    BY <1>1, <2>2
  <2>4. new \in File /\ new.lines = old.lines \o lines /\ new.tail = tail
    BY <2>1, <2>3 DEF File
  <2>5. Extension(lines, lines)
    BY WholeLines
  <2>6. AppendsTo(new, file, lines, tail)
    BY <1>1, <2>2, <2>4, <2>5, Zenon DEF AppendsTo
  <2> QED
    BY <2>6 DEF new
<1> QED
  BY <1>3, <1>4, <1>5

\* What a write leaves readable, and what it adds.
Adds(new, file, lines, tail) ==
  /\ new \in File /\ new # None
  /\ Readable(new) \subseteq Readable(file) \cup ToSet(lines) \cup ({tail} \cap Time)
  /\ \A t \in Readable(file) : t \in Readable(new) \/ (file # None /\ file.tail = t)
  /\ Spoilt(file) => Spoilt(new)
  /\ ToSet(lines) \subseteq Readable(new) \/ Spoilt(new)
  /\ file = None => ToSet(lines) \subseteq Readable(new)

\* A write does that.
LEMMA WriteAdds ==
  ASSUME NEW file \in File \cup {None}, NEW lines \in Seq(Time),
         NEW tail \in Time \cup {Bad, None}, NEW new, AppendsTo(new, file, lines, tail)
  PROVE  Adds(new, file, lines, tail)
<1> DEFINE S == Time \cup {Bad}
           old == Lines(file)
<1>1. /\ new \in File /\ new # None /\ old \in Seq(S) /\ ToSet(lines) \subseteq Time
      /\ Bad \notin Time
  <2>1. None \notin File /\ Bad \notin Time /\ new \in File
    BY ConstantTypes, Zenon DEF AppendsTo
  <2>2. old \in Seq(S)
    BY DEF Lines, File
  <2>3. ToSet(lines) \subseteq Time
    BY DEF ToSet
  <2> QED
    BY <2>1, <2>2, <2>3, Zenon
<1>2. PICK ext : /\ new.lines = old \o ext /\ Extension(ext, lines)
                 /\ file = None => ext = lines
  BY Zenon DEF AppendsTo
<1>3. /\ ext \in Seq(S) /\ ToSet(ext) \cap Time \subseteq ToSet(lines)
      /\ ToSet(lines) \subseteq ToSet(ext) \/ Bad \in ToSet(ext)
  BY <1>2, Zenon DEF Extension
<1>4. /\ new.tail = tail \/ (file # None /\ new.tail \in {file.tail, Bad})
  BY Zenon DEF AppendsTo
<1>5. Readable(new) = (ToSet(new.lines) \cup {new.tail}) \cap Time
  BY <1>1, Zenon DEF Readable
<1>6. Readable(file) = IF file = None THEN {} ELSE (ToSet(old) \cup {file.tail}) \cap Time
  BY Zenon DEF Readable, Lines
<1>7. Spoilt(file) <=> Bad \in ToSet(old)
  BY Zenon DEF Spoilt
<1>8. Spoilt(new) <=> Bad \in ToSet(new.lines)
  BY <1>1, Zenon DEF Spoilt, Lines
<1>9. file = None => old = << >>
  BY DEF Lines
<1>10. file = None => ToSet(old) = {}
  BY <1>9 DEF ToSet
<1> HIDE DEF old, S
<1>11. ToSet(new.lines) = ToSet(old) \cup ToSet(ext)
  BY <1>1, <1>2, <1>3, JoinElements
<1>12. Readable(new) \subseteq Readable(file) \cup ToSet(lines) \cup ({tail} \cap Time)
  BY <1>1, <1>3, <1>4, <1>5, <1>6, <1>10, <1>11
<1>13. \A t \in Readable(file) : t \in Readable(new) \/ (file # None /\ file.tail = t)
  BY <1>5, <1>6, <1>11
<1>14. file = None => ToSet(lines) \subseteq Readable(new)
  BY <1>1, <1>2, <1>5, <1>11
<1>15. ToSet(lines) \subseteq Readable(new) \/ Spoilt(new)
  BY <1>1, <1>3, <1>5, <1>8, <1>11
<1> QED
  BY <1>1, <1>7, <1>8, <1>11, <1>12, <1>13, <1>14, <1>15 DEF Adds

\* A file has a complete line, and no reading lacks its newline.
BeginsWhole(file) == file.lines # << >> /\ file.tail \notin Time

\* Readings newer than what a file holds.
NewerThan(kept, file) == \A t \in Readable(file), q \in ToSet(kept) : t < q

(***************************************************************************)
(* A write of later readings leaves a whole file whole, if it leaves a     *)
(* complete line and no reading without its newline.                       *)
(***************************************************************************)
LeavesWhole(new, file, lines, tail) ==
  Whole(file) /\ NewerThan(lines, file) /\ BeginsWhole(new) => Whole(new)

\* It does.
LEMMA WriteLeavesWhole ==
  ASSUME NEW file \in File \cup {None}, NEW lines \in Seq(Time), Increasing(lines),
         NEW tail \in Time \cup {Bad, None}, NEW new, AppendsTo(new, file, lines, tail)
  PROVE  LeavesWhole(new, file, lines, tail)
<1> SUFFICES ASSUME Whole(file), NewerThan(lines, file), BeginsWhole(new)
             PROVE  Whole(new)
  BY Zenon DEF LeavesWhole
<1> DEFINE S == Time \cup {Bad}
           old == Lines(file)
<1>1. new \in File /\ old \in Seq(S)
  BY DEF AppendsTo, File, Lines
<1>2. PICK ext : /\ new.lines = old \o ext /\ Extension(ext, lines)
                 /\ file = None => ext = lines
  BY Zenon DEF AppendsTo
<1>3. /\ ext \in Seq(S) /\ ToSet(ext) \cap Time \subseteq ToSet(lines)
      /\ IncreasingIn(ext, Time)
  BY <1>2, Zenon DEF Extension
<1>4. /\ IncreasingIn(old, Time)
      /\ \A t \in ToSet(old) \cap Time : t \in Readable(file)
  <2>1. CASE file = None
    <3>1. old = << >>
      BY <2>1 DEF Lines
    <3> QED
      BY <3>1 DEF IncreasingIn, ToSet
  <2>2. CASE file # None
    BY <2>2, Zenon DEF Lines, Whole, Readable
  <2> QED
    BY <2>1, <2>2
<1>5. IncreasingIn(new.lines, Time)
  <2>1. \A x \in ToSet(old) \cap Time, y \in ToSet(ext) \cap Time : x < y
    BY <1>3, <1>4 DEF NewerThan
  <2> HIDE DEF old, S
  <2>2. IncreasingIn(old \o ext, Time)
    BY <1>1, <1>3, <1>4, <2>1, JoinIncreasing
  <2> QED
    BY <1>2, <2>2
<1>6. new.lines[1] \in Time
  <2>1. CASE file = None
    <3>1. new.lines = << >> \o lines
      BY <1>2, <2>1 DEF Lines
    <3>2. new.lines = lines /\ new.lines # << >>
      BY <3>1, ConcatEmptySeq DEF BeginsWhole
    <3> QED
      BY <3>2
  <2>2. CASE file # None
    <3>1. old = file.lines /\ old # << >> /\ old[1] \in Time
      BY <2>2, Zenon DEF Lines, Whole
    <3> HIDE DEF old, S
    <3>2. (old \o ext)[1] = old[1]
      BY <1>1, <1>3, <3>1
    <3> QED
      BY <1>2, <3>1, <3>2
  <2> QED
    BY <2>1, <2>2
<1> QED
  BY <1>5, <1>6, Zenon DEF Whole, BeginsWhole

-----------------------------------------------------------------------------
\* Readings in order, all of them later than t.
OrderedAfter(readings, t) ==
  /\ readings \in Seq(Time)
  /\ Increasing(readings)
  /\ \A q \in ToSet(readings) : t < q

\* One more of them that is later than the last keeps them so.
LEMMA OneMoreKept ==
  ASSUME NEW t \in Int, NEW kept, OrderedAfter(kept, t), NEW x \in Time,
         x > IF kept = << >> THEN t ELSE Last(kept)
  PROVE  OrderedAfter(Append(kept, x), t)
<1> DEFINE n == Len(kept)
           more == Append(kept, x)
<1>1. /\ n \in Nat /\ more \in Seq(Time) /\ DOMAIN more = 1 .. n + 1 /\ DOMAIN kept = 1 .. n
      /\ \A i \in 1 .. n : more[i] = kept[i] /\ kept[i] \in Time
      /\ more[n + 1] = x /\ x \in Int
      /\ kept # << >> => n > 0 /\ Last(kept) = kept[n] /\ n \in 1 .. n
      /\ kept = << >> => n = 0
  BY ConstantTypes DEF OrderedAfter, Last
<1>2. /\ \A i, j \in 1 .. n : i < j => kept[i] < kept[j]
      /\ \A i \in 1 .. n : t < kept[i]
  BY <1>1 DEF OrderedAfter, Increasing, ToSet
<1> HIDE DEF n, more
<1>3. \A i \in 1 .. n : kept[i] \in Int
  <2>1. Time \subseteq Int
    BY DEF Time
  <2> QED
    BY <1>1, <2>1
<1>4. ASSUME NEW i \in 1 .. n
      PROVE  kept[i] < x
  <2>1. kept # << >> /\ n \in 1 .. n /\ kept[n] < x /\ kept[n] \in Int /\ kept[i] \in Int
    BY <1>1, <1>3
  <2>2. CASE i = n
    BY <2>1, <2>2
  <2>3. CASE i # n
    <3>1. i < n
      BY <1>1, <2>3
    <3>2. kept[i] < kept[n]
      BY <1>2, <2>1, <3>1
    <3> QED
      BY <1>1, <2>1, <3>2
  <2> QED
    BY <2>2, <2>3
<1>5. t < x
  <2>1. CASE kept = << >>
    BY <1>1, <2>1
  <2>2. CASE kept # << >>
    <3>1. t < kept[n] /\ kept[n] < x /\ kept[n] \in Int
      BY <1>1, <1>2, <1>3, <1>4, <2>2
    <3> QED
      BY <1>1, <3>1
  <2> QED
    BY <2>1, <2>2
<1>6. \A i \in 1 .. n + 1 : i \in 1 .. n \/ i = n + 1
  BY <1>1
<1>7. Increasing(more)
  <2> SUFFICES ASSUME NEW i \in 1 .. n + 1, NEW j \in 1 .. n + 1, i < j
               PROVE  more[i] < more[j]
    BY <1>1, Zenon DEF Increasing
  <2>1. i \in 1 .. n
    BY <1>1
  <2> QED
    BY <1>1, <1>2, <1>4, <1>6, <2>1
<1>8. \A q \in ToSet(more) : t < q
  BY <1>1, <1>2, <1>5, <1>6 DEF ToSet
<1>9. OrderedAfter(more, t)
  BY <1>1, <1>7, <1>8, Zenon DEF OrderedAfter
<1> QED
  BY <1>9 DEF more

(***************************************************************************)
(* append keeps readings in order, all of them newer than what it takes    *)
(* for the newest stored.                                                  *)
(***************************************************************************)
LEMMA KeptReadings ==
  ASSUME NEW s, NEW batch \in Seq(Time), lastTimestamps[s] \in Int
  PROVE  OrderedAfter(Kept(s, batch), lastTimestamps[s])
<1> DEFINE n == Len(batch)
           t == lastTimestamps[s]
           newest(kept) == IF kept = << >> THEN lastTimestamps[s] ELSE Last(kept)
           body(f) == [i \in 0 .. n |->
                         IF i = 0 THEN << >>
                         ELSE IF batch[i] > newest(f[i - 1]) THEN Append(f[i - 1], batch[i])
                         ELSE f[i - 1]]
           upTo == CHOOSE f : f = body(f)
           A == {kept \in Seq(Time) : OrderedAfter(kept, t)}
           next(q, x) == IF x > newest(q) THEN Append(q, x) ELSE q
           step == [i \in 1 .. n |-> [q \in A |-> next(q, batch[i])]]
           none == << >>
<1>1. n \in Nat /\ t \in Int /\ \A i \in 1 .. n : batch[i] \in Time
  OBVIOUS
<1>2. Kept(s, batch) = upTo[n]
  BY Zenon DEF Kept
<1>3. none \in A
  <2>1. << >> \in Seq(Time) /\ Increasing(<< >>) /\ ToSet(<< >>) = {}
    BY DEF Increasing, ToSet
  <2> QED
    BY <2>1 DEF OrderedAfter
<1>4. \A q \in A, x \in Time : next(q, x) \in A
  <2> SUFFICES ASSUME NEW q \in A, NEW x \in Time, x > newest(q)
               PROVE  Append(q, x) \in A
    OBVIOUS
  <2>1. OrderedAfter(Append(q, x), t)
    BY <1>1, OneMoreKept
  <2> QED
    BY <2>1 DEF OrderedAfter
<1> HIDE DEF n, A, next
<1>5. step \in [1 .. n -> [A -> A]]
  BY <1>1, <1>4
<1>6. \A i \in 1 .. n, q \in A : step[i][q] = next(q, batch[i])
  OBVIOUS
<1> HIDE DEF step, none
<1>7. PICK g \in [0 .. n -> A] :
        g[0] = none /\ \A i \in 1 .. n : g[i] = step[i][g[i - 1]]
  <2>1. HasRun(n, A, none, step)
    BY <1>1, <1>3, <1>5, Recursion, ZenonT(30)
  <2> QED
    BY <2>1, Zenon DEF HasRun
<1>8. /\ 0 \in 0 .. n /\ n \in 0 .. n
      /\ \A i \in 1 .. n : i \in 0 .. n /\ i - 1 \in 0 .. n /\ i # 0
      /\ \A i \in 0 .. n : i # 0 => i \in 1 .. n
  BY <1>1
<1>9. ASSUME NEW i \in 1 .. n
      PROVE  g[i] = next(g[i - 1], batch[i])
  <2>1. g[i - 1] \in A
    BY <1>7, <1>8
  <2> QED
    BY <1>6, <1>7, <2>1, Zenon
<1>10. \A i \in 0 .. n :
         g[i] = IF i = 0 THEN << >>
                ELSE IF batch[i] > newest(g[i - 1]) THEN Append(g[i - 1], batch[i])
                ELSE g[i - 1]
  BY <1>7, <1>8, <1>9, Zenon DEF next, none
<1>11. g = body(g)
  BY <1>7, <1>10
<1>12. upTo = body(upTo)
  <2> HIDE DEF body
  <2> QED
    BY <1>11
<1> HIDE DEF upTo
<1> DEFINE P == {i \in 0 .. n : upTo[i] = g[i]}
<1>13. 0 \in P
  BY <1>8, <1>10, <1>12, Zenon
<1>14. ASSUME NEW i \in 1 .. n, i - 1 \in P
       PROVE  i \in P
  <2>1. upTo[i - 1] = g[i - 1] /\ i \in 0 .. n
    BY <1>8, <1>14, Zenon
  <2> QED
    BY <1>10, <1>12, <2>1, Zenon
<1> HIDE DEF P
<1>15. \A i \in 0 .. n : i \in P
  BY <1>1, <1>13, <1>14, UpTo, ZenonT(30)
<1>16. upTo[n] \in A
  BY <1>7, <1>8, <1>15 DEF P
<1> QED
  BY <1>2, <1>16, Zenon DEF A

-----------------------------------------------------------------------------
\* The readings of a day, in order; there are some for every day of a batch.
LEMMA LinesOfDay ==
  ASSUME NEW kept \in Seq(Time), Increasing(kept), NEW d
  PROVE  /\ OfDay(kept, d) \in Seq(Time) /\ Increasing(OfDay(kept, d))
         /\ ToSet(OfDay(kept, d)) = {t \in ToSet(kept) : dayKey(t) = d}
         /\ d \in DaysOf(kept) => OfDay(kept, d) # << >>
<1> DEFINE good == {t \in Time : dayKey(t) = d}
           lines == OfDay(kept, d)
<1>1. lines = Selected(kept, good)
  BY Zenon DEF OfDay
<1>2. ToSet(kept) \subseteq Time /\ DaysOf(kept) = {dayKey(t) : t \in ToSet(kept)}
  BY DEF ToSet, DaysOf
<1> HIDE DEF good, lines
<1>3. lines \in Seq(Time \cap good) /\ ToSet(lines) = ToSet(kept) \cap good
  BY <1>1, SelectedSet
<1>4. IncreasingIn(kept, good)
  BY Zenon DEF Increasing, IncreasingIn
<1>5. Increasing(lines)
  BY <1>1, <1>4, SelectedIncreasing, Zenon
<1>6. lines \in Seq(Time)
  BY <1>3
<1>7. ToSet(lines) = {t \in ToSet(kept) : dayKey(t) = d}
  BY <1>2, <1>3 DEF good
<1>8. d \in DaysOf(kept) => lines # << >>
  <2> SUFFICES ASSUME d \in DaysOf(kept), lines = << >>
               PROVE  FALSE
    OBVIOUS
  <2>1. PICK t \in ToSet(kept) : dayKey(t) = d
    BY <1>2
  <2>2. t \in ToSet(lines)
    BY <1>7, <2>1
  <2> QED
    BY <2>2 DEF ToSet
<1> QED
  BY <1>5, <1>6, <1>7, <1>8, Zenon DEF lines

\* The first lines of some.
LEMMA FirstLines ==
  ASSUME NEW lines \in Seq(Time), Increasing(lines), NEW n \in Nat, n < Len(lines)
  PROVE  /\ SubSeq(lines, 1, n) \in Seq(Time) /\ Increasing(SubSeq(lines, 1, n))
         /\ ToSet(SubSeq(lines, 1, n)) \subseteq ToSet(lines)
         /\ lines[n + 1] \in ToSet(lines)
<1> DEFINE first == SubSeq(lines, 1, n)
           m == Len(lines)
<1>1. /\ first \in Seq(Time) /\ DOMAIN first = 1 .. n /\ \A i \in 1 .. n : first[i] = lines[i]
      /\ DOMAIN lines = 1 .. m /\ m \in Nat
  OBVIOUS
<1>2. n < m
  OBVIOUS
<1> HIDE DEF first, m
<1>3. (\A i \in 1 .. n : i \in 1 .. m) /\ n + 1 \in 1 .. m
  BY <1>1, <1>2
<1>4. Increasing(first)
  <2>1. \A i, j \in 1 .. n : i < j => lines[i] < lines[j]
    BY <1>1, <1>3, Zenon DEF Increasing
  <2>2. \A i, j \in 1 .. n : i < j => first[i] < first[j]
    BY <1>1, <2>1
  <2> QED
    BY <1>1, <2>2, Zenon DEF Increasing
<1>5. ToSet(first) \subseteq ToSet(lines) /\ lines[n + 1] \in ToSet(lines)
  BY <1>1, <1>3 DEF ToSet
<1> QED
  BY <1>1, <1>4, <1>5, Zenon DEF first

(***************************************************************************)
(* What a write of readings of day d makes of its file, whole or cut       *)
(* short: it adds some of them and costs nothing but an unterminated line. *)
(***************************************************************************)
DayWritten(new, file, kept, d) ==
  /\ new \in File /\ new # None
  /\ Readable(new) \subseteq Readable(file) \cup {t \in ToSet(kept) : dayKey(t) = d}
  /\ \A t \in Readable(file) : t \in Readable(new) \/ (file # None /\ file.tail = t)
  /\ Spoilt(file) => Spoilt(new)

\* The write of a day by append, which adds all of the day unless a line is spoilt.
LEMMA DayAppended ==
  ASSUME NEW file \in File \cup {None}, NEW kept \in Seq(Time), Increasing(kept),
         NEW d \in DaysOf(kept), NEW new, new = Appended(file, OfDay(kept, d), None)
  PROVE  /\ DayWritten(new, file, kept, d)
         /\ Whole(file) /\ NewerThan(kept, file) => Whole(new)
         /\ \/ {t \in ToSet(kept) : dayKey(t) = d} \subseteq Readable(new)
            \/ Spoilt(new) /\ file # None
<1> DEFINE lines == OfDay(kept, d)
<1>1. /\ lines \in Seq(Time) /\ Increasing(lines) /\ lines # << >>
      /\ ToSet(lines) = {t \in ToSet(kept) : dayKey(t) = d}
  BY LinesOfDay, Zenon
<1> HIDE DEF lines
<1>2. new = Appended(file, lines, None)
  BY Zenon DEF lines
<1>3. None \in Time \cup {Bad, None} /\ None \notin Time
  <2>1. None \notin Time
    BY ConstantTypes
  <2> QED
    BY <2>1
<1>4. AppendsTo(new, file, lines, None)
  BY <1>1, <1>2, <1>3, AppendedFile, ZenonT(30)
<1>5. /\ new \in File /\ new # None
      /\ Readable(new) \subseteq Readable(file) \cup ToSet(lines) \cup ({None} \cap Time)
      /\ \A t \in Readable(file) : t \in Readable(new) \/ (file # None /\ file.tail = t)
      /\ Spoilt(file) => Spoilt(new)
      /\ ToSet(lines) \subseteq Readable(new) \/ Spoilt(new)
      /\ file = None => ToSet(lines) \subseteq Readable(new)
  <2>1. Adds(new, file, lines, None)
    BY <1>1, <1>3, <1>4, WriteAdds, ZenonT(30)
  <2> QED
    BY <2>1, Zenon DEF Adds
<1>6. DayWritten(new, file, kept, d)
  <2>1. Readable(new) \subseteq Readable(file) \cup ToSet(lines)
    BY <1>3, <1>5
  <2> QED
    BY <1>1, <1>5, <2>1, Zenon DEF DayWritten
<1>7. ASSUME Whole(file), NewerThan(kept, file)
      PROVE  Whole(new)
  <2>1. new.tail \notin Time
    BY <1>1, <1>3, <1>4, Zenon DEF AppendsTo
  <2>2. new.lines # << >>
    <3>1. PICK ext : new.lines = Lines(file) \o ext /\ Extension(ext, lines) /\ ext # << >>
      BY <1>1, <1>4, Zenon DEF AppendsTo
    <3>2. ext \in Seq(Time \cup {Bad}) /\ Lines(file) \in Seq(Time \cup {Bad})
      BY <3>1 DEF Extension, Lines, File
    <3> QED
      BY <3>1, <3>2
  <2>3. NewerThan(lines, file)
    BY <1>1, <1>7 DEF NewerThan
  <2>4. BeginsWhole(new)
    BY <2>1, <2>2, Zenon DEF BeginsWhole
  <2> QED
    <3>1. LeavesWhole(new, file, lines, None)
      BY <1>1, <1>3, <1>4, WriteLeavesWhole, ZenonT(30)
    <3> QED
      BY <1>7, <2>3, <2>4, <3>1, Zenon DEF LeavesWhole
<1> QED
  BY <1>1, <1>5, <1>6, <1>7, Zenon

\* A write cut behind n lines and tail adds, and leaves a file whole if its end is.
CutWritten(new, file, kept, d, n, tail) ==
  /\ DayWritten(new, file, kept, d)
  /\ Whole(file) /\ NewerThan(kept, file) /\ BeginsWhole(new) => Whole(new)

\* The write of a day cut short does.
LEMMA DayCutShort ==
  ASSUME NEW file \in File \cup {None}, NEW kept \in Seq(Time), Increasing(kept),
         NEW d \in DaysOf(kept), NEW n \in Nat, n < Len(OfDay(kept, d)),
         NEW tail \in {None, Bad, OfDay(kept, d)[n + 1]},
         NEW new, new = Appended(file, SubSeq(OfDay(kept, d), 1, n), tail)
  PROVE  CutWritten(new, file, kept, d, n, tail)
<1> DEFINE all == OfDay(kept, d)
           lines == SubSeq(all, 1, n)
<1>1. /\ all \in Seq(Time) /\ Increasing(all)
      /\ ToSet(all) = {t \in ToSet(kept) : dayKey(t) = d}
  BY LinesOfDay, Zenon
<1>2. /\ n < Len(all) /\ tail \in {None, Bad, all[n + 1]}
      /\ new = Appended(file, lines, tail)
  OBVIOUS
<1> HIDE DEF all
<1>3. /\ lines \in Seq(Time) /\ Increasing(lines)
      /\ ToSet(lines) \subseteq ToSet(all) /\ all[n + 1] \in ToSet(all)
  BY <1>1, <1>2, FirstLines, ZenonT(30)
<1>4. /\ Bad \notin Time /\ None \notin Time /\ ToSet(all) \subseteq Time
  <2>1. ToSet(all) \subseteq Time
    BY <1>1 DEF ToSet
  <2>2. Bad \notin Time /\ None \notin Time
    BY ConstantTypes
  <2> QED
    BY <2>1, <2>2
<1>5. tail \in Time \cup {Bad, None} /\ {tail} \cap Time \subseteq ToSet(all)
  BY <1>2, <1>3, <1>4
<1> HIDE DEF lines
<1>6. AppendsTo(new, file, lines, tail)
  BY <1>2, <1>3, <1>5, AppendedFile, ZenonT(30)
<1>7. /\ new \in File /\ new # None
      /\ Readable(new) \subseteq Readable(file) \cup ToSet(lines) \cup ({tail} \cap Time)
      /\ \A t \in Readable(file) : t \in Readable(new) \/ (file # None /\ file.tail = t)
      /\ Spoilt(file) => Spoilt(new)
  <2>1. Adds(new, file, lines, tail)
    BY <1>3, <1>5, <1>6, WriteAdds, ZenonT(30)
  <2> QED
    BY <2>1, Zenon DEF Adds
<1>8. DayWritten(new, file, kept, d)
  <2>1. Readable(new) \subseteq Readable(file) \cup ToSet(all)
    BY <1>3, <1>5, <1>7
  <2> QED
    BY <1>1, <1>7, <2>1, Zenon DEF DayWritten
<1>9. ASSUME Whole(file), NewerThan(kept, file), BeginsWhole(new)
      PROVE  Whole(new)
  <2>1. NewerThan(lines, file)
    BY <1>1, <1>3, <1>9 DEF NewerThan
  <2> QED
    <3>1. LeavesWhole(new, file, lines, tail)
      BY <1>3, <1>5, <1>6, WriteLeavesWhole, ZenonT(30)
    <3> QED
      BY <1>9, <2>1, <3>1, Zenon DEF LeavesWhole
<1> QED
  BY <1>8, <1>9, Zenon DEF CutWritten

-----------------------------------------------------------------------------
\* The files of a sensor, and the readings in them.
Files == [Day -> File \cup {None}]
Stored(f) == UNION {Readable(f[d]) : d \in Day}

\* TypeOK with the files as functions.
DiskTyped == disk \in [Sensor -> Files]

OthersTyped ==
  /\ up \in BOOLEAN
  /\ lastTimestamps \in [Sensor -> 0 .. MaxTime]
  /\ oldestStored \in Time \cup {None}
  /\ restarts \in 0 .. MaxRestarts
  /\ cuts \in 0 .. MaxCuts
  /\ injured \subseteq Sensor

\* Every reading is in the file of its day.
FilesPlaced == \A s \in Sensor, d \in Day : Placed(disk[s][d], d)

\* The files no cut write has put at risk are whole.
FilesWhole == \A s \in Sensor \ injured, d \in Day : Whole(disk[s][d])

(***************************************************************************)
(* last is no older than anything in the files f and in them itself,       *)
(* unless a line of them is spoilt.                                        *)
(***************************************************************************)
NewestOf(last, f) ==
  /\ \A t \in Stored(f) : t <= last
  /\ last # 0 => last \in Stored(f) \/ \E d \in Day : Spoilt(f[d])

NewestKnown == up => \A s \in Sensor \ injured : NewestOf(lastTimestamps[s], disk[s])

\* oldest is the oldest in all files, or None if there is nothing in them.
OldestIn(oldest, files) ==
  LET stored == UNION {Stored(files[s]) : s \in Sensor}
  IN  IF oldest = None THEN stored = {}
      ELSE oldest \in stored /\ \A t \in stored : oldest <= t

OldestKnown == up /\ injured = {} => OldestIn(oldestStored, disk)

\* The inductive invariant.
IInv ==
  /\ DiskTyped /\ OthersTyped /\ FilesPlaced /\ FilesWhole /\ NewestKnown /\ OldestKnown

-----------------------------------------------------------------------------
\* readDayFile returns what of the file can be read.
LEMMA DayFileRead ==
  ASSUME DiskTyped, NEW s \in Sensor, NEW d \in Day
  PROVE  /\ readDayFile(s, d) \in Seq(Time)
         /\ ToSet(readDayFile(s, d)) = Readable(disk[s][d])
         /\ Whole(disk[s][d]) => Increasing(readDayFile(s, d))
<1>1. CASE disk[s][d] = None
  <2>1. readDayFile(s, d) = << >> /\ Readable(disk[s][d]) = {}
    BY <1>1, Zenon DEF readDayFile, Readable
  <2>2. << >> \in Seq(Time) /\ ToSet(<< >>) = {} /\ Increasing(<< >>)
    BY DEF ToSet, Increasing
  <2> QED
    BY <2>1, <2>2
<1>2. CASE disk[s][d] # None
  <2>1. disk[s][d] \in File /\ readDayFile(s, d) = Parsed(disk[s][d])
    BY <1>2 DEF readDayFile, DiskTyped, Files
  <2> QED
    BY <2>1, ParsedFile, Zenon
<1> QED
  BY <1>1, <1>2

\* The files of a sensor, in the order of their names.
Parts(s) == [i \in 1 .. dayKey(MaxTime) + 1 |-> readDayFile(s, i - 1)]

\* There are as many as days, and Archive is them end to end.
LEMMA PartsOfArchive ==
  ASSUME DiskTyped, NEW s \in Sensor
  PROVE  /\ Parts(s) \in Seq(Seq(Time)) /\ Parts(s) # << >>
         /\ Len(Parts(s)) = dayKey(MaxTime) + 1
         /\ \A i \in 1 .. Len(Parts(s)) : i - 1 \in Day /\ Parts(s)[i] = readDayFile(s, i - 1)
         /\ Archive(s) = FlattenSeq(Parts(s))
         /\ \A d \in Day : d + 1 \in 1 .. Len(Parts(s)) /\ Parts(s)[d + 1] = readDayFile(s, d)
<1> DEFINE n == dayKey(MaxTime) + 1
           parts == [i \in 1 .. n |-> readDayFile(s, i - 1)]
<1>1. n \in Nat /\ n > 0 /\ dayKey(MaxTime) = n - 1
  BY DayKeys
<1>2. Parts(s) = parts /\ Archive(s) = FlattenSeq(parts)
  BY Zenon DEF Archive, Parts
<1>3. Day = 0 .. n - 1
  BY <1>1 DEF Day
<1> HIDE DEF n
<1>4. \A i \in 1 .. n : i - 1 \in Day
  BY <1>1, <1>3
<1>5. \A i \in 1 .. n : parts[i] = readDayFile(s, i - 1) /\ parts[i] \in Seq(Time)
  BY <1>4, DayFileRead
<1>6. parts \in Seq(Seq(Time)) /\ Len(parts) = n
  <2> HIDE DEF parts
  <2>1. DOMAIN parts = 1 .. n /\ parts = [i \in 1 .. n |-> parts[i]]
    BY DEF parts
  <2> QED
    BY <1>1, <1>5, <2>1
<1>7. \A d \in Day : d + 1 \in 1 .. n /\ (d + 1) - 1 = d
  BY <1>1, <1>3
<1>8. \A d \in Day : parts[d + 1] = readDayFile(s, d)
  BY <1>5, <1>7
<1> HIDE DEF parts
<1>9. parts # << >>
  BY <1>1, <1>6
<1>10. Len(Parts(s)) = n
  BY <1>2, <1>6, Zenon
<1> QED
  BY <1>2, <1>4, <1>5, <1>6, <1>7, <1>8, <1>9, <1>10, Zenon DEF n

\* What can be read of the files of a sensor.
LEMMA ArchiveReadings ==
  ASSUME DiskTyped, NEW s \in Sensor
  PROVE  Archive(s) \in Seq(Time) /\ ToSet(Archive(s)) = Stored(disk[s])
<1> DEFINE parts == Parts(s)
           n == Len(parts)
<1>1. /\ parts \in Seq(Seq(Time)) /\ parts # << >>
      /\ \A i \in 1 .. n : i - 1 \in Day /\ parts[i] = readDayFile(s, i - 1)
      /\ Archive(s) = FlattenSeq(parts)
      /\ \A d \in Day : d + 1 \in 1 .. n /\ parts[d + 1] = readDayFile(s, d)
  BY PartsOfArchive, Zenon
<1> HIDE DEF parts
<1>2. /\ FlattenSeq(parts) \in Seq(Time)
      /\ ToSet(FlattenSeq(parts)) = UNION {ToSet(parts[i]) : i \in 1 .. n}
  BY <1>1, FlattenElements
<1> HIDE DEF n
<1>3. \A d \in Day : ToSet(readDayFile(s, d)) = Readable(disk[s][d])
  BY DayFileRead, Zenon
<1>4. UNION {ToSet(parts[i]) : i \in 1 .. n} = Stored(disk[s])
  <2>1. \A i \in 1 .. n : ToSet(parts[i]) = Readable(disk[s][i - 1])
    BY <1>1, <1>3, Zenon
  <2>2. \A d \in Day : ToSet(parts[d + 1]) = Readable(disk[s][d])
    BY <1>1, <1>3, Zenon
  <2> QED
    BY <1>1, <2>1, <2>2 DEF Stored
<1> QED
  BY <1>1, <1>2, <1>4, Zenon

\* They are in order if the files are whole and the readings are placed.
LEMMA ArchiveIncreases ==
  ASSUME DiskTyped, NEW s \in Sensor,
         \A d \in Day : Placed(disk[s][d], d) /\ Whole(disk[s][d])
  PROVE  Increasing(Archive(s))
<1> DEFINE parts == Parts(s)
           n == Len(parts)
<1>1. /\ parts \in Seq(Seq(Time)) /\ parts # << >>
      /\ \A i \in 1 .. n : i - 1 \in Day /\ parts[i] = readDayFile(s, i - 1)
      /\ Archive(s) = FlattenSeq(parts)
  BY PartsOfArchive, Zenon
<1> HIDE DEF parts
<1>2. \A d \in Day : /\ ToSet(readDayFile(s, d)) = Readable(disk[s][d])
                     /\ Increasing(readDayFile(s, d))
  BY DayFileRead, Zenon
<1>3. \A i \in 1 .. n : Increasing(parts[i])
  BY <1>1, <1>2, Zenon
<1>4. ASSUME NEW i \in 1 .. n, NEW j \in 1 .. n, i < j,
             NEW x \in ToSet(parts[i]), NEW y \in ToSet(parts[j])
      PROVE  x < y
  <2>1. /\ i - 1 \in Day /\ x \in Readable(disk[s][i - 1])
        /\ j - 1 \in Day /\ y \in Readable(disk[s][j - 1])
    BY <1>1, <1>2, Zenon
  <2>2. dayKey(x) = i - 1 /\ dayKey(y) = j - 1
    BY <2>1, Zenon DEF Placed
  <2>3. x \in Time /\ y \in Time
    BY <2>1 DEF Readable
  <2>4. dayKey(x) < dayKey(y)
    BY <1>1, <1>4, <2>2
  <2> QED
    BY <2>3, <2>4, DaysOrderReadings, Zenon
<1>5. Increasing(FlattenSeq(parts))
  BY <1>1, <1>3, <1>4, FlattenIncreasing
<1> QED
  BY <1>1, <1>5, Zenon

-----------------------------------------------------------------------------
\* The last of increasing numbers is the greatest.
LEMMA LastIsGreatest ==
  ASSUME NEW all \in Seq(Time), Increasing(all), all # << >>
  PROVE  Last(all) \in ToSet(all) /\ \A t \in ToSet(all) : t <= Last(all)
<1> DEFINE n == Len(all)
<1>1. /\ DOMAIN all = 1 .. n /\ n \in Nat /\ n \in 1 .. n /\ Last(all) = all[n]
      /\ \A i \in 1 .. n : all[i] \in Time
  BY DEF Last
<1> HIDE DEF n
<1>2. ASSUME NEW i \in 1 .. n
      PROVE  all[i] <= all[n]
  <2>1. all[i] \in Int /\ all[n] \in Int
    BY <1>1 DEF Time
  <2>2. CASE i = n
    BY <2>1, <2>2
  <2>3. CASE i # n
    <3>1. i < n
      BY <1>1, <2>3
    <3>2. all[i] < all[n]
      BY <1>1, <3>1, Zenon DEF Increasing
    <3> QED
      BY <2>1, <3>2
  <2> QED
    BY <2>2, <2>3
<1> QED
  BY <1>1, <1>2 DEF ToSet

\* In a state of the invariant the readings of a sensor not at risk are in order.
LEMMA InvariantOrder ==
  ASSUME IInv
  PROVE  OneCopyInOrder
<1> SUFFICES ASSUME NEW s \in Sensor \ injured
             PROVE  Increasing(Archive(s))
  BY Zenon DEF OneCopyInOrder, Increasing
<1>1. \A d \in Day : Placed(disk[s][d], d) /\ Whole(disk[s][d])
  BY DEF IInv, FilesPlaced, FilesWhole
<1> QED
  BY <1>1, ArchiveIncreases DEF IInv

\* What counts as a swallowed reading is a spoilt file.
LEMMA SwallowedIsSpoilt ==
  ASSUME DiskTyped, NEW s \in Sensor
  PROVE  Swallowed(s) <=> \E d \in Day : Spoilt(disk[s][d])
<1>1. ASSUME NEW d \in Day
      PROVE  Spoilt(disk[s][d]) <=> /\ disk[s][d] # None
                                    /\ \E i \in DOMAIN disk[s][d].lines :
                                         disk[s][d].lines[i] = Bad
  <2>1. CASE disk[s][d] = None
    <3>1. ToSet(<< >>) = {}
      BY DEF ToSet
    <3> QED
      BY <2>1, <3>1 DEF Spoilt, Lines
  <2>2. CASE disk[s][d] # None
    BY <2>2 DEF Spoilt, Lines, ToSet
  <2> QED
    BY <2>1, <2>2
<1>2. dayFiles(s) = {d \in Day : disk[s][d] # None}
  BY Zenon DEF dayFiles
<1> QED
  BY <1>1, <1>2, Zenon DEF Swallowed

\* What the memory takes for the newest is the newest on disk, or a swallowed one.
LEMMA InvariantNewest ==
  ASSUME IInv
  PROVE  MemoryKnowsDisk
<1> SUFFICES ASSUME up, NEW s \in Sensor \ injured
             PROVE  LET all == Archive(s)
                        newest == IF all = << >> THEN 0 ELSE Last(all)
                    IN  /\ newest <= lastTimestamps[s]
                        /\ ~Swallowed(s) => newest = lastTimestamps[s]
  BY Zenon DEF MemoryKnowsDisk
<1> DEFINE all == Archive(s)
           last == lastTimestamps[s]
           newest == IF all = << >> THEN 0 ELSE Last(all)
           spoilt == \E d \in Day : Spoilt(disk[s][d])
<1>1. /\ DiskTyped /\ last \in 0 .. MaxTime /\ NewestOf(last, disk[s])
      /\ \A d \in Day : Placed(disk[s][d], d) /\ Whole(disk[s][d])
  BY DEF IInv, OthersTyped, NewestKnown, FilesPlaced, FilesWhole
<1>2. all \in Seq(Time) /\ ToSet(all) = Stored(disk[s]) /\ Increasing(all)
  BY <1>1, ArchiveReadings, ArchiveIncreases
<1>3. Swallowed(s) <=> spoilt
  BY <1>1, SwallowedIsSpoilt, Zenon
<1>4. \A t \in ToSet(all) : t \in Time
  BY <1>2 DEF ToSet
<1> HIDE DEF all, last, spoilt
<1>5. /\ \A t \in ToSet(all) : t <= last
      /\ last # 0 => last \in ToSet(all) \/ spoilt
  BY <1>1, <1>2, Zenon DEF NewestOf, spoilt
<1>6. last \in Int /\ 0 <= last
  BY <1>1, ConstantTypes
<1>7. CASE all = << >>
  <2>1. ToSet(all) = {} /\ newest = 0
    BY <1>7 DEF ToSet
  <2> QED
    BY <1>3, <1>5, <1>6, <2>1 DEF all, last
<1>8. CASE all # << >>
  <2>1. newest = Last(all) /\ newest \in ToSet(all) /\ \A t \in ToSet(all) : t <= newest
    BY <1>2, <1>8, LastIsGreatest
  <2>2. newest \in Int /\ newest > 0 /\ newest <= last
    BY <1>4, <1>5, <2>1 DEF Time
  <2>3. ~spoilt => newest = last
    <3> SUFFICES ASSUME ~spoilt
                 PROVE  last <= newest
      BY <1>6, <2>2
    <3> QED
      BY <1>5, <1>6, <2>1, <2>2
  <2> HIDE DEF newest
  <2>4. newest <= last /\ (~Swallowed(s) => newest = last)
    BY <1>3, <2>2, <2>3
  <2> QED
    BY <2>4, Zenon DEF all, last, newest
<1> QED
  BY <1>7, <1>8

\* What the memory takes for the oldest is the oldest on disk.
LEMMA InvariantOldest ==
  ASSUME IInv
  PROVE  OldestKnowsDisk
<1> DEFINE stored == UNION {ToSet(Archive(s)) : s \in Sensor}
           kept == UNION {Stored(disk[s]) : s \in Sensor}
<1>1. stored = kept
  BY ArchiveReadings DEF IInv
<1>2. up /\ injured = {} => IF oldestStored = None THEN kept = {}
                            ELSE oldestStored \in kept /\ \A t \in kept : oldestStored <= t
  BY Zenon DEF IInv, OldestKnown, OldestIn
<1> HIDE DEF stored, kept
<1>3. up /\ injured = {} =>
        IF stored = {} THEN oldestStored = None
        ELSE oldestStored \in stored /\ \A t \in stored : oldestStored <= t
  BY <1>1, <1>2
<1> QED
  BY <1>3, Zenon DEF OldestKnowsDisk, stored

\* The type invariant follows.
LEMMA InvariantTypes ==
  ASSUME IInv
  PROVE  TypeOK
<1>1. \A s \in Sensor, d \in Day : disk[s][d] \in File \cup {None}
  BY DEF IInv, DiskTyped, Files
<1> QED
  BY <1>1, Zenon DEF IInv, OthersTyped, TypeOK

-----------------------------------------------------------------------------
(***************************************************************************)
(* A range query opens only the files its days name, and leaves none of    *)
(* its readings out: a reading is in the file of its day.                  *)
(***************************************************************************)
LEMMA RangeOfArchive ==
  ASSUME DiskTyped, NEW s \in Sensor, \A d \in Day : Placed(disk[s][d], d),
         NEW from \in Nat, NEW to \in Nat
  PROVE  readRange(s, from, to) = Selected(Archive(s), from .. to)
<1> DEFINE parts == Parts(s)
           n == Len(parts)
           times == from .. to
           days == dayKey(from) .. dayKey(to)
           chosen == [i \in 1 .. dayKey(MaxTime) + 1 |->
                        IF i - 1 \in dayFiles(s) \cap days
                        THEN Selected(readDayFile(s, i - 1), times) ELSE << >>]
<1>1. /\ parts \in Seq(Seq(Time)) /\ parts # << >> /\ n = dayKey(MaxTime) + 1
      /\ \A i \in 1 .. n : i - 1 \in Day /\ parts[i] = readDayFile(s, i - 1)
      /\ Archive(s) = FlattenSeq(parts)
  BY PartsOfArchive, Zenon
<1>2. readRange(s, from, to) = FlattenSeq(chosen)
  BY Zenon DEF readRange, InRange
<1> HIDE DEF parts
<1>3. n \in Nat /\ \A i \in 1 .. n : parts[i] \in Seq(Time)
  BY <1>1
<1> HIDE DEF n, times, days
<1>4. DOMAIN chosen = 1 .. n
  BY <1>1
<1>5. \A i \in 1 .. n : chosen[i] = IF i - 1 \in dayFiles(s) \cap days
                                    THEN Selected(readDayFile(s, i - 1), times) ELSE << >>
  BY <1>1
<1>6. chosen = [i \in 1 .. n |-> chosen[i]]
  BY <1>1
<1> HIDE DEF chosen
<1>7. ASSUME NEW i \in 1 .. n
      PROVE  chosen[i] = Selected(parts[i], times)
  <2>1. i - 1 \in Day /\ parts[i] = readDayFile(s, i - 1) /\ parts[i] \in Seq(Time)
    BY <1>1, <1>3
  <2>2. CASE i - 1 \in dayFiles(s) \cap days
    BY <1>5, <2>1, <2>2, Zenon
  <2>3. CASE i - 1 \notin dayFiles(s) \cap days
    <3>1. ToSet(parts[i]) = Readable(disk[s][i - 1])
      BY <2>1, DayFileRead, Zenon
    <3>2. ToSet(parts[i]) \cap times = {}
      <4> SUFFICES ASSUME NEW t \in Readable(disk[s][i - 1]), t \in times
                   PROVE  FALSE
        BY <3>1
      <4>1. disk[s][i - 1] # None /\ t \in Time /\ dayKey(t) = i - 1
        BY <2>1 DEF Readable, Placed
      <4>2. i - 1 \in dayFiles(s)
        BY <2>1, <4>1, Zenon DEF dayFiles
      <4>3. from <= t /\ t <= to
        BY DEF times, Time
      <4>4. /\ dayKey(from) <= dayKey(t) /\ dayKey(t) <= dayKey(to)
            /\ dayKey(from) \in Nat /\ dayKey(t) \in Nat /\ dayKey(to) \in Nat
        <5>1. t \in Nat
          BY <4>1, ConstantTypes, Zenon
        <5> QED
          BY <4>3, <5>1, DaysOfTimes, Zenon
      <4>5. i - 1 \in days
        BY <4>1, <4>4 DEF days
      <4> QED
        BY <2>3, <4>2, <4>5
    <3>3. Selected(parts[i], times) = << >>
      BY <2>1, <3>2, SelectedNone, Zenon
    <3> QED
      BY <1>5, <2>3, <3>3, Zenon
  <2> QED
    BY <2>2, <2>3
<1>8. \A i \in 1 .. n : chosen[i] \in Seq(Time)
  <2> SUFFICES ASSUME NEW i \in 1 .. n
               PROVE  chosen[i] \in Seq(Time)
    OBVIOUS
  <2>1. parts[i] \in Seq(Time) /\ chosen[i] = Selected(parts[i], times)
    BY <1>3, <1>7
  <2>2. Selected(parts[i], times) \in Seq(Time \cap times)
    BY <2>1, SelectedSet, Zenon
  <2> QED
    BY <2>1, <2>2
<1>9. chosen \in Seq(Seq(Time)) /\ Len(chosen) = n
  BY <1>3, <1>4, <1>6, <1>8
<1>10. \A i \in 1 .. Len(parts) : chosen[i] = Selected(parts[i], times)
  BY <1>7, Zenon DEF n
<1>11. FlattenSeq(chosen) = Selected(FlattenSeq(parts), times)
  BY <1>1, <1>9, <1>10, FlattenSelected, ZenonT(30) DEF n
<1> QED
  BY <1>1, <1>2, <1>11, Zenon DEF times

\* In a state of the invariant every range is found.
LEMMA InvariantRange ==
  ASSUME IInv
  PROVE  RangeFindsAll
<1>1. DiskTyped /\ \A s \in Sensor, d \in Day : Placed(disk[s][d], d)
  BY Zenon DEF IInv, FilesPlaced
<1> QED
  BY <1>1, ConstantTypes, RangeOfArchive, Zenon DEF RangeFindsAll

-----------------------------------------------------------------------------
\* Nothing is stored at first.
LEMMA InitInvariant == Init => IInv
<1> SUFFICES ASSUME Init
             PROVE  IInv
  OBVIOUS
<1>1. /\ disk = [s \in Sensor |-> [d \in Day |-> None]] /\ up = FALSE
      /\ lastTimestamps = [s \in Sensor |-> 0] /\ oldestStored = None
      /\ restarts = 0 /\ cuts = 0 /\ injured = {}
  BY Zenon DEF Init
<1>2. DiskTyped
  BY <1>1 DEF DiskTyped, Files
<1>3. OthersTyped
  <2>1. 0 \in 0 .. MaxRestarts /\ 0 \in 0 .. MaxCuts /\ 0 \in 0 .. MaxTime
    BY ConstantTypes
  <2>2. lastTimestamps \in [Sensor -> 0 .. MaxTime] /\ oldestStored \in Time \cup {None}
    BY <1>1, <2>1
  <2> QED
    BY <1>1, <2>1, <2>2 DEF OthersTyped
<1>4. \A s \in Sensor, d \in Day : disk[s][d] = None
  BY <1>1
<1>5. FilesPlaced /\ FilesWhole
  BY <1>4 DEF FilesPlaced, FilesWhole, Placed, Whole, Readable
<1>6. NewestKnown /\ OldestKnown
  BY <1>1, Zenon DEF NewestKnown, OldestKnown
<1> QED
  BY <1>2, <1>3, <1>5, <1>6, Zenon DEF IInv

-----------------------------------------------------------------------------
(***************************************************************************)
(* What an append, whole or cut short, makes of the files of a sensor.     *)
(***************************************************************************)
Wrote(g, f, kept) ==
  /\ g \in Files
  /\ \A d \in Day : g[d] = f[d] \/ DayWritten(g[d], f[d], kept, d)

\* Readings newer than what is in any file.
NewerThanAll(kept, f) == \A d \in Day : NewerThan(kept, f[d])

(***************************************************************************)
(* It leaves readings placed and costs none, but for an unterminated line. *)
(***************************************************************************)
LEMMA WroteFiles ==
  ASSUME NEW f \in Files, NEW g, NEW kept, Wrote(g, f, kept)
  PROVE  /\ (\A d \in Day : Placed(f[d], d)) => \A d \in Day : Placed(g[d], d)
         /\ Stored(g) \subseteq Stored(f) \cup ToSet(kept)
         /\ (\A d \in Day : Whole(f[d])) => Stored(f) \subseteq Stored(g)
<1>1. ASSUME NEW d \in Day
      PROVE  /\ Readable(g[d]) \subseteq Readable(f[d]) \cup {t \in ToSet(kept) : dayKey(t) = d}
             /\ \A t \in Readable(f[d]) : t \in Readable(g[d]) \/ (f[d] # None /\ f[d].tail = t)
  <2>1. CASE g[d] = f[d]
    BY <2>1
  <2>2. CASE DayWritten(g[d], f[d], kept, d)
    BY <2>2, Zenon DEF DayWritten
  <2> QED
    BY <2>1, <2>2 DEF Wrote
<1>2. (\A d \in Day : Placed(f[d], d)) => \A d \in Day : Placed(g[d], d)
  BY <1>1 DEF Placed
<1>3. Stored(g) \subseteq Stored(f) \cup ToSet(kept)
  BY <1>1 DEF Stored
<1>4. ASSUME \A d \in Day : Whole(f[d])
      PROVE  Stored(f) \subseteq Stored(g)
  <2>1. ASSUME NEW d \in Day, NEW t \in Readable(f[d])
        PROVE  t \in Readable(g[d])
    <3>1. t \in Time
      BY DEF Readable
    <3>2. f[d] # None => f[d].tail \notin Time
      BY <1>4, Zenon DEF Whole
    <3> QED
      BY <1>1, <3>1, <3>2
  <2> QED
    BY <2>1 DEF Stored
<1> QED
  BY <1>2, <1>3, <1>4

\* The days append writes.
LEMMA DaysAppended ==
  ASSUME NEW f \in Files, NEW kept \in Seq(Time), Increasing(kept),
         NEW days, days \subseteq DaysOf(kept),
         NEW g, g = [d \in Day |-> IF d \in days THEN Appended(f[d], OfDay(kept, d), None)
                                   ELSE f[d]]
  PROVE  /\ Wrote(g, f, kept)
         /\ \A d \in Day : Whole(f[d]) /\ NewerThan(kept, f[d]) => Whole(g[d])
         /\ \A d \in Day \cap days :
              \/ {t \in ToSet(kept) : dayKey(t) = d} \subseteq Readable(g[d])
              \/ Spoilt(g[d]) /\ f[d] # None
<1>1. \A d \in Day : f[d] \in File \cup {None}
  BY DEF Files
<1>2. ASSUME NEW d \in Day, d \in days
      PROVE  /\ DayWritten(g[d], f[d], kept, d)
             /\ Whole(f[d]) /\ NewerThan(kept, f[d]) => Whole(g[d])
             /\ \/ {t \in ToSet(kept) : dayKey(t) = d} \subseteq Readable(g[d])
                \/ Spoilt(g[d]) /\ f[d] # None
  <2>1. g[d] = Appended(f[d], OfDay(kept, d), None) /\ d \in DaysOf(kept)
    BY <1>2
  <2> DEFINE file == f[d]
             new == g[d]
  <2>2. file \in File \cup {None} /\ new = Appended(file, OfDay(kept, d), None)
    BY <1>1, <2>1
  <2> HIDE DEF file, new
  <2>3. /\ DayWritten(new, file, kept, d)
        /\ Whole(file) /\ NewerThan(kept, file) => Whole(new)
        /\ \/ {t \in ToSet(kept) : dayKey(t) = d} \subseteq Readable(new)
           \/ Spoilt(new) /\ file # None
    BY <2>1, <2>2, DayAppended
  <2> QED
    BY <2>3, Zenon DEF file, new
<1>3. \A d \in Day : d \notin days => g[d] = f[d]
  OBVIOUS
<1>4. \A d \in Day : g[d] \in File \cup {None}
  BY <1>1, <1>2, <1>3 DEF DayWritten
<1>5. g \in Files
  BY <1>4 DEF Files
<1>6. Wrote(g, f, kept)
  BY <1>2, <1>3, <1>5, Zenon DEF Wrote
<1> QED
  BY <1>2, <1>3, <1>6

\* What append takes for the newest afterwards is right.
LEMMA NewestAppended ==
  ASSUME NEW f \in Files, NEW last \in Nat, NEW kept, OrderedAfter(kept, last),
         NewestOf(last, f),
         NEW g, g = [d \in Day |-> IF d \in DaysOf(kept)
                                   THEN Appended(f[d], OfDay(kept, d), None) ELSE f[d]]
  PROVE  NewestOf(NewestWith(last, kept), g)
<1>1. /\ kept \in Seq(Time) /\ Increasing(kept) /\ \A t \in ToSet(kept) : last < t
      /\ ToSet(kept) \subseteq Time
  BY DEF OrderedAfter, ToSet
<1>2. /\ Wrote(g, f, kept)
      /\ \A d \in Day \cap DaysOf(kept) :
              \/ {t \in ToSet(kept) : dayKey(t) = d} \subseteq Readable(g[d])
              \/ Spoilt(g[d]) /\ f[d] # None
  BY <1>1, DaysAppended
<1>3. CASE kept = << >>
  <2>1. DaysOf(kept) = {} /\ NewestWith(last, kept) = last
    BY <1>3 DEF DaysOf, NewestWith
  <2>2. g = f
    BY <2>1 DEF Files
  <2> QED
    BY <2>1, <2>2
<1>4. CASE kept # << >>
  <2> DEFINE newest == Last(kept)
             d == dayKey(newest)
  <2>1. newest \in ToSet(kept) /\ \A t \in ToSet(kept) : t <= newest
    BY <1>1, <1>4, LastIsGreatest
  <2> HIDE DEF newest
  <2>2. newest \in Time /\ last < newest /\ newest \in Nat
    BY <1>1, <2>1 DEF Time
  <2>3. d \in Day /\ d \in DaysOf(kept)
    <3>1. d \in Day
      BY <2>2, DayKeys
    <3>2. DaysOf(kept) = {dayKey(t) : t \in ToSet(kept)}
      BY DEF DaysOf, ToSet
    <3> QED
      BY <2>1, <3>1, <3>2
  <2>4. newest \in Stored(g) \/ \E e \in Day : Spoilt(g[e])
    BY <1>2, <2>1, <2>3 DEF Stored
  <2>5. \A t \in Stored(g) : t <= newest
    <3>1. Stored(g) \subseteq Stored(f) \cup ToSet(kept)
      BY <1>2, WroteFiles
    <3>2. \A t \in Stored(f) : t \in Nat /\ t <= last
      BY ConstantTypes DEF NewestOf, Stored, Readable
    <3> QED
      BY <2>1, <2>2, <3>1, <3>2
  <2>6. NewestOf(newest, g)
    BY <2>4, <2>5, Zenon DEF NewestOf
  <2> QED
    BY <1>4, <2>6, Zenon DEF NewestWith, newest
<1> QED
  BY <1>3, <1>4

\* A whole file holds a reading, so the files of a sensor without readings are not there.
LEMMA WholeFileHolds ==
  ASSUME NEW f \in Files, NEW d \in Day, Whole(f[d]), f[d] # None
  PROVE  f[d].lines[1] \in Stored(f) /\ f[d].lines[1] \in Readable(f[d])
<1>1. /\ f[d] \in File /\ f[d].lines # << >> /\ f[d].lines[1] \in Time
      /\ f[d].lines \in Seq(Time \cup {Bad})
  BY DEF Whole, Files, File
<1>2. 1 \in DOMAIN f[d].lines
  BY <1>1
<1>3. f[d].lines[1] \in ToSet(f[d].lines)
  BY <1>2, Zenon DEF ToSet
<1> QED
  BY <1>1, <1>3 DEF Readable, Stored

\* What is kept is stored in files that are not there yet.
LEMMA KeptAreStored ==
  ASSUME NEW f \in Files, NEW kept \in Seq(Time), Increasing(kept),
         \A d \in Day : f[d] = None,
         NEW g, g = [d \in Day |-> IF d \in DaysOf(kept)
                                   THEN Appended(f[d], OfDay(kept, d), None) ELSE f[d]]
  PROVE  ToSet(kept) \subseteq Stored(g)
<1>1. \A d \in Day \cap DaysOf(kept) :
              \/ {t \in ToSet(kept) : dayKey(t) = d} \subseteq Readable(g[d])
              \/ Spoilt(g[d]) /\ f[d] # None
  BY DaysAppended
<1>2. ToSet(kept) \subseteq Time /\ DaysOf(kept) = {dayKey(t) : t \in ToSet(kept)}
  BY DEF ToSet, DaysOf
<1>3. \A t \in ToSet(kept) : dayKey(t) \in Day \cap DaysOf(kept)
  BY <1>2, DayKeys
<1> QED
  BY <1>1, <1>3 DEF Stored

\* The first of increasing numbers is the least.
LEMMA FirstIsLeast ==
  ASSUME NEW all \in Seq(Time), Increasing(all), all # << >>
  PROVE  all[1] \in ToSet(all) /\ \A t \in ToSet(all) : all[1] <= t
<1>1. 1 \in DOMAIN all /\ \A i \in DOMAIN all : i = 1 \/ 1 < i
  OBVIOUS
<1>2. \A i \in DOMAIN all : all[i] \in Int
  <2>1. Time \subseteq Int
    BY DEF Time
  <2>2. \A i \in DOMAIN all : all[i] \in Time
    OBVIOUS
  <2> QED
    BY <2>1, <2>2, Zenon
<1>3. \A i \in DOMAIN all : 1 < i => all[1] < all[i]
  BY <1>1, Zenon DEF Increasing
<1> QED
  BY <1>1, <1>2, <1>3 DEF ToSet

\* What append takes for the oldest afterwards is right, as far as the files are whole.
LEMMA OldestAppended ==
  ASSUME NEW files \in [Sensor -> Files], NEW s \in Sensor,
         \A q \in Sensor, d \in Day : Whole(files[q][d]),
         NEW last \in Nat, NEW kept, OrderedAfter(kept, last), NewestOf(last, files[s]),
         NEW oldest \in Time \cup {None}, OldestIn(oldest, files),
         NEW g, g = [d \in Day |-> IF d \in DaysOf(kept)
                                   THEN Appended(files[s][d], OfDay(kept, d), None)
                                   ELSE files[s][d]],
         NEW new, new = [files EXCEPT ![s] = g]
  PROVE  OldestIn(OldestWith(oldest, kept), new)
<1> DEFINE f == files[s]
           old == UNION {Stored(files[q]) : q \in Sensor}
           stored == UNION {Stored(new[q]) : q \in Sensor}
           first == kept[1]
<1>1. /\ f \in Files /\ kept \in Seq(Time) /\ Increasing(kept)
      /\ \A t \in ToSet(kept) : last < t
      /\ new[s] = g /\ \A q \in Sensor \ {s} : new[q] = files[q]
  BY DEF OrderedAfter
<1>2. Wrote(g, f, kept)
  BY <1>1, DaysAppended
<1>3. Stored(g) \subseteq Stored(f) \cup ToSet(kept) /\ Stored(f) \subseteq Stored(g)
  BY <1>1, <1>2, WroteFiles
<1>4. /\ old \subseteq stored /\ stored \subseteq old \cup ToSet(kept)
      /\ Stored(f) \subseteq old /\ Stored(g) \subseteq stored
  <2>1. Stored(f) \subseteq old /\ Stored(g) \subseteq stored
    BY <1>1, Zenon
  <2>2. \A q \in Sensor : /\ Stored(files[q]) \subseteq Stored(new[q])
                          /\ Stored(new[q]) \subseteq Stored(files[q]) \cup ToSet(kept)
    BY <1>1, <1>3, Zenon
  <2> QED
    BY <2>1, <2>2, Zenon
<1>5. old \subseteq Time /\ None \notin Time /\ \A t \in Time : t \in Nat
  BY ConstantTypes DEF Stored, Readable
<1>6. IF oldest = None THEN old = {} ELSE oldest \in old /\ \A t \in old : oldest <= t
  BY Zenon DEF OldestIn
<1>7. \A t \in Stored(f) : t <= last
  BY Zenon DEF NewestOf
<1>8. \A d \in Day : f[d] # None => f[d].lines[1] \in Stored(f)
  BY <1>1, WholeFileHolds
<1>9. \A d \in Day : g[d] = IF d \in DaysOf(kept)
                            THEN Appended(f[d], OfDay(kept, d), None) ELSE f[d]
  OBVIOUS
<1>10. (\A d \in Day : f[d] = None) => ToSet(kept) \subseteq Stored(g)
  BY <1>1, KeptAreStored
<1> HIDE DEF f, old
<1>11. CASE kept = << >>
  <2>1. ToSet(kept) = {} /\ OldestWith(oldest, kept) = oldest
    BY <1>11 DEF ToSet, OldestWith
  <2>2. stored = old
    BY <1>4, <2>1
  <2> HIDE DEF stored
  <2>3. IF oldest = None THEN stored = {} ELSE oldest \in stored /\ \A t \in stored : oldest <= t
    BY <1>6, <2>2
  <2> QED
    BY <2>1, <2>3, Zenon DEF OldestIn, stored
<1>12. CASE kept # << >>
  <2>1. /\ first \in ToSet(kept) /\ (\A t \in ToSet(kept) : first <= t)
        /\ first \in Time /\ last < first
    <3>1. first \in ToSet(kept) /\ (\A t \in ToSet(kept) : first <= t)
      BY <1>1, <1>12, FirstIsLeast
    <3> QED
      BY <1>1, <3>1 DEF ToSet
  <2> HIDE DEF stored, first
  <2>2. CASE oldest = None \/ first < oldest
    <3>1. \A d \in Day : f[d] = None
      <4> SUFFICES ASSUME NEW d \in Day, f[d] # None
                   PROVE  FALSE
        OBVIOUS
      <4>1. f[d].lines[1] \in old /\ f[d].lines[1] <= last
        BY <1>4, <1>7, <1>8
      <4>2. f[d].lines[1] \in Nat /\ first \in Nat /\ oldest # None /\ oldest <= f[d].lines[1]
            /\ oldest \in Nat
        BY <1>5, <1>6, <2>1, <4>1
      <4> QED
        BY <2>1, <2>2, <4>1, <4>2
    <3>2. first \in stored
      BY <1>4, <1>10, <2>1, <3>1
    <3>3. \A t \in old : first <= t
      BY <1>5, <1>6, <2>1, <2>2
    <3>4. \A t \in stored : first <= t
      BY <1>4, <2>1, <3>3
    <3>5. OldestWith(oldest, kept) = first
      BY <1>12, <2>2, Zenon DEF OldestWith, first
    <3>6. first # None
      BY <1>5, <2>1
    <3> QED
      BY <3>2, <3>4, <3>5, <3>6, Zenon DEF OldestIn, stored
  <2>3. CASE ~(oldest = None \/ first < oldest)
    <3>1. OldestWith(oldest, kept) = oldest /\ oldest # None
      BY <1>12, <2>3, Zenon DEF OldestWith, first
    <3>2. oldest \in stored
      BY <1>4, <1>6, <3>1
    <3>3. oldest \in Nat /\ first \in Nat /\ oldest <= first
      BY <1>5, <1>6, <2>1, <2>3, <3>1
    <3>4. \A t \in stored : oldest <= t
      <4>1. \A t \in ToSet(kept) : t \in Nat
        BY <1>1, <1>5 DEF ToSet
      <4> QED
        BY <1>4, <1>6, <2>1, <3>1, <3>3, <4>1
    <3> QED
      BY <3>1, <3>2, <3>4, Zenon DEF OldestIn, stored
  <2> QED
    BY <2>2, <2>3
<1> QED
  BY <1>11, <1>12

-----------------------------------------------------------------------------
\* A batch is readings in order.
LEMMA BatchIsReadings ==
  ASSUME NEW batch \in Batch
  PROVE  batch \in Seq(Time)
<1>1. PICK n \in 1 .. MaxBatch : batch \in [1 .. n -> Time]
  BY DEF Batch
<1>2. n \in Nat
  BY ConstantTypes
<1> QED
  BY <1>1, <1>2

\* In a state of the invariant what is kept of a batch is newer than what is in whole files.
LEMMA KeptOfBatch ==
  ASSUME IInv, NEW s \in Sensor, NEW batch \in Batch
  PROVE  /\ OrderedAfter(Kept(s, batch), lastTimestamps[s])
         /\ Kept(s, batch) \in Seq(Time) /\ Increasing(Kept(s, batch))
         /\ lastTimestamps[s] \in Nat
         /\ up /\ s \notin injured => NewerThanAll(Kept(s, batch), disk[s])
<1> DEFINE kept == Kept(s, batch)
           last == lastTimestamps[s]
<1>1. last \in Nat
  BY ConstantTypes DEF IInv, OthersTyped
<1>2. OrderedAfter(kept, last)
  BY <1>1, BatchIsReadings, KeptReadings
<1>3. ASSUME up, s \notin injured
      PROVE  NewerThanAll(kept, disk[s])
  <2>1. NewestOf(last, disk[s])
    BY <1>3, Zenon DEF IInv, NewestKnown
  <2> HIDE DEF kept, last
  <2>2. ASSUME NEW d \in Day, NEW t \in Readable(disk[s][d]), NEW q \in ToSet(kept)
        PROVE  t < q
    <3>1. t <= last
      BY <2>1 DEF NewestOf, Stored
    <3>2. last < q /\ q \in Time /\ t \in Time
      BY <1>2 DEF OrderedAfter, ToSet, Readable
    <3> QED
      BY <1>1, <3>1, <3>2 DEF Time
  <2> QED
    BY <2>2, Zenon DEF NewerThanAll, NewerThan
<1> QED
  BY <1>1, <1>2, <1>3, Zenon DEF OrderedAfter

\* The files of one sensor are replaced.
LEMMA OneSensorWritten ==
  ASSUME DiskTyped, NEW s \in Sensor, NEW g \in Files, disk' = [disk EXCEPT ![s] = g]
  PROVE  /\ DiskTyped' /\ disk'[s] = g
         /\ \A q \in Sensor \ {s} : disk'[q] = disk[q]
BY DEF DiskTyped

\* A step writes readings of kept to the files of s and to no other.
FilesWritten(s, kept) ==
  /\ DiskTyped'
  /\ Wrote(disk'[s], disk[s], kept)
  /\ \A q \in Sensor \ {s} : disk'[q] = disk[q]

\* append preserves the invariant.
LEMMA AppendStep ==
  ASSUME IInv, NEW s \in Sensor, NEW batch \in Batch, append(s, batch)
  PROVE  IInv'
<1> DEFINE kept == Kept(s, batch)
           last == lastTimestamps[s]
           f == disk[s]
           g == WithDays(s, kept, DaysOf(kept))
<1>1. /\ up /\ up' = up /\ restarts' = restarts /\ cuts' = cuts /\ injured' = injured
      /\ disk' = [disk EXCEPT ![s] = g]
      /\ lastTimestamps' = [lastTimestamps EXCEPT ![s] = NewestWith(@, kept)]
      /\ oldestStored' = OldestWith(oldestStored, kept)
  BY Zenon DEF append
<1>2. /\ OrderedAfter(kept, last) /\ kept \in Seq(Time) /\ Increasing(kept) /\ last \in Nat
      /\ s \notin injured => NewerThanAll(kept, f)
  BY <1>1, KeptOfBatch, Zenon
<1> HIDE DEF kept, last
<1>3. g = [d \in Day |-> IF d \in DaysOf(kept) THEN Appended(f[d], OfDay(kept, d), None)
                         ELSE f[d]]
  BY Zenon DEF WithDays
<1> HIDE DEF f, g
<1>4. f \in Files /\ f = disk[s] /\ last = lastTimestamps[s] /\ DiskTyped /\ OthersTyped
  BY DEF f, last, IInv, DiskTyped
<1>5. /\ Wrote(g, f, kept) /\ g \in Files
      /\ \A d \in Day : Whole(f[d]) /\ NewerThan(kept, f[d]) => Whole(g[d])
  <2>1. /\ Wrote(g, f, kept)
        /\ \A d \in Day : Whole(f[d]) /\ NewerThan(kept, f[d]) => Whole(g[d])
    BY <1>2, <1>3, <1>4, DaysAppended
  <2> QED
    BY <2>1, Zenon DEF Wrote
<1>6. DiskTyped' /\ disk'[s] = g /\ \A q \in Sensor \ {s} : disk'[q] = disk[q]
  BY <1>1, <1>4, <1>5, OneSensorWritten, Zenon
<1>7. FilesPlaced'
  <2>1. \A q \in Sensor, d \in Day : Placed(disk[q][d], d)
    BY Zenon DEF IInv, FilesPlaced
  <2>2. \A d \in Day : Placed(g[d], d)
    BY <1>4, <1>5, <2>1, WroteFiles
  <2>3. \A q \in Sensor, d \in Day : Placed(disk'[q][d], d)
    BY <1>6, <2>1, <2>2
  <2> QED
    BY <2>3, Zenon DEF FilesPlaced
<1>8. FilesWhole'
  <2>1. \A q \in Sensor \ injured, d \in Day : Whole(disk[q][d])
    BY Zenon DEF IInv, FilesWhole
  <2>2. s \notin injured => \A d \in Day : Whole(g[d])
    BY <1>2, <1>4, <1>5, <2>1 DEF NewerThanAll
  <2>3. \A q \in Sensor \ injured, d \in Day : Whole(disk'[q][d])
    BY <1>6, <2>1, <2>2
  <2> QED
    BY <1>1, <2>3, Zenon DEF FilesWhole
<1>9. /\ lastTimestamps'[s] = NewestWith(last, kept)
      /\ \A q \in Sensor \ {s} : lastTimestamps'[q] = lastTimestamps[q]
  BY <1>1, <1>4 DEF OthersTyped
<1>10. /\ NewestWith(last, kept) \in 0 .. MaxTime
       /\ OldestWith(oldestStored, kept) \in Time \cup {None}
  <2>1. CASE kept = << >>
    BY <1>4, <2>1 DEF NewestWith, OldestWith, OthersTyped
  <2>2. CASE kept # << >>
    <3>1. Last(kept) \in Time /\ kept[1] \in Time
      BY <1>2, <2>2, LastIsGreatest, FirstIsLeast DEF ToSet
    <3>2. Last(kept) \in 0 .. MaxTime
      BY <3>1, ConstantTypes DEF Time
    <3> QED
      BY <1>4, <2>2, <3>1, <3>2 DEF NewestWith, OldestWith, OthersTyped
  <2> QED
    BY <2>1, <2>2
<1>11. OthersTyped'
  <2>1. lastTimestamps' \in [Sensor -> 0 .. MaxTime] /\ oldestStored' \in Time \cup {None}
    BY <1>1, <1>4, <1>9, <1>10 DEF OthersTyped
  <2> QED
    BY <1>1, <1>4, <2>1, Zenon DEF OthersTyped
<1>12. NewestKnown'
  <2>1. \A q \in Sensor \ injured : NewestOf(lastTimestamps[q], disk[q])
    BY <1>1, Zenon DEF IInv, NewestKnown
  <2>2. s \notin injured => NewestOf(NewestWith(last, kept), g)
    <3> SUFFICES ASSUME s \notin injured
                 PROVE  NewestOf(NewestWith(last, kept), g)
      OBVIOUS
    <3>1. NewestOf(last, f)
      BY <1>4, <2>1
    <3> QED
      BY <1>2, <1>3, <1>4, <3>1, NewestAppended
  <2>3. \A q \in Sensor \ injured : NewestOf(lastTimestamps'[q], disk'[q])
    BY <1>6, <1>9, <2>1, <2>2
  <2> QED
    BY <1>1, <2>3, Zenon DEF NewestKnown
<1>13. OldestKnown'
  <2> SUFFICES ASSUME injured = {}
               PROVE  OldestIn(oldestStored', disk')
    BY <1>1, Zenon DEF OldestKnown
  <2>1. /\ \A q \in Sensor, d \in Day : Whole(disk[q][d])
        /\ NewestOf(last, f) /\ OldestIn(oldestStored, disk)
    BY <1>1, <1>4 DEF IInv, FilesWhole, NewestKnown, OldestKnown
  <2> DEFINE files == disk
             new == disk'
             oldest == oldestStored
  <2>2. /\ files \in [Sensor -> Files] /\ \A q \in Sensor, d \in Day : Whole(files[q][d])
        /\ NewestOf(last, files[s]) /\ OldestIn(oldest, files)
        /\ oldest \in Time \cup {None}
        /\ g = [d \in Day |-> IF d \in DaysOf(kept)
                              THEN Appended(files[s][d], OfDay(kept, d), None)
                              ELSE files[s][d]]
        /\ new = [files EXCEPT ![s] = g]
    BY <1>1, <1>3, <1>4, <2>1, Zenon DEF OthersTyped, DiskTyped
  <2> HIDE DEF files, new, oldest
  <2>3. OldestIn(OldestWith(oldest, kept), new)
    BY <1>2, <2>2, OldestAppended
  <2> QED
    BY <1>1, <2>3, Zenon DEF new, oldest
<1> QED
  BY <1>6, <1>7, <1>8, <1>11, <1>12, <1>13, Zenon DEF IInv

(***************************************************************************)
(* An append cut short: the days before are whole and so is the file it    *)
(* was cut in, unless the sensor counts as at risk.                        *)
(***************************************************************************)
LEMMA CutFiles ==
  ASSUME IInv, NEW s \in Sensor, NEW batch \in Batch, NEW d \in Day,
         NEW n \in 0 .. MaxBatch - 1, NEW tail \in Time \cup {Bad, None},
         NEW kind \in CutKind, CutShort(s, batch, d, n, tail, kind)
  PROVE  /\ FilesWritten(s, Kept(s, batch))
         /\ injured \subseteq injured' /\ injured' \subseteq Sensor
         /\ kind = "threw" => s \in injured'
         /\ s \notin injured' => \A e \in Day : Whole(disk'[s][e])
<1> DEFINE kept == Kept(s, batch)
           lines == OfDay(kept, d)
           f == disk[s]
           before == {e \in DaysOf(kept) : e < d}
           file == Appended(f[d], SubSeq(lines, 1, n), tail)
           w == WithDays(s, kept, before)
           g == [w EXCEPT ![d] = file]
<1>1. /\ up /\ cuts < MaxCuts /\ d \in DaysOf(kept) /\ n < Len(lines)
      /\ tail \in {None, Bad, lines[n + 1]}
      /\ disk' = [disk EXCEPT ![s] = g]
      /\ cuts' = cuts + 1 /\ restarts' = restarts
      /\ injured' = IF kind = "threw" \/ file.lines = << >> \/ file.tail \in Time
                    THEN injured \cup {s} ELSE injured
      /\ \/ /\ kind = "killed" /\ up' = FALSE
            /\ lastTimestamps' = [q \in Sensor |-> 0] /\ oldestStored' = None
         \/ /\ kind = "threw" /\ up' = up
            /\ lastTimestamps' = lastTimestamps /\ oldestStored' = oldestStored
  BY Zenon DEF CutShort, memory
<1>2. /\ kept \in Seq(Time) /\ Increasing(kept)
      /\ s \notin injured => NewerThanAll(kept, f)
  BY <1>1, KeptOfBatch, Zenon
<1>3. n \in Nat
  BY ConstantTypes
<1> HIDE DEF kept
<1>4. w = [e \in Day |-> IF e \in before THEN Appended(f[e], OfDay(kept, e), None) ELSE f[e]]
  BY Zenon DEF WithDays
<1> HIDE DEF f, w
<1>5. f \in Files /\ f = disk[s] /\ DiskTyped /\ OthersTyped
  BY DEF f, IInv, DiskTyped
<1>6. /\ Wrote(w, f, kept) /\ w \in Files
      /\ \A e \in Day : Whole(f[e]) /\ NewerThan(kept, f[e]) => Whole(w[e])
  <2>1. before \subseteq DaysOf(kept)
    OBVIOUS
  <2> HIDE DEF before
  <2>2. /\ Wrote(w, f, kept)
        /\ \A e \in Day : Whole(f[e]) /\ NewerThan(kept, f[e]) => Whole(w[e])
    BY <1>2, <1>4, <1>5, <2>1, DaysAppended
  <2> QED
    BY <2>2, Zenon DEF Wrote
<1>7. /\ DayWritten(file, f[d], kept, d)
      /\ Whole(f[d]) /\ NewerThan(kept, f[d]) /\ BeginsWhole(file) => Whole(file)
  <2> DEFINE old == f[d]
             new == file
  <2>1. /\ old \in File \cup {None} /\ n < Len(OfDay(kept, d))
        /\ tail \in {None, Bad, OfDay(kept, d)[n + 1]}
        /\ new = Appended(old, SubSeq(OfDay(kept, d), 1, n), tail)
    BY <1>1, <1>5 DEF Files
  <2> HIDE DEF old, new
  <2>2. CutWritten(new, old, kept, d, n, tail)
    BY <1>1, <1>2, <1>3, <2>1, DayCutShort, ZenonT(30)
  <2> QED
    BY <2>2, Zenon DEF old, new, CutWritten
<1> HIDE DEF lines, file, before
<1>8. /\ g \in Files /\ g[d] = file /\ \A e \in Day : e # d => g[e] = w[e]
  <2>1. file \in File
    BY <1>7, Zenon DEF DayWritten
  <2> QED
    BY <1>6, <2>1 DEF Files
<1> HIDE DEF g
<1>9. Wrote(g, f, kept)
  <2>1. \A e \in Day : g[e] = f[e] \/ DayWritten(g[e], f[e], kept, e)
    BY <1>6, <1>7, <1>8, Zenon DEF Wrote
  <2> QED
    BY <1>8, <2>1, Zenon DEF Wrote
<1>10. DiskTyped' /\ disk'[s] = g /\ \A q \in Sensor \ {s} : disk'[q] = disk[q]
  BY <1>1, <1>5, <1>8, OneSensorWritten, Zenon
<1>11. injured \subseteq injured' /\ injured' \subseteq Sensor /\ (kind = "threw" => s \in injured')
  BY <1>1, <1>5 DEF OthersTyped
<1>12. ASSUME s \notin injured', NEW e \in Day
       PROVE  Whole(g[e])
  <2>1. s \notin injured /\ BeginsWhole(file)
    BY <1>1, <1>12 DEF BeginsWhole
  <2>2. Whole(f[e]) /\ NewerThan(kept, f[e])
    BY <1>2, <1>5, <2>1 DEF NewerThanAll, IInv, FilesWhole
  <2> QED
    BY <1>6, <1>7, <1>8, <2>1, <2>2
<1>13. FilesWritten(s, kept)
  BY <1>5, <1>9, <1>10, Zenon DEF FilesWritten
<1> QED
  BY <1>10, <1>11, <1>12, <1>13, Zenon DEF kept

\* An append cut short preserves the invariant.
LEMMA CutStep ==
  ASSUME IInv, NEW s \in Sensor, NEW batch \in Batch, NEW d \in Day,
         NEW n \in 0 .. MaxBatch - 1, NEW tail \in Time \cup {Bad, None},
         NEW kind \in CutKind, CutShort(s, batch, d, n, tail, kind)
  PROVE  IInv'
<1> DEFINE kept == Kept(s, batch)
<1>1. /\ up /\ cuts < MaxCuts /\ cuts' = cuts + 1 /\ restarts' = restarts
      /\ \/ /\ kind = "killed" /\ up' = FALSE
            /\ lastTimestamps' = [q \in Sensor |-> 0] /\ oldestStored' = None
         \/ /\ kind = "threw" /\ up' = up
            /\ lastTimestamps' = lastTimestamps /\ oldestStored' = oldestStored
  BY Zenon DEF CutShort, memory
<1>2. /\ FilesWritten(s, kept)
      /\ injured \subseteq injured' /\ injured' \subseteq Sensor
      /\ kind = "threw" => s \in injured'
      /\ s \notin injured' => \A e \in Day : Whole(disk'[s][e])
  BY CutFiles
<1> HIDE DEF kept
<1>3. /\ DiskTyped' /\ Wrote(disk'[s], disk[s], kept) /\ disk[s] \in Files
      /\ \A q \in Sensor \ {s} : disk'[q] = disk[q]
  BY <1>2 DEF FilesWritten, IInv, DiskTyped
<1>4. OthersTyped
  BY DEF IInv
<1>5. FilesPlaced'
  <2>1. \A q \in Sensor, e \in Day : Placed(disk[q][e], e)
    BY Zenon DEF IInv, FilesPlaced
  <2>2. \A e \in Day : Placed(disk'[s][e], e)
    BY <1>3, <2>1, WroteFiles
  <2>3. \A q \in Sensor, e \in Day : Placed(disk'[q][e], e)
    BY <1>3, <2>1, <2>2
  <2> QED
    BY <2>3, Zenon DEF FilesPlaced
<1>6. FilesWhole'
  <2>1. \A q \in Sensor \ injured, e \in Day : Whole(disk[q][e])
    BY Zenon DEF IInv, FilesWhole
  <2>3. \A q \in Sensor \ injured', e \in Day : Whole(disk'[q][e])
    BY <1>2, <1>3, <2>1
  <2> QED
    BY <2>3, Zenon DEF FilesWhole
<1>7. OthersTyped'
  <2>1. cuts' \in 0 .. MaxCuts
    BY <1>1, <1>4, ConstantTypes DEF OthersTyped
  <2>2. /\ lastTimestamps' \in [Sensor -> 0 .. MaxTime] /\ oldestStored' \in Time \cup {None}
        /\ up' \in BOOLEAN
    <3>1. 0 \in 0 .. MaxTime
      BY ConstantTypes
    <3> QED
      BY <1>1, <1>4, <3>1 DEF OthersTyped
  <2> QED
    BY <1>1, <1>4, <1>2, <2>1, <2>2, Zenon DEF OthersTyped
<1>8. NewestKnown'
  <2> SUFFICES ASSUME up', NEW q \in Sensor \ injured'
               PROVE  NewestOf(lastTimestamps[q], disk[q])'
    BY Zenon DEF NewestKnown
  <2>1. /\ kind = "threw" /\ lastTimestamps' = lastTimestamps /\ q \in Sensor \ injured
        /\ q # s
    BY <1>1, <1>2
  <2>2. NewestOf(lastTimestamps[q], disk[q])
    BY <1>1, <2>1, Zenon DEF IInv, NewestKnown
  <2>3. disk'[q] = disk[q]
    BY <1>3, <2>1
  <2>4. NewestOf(lastTimestamps'[q], disk'[q])
    BY <2>1, <2>2, <2>3
  <2> QED
    BY <2>4
<1>9. OldestKnown'
  <2>1. ~(up' /\ injured' = {})
    BY <1>1, <1>2
  <2> QED
    BY <2>1, Zenon DEF OldestKnown
<1> QED
  BY <1>3, <1>5, <1>6, <1>7, <1>8, <1>9, Zenon DEF IInv

-----------------------------------------------------------------------------
\* There is a first file and a last, if there is one.
LEMMA FirstAndLastDay ==
  ASSUME NEW days, days \subseteq Day, days # {}
  PROVE  /\ FirstDay(days) \in days /\ \A e \in days : FirstDay(days) <= e
         /\ LastDay(days) \in days /\ \A e \in days : e <= LastDay(days)
<1>1. Day = 0 .. dayKey(MaxTime) /\ dayKey(MaxTime) \in Nat /\ Day \subseteq Nat
  BY DayKeys DEF Day
<1>2. \E d \in days : \A e \in days : d <= e
  BY <1>1, LeastOf
<1>3. \E d \in days : \A e \in days : e <= d
  BY <1>1, GreatestOf
<1>4. FirstDay(days) \in days /\ \A e \in days : FirstDay(days) <= e
  BY <1>2, Zenon DEF FirstDay
<1>5. LastDay(days) \in days /\ \A e \in days : e <= LastDay(days)
  BY <1>3, Zenon DEF LastDay
<1> QED
  BY <1>4, <1>5

(***************************************************************************)
(* initialize reads the newest reading of a sensor from its last file: of  *)
(* whole files it is the newest there is.                                  *)
(***************************************************************************)
LEMMA NewestFound ==
  ASSUME IInv, NEW s \in Sensor
  PROVE  /\ Newest(s) \in 0 .. MaxTime
         /\ s \notin injured => NewestOf(Newest(s), disk[s])
<1> DEFINE days == dayFiles(s)
           d == LastDay(days)
           found == IF days = {} THEN << >> ELSE readDayFile(s, d)
           newest == IF found = << >> THEN 0 ELSE Last(found)
           f == disk[s]
<1>1. Newest(s) = newest
  BY Zenon DEF Newest
<1>2. days \subseteq Day /\ \A e \in Day : e \in days <=> f[e] # None
  BY DEF dayFiles
<1>3. \A e \in Day : e \notin days => Readable(f[e]) = {}
  BY <1>2, Zenon DEF Readable
<1>4. f \in Files /\ DiskTyped
  BY DEF IInv, DiskTyped
<1> HIDE DEF days, d, f
<1>5. CASE days = {}
  <2>1. found = << >> /\ newest = 0
    BY <1>5
  <2>2. Stored(f) = {}
    BY <1>3, <1>5 DEF Stored
  <2>3. NewestOf(0, f) /\ 0 \in 0 .. MaxTime
    BY <2>2, ConstantTypes DEF NewestOf
  <2> QED
    BY <1>1, <2>1, <2>3, Zenon DEF f
<1>6. CASE days # {}
  <2>1. d \in days /\ d \in Day /\ \A e \in days : e <= d
    BY <1>2, <1>6, FirstAndLastDay, Zenon DEF d
  <2>2. found = readDayFile(s, d)
    BY <1>6
  <2>3. /\ found \in Seq(Time) /\ ToSet(found) = Readable(f[d])
        /\ Whole(f[d]) => Increasing(found)
    BY <1>4, <2>1, <2>2, DayFileRead, Zenon DEF f
  <2> HIDE DEF found
  <2>4. newest \in 0 .. MaxTime
    <3>1. CASE found = << >>
      BY <3>1, ConstantTypes
    <3>2. CASE found # << >>
      <4>1. Last(found) \in Time
        BY <2>3, <3>2 DEF Last
      <4> QED
        BY <3>2, <4>1, ConstantTypes DEF Time
    <3> QED
      BY <3>1, <3>2
  <2>5. ASSUME s \notin injured
        PROVE  NewestOf(newest, f)
    <3>1. \A e \in Day : Placed(f[e], e) /\ Whole(f[e])
      BY <2>5 DEF IInv, FilesPlaced, FilesWhole, f
    <3>2. Readable(f[d]) # {}
      BY <1>2, <1>4, <2>1, <3>1, WholeFileHolds
    <3>3. found # << >>
      BY <2>3, <3>2 DEF ToSet
    <3>4. newest \in ToSet(found) /\ \A t \in ToSet(found) : t <= newest
      BY <2>3, <3>1, <2>1, <3>3, LastIsGreatest
    <3> HIDE DEF newest
    <3>5. ASSUME NEW e \in Day, NEW t \in Readable(f[e])
          PROVE  t <= newest
      <4>1. e \in days /\ e <= d /\ t \in Time /\ newest \in Time
        BY <1>3, <2>1, <2>3, <3>4, <3>5 DEF Readable
      <4>2. CASE e = d
        BY <2>3, <3>4, <3>5, <4>2
      <4>3. CASE e # d
        <5>1. dayKey(t) = e /\ dayKey(newest) = d
          BY <2>1, <2>3, <3>1, <3>4, <3>5 DEF Placed
        <5>2. e \in Nat /\ d \in Nat
          BY <2>1, <3>5, DayKeys DEF Day
        <5>3. dayKey(t) < dayKey(newest)
          BY <4>1, <4>3, <5>1, <5>2
        <5>4. t < newest
          BY <4>1, <5>3, DaysOrderReadings, Zenon
        <5> QED
          BY <4>1, <5>4 DEF Time
      <4> QED
        BY <4>2, <4>3
    <3>6. newest \in Stored(f)
      BY <2>1, <2>3, <3>4 DEF Stored
    <3>7. \A t \in Stored(f) : t <= newest
      BY <3>5 DEF Stored
    <3> QED
      BY <3>6, <3>7, Zenon DEF NewestOf
  <2> QED
    BY <1>1, <2>4, <2>5, Zenon DEF f
<1> QED
  BY <1>5, <1>6

(***************************************************************************)
(* It reads the oldest from the first line of the first file: of whole     *)
(* files it is the oldest there is.                                        *)
(***************************************************************************)
LEMMA OldestFound ==
  ASSUME IInv, NEW s \in Sensor
  PROVE  /\ Oldest(s) \in Time \cup {None}
         /\ s \notin injured =>
              IF Oldest(s) = None THEN Stored(disk[s]) = {}
              ELSE /\ Oldest(s) \in Stored(disk[s])
                   /\ \A t \in Stored(disk[s]) : Oldest(s) <= t
<1> DEFINE days == dayFiles(s)
           d == FirstDay(days)
           oldest == Oldest(s)
           f == disk[s]
<1>1. oldest = IF days = {} THEN None
               ELSE IF f[d].lines = << >> \/ f[d].lines[1] = Bad THEN None ELSE f[d].lines[1]
  BY Zenon DEF Oldest, firstReadingOf
<1>2. days \subseteq Day /\ \A e \in Day : e \in days <=> f[e] # None
  BY DEF dayFiles
<1>3. \A e \in Day : e \notin days => Readable(f[e]) = {}
  BY <1>2, Zenon DEF Readable
<1>4. f \in Files
  BY DEF IInv, DiskTyped
<1>5. None \notin Time /\ Bad \notin Time
  BY ConstantTypes
<1> HIDE DEF days, d, f, oldest
<1>6. CASE days = {}
  <2>1. oldest = None
    BY <1>1, <1>6
  <2>2. Stored(f) = {}
    BY <1>3, <1>6 DEF Stored
  <2> QED
    BY <2>1, <2>2 DEF f, oldest
<1>7. CASE days # {}
  <2>1. d \in days /\ d \in Day /\ f[d] # None /\ \A e \in days : d <= e
    BY <1>2, <1>7, FirstAndLastDay, Zenon DEF d
  <2>2. f[d] \in File /\ f[d].lines \in Seq(Time \cup {Bad})
    BY <1>4, <2>1 DEF Files, File
  <2>3. oldest \in Time \cup {None}
    <3>1. f[d].lines # << >> => f[d].lines[1] \in Time \cup {Bad}
      BY <2>2
    <3> QED
      BY <1>1, <1>7, <3>1
  <2>4. ASSUME s \notin injured
        PROVE  oldest \in Stored(f) /\ (\A t \in Stored(f) : oldest <= t) /\ oldest # None
    <3>1. \A e \in Day : Placed(f[e], e) /\ Whole(f[e])
      BY <2>4 DEF IInv, FilesPlaced, FilesWhole, f
    <3>2. /\ f[d].lines # << >> /\ f[d].lines[1] \in Time /\ f[d].tail \notin Time
          /\ IncreasingIn(f[d].lines, Time)
      BY <2>1, <3>1, Zenon DEF Whole
    <3>3. oldest = f[d].lines[1] /\ oldest \in Time
      BY <1>1, <1>5, <1>7, <3>2
    <3>4. oldest \in Stored(f) /\ oldest \in Readable(f[d])
      BY <1>4, <2>1, <3>1, <3>3, WholeFileHolds
    <3>5. ASSUME NEW t \in Readable(f[d])
          PROVE  oldest <= t
      <4>1. t \in Time /\ t \in ToSet(f[d].lines)
        BY <2>1, <3>2 DEF Readable
      <4>2. PICK i \in DOMAIN f[d].lines : t = f[d].lines[i]
        BY <4>1 DEF ToSet
      <4>3. 1 \in DOMAIN f[d].lines /\ (i = 1 \/ 1 < i)
        BY <2>2, <3>2
      <4>4. 1 < i => oldest < t
        BY <3>2, <3>3, <4>1, <4>2, <4>3, Zenon DEF IncreasingIn
      <4> QED
        BY <3>3, <4>1, <4>2, <4>3, <4>4 DEF Time
    <3>6. ASSUME NEW e \in Day, NEW t \in Readable(f[e])
          PROVE  oldest <= t
      <4>1. e \in days /\ d <= e /\ t \in Time
        BY <1>3, <2>1, <3>6 DEF Readable
      <4>2. CASE e = d
        BY <3>5, <3>6, <4>2
      <4>3. CASE e # d
        <5>1. dayKey(t) = e /\ dayKey(oldest) = d
          BY <2>1, <3>1, <3>4, <3>6 DEF Placed
        <5>2. e \in Nat /\ d \in Nat
          BY <2>1, <3>6, DayKeys DEF Day
        <5>3. dayKey(oldest) < dayKey(t)
          BY <4>1, <4>3, <5>1, <5>2
        <5>4. oldest < t
          BY <3>3, <4>1, <5>3, DaysOrderReadings, Zenon
        <5> QED
          BY <3>3, <4>1, <5>4 DEF Time
      <4> QED
        BY <4>2, <4>3
    <3> QED
      BY <1>5, <3>3, <3>4, <3>6 DEF Stored
  <2> QED
    BY <2>3, <2>4, Zenon DEF f, oldest
<1> QED
  BY <1>6, <1>7

\* initialize establishes what a running server knows.
LEMMA InitializeStep ==
  ASSUME IInv, initialize
  PROVE  IInv'
<1>1. /\ up' = TRUE /\ lastTimestamps' = [s \in Sensor |-> Newest(s)]
      /\ oldestStored' = OldestOf(Sensor)
      /\ disk' = disk /\ restarts' = restarts /\ cuts' = cuts /\ injured' = injured
  BY Zenon DEF initialize
<1>2. DiskTyped' /\ FilesPlaced' /\ FilesWhole'
  BY <1>1 DEF IInv, DiskTyped, FilesPlaced, FilesWhole
<1>3. lastTimestamps' \in [Sensor -> 0 .. MaxTime]
  BY <1>1, NewestFound
<1>4. NewestKnown'
  <2>1. ASSUME NEW s \in Sensor \ injured
        PROVE  NewestOf(lastTimestamps'[s], disk[s])
    <3>1. lastTimestamps'[s] = Newest(s)
      BY <1>1
    <3> QED
      BY <3>1, NewestFound
  <2> QED
    BY <1>1, <2>1, Zenon DEF NewestKnown
<1> DEFINE found == {Oldest(s) : s \in Sensor} \ {None}
           oldest == OldestOf(Sensor)
<1>5. /\ found \subseteq Time /\ \A s \in Sensor : Oldest(s) \in found \/ Oldest(s) = None
      /\ \A t \in found : \E s \in Sensor : t = Oldest(s)
  BY OldestFound
<1>6. oldest = IF found = {} THEN None ELSE CHOOSE t \in found : \A q \in found : t <= q
  BY Zenon DEF OldestOf
<1> HIDE DEF found, oldest
<1>7. Time \subseteq Nat /\ None \notin Time
  BY ConstantTypes
<1>8. /\ found = {} => oldest = None
      /\ found # {} => oldest \in found /\ \A q \in found : oldest <= q
  <2>1. CASE found = {}
    BY <1>6, <2>1
  <2>2. CASE found # {}
    <3>1. found \subseteq Nat
      BY <1>5, <1>7
    <3>2. \E t \in found : \A q \in found : t <= q
      BY <2>2, <3>1, LeastOf
    <3>3. oldest = CHOOSE t \in found : \A q \in found : t <= q
      BY <1>6, <2>2
    <3> QED
      BY <2>2, <3>2, <3>3, Zenon
  <2> QED
    BY <2>1, <2>2
<1>9. oldest \in Time \cup {None}
  BY <1>5, <1>8
<1>10. OthersTyped'
  BY <1>1, <1>3, <1>9, Zenon DEF IInv, OthersTyped, oldest
<1>11. OldestKnown'
  <2> SUFFICES ASSUME injured = {}
               PROVE  OldestIn(oldest, disk)
    BY <1>1, Zenon DEF OldestKnown, oldest
  <2> DEFINE stored == UNION {Stored(disk[s]) : s \in Sensor}
  <2>1. \A s \in Sensor : IF Oldest(s) = None THEN Stored(disk[s]) = {}
                          ELSE /\ Oldest(s) \in Stored(disk[s])
                               /\ \A t \in Stored(disk[s]) : Oldest(s) <= t
    BY OldestFound
  <2>2. CASE found = {}
    <3>1. stored = {}
      BY <1>5, <2>1, <2>2
    <3> HIDE DEF stored
    <3> QED
      BY <1>8, <2>2, <3>1, Zenon DEF OldestIn, stored
  <2>3. CASE found # {}
    <3>1. oldest \in found /\ oldest # None /\ oldest \in Nat
      BY <1>5, <1>7, <1>8, <2>3
    <3>2. oldest \in stored
      <4>1. PICK s \in Sensor : oldest = Oldest(s)
        BY <1>5, <3>1
      <4> QED
        BY <2>1, <3>1, <4>1
    <3>3. ASSUME NEW s \in Sensor, NEW t \in Stored(disk[s])
          PROVE  oldest <= t
      <4>1. Oldest(s) \in found /\ Oldest(s) <= t
        BY <1>5, <2>1, <3>3
      <4>2. oldest <= Oldest(s) /\ Oldest(s) \in Nat
        BY <1>5, <1>7, <1>8, <2>3, <4>1
      <4>3. t \in Nat
        BY <1>7, <3>3 DEF Stored, Readable
      <4> QED
        BY <3>1, <4>1, <4>2, <4>3
    <3>4. \A t \in stored : oldest <= t
      BY <3>3
    <3> HIDE DEF stored
    <3> QED
      BY <3>1, <3>2, <3>4, Zenon DEF OldestIn, stored
  <2> QED
    BY <2>2, <2>3
<1> QED
  BY <1>2, <1>4, <1>10, <1>11, Zenon DEF IInv

\* Stop leaves the files alone and forgets the rest.
LEMMA StopStep ==
  ASSUME IInv, Stop
  PROVE  IInv'
<1>1. /\ restarts < MaxRestarts /\ restarts' = restarts + 1 /\ up' = FALSE
      /\ lastTimestamps' = [s \in Sensor |-> 0] /\ oldestStored' = None
      /\ disk' = disk /\ cuts' = cuts /\ injured' = injured
  BY Zenon DEF Stop
<1>2. DiskTyped' /\ FilesPlaced' /\ FilesWhole'
  BY <1>1 DEF IInv, DiskTyped, FilesPlaced, FilesWhole
<1>3. OthersTyped'
  <2>1. 0 \in 0 .. MaxTime /\ restarts \in 0 .. MaxRestarts
    BY ConstantTypes DEF IInv, OthersTyped
  <2>2. restarts' \in 0 .. MaxRestarts /\ lastTimestamps' \in [Sensor -> 0 .. MaxTime]
    BY <1>1, <2>1, ConstantTypes
  <2>3. oldestStored' \in Time \cup {None} /\ up' \in BOOLEAN
    BY <1>1
  <2> QED
    BY <1>1, <2>2, <2>3, Zenon DEF IInv, OthersTyped
<1>4. NewestKnown' /\ OldestKnown'
  BY <1>1, Zenon DEF NewestKnown, OldestKnown
<1> QED
  BY <1>2, <1>3, <1>4, Zenon DEF IInv

\* Every step preserves the invariant.
LEMMA NextInvariant ==
  ASSUME IInv, [Next]_vars
  PROVE  IInv'
<1>1. ASSUME NEW s \in Sensor, NEW batch \in Batch, append(s, batch)
      PROVE  IInv'
  BY <1>1, AppendStep
<1>2. ASSUME NEW s \in Sensor, NEW batch \in Batch, NEW d \in Day, NEW n \in 0 .. MaxBatch - 1,
             NEW tail \in Time \cup {Bad, None}, NEW kind \in CutKind,
             CutShort(s, batch, d, n, tail, kind)
      PROVE  IInv'
  BY <1>2, CutStep
<1>3. CASE initialize
  BY <1>3, InitializeStep
<1>4. CASE Stop
  BY <1>4, StopStep
<1>5. CASE UNCHANGED vars
  BY <1>5 DEF IInv, DiskTyped, OthersTyped, FilesPlaced, FilesWhole, NewestKnown, OldestKnown, vars
<1> QED
  BY <1>1, <1>2, <1>3, <1>4, <1>5, Zenon DEF Next

\* It holds throughout.
LEMMA Invariant == Spec => []IInv
<1>1. Init => IInv
  BY InitInvariant
<1>2. IInv /\ [Next]_vars => IInv'
  BY NextInvariant
<1> QED
  BY <1>1, <1>2, PTL DEF Spec

-----------------------------------------------------------------------------
(***************************************************************************)
(* The readings of a sensor no cut write has put at risk are on disk once  *)
(* each and in order, whatever batches are handed over, whenever the       *)
(* server is stopped or killed, and wherever a kill cuts a batch that      *)
(* crosses midnights.                                                      *)
(***************************************************************************)
THEOREM StoredOnceInOrder == Spec => []OneCopyInOrder
<1>1. IInv => OneCopyInOrder
  BY InvariantOrder
<1> QED
  BY <1>1, Invariant, PTL

(***************************************************************************)
(* The newest and the oldest reading a running server remembers agree with *)
(* the files, although initialize opens two of them for each sensor and    *)
(* append reads none.                                                      *)
(***************************************************************************)
THEOREM SummariesAgree == Spec => []SummariesMatchDisk
<1>1. IInv => SummariesMatchDisk
  BY InvariantTypes, InvariantNewest, InvariantOldest, Zenon DEF SummariesMatchDisk
<1> QED
  BY <1>1, Invariant, PTL

(***************************************************************************)
(* A range query finds every readable reading of the range and no other,   *)
(* in files cut in any way too.                                            *)
(***************************************************************************)
THEOREM RangesAreWhole == Spec => []RangeFindsAll
<1>1. IInv => RangeFindsAll
  BY InvariantRange
<1> QED
  BY <1>1, Invariant, PTL

-----------------------------------------------------------------------------
\* append writes what it keeps to the files of its sensor.
LEMMA AppendFiles ==
  ASSUME IInv, NEW s \in Sensor, NEW batch \in Batch, append(s, batch)
  PROVE  FilesWritten(s, Kept(s, batch))
<1> DEFINE kept == Kept(s, batch)
           f == disk[s]
           g == WithDays(s, kept, DaysOf(kept))
<1>1. up /\ disk' = [disk EXCEPT ![s] = g]
  BY Zenon DEF append
<1>2. kept \in Seq(Time) /\ Increasing(kept)
  BY KeptOfBatch, Zenon
<1> HIDE DEF kept
<1>3. g = [d \in Day |-> IF d \in DaysOf(kept) THEN Appended(f[d], OfDay(kept, d), None)
                         ELSE f[d]]
  BY Zenon DEF WithDays
<1> HIDE DEF f, g
<1>4. f \in Files /\ f = disk[s] /\ DiskTyped
  BY DEF f, IInv, DiskTyped
<1>5. Wrote(g, f, kept)
  BY <1>2, <1>3, <1>4, DaysAppended
<1>6. g \in Files
  BY <1>5, Zenon DEF Wrote
<1>7. DiskTyped' /\ disk'[s] = g /\ \A q \in Sensor \ {s} : disk'[q] = disk[q]
  BY <1>1, <1>4, <1>6, OneSensorWritten, Zenon
<1>8. FilesWritten(s, kept)
  BY <1>4, <1>5, <1>7, Zenon DEF FilesWritten
<1> QED
  BY <1>8, Zenon DEF kept

\* What was readable is, or was a line without its newline.
FilesKept ==
  \A s \in Sensor, d \in Day : \A t \in Readable(disk[s][d]) :
    t \in Readable(disk'[s][d]) \/ disk[s][d].tail = t

\* Writing to the files of a sensor costs no reading but such a one.
LEMMA WrittenFilesKept ==
  ASSUME IInv, NEW s \in Sensor, NEW kept, FilesWritten(s, kept)
  PROVE  FilesKept
<1> SUFFICES ASSUME NEW q \in Sensor, NEW d \in Day, NEW t \in Readable(disk[q][d])
             PROVE  t \in Readable(disk'[q][d]) \/ disk[q][d].tail = t
  BY Zenon DEF FilesKept
<1>1. CASE q # s
  BY <1>1 DEF FilesWritten
<1>2. CASE q = s
  <2>1. disk'[s][d] = disk[s][d] \/ DayWritten(disk'[s][d], disk[s][d], kept, d)
    BY Zenon DEF FilesWritten, Wrote
  <2> QED
    BY <1>2, <2>1 DEF DayWritten
<1> QED
  BY <1>1, <1>2

\* No step costs any other.
LEMMA NextKeepsFiles ==
  ASSUME IInv, Next
  PROVE  FilesKept
<1>1. ASSUME NEW s \in Sensor, NEW batch \in Batch, append(s, batch)
      PROVE  FilesKept
  BY <1>1, AppendFiles, WrittenFilesKept
<1>2. ASSUME NEW s \in Sensor, NEW batch \in Batch, NEW d \in Day, NEW n \in 0 .. MaxBatch - 1,
             NEW tail \in Time \cup {Bad, None}, NEW kind \in CutKind,
             CutShort(s, batch, d, n, tail, kind)
      PROVE  FilesKept
  <2>1. FilesWritten(s, Kept(s, batch))
    BY <1>2, CutFiles
  <2> QED
    BY <2>1, WrittenFilesKept
<1>3. ASSUME initialize \/ Stop
      PROVE  FilesKept
  <2>1. disk' = disk
    BY <1>3 DEF initialize, Stop
  <2> QED
    BY <2>1 DEF FilesKept
<1> QED
  BY <1>1, <1>2, <1>3, Zenon DEF Next

\* readDayFile returns what can be read, of every file.
AllFilesRead == \A s \in Sensor, d \in Day : ToSet(readDayFile(s, d)) = Readable(disk[s][d])

\* It does if the files are files.
LEMMA FilesRead == DiskTyped => AllFilesRead
  BY DayFileRead, Zenon DEF AllFilesRead

(***************************************************************************)
(* A reading that can be read can be read ever after, whatever is          *)
(* appended, cut short by a kill or an error, or restarted, unless it was  *)
(* a last line without its newline.                                        *)
(***************************************************************************)
THEOREM ReadingsStay == Spec => StaysReadable
<1> DEFINE Stays == \A s \in Sensor, d \in Day :
                      LET before == readDayFile(s, d)
                      IN  \A t \in ToSet(before) :
                            t \in ToSet(readDayFile(s, d)') \/ disk[s][d].tail = t
<1>1. IInv /\ IInv' /\ [Next]_vars => [Stays]_vars
  <2> SUFFICES ASSUME IInv, IInv', Next
               PROVE  Stays
    OBVIOUS
  <2>1. AllFilesRead
    BY FilesRead DEF IInv
  <2>2. AllFilesRead'
    <3>1. DiskTyped'
      BY DEF IInv
    <3> QED
      BY <3>1, FilesRead, PTL
  <2>3. \A s \in Sensor, d \in Day : ToSet(readDayFile(s, d)') = Readable(disk'[s][d])
    BY <2>2 DEF AllFilesRead
  <2>4. FilesKept
    BY NextKeepsFiles
  <2> QED
    BY <2>1, <2>3, <2>4, Zenon DEF AllFilesRead, FilesKept
<1>2. Spec => [][Stays]_vars
  BY <1>1, Invariant, PTL DEF Spec
<1> QED
  BY <1>2, Zenon DEF StaysReadable

-----------------------------------------------------------------------------
(***************************************************************************)
(* u leads to the sum of ts, a term at a time.                             *)
(***************************************************************************)
SummedBy(u, ts) == u[0] = 0 /\ \A i \in 1 .. Len(ts) : u[i] = u[i - 1] + ts[i]

\* Such a u exists and ends with what Sum returns.
Sums(ts) == \E u \in [0 .. Len(ts) -> Nat] : SummedBy(u, ts) /\ Sum(ts) = u[Len(ts)]

\* It does, for every sequence of numbers.
LEMMA SumSteps ==
  ASSUME NEW ts \in Seq(Nat)
  PROVE  Sums(ts)
<1> DEFINE n == Len(ts)
           body(f) == [i \in 0 .. n |-> IF i = 0 THEN 0 ELSE f[i - 1] + ts[i]]
           upTo == CHOOSE f : f = body(f)
           step == [i \in 1 .. n |-> [q \in Nat |-> q + ts[i]]]
<1>1. n \in Nat /\ \A i \in 1 .. n : ts[i] \in Nat
  OBVIOUS
<1>2. Sum(ts) = upTo[n]
  BY Zenon DEF Sum
<1> HIDE DEF n
<1>3. step \in [1 .. n -> [Nat -> Nat]]
  BY <1>1
<1>4. \A i \in 1 .. n, q \in Nat : step[i][q] = q + ts[i]
  OBVIOUS
<1> HIDE DEF step
<1>5. PICK g \in [0 .. n -> Nat] : g[0] = 0 /\ \A i \in 1 .. n : g[i] = step[i][g[i - 1]]
  <2>1. 0 \in Nat
    OBVIOUS
  <2>2. HasRun(n, Nat, 0, step)
    BY <1>1, <1>3, <2>1, Recursion, ZenonT(30)
  <2> QED
    BY <2>2, Zenon DEF HasRun
<1>6. ASSUME NEW i \in 1 .. n
      PROVE  g[i] = g[i - 1] + ts[i]
  <2>1. g[i - 1] \in Nat
    BY <1>1, <1>6
  <2> QED
    BY <1>4, <1>5, <2>1
<1>7. upTo = body(upTo)
  <2>1. \A i \in 0 .. n : g[i] = IF i = 0 THEN 0 ELSE g[i - 1] + ts[i]
    <3> SUFFICES ASSUME NEW i \in 0 .. n, i # 0
                 PROVE  g[i] = g[i - 1] + ts[i]
      BY <1>5
    <3>1. i \in 1 .. n
      BY <1>1
    <3> QED
      BY <1>6, <3>1, Zenon
  <2>2. g = body(g)
    BY <1>5, <2>1
  <2> HIDE DEF body
  <2> QED
    BY <2>2
<1> HIDE DEF upTo
<1>8. upTo[0] = g[0]
  <2>1. 0 \in 0 .. n
    BY <1>1
  <2> QED
    BY <1>5, <1>7, <2>1, Zenon
<1>9. ASSUME NEW i \in 1 .. n, upTo[i - 1] = g[i - 1]
      PROVE  upTo[i] = g[i]
  <2>1. i \in 0 .. n /\ i # 0
    BY <1>1
  <2> QED
    BY <1>6, <1>7, <1>9, <2>1, Zenon
<1>10. upTo[n] = g[n]
  <2> DEFINE P == {i \in 0 .. n : upTo[i] = g[i]}
  <2>1. 0 \in P
    BY <1>1, <1>8
  <2>2. \A i \in 1 .. n : i - 1 \in P => i \in P
    BY <1>9
  <2> HIDE DEF P
  <2>3. \A i \in 0 .. n : i \in P
    BY <1>1, <2>1, <2>2, UpTo, ZenonT(30)
  <2>4. n \in 0 .. n
    BY <1>1
  <2> QED
    BY <2>3, <2>4, Zenon DEF P
<1>11. SummedBy(g, ts)
  BY <1>5, <1>6, Zenon DEF SummedBy, n
<1> QED
  BY <1>2, <1>5, <1>10, <1>11, Zenon DEF Sums, n

\* The sum of nothing.
LEMMA SumOfNone == \A ts \in Seq(Nat) : Len(ts) = 0 => Sum(ts) = 0
<1> SUFFICES ASSUME NEW ts \in Seq(Nat), Len(ts) = 0
             PROVE  Sum(ts) = 0
  OBVIOUS
<1>1. Sums(ts)
  BY SumSteps
<1> QED
  BY <1>1, Zenon DEF Sums, SummedBy

(***************************************************************************)
(* The sum with one term more.                                             *)
(***************************************************************************)
LEMMA SumWithOneMore ==
  ASSUME NEW ts \in Seq(Nat), NEW us \in Seq(Nat), Len(us) = Len(ts) + 1,
         \A i \in 1 .. Len(ts) : us[i] = ts[i]
  PROVE  Sum(us) = Sum(ts) + us[Len(us)] /\ Sum(ts) \in Nat
<1> DEFINE n == Len(ts)
<1>1. n \in Nat /\ n + 1 = Len(us)
  OBVIOUS
<1>2. PICK u \in [0 .. n -> Nat] : SummedBy(u, ts) /\ Sum(ts) = u[n]
  BY SumSteps, Zenon DEF Sums
<1>3. PICK v \in [0 .. n + 1 -> Nat] : SummedBy(v, us) /\ Sum(us) = v[n + 1]
  <2>1. Sums(us)
    BY SumSteps
  <2> QED
    BY <1>1, <2>1, Zenon DEF Sums
<1>4. /\ u[0] = 0 /\ v[0] = 0
      /\ \A i \in 1 .. n : u[i] = u[i - 1] + ts[i]
      /\ \A i \in 1 .. n + 1 : v[i] = v[i - 1] + us[i]
  BY <1>1, <1>2, <1>3, Zenon DEF SummedBy
<1>5. \A i \in 1 .. n : us[i] = ts[i]
  OBVIOUS
<1> HIDE DEF n
<1>6. \A i \in 0 .. n : u[i] = v[i]
  <2> DEFINE P == {i \in 0 .. n : u[i] = v[i]}
  <2>1. 0 \in P
    BY <1>1, <1>4
  <2>2. ASSUME NEW i \in 1 .. n, i - 1 \in P
        PROVE  i \in P
    <3>1. i \in 0 .. n /\ i \in 1 .. n + 1 /\ u[i - 1] = v[i - 1]
      BY <1>1, <2>2
    <3>2. u[i] = v[i]
      BY <1>4, <1>5, <3>1
    <3> QED
      BY <3>1, <3>2
  <2> HIDE DEF P
  <2>3. \A i \in 0 .. n : i \in P
    BY <1>1, <2>1, <2>2, UpTo, ZenonT(30)
  <2> QED
    BY <2>3 DEF P
<1>7. n + 1 \in 1 .. n + 1 /\ n \in 0 .. n /\ (n + 1) - 1 = n
  BY <1>1
<1>8. v[n + 1] = v[n] + us[n + 1] /\ u[n] = v[n] /\ u[n] \in Nat
  BY <1>4, <1>6, <1>7
<1> QED
  BY <1>1, <1>2, <1>3, <1>8

-----------------------------------------------------------------------------
(***************************************************************************)
(* What the elements of a sequence add up to, each weighed.                *)
(***************************************************************************)
Weighed(w, s) == Sum([i \in DOMAIN s |-> w[s[i]]])

\* With one element more, its weight comes on top.
WeighsMore(w, s, x) == Weighed(w, Append(s, x)) = Weighed(w, s) + w[x]

\* Nothing weighs nothing.
LEMMA WeighedNone ==
  ASSUME NEW w
  PROVE  Weighed(w, << >>) = 0
<1> DEFINE ts == [i \in DOMAIN << >> |-> w[<< >>[i]]]
<1>1. ts \in Seq(Nat) /\ Len(ts) = 0
  OBVIOUS
<1> QED
  BY <1>1, SumOfNone DEF Weighed

\* Weights add up.
LEMMA WeighedMore ==
  ASSUME NEW S, NEW w \in [S -> Nat], NEW s \in Seq(S), NEW x \in S
  PROVE  WeighsMore(w, s, x) /\ Weighed(w, s) \in Nat
<1> DEFINE ts == [i \in DOMAIN s |-> w[s[i]]]
           us == [i \in DOMAIN Append(s, x) |-> w[Append(s, x)[i]]]
<1>1. /\ Len(s) \in Nat /\ DOMAIN s = 1 .. Len(s) /\ DOMAIN Append(s, x) = 1 .. Len(s) + 1
      /\ \A i \in 1 .. Len(s) : s[i] \in S /\ Append(s, x)[i] = s[i]
      /\ Append(s, x)[Len(s) + 1] = x
  OBVIOUS
<1>2. ts \in Seq(Nat) /\ Len(ts) = Len(s)
  BY <1>1
<1>3. us \in Seq(Nat) /\ Len(us) = Len(s) + 1
  BY <1>1
<1>4. \A i \in 1 .. Len(s) : us[i] = ts[i]
  BY <1>1
<1>5. us[Len(s) + 1] = w[x]
  BY <1>1
<1>6. Weighed(w, s) = Sum(ts) /\ Weighed(w, Append(s, x)) = Sum(us)
  BY Zenon DEF Weighed
<1> HIDE DEF ts, us
<1>7. Sum(us) = Sum(ts) + us[Len(us)] /\ Sum(ts) \in Nat
  BY <1>2, <1>3, <1>4, SumWithOneMore
<1> QED
  BY <1>3, <1>5, <1>6, <1>7 DEF WeighsMore

(***************************************************************************)
(* What a sequence weighs, an element at a time.                           *)
(***************************************************************************)
WeighedBy(c, w, s) == c[0] = 0 /\ \A i \in 1 .. Len(s) : c[i] = c[i - 1] + w[s[i]]
Weighs(w, s) == \E c \in [0 .. Len(s) -> Nat] : WeighedBy(c, w, s) /\ Weighed(w, s) = c[Len(s)]

\* Such a c exists for every weight.
LEMMA WeighedSteps ==
  ASSUME NEW S, NEW w \in [S -> Nat], NEW s \in Seq(S)
  PROVE  Weighs(w, s)
<1> DEFINE ts == [i \in DOMAIN s |-> w[s[i]]]
<1>1. Len(s) \in Nat /\ DOMAIN s = 1 .. Len(s) /\ \A i \in 1 .. Len(s) : s[i] \in S
  OBVIOUS
<1>2. ts \in Seq(Nat) /\ Len(ts) = Len(s)
  BY <1>1
<1>3. \A i \in 1 .. Len(s) : ts[i] = w[s[i]]
  BY <1>1
<1>4. Weighed(w, s) = Sum(ts)
  BY Zenon DEF Weighed
<1> HIDE DEF ts
<1>5. PICK c \in [0 .. Len(ts) -> Nat] : SummedBy(c, ts) /\ Sum(ts) = c[Len(ts)]
  BY <1>2, SumSteps, Zenon DEF Sums
<1>6. WeighedBy(c, w, s)
  BY <1>2, <1>3, <1>5, Zenon DEF SummedBy, WeighedBy
<1> QED
  BY <1>2, <1>4, <1>5, <1>6, Zenon DEF Weighs

-----------------------------------------------------------------------------
\* The points of a chart, and what they weigh.
Points == [t : Nat, count : Nat, total : Nat]
Counts == [p \in Points |-> p.count]
Totals == [p \in Points |-> p.total]

\* What a reading adds is a number.
LEMMA FieldWeights == Counted \in [Time -> Nat] /\ Valued \in [Time -> Nat]
<1>1. ASSUME NEW t \in Time
      PROVE  (IF t \in Carrying THEN 1 ELSE 0) \in Nat /\ (IF t \in Carrying THEN t ELSE 0) \in Nat
  BY ConstantTypes
<1> QED
  BY <1>1, Zenon DEF Counted, Valued

\* A point over readings weighs what they do.
LEMMA PointOf ==
  ASSUME NEW t \in Nat, NEW readings \in Seq(Time)
  PROVE  /\ Point(t, readings) \in Points /\ Point(t, readings).t = t
         /\ Point(t, readings).count = Weighed(Counted, readings)
         /\ Point(t, readings).total = Weighed(Valued, readings)
<1>1. Weighs(Counted, readings) /\ Weighs(Valued, readings)
  BY FieldWeights, WeighedSteps, Zenon
<1>2. Weighed(Counted, readings) \in Nat /\ Weighed(Valued, readings) \in Nat
  <2>1. Len(readings) \in 0 .. Len(readings)
    OBVIOUS
  <2> QED
    BY <1>1, <2>1 DEF Weighs
<1>3. Point(t, readings) = [t |-> t, count |-> Weighed(Counted, readings),
                                     total |-> Weighed(Valued, readings)]
  BY Zenon DEF Point, Weighed
<1> QED
  BY <1>2, <1>3 DEF Points

\* The mean of increasing readings lies between the first and the last of them.
Between(b, t) == b[1] <= t /\ t <= b[Len(b)]

\* When the mean of a bucket is.
Mean(b) == (2 * Sum(b) + Len(b)) \div (2 * Len(b))

\* The mean is rounded to a whole number.
LEMMA MeanIsNumber ==
  ASSUME NEW b \in Seq(Time), b # << >>
  PROVE  Mean(b) \in Nat /\ Sum(b) \in Nat
<1>1. Len(b) \in Nat \ {0} /\ Len(b) \in 0 .. Len(b)
      /\ b \in [1 .. Len(b) -> Time]
  OBVIOUS
<1>0. b \in Seq(Nat)
  <2>1. b \in [1 .. Len(b) -> Nat]
    BY <1>1, ConstantTypes
  <2> QED
    BY <1>1, <2>1
<1>2. Sum(b) \in Nat
  <2>1. Sums(b)
    BY <1>0, SumSteps
  <2> QED
    BY <1>1, <2>1 DEF Sums
<1> DEFINE x == 2 * Sum(b) + Len(b)
           y == 2 * Len(b)
<1>3. x \in Nat /\ y \in Nat \ {0}
  BY <1>1, <1>2
<1> HIDE DEF x, y
<1>4. x \div y \in Nat
  BY <1>3
<1> QED
  BY <1>2, <1>4 DEF x, y, Mean

\* The point of a bucket.
LEMMA AveragePoint ==
  ASSUME NEW b \in Seq(Time), b # << >>
  PROVE  /\ average(b) \in Points /\ average(b).t = Mean(b)
         /\ Counts[average(b)] = Weighed(Counted, b)
         /\ Totals[average(b)] = Weighed(Valued, b)
<1>1. average(b) = Point(Mean(b), b)
  BY Zenon DEF average, Mean
<1>2. Mean(b) \in Nat
  BY MeanIsNumber
<1> HIDE DEF Mean
<1> QED
  BY <1>1, <1>2, PointOf DEF Counts, Totals

\* By induction over the sum, which lies between so many times the first and the last.
LEMMA MeanBetween ==
  ASSUME NEW b \in Seq(Time), b # << >>, Increasing(b)
  PROVE  Between(b, Mean(b))
<1> DEFINE n == Len(b)
           lo == b[1]
           hi == b[n]
<1>0. n \in Nat \ {0} /\ \A i \in 1 .. n : b[i] \in Time
  OBVIOUS
<1>1. n \in Nat \ {0} /\ lo \in Nat /\ hi \in Nat /\ \A i \in 1 .. n : b[i] \in Nat
  <2>1. \A i \in 1 .. n : b[i] \in Nat
    BY <1>0, ConstantTypes, Zenon
  <2>2. 1 \in 1 .. n /\ n \in 1 .. n
    BY <1>0
  <2> QED
    BY <1>0, <2>1, <2>2, Zenon
<1>2. \A i \in 1 .. n : lo <= b[i] /\ b[i] <= hi
  <2> SUFFICES ASSUME NEW i \in 1 .. n
               PROVE  lo <= b[i] /\ b[i] <= hi
    OBVIOUS
  <2>1. i \in DOMAIN b /\ 1 \in DOMAIN b /\ n \in DOMAIN b
    OBVIOUS
  <2>2. (1 < i => b[1] < b[i]) /\ (i < n => b[i] < b[n])
    BY <2>1, Zenon DEF Increasing
  <2>3. b[i] \in Nat
    BY <1>1
  <2> QED
    BY <1>1, <2>2, <2>3
<1>3. b \in Seq(Nat)
  <2>1. b \in [1 .. n -> Nat] /\ n \in Nat
    BY <1>1
  <2> QED
    BY <2>1
<1>4. PICK u \in [0 .. n -> Nat] : SummedBy(u, b) /\ Sum(b) = u[n]
  <2>1. Sums(b)
    BY <1>3, SumSteps
  <2> QED
    BY <2>1, Zenon DEF Sums
<1>5. u[0] = 0 /\ \A i \in 1 .. n : u[i] = u[i - 1] + b[i]
  BY <1>4, Zenon DEF SummedBy
<1>6. Between(b, Mean(b)) <=> lo <= Mean(b) /\ Mean(b) <= hi
  BY Zenon DEF Between
<1>7. Mean(b) = (2 * u[n] + n) \div (2 * n)
  BY <1>4, Zenon DEF Mean
<1> HIDE DEF n, lo, hi
<1> DEFINE P == {i \in 0 .. n : lo * i <= u[i] /\ u[i] <= hi * i}
<1>8. 0 \in P
  BY <1>1, <1>5
<1>9. ASSUME NEW i \in 1 .. n, i - 1 \in P
      PROVE  i \in P
  <2> DEFINE j == i - 1
             x == u[j]
  <2>1. /\ j \in Nat /\ i = j + 1 /\ i \in 0 .. n /\ x \in Nat /\ b[i] \in Nat
        /\ lo * j <= x /\ x <= hi * j /\ lo <= b[i] /\ b[i] <= hi
    BY <1>1, <1>2, <1>9
  <2>2. u[i] = x + b[i]
    BY <1>5
  <2> HIDE DEF j, x
  <2>3. lo * i = lo * j + lo /\ hi * i = hi * j + hi
    BY <1>1, <2>1
  <2>4. lo * j \in Nat /\ hi * j \in Nat
    BY <1>1, <2>1
  <2> DEFINE p == lo * j
             q == hi * j
             v == b[i]
  <2>5. p \in Nat /\ q \in Nat /\ p <= x /\ x <= q /\ lo <= v /\ v <= hi /\ v \in Nat
    BY <2>1, <2>4
  <2>6. lo * i = p + lo /\ hi * i = q + hi /\ u[i] = x + v
    BY <2>2, <2>3
  <2> HIDE DEF p, q, v
  <2>7. lo * i <= u[i] /\ u[i] <= hi * i
    BY <1>1, <2>1, <2>5, <2>6
  <2> QED
    BY <2>1, <2>7
<1> HIDE DEF P
<1>10. \A i \in 0 .. n : i \in P
  BY <1>1, <1>8, <1>9, UpTo, ZenonT(30)
<1>11. n \in P
  BY <1>1, <1>10
<1> DEFINE x == u[n]
<1>12. lo * n <= x /\ x <= hi * n /\ x \in Nat
  BY <1>1, <1>11 DEF P
<1>13. Mean(b) = (2 * x + n) \div (2 * n)
  BY <1>7
<1> HIDE DEF x
<1> DEFINE m == 2 * n
           y == 2 * x + n
<1>14. lo * m = 2 * (lo * n) /\ (hi + 1) * m = 2 * (hi * n) + 2 * n
  BY <1>1
<1>15. lo * n \in Nat /\ hi * n \in Nat
  BY <1>1
<1>16. lo * m <= y /\ y < (hi + 1) * m /\ m \in Nat \ {0} /\ y \in Nat
  BY <1>1, <1>12, <1>14, <1>15
<1> HIDE DEF m, y
<1>17. lo <= y \div m /\ y \div m < hi + 1 /\ y \div m \in Nat
  BY <1>1, <1>16
<1> QED
  BY <1>1, <1>6, <1>13, <1>17 DEF m, y

-----------------------------------------------------------------------------
\* The buckets of a range are numbered from zero.
LEMMA BucketNumber ==
  ASSUME NEW from \in Nat, NEW to \in Nat, NEW points \in Nat \ {0}, from < to,
         NEW t \in from .. to
  PROVE  BucketOf(t, from, to, points) \in 0 .. points - 1
<1> DEFINE x == (t - from) * points
           w == to - from
<1>1. x \in Nat /\ w \in Nat \ {0}
  <2>1. t - from \in Nat
    OBVIOUS
  <2> QED
    BY <2>1
<1>2. BucketOf(t, from, to, points) = IF x \div w < points THEN x \div w ELSE points - 1
  BY Zenon DEF BucketOf
<1> HIDE DEF x, w
<1>3. x \div w \in Nat
  BY <1>1
<1> QED
  BY <1>2, <1>3

(***************************************************************************)
(* A later reading is in no earlier bucket, and two readings of one bucket *)
(* are at most the width of it apart.                                      *)
(***************************************************************************)
LEMMA BucketsFollow ==
  ASSUME NEW from \in Nat, NEW to \in Nat, NEW points \in Nat \ {0}, from < to,
         NEW t \in from .. to, NEW q \in from .. to, t <= q
  PROVE  /\ BucketOf(t, from, to, points) <= BucketOf(q, from, to, points)
         /\ BucketOf(t, from, to, points) = BucketOf(q, from, to, points)
              => (q - t) * points <= to - from
<1> DEFINE x == (t - from) * points
           y == (q - from) * points
           w == to - from
<1>1. x \in Nat /\ y \in Nat /\ w \in Nat \ {0} /\ x <= y /\ y <= w * points
      /\ (q - t) * points = y - x
  <2> DEFINE a == t - from
             b == q - from
  <2>1. a \in Nat /\ b \in Nat /\ w \in Nat \ {0} /\ a <= b /\ b <= w /\ q - t = b - a
    OBVIOUS
  <2>2. b - a \in Nat /\ w - b \in Nat
    BY <2>1
  <2> HIDE DEF a, b, w
  <2>3. a * points \in Nat /\ b * points \in Nat /\ (b - a) * points \in Nat
        /\ (w - b) * points \in Nat
    BY <2>1, <2>2
  <2>4. (b - a) * points = b * points - a * points
        /\ (w - b) * points = w * points - b * points
    BY <2>1
  <2>5. w * points \in Nat
    BY <2>1
  <2>6. a * points <= b * points /\ b * points <= w * points
    BY <2>3, <2>4, <2>5
  <2>7. x = a * points /\ y = b * points /\ (q - t) * points = (b - a) * points
    BY <2>1 DEF a, b
  <2> QED
    BY <2>1, <2>3, <2>4, <2>6, <2>7
<1>2. BucketOf(t, from, to, points) = IF x \div w < points THEN x \div w ELSE points - 1
  BY Zenon DEF BucketOf
<1>3. BucketOf(q, from, to, points) = IF y \div w < points THEN y \div w ELSE points - 1
  BY Zenon DEF BucketOf
<1> HIDE DEF x, y, w
<1> DEFINE m == x \div w
           n == y \div w
<1>4. m \in Nat /\ n \in Nat /\ m <= n
  BY <1>1
<1>5. m * w <= x /\ x < (m + 1) * w /\ n * w <= y /\ y < (n + 1) * w
  BY <1>1
<1>6. BucketOf(t, from, to, points) = IF m < points THEN m ELSE points - 1
  BY <1>2
<1>7. BucketOf(q, from, to, points) = IF n < points THEN n ELSE points - 1
  BY <1>3
<1> HIDE DEF m, n
<1>8. BucketOf(t, from, to, points) <= BucketOf(q, from, to, points)
  BY <1>4, <1>6, <1>7
<1>9. ASSUME BucketOf(t, from, to, points) = BucketOf(q, from, to, points)
      PROVE  y - x <= w
  <2>1. CASE m = n
    <3>1. (n + 1) * w = n * w + w
      BY <1>1, <1>4
    <3>2. n * w \in Nat
      BY <1>1, <1>4
    <3> QED
      BY <1>1, <1>5, <2>1, <3>1, <3>2
  <2>2. CASE m # n
    <3>1. m >= points - 1
      BY <1>4, <1>6, <1>7, <1>9, <2>2
    <3> DEFINE r == m - (points - 1)
    <3>2. r \in Nat /\ m = r + (points - 1)
      BY <1>4, <3>1
    <3> HIDE DEF r
    <3>3. r * w \in Nat /\ (points - 1) * w \in Nat
      BY <1>1, <3>2
    <3>4. m * w = r * w + (points - 1) * w
      BY <1>1, <3>2
    <3>5. (points - 1) * w = w * points - w
      BY <1>1
    <3>6. w * points \in Nat
      BY <1>1
    <3>7. w * points - w <= m * w
      BY <1>1, <3>3, <3>4, <3>5, <3>6
    <3>8. m * w \in Nat
      BY <1>1, <1>4
    <3> QED
      BY <1>1, <1>5, <3>6, <3>7, <3>8
  <2> QED
    BY <2>1, <2>2
<1>10. (q - t) * points = y - x /\ w = to - from
  BY <1>1 DEF w
<1> QED
  BY <1>8, <1>9, <1>10

-----------------------------------------------------------------------------
\* What downsample has at hand between two readings.
States == [output : Seq(Points), bucket : Seq(Time), index : Nat]
Start == [output |-> << >>, bucket |-> << >>, index |-> 0]

\* A reading entered: the state after it, part by part.
EntersAs(next, state, t, index) ==
  /\ next \in States /\ next.index = index
  /\ index = state.index \/ state.bucket = << >> =>
       next.output = state.output /\ next.bucket = Append(state.bucket, t)
  /\ index # state.index /\ state.bucket # << >> =>
       next.output = Append(state.output, average(state.bucket)) /\ next.bucket = Append(<< >>, t)

\* The bucket averaged, part by part.
FlushesTo(next, state) ==
  /\ next \in States /\ next.index = state.index
  /\ state.bucket = << >> => next = state
  /\ state.bucket # << >> =>
       next.output = Append(state.output, average(state.bucket)) /\ next.bucket = << >>

\* flush does that.
LEMMA Flushing ==
  ASSUME NEW state \in States
  PROVE  FlushesTo(flush(state), state)
<1> DEFINE o == state.output
           b == state.bucket
<1>1. o \in Seq(Points) /\ b \in Seq(Time) /\ state.index \in Nat
      /\ state = [output |-> o, bucket |-> b, index |-> state.index]
  BY DEF States
<1>2. CASE b = << >>
  BY <1>2, Zenon DEF flush, FlushesTo
<1>3. CASE b # << >>
  <2>1. average(b) \in Points
    BY <1>1, <1>3, AveragePoint
  <2> DEFINE p == Append(o, average(b))
             e == << >>
  <2>2. p \in Seq(Points) /\ e \in Seq(Time)
    BY <1>1, <2>1
  <2>3. flush(state) = [state EXCEPT !.output = p, !.bucket = e]
    BY <1>3, Zenon DEF flush
  <2> HIDE DEF p, e
  <2>4. /\ flush(state) \in States /\ flush(state).index = state.index
        /\ flush(state).output = p /\ flush(state).bucket = e
    BY <2>2, <2>3 DEF States
  <2> QED
    BY <1>3, <2>4, Zenon DEF FlushesTo, p, e
<1> QED
  BY <1>2, <1>3

\* Entered does that.
LEMMA Entering ==
  ASSUME NEW state \in States, NEW t \in Time, NEW index \in Nat
  PROVE  EntersAs(Entered(state, t, index), state, t, index)
<1> DEFINE f == flush(state)
           s == IF index # state.index THEN f ELSE state
           c == Append(s.bucket, t)
           next == Entered(state, t, index)
<1>1. /\ f \in States
      /\ state.bucket = << >> => f = state
      /\ state.bucket # << >> =>
           f.output = Append(state.output, average(state.bucket)) /\ f.bucket = << >>
  BY Flushing, Zenon DEF FlushesTo
<1> HIDE DEF f
<1>2. s \in States
  BY <1>1
<1>3. next = [s EXCEPT !.index = index, !.bucket = c]
  BY Zenon DEF Entered, f
<1>4. CASE index = state.index \/ state.bucket = << >>
  <2>1. s = state
    BY <1>1, <1>4
  <2> QED
    <3>1. c \in Seq(Time)
      BY <1>2 DEF States
    <3> HIDE DEF s
    <3>2. c = Append(state.bucket, t)
      BY <2>1
    <3> HIDE DEF c
    <3>3. /\ next \in States /\ next.index = index
          /\ next.output = s.output /\ next.bucket = c
      BY <1>2, <1>3, <3>1 DEF States
    <3> QED
      BY <1>4, <2>1, <3>2, <3>3, Zenon DEF EntersAs
<1>5. CASE index # state.index /\ state.bucket # << >>
  <2>1. s.output = Append(state.output, average(state.bucket)) /\ s.bucket = << >>
    BY <1>1, <1>5, Zenon
  <2>2. c \in Seq(Time)
    BY <1>2 DEF States
  <2> HIDE DEF s
  <2>3. c = Append(<< >>, t)
    BY <2>1
  <2> HIDE DEF c
  <2>4. /\ next \in States /\ next.index = index
        /\ next.output = s.output /\ next.bucket = c
    BY <1>2, <1>3, <2>2 DEF States
  <2> QED
    BY <1>5, <2>1, <2>3, <2>4, Zenon DEF EntersAs
<1> QED
  BY <1>4, <1>5, Zenon

-----------------------------------------------------------------------------
\* Readings of a range, and a number of points for them.
Plotted(readings, from, to, points) ==
  /\ from \in Nat /\ to \in Nat /\ from < to /\ points \in Nat \ {0}
  /\ readings \in Seq(Time) /\ \A i \in 1 .. Len(readings) : readings[i] \in from .. to

\* u leads to the state of downsample after the last reading, a reading at a time.
LoopedBy(u, readings, from, to, points) ==
  /\ u[0] = Start
  /\ \A i \in 1 .. Len(readings) :
       u[i] = Entered(u[i - 1], readings[i], BucketOf(readings[i], from, to, points))

\* Such a u exists and ends with what Buckets returns.
Loops(readings, from, to, points) ==
  \E u \in [0 .. Len(readings) -> States] :
    /\ LoopedBy(u, readings, from, to, points)
    /\ Buckets(readings, from, to, points) = flush(u[Len(readings)]).output

\* downsample starts in a state.
LEMMA StartIsState == Start \in States
<1> DEFINE o == << >>
           b == << >>
<1>1. o \in Seq(Points) /\ b \in Seq(Time) /\ 0 \in Nat
  OBVIOUS
<1>2. Start = [output |-> o, bucket |-> b, index |-> 0]
  BY Zenon DEF Start
<1> HIDE DEF o, b
<1> QED
  BY <1>1, <1>2 DEF States

\* It does, for all readings of the range.
LEMMA BucketSteps ==
  ASSUME NEW readings, NEW from, NEW to, NEW points, Plotted(readings, from, to, points)
  PROVE  Loops(readings, from, to, points)
<1> DEFINE n == Len(readings)
           k == [i \in 1 .. n |-> BucketOf(readings[i], from, to, points)]
           body(f) == [i \in 0 .. n |->
                         IF i = 0 THEN [output |-> << >>, bucket |-> << >>, index |-> 0]
                         ELSE Entered(f[i - 1], readings[i],
                                      BucketOf(readings[i], from, to, points))]
           after == CHOOSE f : f = body(f)
           step == [i \in 1 .. n |-> [q \in States |-> Entered(q, readings[i], k[i])]]
<1>1. /\ n \in Nat /\ \A i \in 1 .. n : readings[i] \in Time /\ readings[i] \in from .. to
      /\ from \in Nat /\ to \in Nat /\ from < to /\ points \in Nat \ {0}
  BY DEF Plotted
<1>2. Buckets(readings, from, to, points) = flush(after[n]).output
  BY Zenon DEF Buckets
<1> HIDE DEF n
<1>3. \A i \in 1 .. n : k[i] = BucketOf(readings[i], from, to, points) /\ k[i] \in Nat
  <2> SUFFICES ASSUME NEW i \in 1 .. n
               PROVE  k[i] = BucketOf(readings[i], from, to, points) /\ k[i] \in Nat
    OBVIOUS
  <2>1. BucketOf(readings[i], from, to, points) \in 0 .. points - 1
    BY <1>1, BucketNumber
  <2>2. k[i] = BucketOf(readings[i], from, to, points)
    BY Zenon
  <2> HIDE DEF k
  <2> QED
    BY <1>1, <2>1, <2>2
<1> HIDE DEF k
<1>4. ASSUME NEW i \in 1 .. n, NEW q \in States
      PROVE  Entered(q, readings[i], k[i]) \in States
  <2>1. readings[i] \in Time /\ k[i] \in Nat
    BY <1>1, <1>3, Zenon
  <2>2. EntersAs(Entered(q, readings[i], k[i]), q, readings[i], k[i])
    BY <2>1, Entering, Zenon
  <2> QED
    BY <2>2, Zenon DEF EntersAs
<1>5. step \in [1 .. n -> [States -> States]]
  BY <1>4, Zenon
<1>6. \A i \in 1 .. n, q \in States : step[i][q] = Entered(q, readings[i], k[i])
  BY Zenon
<1> HIDE DEF step
<1>7. PICK g \in [0 .. n -> States] :
        g[0] = Start /\ \A i \in 1 .. n : g[i] = step[i][g[i - 1]]
  <2>1. HasRun(n, States, Start, step)
    BY <1>1, <1>5, StartIsState, Recursion, ZenonT(30)
  <2> QED
    BY <2>1, Zenon DEF HasRun
<1>8. \A i \in 1 .. n : i - 1 \in 0 .. n /\ i \in 0 .. n /\ i # 0
  BY <1>1
<1>9. ASSUME NEW i \in 1 .. n
      PROVE  g[i] = Entered(g[i - 1], readings[i], BucketOf(readings[i], from, to, points))
  <2>1. g[i - 1] \in States
    BY <1>8, Zenon
  <2> QED
    BY <1>3, <1>6, <1>7, <2>1, Zenon
<1>10. after = body(after)
  <2>1. \A i \in 0 .. n :
          g[i] = IF i = 0 THEN [output |-> << >>, bucket |-> << >>, index |-> 0]
                 ELSE Entered(g[i - 1], readings[i],
                              BucketOf(readings[i], from, to, points))
    <3> SUFFICES ASSUME NEW i \in 0 .. n, i # 0
                 PROVE  g[i] = Entered(g[i - 1], readings[i],
                                       BucketOf(readings[i], from, to, points))
      BY <1>7, Zenon DEF Start
    <3>1. i \in 1 .. n
      BY <1>1
    <3> QED
      BY <1>9, <3>1, Zenon
  <2>2. g = body(g)
    BY <1>7, <2>1, Zenon
  <2> HIDE DEF body
  <2> QED
    BY <2>2, Zenon
<1> HIDE DEF after
<1>11. 0 \in 0 .. n /\ n \in 0 .. n
  BY <1>1
<1>12. after[0] = g[0]
  BY <1>7, <1>10, <1>11, Zenon DEF Start
<1>13. ASSUME NEW i \in 1 .. n, after[i - 1] = g[i - 1]
       PROVE  after[i] = g[i]
  BY <1>8, <1>9, <1>10, <1>13, Zenon
<1>14. after[n] = g[n]
  <2> DEFINE P == {i \in 0 .. n : after[i] = g[i]}
  <2>1. 0 \in P
    BY <1>11, <1>12, Zenon
  <2>2. \A i \in 1 .. n : i - 1 \in P => i \in P
    BY <1>8, <1>13, Zenon
  <2> HIDE DEF P
  <2>3. \A i \in 0 .. n : i \in P
    BY <1>1, <2>1, <2>2, UpTo, ZenonT(30)
  <2> QED
    BY <1>11, <2>3, Zenon DEF P
<1>15. LoopedBy(g, readings, from, to, points)
  BY <1>7, <1>9, Zenon DEF LoopedBy, n
<1> QED
  BY <1>2, <1>7, <1>14, <1>15, Zenon DEF Loops, n

-----------------------------------------------------------------------------
\* What is on the way to a chart: the points so far and the bucket.
OnTheWay(w, v, state) == Weighed(w, state.output) + Weighed(v, state.bucket)

\* w weighs the point of a bucket as v does the readings of it.
SameWeight(w, v) ==
  /\ w \in [Points -> Nat] /\ v \in [Time -> Nat]
  /\ \A b \in Seq(Time) : b # << >> => w[average(b)] = Weighed(v, b)

\* The weights are numbers.
LEMMA OnTheWayIsNumber ==
  ASSUME NEW w, NEW v, SameWeight(w, v), NEW state \in States
  PROVE  Weighed(w, state.output) \in Nat /\ Weighed(v, state.bucket) \in Nat
<1> DEFINE o == state.output
           b == state.bucket
<1>1. o \in Seq(Points) /\ b \in Seq(Time) /\ w \in [Points -> Nat] /\ v \in [Time -> Nat]
  BY DEF States, SameWeight
<1> HIDE DEF o, b
<1>2. Weighs(w, o) /\ Weighs(v, b)
  BY <1>1, WeighedSteps, Zenon
<1>3. Len(o) \in 0 .. Len(o) /\ Len(b) \in 0 .. Len(b)
  BY <1>1
<1>4. Weighed(w, o) \in Nat /\ Weighed(v, b) \in Nat
  BY <1>2, <1>3 DEF Weighs
<1> QED
  BY <1>4, Zenon DEF o, b

\* A reading entered adds its weight, whether its bucket is the one at hand or not.
LEMMA EnteringWeighs ==
  ASSUME NEW w, NEW v, SameWeight(w, v),
         NEW state \in States, NEW t \in Time, NEW index \in Nat
  PROVE  OnTheWay(w, v, Entered(state, t, index)) = OnTheWay(w, v, state) + v[t]
<1> DEFINE o == state.output
           b == state.bucket
           next == Entered(state, t, index)
           e == << >>
<1>1. /\ o \in Seq(Points) /\ b \in Seq(Time) /\ w \in [Points -> Nat] /\ v \in [Time -> Nat]
      /\ e \in Seq(Time)
  BY DEF States, SameWeight
<1>2. /\ index = state.index \/ b = << >> => next.output = o /\ next.bucket = Append(b, t)
      /\ index # state.index /\ b # << >> =>
           next.output = Append(o, average(b)) /\ next.bucket = Append(e, t)
  <2>1. EntersAs(next, state, t, index)
    BY Entering
  <2> QED
    BY <2>1, Zenon DEF EntersAs
<1>3. Weighed(w, o) \in Nat /\ Weighed(v, b) \in Nat
  BY OnTheWayIsNumber, Zenon
<1>4. v[t] \in Nat
  BY <1>1
<1>5. OnTheWay(w, v, next) = Weighed(w, next.output) + Weighed(v, next.bucket)
      /\ OnTheWay(w, v, state) = Weighed(w, o) + Weighed(v, b)
  BY Zenon DEF OnTheWay
<1>6. Weighed(v, e) = 0
  BY WeighedNone
<1> HIDE DEF o, b, next, e
<1>7. CASE index = state.index \/ b = << >>
  <2>1. WeighsMore(v, b, t)
    BY <1>1, WeighedMore, Zenon
  <2>2. Weighed(v, next.bucket) = Weighed(v, b) + v[t] /\ next.output = o
    BY <1>2, <1>7, <2>1, Zenon DEF WeighsMore
  <2>3. OnTheWay(w, v, next) = Weighed(w, o) + (Weighed(v, b) + v[t])
    BY <1>5, <2>2, Zenon
  <2>4. OnTheWay(w, v, next) = OnTheWay(w, v, state) + v[t]
    BY <1>3, <1>4, <1>5, <2>3
  <2> QED
    BY <2>4 DEF next
<1>8. CASE index # state.index /\ b # << >>
  <2>1. average(b) \in Points /\ w[average(b)] = Weighed(v, b)
    BY <1>1, <1>8, AveragePoint, Zenon DEF SameWeight
  <2>2. WeighsMore(v, e, t) /\ WeighsMore(w, o, average(b))
    BY <1>1, <2>1, WeighedMore, Zenon
  <2>3. Weighed(v, next.bucket) = Weighed(v, e) + v[t]
        /\ Weighed(w, next.output) = Weighed(w, o) + Weighed(v, b)
    BY <1>2, <1>8, <2>1, <2>2, Zenon DEF WeighsMore
  <2>4. OnTheWay(w, v, next) = (Weighed(w, o) + Weighed(v, b)) + (0 + v[t])
    BY <1>5, <1>6, <2>3, Zenon
  <2>5. OnTheWay(w, v, next) = OnTheWay(w, v, state) + v[t]
    BY <1>3, <1>4, <1>5, <2>4
  <2> QED
    BY <2>5 DEF next
<1> QED
  BY <1>7, <1>8, Zenon

(***************************************************************************)
(* The points of the buckets weigh what the readings do: none is left out  *)
(* and none enters twice.                                                  *)
(***************************************************************************)
WeighAlike(w, v, readings, from, to, points) ==
  Weighed(w, Buckets(readings, from, to, points)) = Weighed(v, readings)

\* By induction over the readings, with the weight of the bucket left over at the end.
LEMMA BucketsWeigh ==
  ASSUME NEW readings, NEW from, NEW to, NEW points, Plotted(readings, from, to, points),
         NEW w, NEW v, SameWeight(w, v)
  PROVE  WeighAlike(w, v, readings, from, to, points)
<1> DEFINE n == Len(readings)
           k(i) == BucketOf(readings[i], from, to, points)
<1>1. /\ n \in Nat /\ readings \in Seq(Time)
      /\ \A i \in 1 .. n : readings[i] \in Time /\ readings[i] \in from .. to
      /\ from \in Nat /\ to \in Nat /\ from < to /\ points \in Nat \ {0}
      /\ w \in [Points -> Nat] /\ v \in [Time -> Nat]
  BY DEF Plotted, SameWeight
<1>2. PICK u \in [0 .. n -> States] :
        /\ LoopedBy(u, readings, from, to, points)
        /\ Buckets(readings, from, to, points) = flush(u[n]).output
  BY BucketSteps, Zenon DEF Loops
<1>3. u[0] = Start /\ \A i \in 1 .. n : u[i] = Entered(u[i - 1], readings[i], k(i))
  BY <1>2, Zenon DEF LoopedBy
<1>4. PICK c \in [0 .. n -> Nat] : WeighedBy(c, v, readings) /\ Weighed(v, readings) = c[n]
  <2>1. Weighs(v, readings)
    BY <1>1, WeighedSteps, Zenon
  <2> QED
    BY <2>1, Zenon DEF Weighs
<1>5. c[0] = 0 /\ \A i \in 1 .. n : c[i] = c[i - 1] + v[readings[i]]
  BY <1>4, Zenon DEF WeighedBy
<1> HIDE DEF n
<1>6. \A i \in 1 .. n : i - 1 \in 0 .. n /\ i \in 0 .. n
  BY <1>1
<1>7. 0 \in 0 .. n /\ n \in 0 .. n
  BY <1>1
<1> DEFINE P == {i \in 0 .. n : OnTheWay(w, v, u[i]) = c[i]}
<1>8. 0 \in P
  <2>1. Weighed(w, << >>) = 0 /\ Weighed(v, << >>) = 0
    BY WeighedNone
  <2>2. Start.output = << >> /\ Start.bucket = << >>
    BY DEF Start
  <2>3. OnTheWay(w, v, u[0]) = 0 + 0
    BY <1>3, <2>1, <2>2, Zenon DEF OnTheWay
  <2> QED
    BY <1>5, <1>7, <2>3
<1>9. ASSUME NEW i \in 1 .. n, i - 1 \in P
      PROVE  i \in P
  <2>1. readings[i] \in Time /\ u[i - 1] \in States
    BY <1>1, <1>6, Zenon
  <2>2. k(i) \in Nat
    <3>1. k(i) \in 0 .. points - 1
      BY <1>1, BucketNumber
    <3> HIDE DEF k
    <3> QED
      BY <1>1, <3>1
  <2> HIDE DEF k
  <2>3. OnTheWay(w, v, Entered(u[i - 1], readings[i], k(i)))
          = OnTheWay(w, v, u[i - 1]) + v[readings[i]]
    BY <2>1, <2>2, EnteringWeighs, Zenon
  <2> QED
    BY <1>3, <1>5, <1>6, <1>9, <2>3, Zenon
<1> HIDE DEF P
<1>10. \A i \in 0 .. n : i \in P
  BY <1>1, <1>8, <1>9, UpTo, ZenonT(30)
<1>11. OnTheWay(w, v, u[n]) = Weighed(v, readings)
  BY <1>4, <1>7, <1>10, Zenon DEF P
<1> DEFINE last == u[n]
           o == last.output
           b == last.bucket
<1>12. last \in States
  BY <1>7
<1> HIDE DEF last
<1>13. o \in Seq(Points) /\ b \in Seq(Time)
  BY <1>12 DEF States
<1>14. Weighed(w, o) \in Nat /\ Weighed(v, b) \in Nat
  BY <1>12, OnTheWayIsNumber, Zenon
<1>15. FlushesTo(flush(last), last)
  BY <1>12, Flushing, Zenon
<1>16. OnTheWay(w, v, last) = Weighed(w, o) + Weighed(v, b)
  BY Zenon DEF OnTheWay
<1>17. CASE b = << >>
  <2>1. flush(last).output = o /\ Weighed(v, b) = 0
    BY <1>15, <1>17, WeighedNone DEF FlushesTo
  <2> HIDE DEF o, b
  <2>2. Weighed(w, o) = OnTheWay(w, v, last)
    BY <1>14, <1>16, <2>1
  <2> QED
    BY <1>2, <1>11, <2>1, <2>2, Zenon DEF WeighAlike, last
<1>18. CASE b # << >>
  <2>1. flush(last).output = Append(o, average(b))
    BY <1>15, <1>18, Zenon DEF FlushesTo
  <2>2. average(b) \in Points /\ w[average(b)] = Weighed(v, b)
    BY <1>13, <1>18, AveragePoint, Zenon DEF SameWeight
  <2> HIDE DEF o, b
  <2>3. WeighsMore(w, o, average(b))
    BY <1>1, <1>13, <2>2, WeighedMore, Zenon
  <2>4. Weighed(w, flush(last).output) = OnTheWay(w, v, last)
    BY <1>16, <2>1, <2>2, <2>3, Zenon DEF WeighsMore
  <2> QED
    BY <1>2, <1>11, <2>4, Zenon DEF WeighAlike, last
<1> QED
  BY <1>17, <1>18, Zenon

-----------------------------------------------------------------------------
\* One element more.
LongerBy(r, s, x) ==
  /\ Len(r) = Len(s) + 1 /\ DOMAIN r = 1 .. Len(s) + 1 /\ r # << >>
  /\ r[Len(s) + 1] = x /\ \A i \in 1 .. Len(s) : r[i] = s[i]

\* Append does that.
LEMMA Longer ==
  ASSUME NEW S, NEW s \in Seq(S), NEW x \in S
  PROVE  Append(s, x) \in Seq(S) /\ LongerBy(Append(s, x), s, x)
<1> DEFINE r == Append(s, x)
<1>1. /\ r \in Seq(S) /\ Len(r) = Len(s) + 1 /\ DOMAIN r = 1 .. Len(s) + 1
      /\ r[Len(s) + 1] = x /\ \A i \in 1 .. Len(s) : r[i] = s[i]
  OBVIOUS
<1> HIDE DEF r
<1>2. r # << >>
  <2>1. Len(s) \in Nat /\ Len(<< >>) = 0
    OBVIOUS
  <2>2. Len(r) # Len(<< >>)
    BY <1>1, <2>1
  <2> QED
    BY <2>2, Zenon
<1> QED
  BY <1>1, <1>2, Zenon DEF LongerBy, r

\* Its elements, and its order if the new one is greater than the others.
OneElementMore(r, s, x) ==
  /\ ToSet(r) = ToSet(s) \cup {x}
  /\ Increasing(s) /\ (\A y \in ToSet(s) : y < x) => Increasing(r)

\* They are those of the sequence and the new one.
LEMMA LongerSet ==
  ASSUME NEW S, NEW s \in Seq(S), NEW x \in S, NEW r \in Seq(S), LongerBy(r, s, x)
  PROVE  OneElementMore(r, s, x)
<1> DEFINE n == Len(s)
<1>1. n \in Nat /\ DOMAIN s = 1 .. n
  OBVIOUS
<1>2. DOMAIN r = 1 .. n + 1 /\ r[n + 1] = x /\ \A i \in 1 .. n : r[i] = s[i]
  BY Zenon DEF LongerBy
<1> HIDE DEF n
<1>3. \A i : i \in 1 .. n + 1 <=> i \in 1 .. n \/ i = n + 1
  BY <1>1
<1>4. ToSet(r) = ToSet(s) \cup {x}
  <2>1. ToSet(r) = {r[i] : i \in 1 .. n + 1} /\ ToSet(s) = {s[i] : i \in 1 .. n}
    BY <1>1, <1>2, Zenon DEF ToSet
  <2> QED
    BY <1>2, <1>3, <2>1
<1>5. ASSUME Increasing(s), \A y \in ToSet(s) : y < x
      PROVE  Increasing(r)
  <2> SUFFICES ASSUME NEW i \in 1 .. n + 1, NEW j \in 1 .. n + 1, i < j
               PROVE  r[i] < r[j]
    BY <1>2, Zenon DEF Increasing
  <2>1. i \in 1 .. n
    BY <1>1
  <2>2. CASE j \in 1 .. n
    BY <1>1, <1>2, <1>5, <2>1, <2>2, Zenon DEF Increasing
  <2>3. CASE j = n + 1
    <3>1. s[i] \in ToSet(s)
      BY <1>1, <2>1, Zenon DEF ToSet
    <3> QED
      BY <1>2, <1>5, <2>1, <2>3, <3>1, Zenon
  <2> QED
    BY <1>3, <2>2, <2>3, Zenon
<1> QED
  BY <1>4, <1>5 DEF OneElementMore

-----------------------------------------------------------------------------
\* A point is at most the width of a bucket from a reading.
Near(p, t, from, to, points) == (IF p < t THEN t - p ELSE p - t) * points <= to - from

\* Points as a chart wants them: in the range, in order, each of them near a reading.
Charted(output, readings, from, to, points) ==
  \A i \in DOMAIN output :
    /\ output[i].t \in from .. to
    /\ i > 1 => output[i - 1].t < output[i].t
    /\ \E t \in ToSet(readings) : Near(output[i].t, t, from, to, points)

\* Another point, later than those before it.
LEMMA OneMorePoint ==
  ASSUME NEW output \in Seq(Points), NEW p \in Points, NEW r \in Seq(Points),
         LongerBy(r, output, p), NEW readings, NEW from, NEW to, NEW points,
         Charted(output, readings, from, to, points), p.t \in from .. to,
         \A i \in DOMAIN output : output[i].t < p.t,
         \E t \in ToSet(readings) : Near(p.t, t, from, to, points)
  PROVE  Charted(r, readings, from, to, points)
<1> DEFINE n == Len(output)
<1>1. n \in Nat /\ DOMAIN output = 1 .. n
  OBVIOUS
<1>2. DOMAIN r = 1 .. n + 1 /\ r[n + 1] = p /\ \A i \in 1 .. n : r[i] = output[i]
  BY Zenon DEF LongerBy
<1> HIDE DEF n
<1> SUFFICES ASSUME NEW i \in 1 .. n + 1
             PROVE  /\ r[i].t \in from .. to
                    /\ i > 1 => r[i - 1].t < r[i].t
                    /\ \E t \in ToSet(readings) : Near(r[i].t, t, from, to, points)
  BY <1>2, Zenon DEF Charted
<1>3. i > 1 => i - 1 \in 1 .. n
  BY <1>1
<1>4. CASE i \in 1 .. n
  <2>1. r[i] = output[i] /\ (i > 1 => r[i - 1] = output[i - 1])
    BY <1>2, <1>3, <1>4, Zenon
  <2> QED
    BY <1>1, <1>4, <2>1, Zenon DEF Charted
<1>5. CASE i = n + 1
  <2>1. r[i] = p
    BY <1>2, <1>5
  <2>2. i > 1 => r[i - 1].t < p.t
    BY <1>1, <1>2, <1>3, Zenon
  <2> QED
    BY <2>1, <2>2, Zenon
<1>6. i \in 1 .. n \/ i = n + 1
  BY <1>1
<1> QED
  BY <1>4, <1>5, <1>6, Zenon

\* A bucket of readings.
Fits(b, index, readings, from, to, points) ==
  /\ b \in Seq(Time) /\ b # << >> /\ Increasing(b) /\ ToSet(b) \subseteq ToSet(readings)
  /\ \A x \in ToSet(b) : x \in from .. to /\ BucketOf(x, from, to, points) = index

\* The point of it: between its first reading and its last, and near the first.
PointFits(p, b, from, to, points) ==
  /\ p \in Points /\ p.t \in from .. to /\ b[1] <= p.t /\ p.t <= b[Len(b)]
  /\ Near(p.t, b[1], from, to, points)

\* The average of a bucket is such a point.
LEMMA AverageFits ==
  ASSUME NEW readings, NEW from, NEW to, NEW points, Plotted(readings, from, to, points),
         NEW b, NEW index, Fits(b, index, readings, from, to, points)
  PROVE  PointFits(average(b), b, from, to, points)
<1> DEFINE n == Len(b)
           lo == b[1]
           hi == b[n]
           m == average(b).t
<1>1. /\ b \in Seq(Time) /\ b # << >> /\ Increasing(b)
      /\ from \in Nat /\ to \in Nat /\ points \in Nat \ {0} /\ from < to
  BY Zenon DEF Fits, Plotted
<1>2. n \in Nat /\ DOMAIN b = 1 .. n /\ 1 \in 1 .. n /\ n \in 1 .. n
  BY <1>1
<1>3. average(b) \in Points /\ m = Mean(b)
  BY <1>1, AveragePoint, Zenon
<1>4. lo <= m /\ m <= hi /\ m \in Nat
  BY <1>1, <1>3, MeanBetween, MeanIsNumber, Zenon DEF Between
<1>5. lo \in ToSet(b) /\ hi \in ToSet(b)
  BY <1>2, Zenon DEF ToSet
<1>6. /\ lo \in from .. to /\ hi \in from .. to
      /\ BucketOf(lo, from, to, points) = index /\ BucketOf(hi, from, to, points) = index
  BY <1>5, Zenon DEF Fits
<1>7. PointFits(average(b), b, from, to, points) <=>
        /\ average(b) \in Points /\ m \in from .. to /\ lo <= m /\ m <= hi
        /\ Near(m, lo, from, to, points)
  BY Zenon DEF PointFits
<1> HIDE DEF n, lo, hi, m
<1>8. lo \in Nat /\ hi \in Nat /\ lo <= hi /\ m \in from .. to
  BY <1>1, <1>4, <1>6
<1>9. (hi - lo) * points <= to - from
  BY <1>1, <1>6, <1>8, BucketsFollow
<1>10. (m - lo) * points <= to - from
  <2> DEFINE a == m - lo
             c == hi - m
  <2>1. a \in Nat /\ c \in Nat /\ hi - lo = a + c
    BY <1>4, <1>8
  <2> HIDE DEF a, c
  <2>2. (a + c) * points = a * points + c * points
    BY <1>1, <2>1
  <2>3. a * points \in Nat /\ c * points \in Nat
    BY <1>1, <2>1
  <2>4. a * points + c * points <= to - from
    BY <1>9, <2>1, <2>2
  <2>5. a * points <= to - from
    BY <1>1, <2>3, <2>4
  <2> QED
    BY <2>5 DEF a
<1>11. Near(m, lo, from, to, points)
  <2>1. ~(m < lo)
    BY <1>4, <1>8
  <2> QED
    BY <1>10, <2>1, Zenon DEF Near
<1> QED
  BY <1>3, <1>4, <1>7, <1>8, <1>11, Zenon

-----------------------------------------------------------------------------
(***************************************************************************)
(* After a reading t: the bucket at hand ends with it, and every point so  *)
(* far is earlier than the bucket, at most one to a number.                *)
(***************************************************************************)
Gathers(state, t, readings, from, to, points) ==
  /\ state \in States
  /\ Fits(state.bucket, state.index, readings, from, to, points)
  /\ state.bucket[Len(state.bucket)] = t
  /\ Len(state.output) <= state.index
  /\ Charted(state.output, readings, from, to, points)
  /\ \A j \in DOMAIN state.output, x \in ToSet(state.bucket) : state.output[j].t < x

\* Points are later than the points before them.
Precede(output, p) == \A j \in DOMAIN output : output[j].t < p.t

\* With the bucket averaged, the points are in order still, none later than t.
Averaged(r, state, t, readings, from, to, points) ==
  /\ r \in Seq(Points) /\ Len(r) = Len(state.output) + 1
  /\ Charted(r, readings, from, to, points)
  /\ \A j \in DOMAIN r : r[j].t <= t

\* The bucket's own point is later than the others and no later than its last reading.
LEMMA OutputWithBucket ==
  ASSUME NEW readings, NEW from, NEW to, NEW points, Plotted(readings, from, to, points),
         NEW state, NEW t, Gathers(state, t, readings, from, to, points)
  PROVE  Averaged(Append(state.output, average(state.bucket)), state, t,
                  readings, from, to, points)
<1> DEFINE o == state.output
           b == state.bucket
           p == average(b)
           r == Append(o, p)
<1>1. /\ o \in Seq(Points) /\ b \in Seq(Time)
      /\ Fits(b, state.index, readings, from, to, points) /\ b[Len(b)] = t
      /\ Charted(o, readings, from, to, points)
      /\ \A j \in DOMAIN o, x \in ToSet(b) : o[j].t < x
  BY DEF Gathers, States
<1>2. PointFits(p, b, from, to, points)
  BY <1>1, AverageFits, Zenon
<1>3. /\ p \in Points /\ p.t \in from .. to /\ b[1] <= p.t /\ p.t <= t
      /\ Near(p.t, b[1], from, to, points)
  BY <1>1, <1>2, Zenon DEF PointFits
<1>4. b # << >> /\ ToSet(b) \subseteq ToSet(readings)
  BY <1>1, Zenon DEF Fits
<1>5. b[1] \in ToSet(b) /\ b[1] \in Nat /\ b[Len(b)] \in Nat
  <2>1. 1 \in DOMAIN b /\ b[1] \in Time /\ b[Len(b)] \in Time
    BY <1>1, <1>4
  <2> QED
    BY <2>1, ConstantTypes, Zenon DEF ToSet
<1>6. r \in Seq(Points) /\ LongerBy(r, o, p)
  BY <1>1, <1>3, Longer, Zenon
<1>7. \A j \in DOMAIN o : o[j] \in Points
  BY <1>1
<1> HIDE DEF o, b, p, r
<1>8. p.t \in Nat /\ \A j \in DOMAIN o : o[j].t \in Nat
  BY <1>3, <1>7 DEF Points
<1>9. \A j \in DOMAIN o : o[j].t < p.t
  BY <1>1, <1>3, <1>5, <1>8
<1>10. Charted(r, readings, from, to, points)
  BY <1>1, <1>3, <1>4, <1>5, <1>6, <1>9, OneMorePoint, ZenonT(30)
<1>11. t \in Nat
  BY <1>1, <1>5
<1>12. \A j \in DOMAIN r : r[j].t <= t
  <2>1. \A j \in DOMAIN o : o[j].t <= t
    BY <1>3, <1>8, <1>9, <1>11
  <2>2. DOMAIN r = 1 .. Len(o) + 1 /\ r[Len(o) + 1] = p /\ \A j \in 1 .. Len(o) : r[j] = o[j]
    BY <1>6, Zenon DEF LongerBy
  <2>3. /\ DOMAIN o = 1 .. Len(o)
        /\ \A j : j \in 1 .. Len(o) + 1 <=> j \in 1 .. Len(o) \/ j = Len(o) + 1
    BY <1>1
  <2> QED
    BY <1>3, <2>1, <2>2, <2>3, Zenon
<1> QED
  BY <1>6, <1>10, <1>12, Zenon DEF Averaged, LongerBy, o, b, p, r

\* A bucket begun.
Begun(b, q, readings, from, to, points) ==
  /\ Fits(b, BucketOf(q, from, to, points), readings, from, to, points)
  /\ b[Len(b)] = q /\ ToSet(b) = {q}

\* It fits in its own number.
LEMMA BucketBegun ==
  ASSUME NEW readings, NEW from, NEW to, NEW points,
         NEW q \in Time, q \in ToSet(readings), q \in from .. to
  PROVE  Begun(Append(<< >>, q), q, readings, from, to, points)
<1> DEFINE e == << >>
           b == Append(e, q)
<1>1. e \in Seq(Time) /\ Len(e) = 0 /\ ToSet(e) = {} /\ Increasing(e)
  BY DEF ToSet, Increasing
<1>2. b = Append(e, q)
  OBVIOUS
<1> HIDE DEF e, b
<1>3. b \in Seq(Time) /\ LongerBy(b, e, q)
  BY <1>1, <1>2, Longer, Zenon
<1>4. ToSet(b) = ToSet(e) \cup {q} /\ Increasing(b)
  <2>1. Increasing(e) /\ \A y \in ToSet(e) : y < q
    BY <1>1
  <2>2. OneElementMore(b, e, q)
    BY <1>1, <1>3, LongerSet, Zenon
  <2> QED
    BY <2>1, <2>2, Zenon DEF OneElementMore
<1>5. ToSet(b) = {q}
  BY <1>1, <1>4
<1>6. b[Len(b)] = q /\ b # << >>
  BY <1>3, Zenon DEF LongerBy
<1>7. ToSet(b) \subseteq ToSet(readings)
        /\ \A x \in ToSet(b) : x \in from .. to
                               /\ BucketOf(x, from, to, points) = BucketOf(q, from, to, points)
  BY <1>5
<1> QED
  BY <1>3, <1>4, <1>5, <1>6, <1>7, Zenon DEF Begun, Fits, b, e

\* An increasing sequence is nowhere above its last element.
LEMMA LastIsHighest ==
  ASSUME NEW b \in Seq(Time), b # << >>, Increasing(b)
  PROVE  \A x \in ToSet(b) : x <= b[Len(b)]
<1> DEFINE n == Len(b)
<1>1. n \in Nat /\ DOMAIN b = 1 .. n /\ n \in 1 .. n /\ \A i \in 1 .. n : b[i] \in Time
  OBVIOUS
<1> HIDE DEF n
<1> SUFFICES ASSUME NEW i \in 1 .. n
             PROVE  b[i] <= b[n]
  BY <1>1, Zenon DEF ToSet, n
<1>2. b[i] \in Nat /\ b[n] \in Nat
  BY <1>1, ConstantTypes, Zenon
<1>3. CASE i = n
  BY <1>2, <1>3
<1>4. CASE i # n
  <2>1. i < n
    BY <1>1, <1>4
  <2>2. b[i] < b[n]
    BY <1>1, <2>1, Zenon DEF Increasing
  <2> QED
    BY <1>2, <2>2
<1> QED
  BY <1>3, <1>4

\* The next reading, later than t.
LEMMA GathersOn ==
  ASSUME NEW readings, NEW from, NEW to, NEW points, Plotted(readings, from, to, points),
         NEW state, NEW t, Gathers(state, t, readings, from, to, points),
         NEW q \in Time, q \in ToSet(readings), q \in from .. to, t < q
  PROVE  Gathers(Entered(state, q, BucketOf(q, from, to, points)), q, readings, from, to, points)
<1> DEFINE o == state.output
           b == state.bucket
           k == state.index
           index == BucketOf(q, from, to, points)
           next == Entered(state, q, index)
<1>1. /\ from \in Nat /\ to \in Nat /\ points \in Nat \ {0} /\ from < to
      /\ state \in States /\ o \in Seq(Points) /\ b \in Seq(Time) /\ k \in Nat
      /\ Fits(b, k, readings, from, to, points) /\ b[Len(b)] = t
      /\ Len(o) <= k /\ Charted(o, readings, from, to, points)
      /\ \A j \in DOMAIN o, x \in ToSet(b) : o[j].t < x
  BY DEF Gathers, States, Plotted
<1>2. /\ b # << >> /\ Increasing(b) /\ ToSet(b) \subseteq ToSet(readings)
      /\ \A x \in ToSet(b) : x \in from .. to /\ BucketOf(x, from, to, points) = k
  BY <1>1, Zenon DEF Fits
<1>3. t \in ToSet(b) /\ t \in Time
  <2>1. Len(b) \in DOMAIN b
    BY <1>1, <1>2
  <2>2. t \in Time
    BY <1>1, <2>1
  <2> QED
    BY <1>1, <2>1, <2>2, Zenon DEF ToSet
<1>4. t \in Nat /\ q \in Nat /\ t \in from .. to /\ BucketOf(t, from, to, points) = k
  BY <1>2, <1>3, ConstantTypes, Zenon
<1>5. index \in Nat /\ k <= index
  <2>1. index \in 0 .. points - 1
    BY <1>1, BucketNumber
  <2>2. t <= q
    BY <1>4
  <2>3. BucketOf(t, from, to, points) <= index
    BY <1>1, <1>4, <2>2, BucketsFollow
  <2> HIDE DEF index
  <2> QED
    BY <1>1, <1>4, <2>1, <2>3
<1>6. EntersAs(next, state, q, index)
  BY <1>1, <1>5, Entering, Zenon
<1>7. next \in States /\ next.index = index
  BY <1>6, Zenon DEF EntersAs
<1>8. \A x \in ToSet(b) : x < q
  <2>1. \A x \in ToSet(b) : x <= t
    BY <1>1, <1>2, LastIsHighest, Zenon
  <2>2. \A x \in ToSet(b) : x \in Nat
    <3>1. \A i \in DOMAIN b : b[i] \in Time
      BY <1>1
    <3> QED
      BY <3>1, ConstantTypes, Zenon DEF ToSet
  <2> QED
    BY <1>4, <2>1, <2>2
<1>9. \A j \in DOMAIN o : o[j].t \in Nat
  <2>1. \A j \in DOMAIN o : o[j] \in Points
    BY <1>1
  <2> QED
    BY <2>1 DEF Points
<1> DEFINE c == next.bucket
           r == next.output
<1>10. Gathers(next, q, readings, from, to, points) <=>
         /\ next \in States /\ Fits(c, next.index, readings, from, to, points)
         /\ c[Len(c)] = q /\ Len(r) <= next.index
         /\ Charted(r, readings, from, to, points)
         /\ \A j \in DOMAIN r, x \in ToSet(c) : r[j].t < x
  BY Zenon DEF Gathers
<1>11. CASE index = k
  <2>1. r = o /\ c = Append(b, q)
    BY <1>6, <1>11, Zenon DEF EntersAs
  <2> HIDE DEF c, r, next, index, o, b, k
  <2>2. c \in Seq(Time) /\ LongerBy(c, b, q)
    BY <1>1, <2>1, Longer, Zenon
  <2>3. ToSet(c) = ToSet(b) \cup {q} /\ Increasing(c)
    <3>1. OneElementMore(c, b, q)
      BY <1>1, <2>2, LongerSet, Zenon
    <3> QED
      BY <1>2, <1>8, <3>1, Zenon DEF OneElementMore
  <2>4. c # << >> /\ c[Len(c)] = q
    BY <2>2, Zenon DEF LongerBy
  <2>5. BucketOf(q, from, to, points) = next.index
    BY <1>7, Zenon DEF index
  <2>6. ToSet(c) \subseteq ToSet(readings)
        /\ \A x \in ToSet(c) : x \in from .. to /\ BucketOf(x, from, to, points) = next.index
    BY <1>2, <1>7, <1>11, <2>3, <2>5
  <2>7. Fits(c, next.index, readings, from, to, points)
    BY <2>2, <2>3, <2>4, <2>6, Zenon DEF Fits
  <2>8. \A j \in DOMAIN o : o[j].t < q
    BY <1>1, <1>3, <1>4, <1>9
  <2>9. \A j \in DOMAIN r, x \in ToSet(c) : r[j].t < x
    BY <1>1, <2>1, <2>3, <2>8
  <2>10. Len(r) <= next.index
    BY <1>1, <1>7, <1>11, <2>1, Zenon
  <2>11. Gathers(next, q, readings, from, to, points)
    BY <1>1, <1>7, <1>10, <2>1, <2>4, <2>7, <2>9, <2>10, Zenon
  <2> QED
    BY <2>11, Zenon DEF next, index
<1>12. CASE index # k
  <2>1. r = Append(o, average(b)) /\ c = Append(<< >>, q)
    BY <1>2, <1>6, <1>12, Zenon DEF EntersAs
  <2>2. /\ r \in Seq(Points) /\ Len(r) = Len(o) + 1
        /\ Charted(r, readings, from, to, points) /\ \A j \in DOMAIN r : r[j].t <= t
    BY <2>1, OutputWithBucket, Zenon DEF Averaged
  <2>3. /\ Fits(c, index, readings, from, to, points)
        /\ c[Len(c)] = q /\ ToSet(c) = {q}
    <3>1. Begun(Append(<< >>, q), q, readings, from, to, points)
      BY BucketBegun
    <3>2. Begun(c, q, readings, from, to, points)
      BY <2>1, <3>1
    <3> QED
      BY <3>2, Zenon DEF Begun
  <2> HIDE DEF c, r, next, index, o, b, k
  <2>4. \A j \in DOMAIN r : r[j].t \in Nat
    <3>1. \A j \in DOMAIN r : r[j] \in Points
      BY <2>2
    <3> QED
      BY <3>1 DEF Points
  <2>5. \A j \in DOMAIN r : r[j].t < q
    BY <1>4, <2>2, <2>4
  <2>6. \A j \in DOMAIN r, x \in ToSet(c) : r[j].t < x
    BY <2>3, <2>5, Zenon
  <2>7. Len(o) \in Nat
    BY <1>1
  <2>8. Len(r) <= index
    BY <1>1, <1>5, <1>12, <2>2, <2>7
  <2>9. Gathers(next, q, readings, from, to, points)
    BY <1>7, <1>10, <2>2, <2>3, <2>6, <2>8, Zenon
  <2> QED
    BY <2>9, Zenon DEF next, index
<1> QED
  BY <1>11, <1>12, Zenon

(***************************************************************************)
(* There are points if and only if there are readings.                     *)
(***************************************************************************)
BucketsShow(output, readings) == output \in Seq(Points) /\ (output = << >> <=> readings = << >>)

\* The bucket of the last reading is not empty, so a point comes of it.
LEMMA BucketsOfReadings ==
  ASSUME NEW readings, NEW from, NEW to, NEW points, Plotted(readings, from, to, points)
  PROVE  BucketsShow(Buckets(readings, from, to, points), readings)
<1> DEFINE n == Len(readings)
           k(i) == BucketOf(readings[i], from, to, points)
           out == Buckets(readings, from, to, points)
<1>1. /\ n \in Nat /\ readings \in Seq(Time) /\ (n = 0 <=> readings = << >>)
      /\ \A i \in 1 .. n : readings[i] \in Time /\ readings[i] \in from .. to
      /\ from \in Nat /\ to \in Nat /\ from < to /\ points \in Nat \ {0}
  BY DEF Plotted
<1>2. PICK u \in [0 .. n -> States] :
        LoopedBy(u, readings, from, to, points) /\ out = flush(u[n]).output
  BY BucketSteps, Zenon DEF Loops
<1>3. u[0] = Start /\ \A i \in 1 .. n : u[i] = Entered(u[i - 1], readings[i], k(i))
  BY <1>2, Zenon DEF LoopedBy
<1> HIDE DEF n, out
<1> DEFINE last == u[n]
           o == last.output
           b == last.bucket
<1>4. last \in States
  BY <1>1
<1> HIDE DEF last
<1>5. o \in Seq(Points) /\ b \in Seq(Time)
  BY <1>4 DEF States
<1>6. FlushesTo(flush(last), last)
  BY <1>4, Flushing, Zenon
<1>7. CASE n = 0
  <2>1. last = Start
    BY <1>3, <1>7, Zenon DEF last
  <2>2. Start.output = << >> /\ Start.bucket = << >>
    BY DEF Start
  <2>3. flush(last) = last
    BY <1>6, <2>1, <2>2, Zenon DEF FlushesTo
  <2>4. out = << >>
    BY <1>2, <2>1, <2>2, <2>3, Zenon DEF last
  <2>5. out \in Seq(Points)
    BY <2>4
  <2> QED
    BY <1>1, <1>7, <2>4, <2>5, Zenon DEF BucketsShow, out
<1>8. CASE n # 0
  <2>1. n \in 1 .. n /\ n - 1 \in 0 .. n
    BY <1>1, <1>8
  <2>2. u[n - 1] \in States /\ readings[n] \in Time
    BY <1>1, <2>1, Zenon
  <2>3. k(n) \in Nat
    <3>1. k(n) \in 0 .. points - 1
      BY <1>1, <2>1, BucketNumber
    <3> HIDE DEF k
    <3> QED
      BY <1>1, <3>1
  <2>4. last = Entered(u[n - 1], readings[n], k(n))
    BY <1>3, <2>1, Zenon DEF last
  <2> DEFINE before == u[n - 1]
             c == before.bucket
             e == << >>
             t == readings[n]
  <2>5. EntersAs(last, before, t, k(n))
    BY <2>2, <2>3, <2>4, Entering, Zenon
  <2>6. b = Append(c, t) \/ b = Append(e, t)
    BY <2>5, Zenon DEF EntersAs
  <2>7. c \in Seq(Time) /\ e \in Seq(Time) /\ t \in Time
    BY <2>2 DEF States
  <2> HIDE DEF c, e, t, b, o
  <2>8. b # << >>
    <3>1. LongerBy(Append(c, t), c, t) /\ LongerBy(Append(e, t), e, t)
      BY <2>7, Longer, Zenon
    <3> QED
      BY <2>6, <3>1, Zenon DEF LongerBy
  <2>9. flush(last).output = Append(o, average(b))
    BY <1>6, <2>8, Zenon DEF FlushesTo, o, b
  <2>10. average(b) \in Points
    BY <1>5, <2>8, AveragePoint, Zenon
  <2>11. out = Append(o, average(b))
    BY <1>2, <2>9, Zenon DEF last
  <2> DEFINE p == average(b)
             r == Append(o, p)
  <2>12. out \in Seq(Points) /\ out # << >>
    <3>1. o \in Seq(Points) /\ p \in Points
      BY <1>5, <2>10, Zenon DEF o
    <3> HIDE DEF p
    <3>2. r \in Seq(Points) /\ LongerBy(r, o, p)
      BY <3>1, Longer, Zenon
    <3> QED
      BY <2>11, <3>2, Zenon DEF LongerBy, p
  <2> QED
    BY <1>1, <1>8, <2>12, Zenon DEF BucketsShow, out
<1> QED
  BY <1>7, <1>8

(***************************************************************************)
(* Readings in order give points in order, no more than were asked for.    *)
(***************************************************************************)
FewInOrder(output, readings, from, to, points) ==
  Len(output) <= points /\ Charted(output, readings, from, to, points)

\* By induction over the readings, a bucket of which is always at hand.
LEMMA BucketsInOrder ==
  ASSUME NEW readings, NEW from, NEW to, NEW points, Plotted(readings, from, to, points),
         Increasing(readings), readings # << >>
  PROVE  FewInOrder(Buckets(readings, from, to, points), readings, from, to, points)
<1> DEFINE n == Len(readings)
           k(i) == BucketOf(readings[i], from, to, points)
           out == Buckets(readings, from, to, points)
<1>1. /\ n \in Nat \ {0} /\ readings \in Seq(Time) /\ DOMAIN readings = 1 .. n
      /\ \A i \in 1 .. n : readings[i] \in Time /\ readings[i] \in from .. to
      /\ from \in Nat /\ to \in Nat /\ from < to /\ points \in Nat \ {0}
  BY DEF Plotted
<1>2. PICK u \in [0 .. n -> States] :
        LoopedBy(u, readings, from, to, points) /\ out = flush(u[n]).output
  BY BucketSteps, Zenon DEF Loops
<1>3. u[0] = Start /\ \A i \in 1 .. n : u[i] = Entered(u[i - 1], readings[i], k(i))
  BY <1>2, Zenon DEF LoopedBy
<1>4. \A i \in 1 .. n : readings[i] \in ToSet(readings)
  BY <1>1, Zenon DEF ToSet
<1>5. \A i \in 1 .. n, j \in 1 .. n : i < j => readings[i] < readings[j]
  BY <1>1, Zenon DEF Increasing
<1> HIDE DEF n, out
<1> DEFINE G(i) == Gathers(u[i], readings[i], readings, from, to, points)
           P == {i \in 0 .. n : i = 0 \/ G(i)}
<1>6. 0 \in P
  BY <1>1
<1>7. \A i \in 1 .. n : k(i) \in 0 .. points - 1
  BY <1>1, BucketNumber
<1>8. G(1)
  <2> DEFINE t == readings[1]
             first == u[1]
             b == first.bucket
             o == first.output
  <2>1. 1 \in 1 .. n /\ t \in Time /\ t \in from .. to /\ t \in ToSet(readings)
        /\ u[1] = Entered(u[1 - 1], t, k(1))
    BY <1>1, <1>3, <1>4
  <2>2. u[1 - 1] = Start
    BY <1>3
  <2>3. k(1) \in Nat
    <3>1. k(1) \in 0 .. points - 1
      BY <1>7, <2>1, Zenon
    <3> HIDE DEF k
    <3> QED
      BY <1>1, <3>1
  <2>4. EntersAs(first, Start, t, k(1))
    BY <2>1, <2>2, <2>3, StartIsState, Entering, Zenon
  <2>5. Start.output = << >> /\ Start.bucket = << >>
    BY DEF Start
  <2>6. first \in States /\ first.index = k(1) /\ o = << >> /\ b = Append(<< >>, t)
    BY <2>4, <2>5, Zenon DEF EntersAs
  <2>7. Fits(b, first.index, readings, from, to, points) /\ b[Len(b)] = t
    <3>1. Begun(Append(<< >>, t), t, readings, from, to, points)
      BY <2>1, BucketBegun
    <3>2. Begun(b, t, readings, from, to, points)
      BY <2>6, <3>1
    <3> QED
      BY <2>6, <3>2, Zenon DEF Begun
  <2> HIDE DEF b, k
  <2>8. Len(o) <= first.index /\ DOMAIN o = {}
    BY <2>3, <2>6
  <2> HIDE DEF o
  <2>9. Charted(o, readings, from, to, points)
        /\ \A j \in DOMAIN o, x \in ToSet(b) : o[j].t < x
    BY <2>8, Zenon DEF Charted
  <2> QED
    BY <2>6, <2>7, <2>8, <2>9, Zenon DEF Gathers, o, b
<1>9. ASSUME NEW i \in 1 .. n, i - 1 \in P
      PROVE  i \in P
  <2>1. i \in 0 .. n
    BY <1>1
  <2>2. CASE i = 1
    BY <1>8, <2>1, <2>2
  <2>3. CASE i # 1
    <3>1. i - 1 \in 1 .. n /\ i - 1 # 0 /\ i - 1 < i
      BY <1>1, <2>3
    <3>2. G(i - 1)
      BY <1>9, <3>1, Zenon
    <3>3. readings[i - 1] < readings[i]
      BY <1>5, <3>1, Zenon
    <3>4. readings[i] \in Time /\ readings[i] \in ToSet(readings) /\ readings[i] \in from .. to
      BY <1>1, <1>4, Zenon
    <3> DEFINE q == readings[i]
               t == readings[i - 1]
               state == u[i - 1]
    <3>5. Gathers(state, t, readings, from, to, points) /\ t < q
          /\ q \in Time /\ q \in ToSet(readings) /\ q \in from .. to
      BY <3>2, <3>3, <3>4, Zenon
    <3>6. u[i] = Entered(state, q, BucketOf(q, from, to, points))
      BY <1>3, Zenon
    <3> HIDE DEF state, q, t
    <3>7. Gathers(Entered(state, q, BucketOf(q, from, to, points)), q, readings, from, to, points)
      BY <3>5, GathersOn, Zenon
    <3>8. G(i)
      BY <3>6, <3>7, Zenon DEF q
    <3> QED
      BY <2>1, <3>8, Zenon
  <2> QED
    BY <2>2, <2>3
<1> HIDE DEF P
<1>10. \A i \in 0 .. n : i \in P
  BY <1>1, <1>6, <1>9, UpTo, ZenonT(30)
<1>11. n \in 0 .. n /\ n # 0 /\ n \in 1 .. n
  BY <1>1
<1>12. G(n)
  BY <1>10, <1>11, Zenon DEF P
<1> DEFINE last == u[n]
           t == readings[n]
           o == last.output
           b == last.bucket
<1>13. Gathers(last, t, readings, from, to, points)
  BY <1>12
<1> HIDE DEF last, t, G
<1>14. last \in States /\ Fits(b, last.index, readings, from, to, points) /\ b # << >>
       /\ Len(o) <= last.index
  BY <1>13, Zenon DEF Gathers, Fits
<1>15. flush(last).output = Append(o, average(b))
  BY <1>14, Flushing, Zenon DEF FlushesTo
<1>16. out = Append(o, average(b))
  BY <1>2, <1>15, Zenon DEF last
<1>17. Charted(out, readings, from, to, points) /\ Len(out) = Len(o) + 1
  BY <1>13, <1>16, OutputWithBucket, Zenon DEF Averaged
<1>18. last.index \in 0 .. points - 1
  <2>1. b \in Seq(Time) /\ b[Len(b)] = t
    BY <1>13, <1>14 DEF Gathers, States
  <2>2. Len(b) \in DOMAIN b
    BY <1>14, <2>1
  <2>3. t \in ToSet(b)
    BY <2>1, <2>2, Zenon DEF ToSet
  <2>4. t \in from .. to /\ BucketOf(t, from, to, points) = last.index
    BY <1>14, <2>3, Zenon DEF Fits
  <2>5. BucketOf(t, from, to, points) \in 0 .. points - 1
    BY <1>1, <2>4, BucketNumber
  <2> QED
    BY <2>4, <2>5
<1>19. Len(o) \in Nat
  BY <1>14 DEF States
<1> HIDE DEF o, b
<1>20. Len(out) <= points
  BY <1>1, <1>14, <1>17, <1>18, <1>19
<1> QED
  BY <1>17, <1>20, Zenon DEF FewInOrder, out

-----------------------------------------------------------------------------
\* A reading as a point of its own.
LEMMA PointOfOne ==
  ASSUME NEW t \in Time
  PROVE  /\ project(t) \in Points /\ project(t).t = t
         /\ project(t).count = Counted[t] /\ project(t).total = Valued[t]
<1> DEFINE e == << >>
           s == <<t>>
<1>1. e \in Seq(Time) /\ s \in Seq(Time) /\ s = Append(e, t) /\ t \in Nat
  BY ConstantTypes
<1>2. Weighed(Counted, e) = 0 /\ Weighed(Valued, e) = 0
  BY WeighedNone
<1>3. project(t) = Point(t, s)
  BY Zenon DEF project
<1> HIDE DEF e, s
<1>4. WeighsMore(Counted, e, t) /\ WeighsMore(Valued, e, t)
  BY <1>1, FieldWeights, WeighedMore, Zenon
<1>5. Weighed(Counted, s) = 0 + Counted[t] /\ Weighed(Valued, s) = 0 + Valued[t]
  BY <1>1, <1>2, <1>4, Zenon DEF WeighsMore
<1>6. Counted[t] \in Nat /\ Valued[t] \in Nat
  BY FieldWeights
<1>7. Weighed(Counted, s) = Counted[t] /\ Weighed(Valued, s) = Valued[t]
  BY <1>5, <1>6
<1> QED
  <2> DEFINE p == Point(t, s)
  <2>1. p \in Points /\ p.t = t /\ p.count = Weighed(Counted, s) /\ p.total = Weighed(Valued, s)
    BY <1>1, PointOf, Zenon
  <2> HIDE DEF p
  <2>2. project(t) = p
    BY <1>3 DEF p
  <2> QED
    BY <1>7, <2>1, <2>2

\* What EveryReadingCounts adds up are weights.
LEMMA SumsAreWeights ==
  ASSUME NEW readings \in Seq(Time), NEW output \in Seq(Points),
         output = << >> <=> readings = << >>,
         Weighed(Counts, output) = Weighed(Counted, readings),
         Weighed(Totals, output) = Weighed(Valued, readings)
  PROVE  EveryReadingCounts(readings, output)
<1> DEFINE counts == [i \in DOMAIN output |-> output[i].count]
           totals == [i \in DOMAIN output |-> output[i].total]
<1>1. \A i \in DOMAIN output : output[i] \in Points
  OBVIOUS
<1>2. \A i \in DOMAIN output : Counts[output[i]] = output[i].count
                               /\ Totals[output[i]] = output[i].total
  BY <1>1, Zenon DEF Counts, Totals
<1>3. counts = [i \in DOMAIN output |-> Counts[output[i]]]
      /\ totals = [i \in DOMAIN output |-> Totals[output[i]]]
  BY <1>2, Zenon
<1>4. Sum(counts) = Weighed(Counts, output) /\ Sum(totals) = Weighed(Totals, output)
  BY <1>3, Zenon DEF Weighed
<1>5. Point(0, readings).count = Weighed(Counted, readings)
      /\ Point(0, readings).total = Weighed(Valued, readings)
  <2>1. 0 \in Nat
    OBVIOUS
  <2> QED
    BY <2>1, PointOf, Zenon
<1> QED
  BY <1>4, <1>5, Zenon DEF EveryReadingCounts

\* Every reading a point.
Projected(readings) == [i \in DOMAIN readings |-> project(readings[i])]

\* The points are the readings, at their times and with their weights.
LEMMA ProjectedReadings ==
  ASSUME NEW readings \in Seq(Time)
  PROVE  /\ Projected(readings) \in Seq(Points) /\ Len(Projected(readings)) = Len(readings)
         /\ \A i \in 1 .. Len(readings) : Projected(readings)[i].t = readings[i]
         /\ EveryReadingCounts(readings, Projected(readings))
<1> DEFINE n == Len(readings)
           output == Projected(readings)
<1>1. n \in Nat /\ DOMAIN readings = 1 .. n /\ \A i \in 1 .. n : readings[i] \in Time
      /\ (n = 0 <=> readings = << >>)
  OBVIOUS
<1>2. output = [i \in 1 .. n |-> project(readings[i])]
  BY <1>1, Zenon DEF Projected
<1> HIDE DEF n, output
<1>3. \A i \in 1 .. n :
        /\ output[i] \in Points /\ output[i].t = readings[i]
        /\ output[i].count = Counted[readings[i]] /\ output[i].total = Valued[readings[i]]
  BY <1>1, <1>2, PointOfOne, Zenon
<1>4. output \in [1 .. n -> Points]
  BY <1>2, <1>3, Zenon
<1>5. output \in Seq(Points) /\ Len(output) = n /\ DOMAIN output = 1 .. n
  BY <1>1, <1>4
<1>6. \A i \in 1 .. n : Counts[output[i]] = Counted[readings[i]]
                        /\ Totals[output[i]] = Valued[readings[i]]
  BY <1>3, Zenon DEF Counts, Totals
<1>7. /\ [i \in DOMAIN output |-> Counts[output[i]]]
           = [i \in DOMAIN readings |-> Counted[readings[i]]]
      /\ [i \in DOMAIN output |-> Totals[output[i]]]
           = [i \in DOMAIN readings |-> Valued[readings[i]]]
  BY <1>1, <1>5, <1>6, Zenon
<1>8. Weighed(Counts, output) = Weighed(Counted, readings)
      /\ Weighed(Totals, output) = Weighed(Valued, readings)
  BY <1>7, Zenon DEF Weighed
<1>9. output = << >> <=> readings = << >>
  <2>1. n = 0 <=> output = << >>
    BY <1>5
  <2> QED
    BY <1>1, <2>1
<1>10. EveryReadingCounts(readings, output)
  BY <1>5, <1>8, <1>9, SumsAreWeights
<1> QED
  BY <1>3, <1>5, <1>10, Zenon DEF n, output

(***************************************************************************)
(* What downsample makes of the readings of a range.                       *)
(***************************************************************************)
Downsampled(output, readings, from, to, points) ==
  /\ EveryReadingCounts(readings, output)
  /\ Increasing(readings) => FewInOrder(output, readings, from, to, points)

\* As many points as readings, or those of the buckets.
LEMMA DownsampledReadings ==
  ASSUME NEW readings, NEW from, NEW to, NEW points, Plotted(readings, from, to, points)
  PROVE  Downsampled(downsample(readings, from, to, points), readings, from, to, points)
<1> DEFINE n == Len(readings)
           output == downsample(readings, from, to, points)
<1>1. /\ n \in Nat /\ readings \in Seq(Time) /\ DOMAIN readings = 1 .. n
      /\ (n = 0 <=> readings = << >>)
      /\ \A i \in 1 .. n : readings[i] \in Time /\ readings[i] \in from .. to
      /\ from \in Nat /\ to \in Nat /\ from < to /\ points \in Nat \ {0}
  BY DEF Plotted
<1>2. output = IF n <= points THEN Projected(readings)
               ELSE Buckets(readings, from, to, points)
  BY Zenon DEF downsample, Projected
<1> HIDE DEF n, output
<1>3. CASE n <= points
  <2>1. /\ output \in Seq(Points) /\ Len(output) = n
        /\ \A i \in 1 .. n : output[i].t = readings[i]
        /\ EveryReadingCounts(readings, output)
    BY <1>1, <1>2, <1>3, ProjectedReadings, Zenon DEF n
  <2>2. ASSUME Increasing(readings)
        PROVE  Charted(output, readings, from, to, points)
    <3>1. DOMAIN output = 1 .. n
      BY <2>1
    <3> SUFFICES ASSUME NEW i \in 1 .. n
                 PROVE  /\ output[i].t \in from .. to
                        /\ i > 1 => output[i - 1].t < output[i].t
                        /\ \E t \in ToSet(readings) : Near(output[i].t, t, from, to, points)
      BY <3>1, Zenon DEF Charted
    <3>2. output[i].t = readings[i] /\ readings[i] \in from .. to
      BY <1>1, <2>1, Zenon
    <3>3. ASSUME i > 1
          PROVE  output[i - 1].t < output[i].t
      <4>1. i - 1 \in 1 .. n /\ i - 1 < i
        BY <1>1, <3>3
      <4>2. readings[i - 1] < readings[i]
        BY <1>1, <2>2, <4>1, Zenon DEF Increasing
      <4> QED
        BY <2>1, <3>2, <4>1, <4>2, Zenon
    <3>4. readings[i] \in ToSet(readings)
      BY <1>1, Zenon DEF ToSet
    <3>5. Near(readings[i], readings[i], from, to, points)
      <4> DEFINE t == readings[i]
      <4>1. t \in Nat /\ ~(t < t) /\ t - t = 0
        BY <1>1
      <4> HIDE DEF t
      <4>2. (t - t) * points <= to - from
        BY <1>1, <4>1
      <4>3. Near(t, t, from, to, points)
        BY <4>1, <4>2, Zenon DEF Near
      <4> QED
        BY <4>3, Zenon DEF t
    <3> QED
      BY <3>2, <3>3, <3>4, <3>5, Zenon
  <2>3. Len(output) <= points
    BY <1>3, <2>1, Zenon
  <2>4. Downsampled(output, readings, from, to, points)
    BY <2>1, <2>2, <2>3, Zenon DEF Downsampled, FewInOrder
  <2> QED
    BY <2>4, Zenon DEF output
<1>4. CASE ~(n <= points)
  <2>1. readings # << >>
    BY <1>1, <1>4
  <2>2. output = Buckets(readings, from, to, points)
    BY <1>2, <1>4, Zenon
  <2>3. output \in Seq(Points) /\ (output = << >> <=> readings = << >>)
    BY <2>2, BucketsOfReadings, Zenon DEF BucketsShow
  <2>4. SameWeight(Counts, Counted) /\ SameWeight(Totals, Valued)
    <3>1. Counts \in [Points -> Nat] /\ Totals \in [Points -> Nat]
      BY DEF Counts, Totals, Points
    <3>2. \A b \in Seq(Time) : b # << >> => /\ Counts[average(b)] = Weighed(Counted, b)
                                            /\ Totals[average(b)] = Weighed(Valued, b)
      BY AveragePoint, Zenon
    <3> QED
      BY <3>1, <3>2, FieldWeights, Zenon DEF SameWeight
  <2>5. Weighed(Counts, output) = Weighed(Counted, readings)
        /\ Weighed(Totals, output) = Weighed(Valued, readings)
    <3>1. WeighAlike(Counts, Counted, readings, from, to, points)
          /\ WeighAlike(Totals, Valued, readings, from, to, points)
      BY <2>4, BucketsWeigh, Zenon
    <3> QED
      BY <2>2, <3>1 DEF WeighAlike
  <2>6. EveryReadingCounts(readings, output)
    BY <1>1, <2>3, <2>5, SumsAreWeights
  <2>7. Increasing(readings) => FewInOrder(output, readings, from, to, points)
    BY <2>1, <2>2, BucketsInOrder, Zenon
  <2>8. Downsampled(output, readings, from, to, points)
    BY <2>6, <2>7, Zenon DEF Downsampled
  <2> QED
    BY <2>8, Zenon DEF output
<1> QED
  BY <1>3, <1>4, Zenon

-----------------------------------------------------------------------------
\* In a state of the invariant what a range query finds can be plotted, in order if the
\* sensor is not at risk.
Found(readings, s, r) ==
  /\ Plotted(readings, r.from, r.to, BucketCount(r))
  /\ s \notin injured => Increasing(readings)

\* The archive is in order then, and a selection of it too.
LEMMA RangeIsPlotted ==
  ASSUME IInv, NEW s \in Sensor, NEW r \in Requests
  PROVE  Found(readRange(s, r.from, r.to), s, r)
<1> DEFINE from == r.from
           to == r.to
           times == from .. to
           readings == readRange(s, from, to)
           all == Archive(s)
<1>1. /\ r.from \in 0 .. MaxTime + 1 /\ r.to \in 0 .. MaxTime + 1 /\ r.from < r.to
      /\ r.points \in Asked
  BY DEF Requests
<1>2. from \in Nat /\ to \in Nat /\ from < to
  BY <1>1, ConstantTypes
<1>3. BucketCount(r) \in Nat \ {0}
  <2>1. r.points \in Int /\ MaxPoints \in Nat \ {0}
    BY <1>1, HistoryQueryAssumption
  <2> QED
    BY <2>1 DEF BucketCount
<1> HIDE DEF from, to, times, readings, all
<1>4. DiskTyped /\ \A d \in Day : Placed(disk[s][d], d)
  BY Zenon DEF IInv, FilesPlaced
<1>5. readings = Selected(all, times) /\ all \in Seq(Time)
  BY <1>2, <1>4, RangeOfArchive, ArchiveReadings, Zenon DEF readings, all, times
<1>6. Selected(all, times) \in Seq(Time \cap times)
  BY <1>5, SelectedSet, Zenon
<1>7. readings \in Seq(Time) /\ \A i \in 1 .. Len(readings) : readings[i] \in times
  BY <1>5, <1>6
<1>8. Plotted(readings, from, to, BucketCount(r))
  BY <1>2, <1>3, <1>7, Zenon DEF Plotted, times
<1>9. ASSUME s \notin injured
      PROVE  Increasing(readings)
  <2>1. \A d \in Day : Placed(disk[s][d], d) /\ Whole(disk[s][d])
    BY <1>9 DEF IInv, FilesPlaced, FilesWhole
  <2>2. Increasing(all)
    BY <1>4, <2>1, ArchiveIncreases, Zenon DEF all
  <2>3. IncreasingIn(all, times)
    BY <2>2, Zenon DEF Increasing, IncreasingIn
  <2>4. Increasing(Selected(all, times))
    BY <1>5, <2>3, SelectedIncreasing, Zenon
  <2> QED
    BY <1>5, <2>4, Zenon
<1> QED
  BY <1>8, <1>9, Zenon DEF Found, readings, from, to

\* In a state of the invariant every chart shows its range.
LEMMA InvariantChart ==
  ASSUME IInv
  PROVE  ChartShowsRange
<1> SUFFICES ASSUME NEW s \in Sensor, NEW r \in Requests
             PROVE  /\ EveryReadingCounts(readRange(s, r.from, r.to), historyRange(s, r))
                    /\ s \notin injured =>
                         PointsInOrder(r, readRange(s, r.from, r.to), historyRange(s, r))
  BY Zenon DEF ChartShowsRange
<1> DEFINE readings == readRange(s, r.from, r.to)
           output == historyRange(s, r)
           n == BucketCount(r)
<1>1. Plotted(readings, r.from, r.to, n) /\ (s \notin injured => Increasing(readings))
  BY RangeIsPlotted, Zenon DEF Found
<1>2. output = downsample(readings, r.from, r.to, n)
  BY Zenon DEF historyRange
<1>3. Downsampled(output, readings, r.from, r.to, n)
  <2> HIDE DEF readings, n, output
  <2>1. Downsampled(downsample(readings, r.from, r.to, n), readings, r.from, r.to, n)
    BY <1>1, DownsampledReadings, Zenon
  <2> QED
    BY <1>2, <2>1, Zenon
<1>4. ASSUME s \notin injured
      PROVE  PointsInOrder(r, readings, output)
  <2>1. FewInOrder(output, readings, r.from, r.to, n)
    BY <1>1, <1>3, <1>4, Zenon DEF Downsampled
  <2> QED
    BY <2>1, Zenon DEF FewInOrder, Charted, Near, PointsInOrder
<1> QED
  BY <1>3, <1>4, Zenon DEF Downsampled

(***************************************************************************)
(* Every chart shows the whole range it was asked for and nothing else:    *)
(* each reading counts once, whatever cuts the writes suffered, and as     *)
(* long as none put the sensor at risk the points are in order, none of    *)
(* them in a gap, and no more than were asked for.                         *)
(***************************************************************************)
THEOREM ChartsShowRanges == Spec => []ChartShowsRange
<1>1. IInv => ChartShowsRange
  BY InvariantChart
<1> QED
  BY <1>1, Invariant, PTL
=============================================================================
