# A formal model of the Home Environmental Sensor

TLA+ specifications of the firmware in `src/software` and the collection server
in `src/frontend_server`, model-checked with TLC on small instances and, for
eleven of the components, proved with TLAPS for every value of their constants.

A reading's way through the system is the backbone of the model: a driver talks
to its chip over the shared bus, a sensor task publishes what it read into a
ring in PSRAM, the device's web server streams it out of that ring, the server's
poller follows the ring by sequence number, dates the reading and appends it to
a file per sensor and day, and a query draws it from there. Every module covers
one stretch of that way, or of the thermal image's beside it.

## Inventory

The device runs one cooperative executor. Between two `await`s that really
yield, a task runs alone; every mutex but that of the I2C bus is released before
the next such `await`. The server is one Node process: code between two
`await`s runs alone too, and file writes are synchronous.

| Component | State | Operations | Talks to | Modelled in |
| --- | --- | --- | --- | --- |
| Measurement history, `utils/history.rs` | slots, write position, length, push counter | `push`, `get`, `first_sequence`, `next_sequence` | owned by shared state | `MeasurementHistory`, `ReadingWindow` |
| Shared state, `utils/shared_state.rs` | eight optional histories; newest thermal image | `init`, `publish_*`, `*_status`, `*_reading`, `publish_thermal`, `thermal_status`, `thermal_row` | sensor tasks write, web server reads | `ReadingsPage`, `ThermalImage` |
| PSRAM allocator, `utils/psram.rs` | next free address | `alloc_slice` | `init` at boot | not modelled |
| Flash record, `utils/flash_store.rs` | one checksummed record | `open`, `load`, `save` | BME690 task | `Bme690Task` |
| Sensor tasks, `tasks/*_task.rs` | needs-init flag, warm-up count, schedule | initialise, measure, publish | I2C bus, shared state | `SensorTasks` |
| Thermal camera task | calibration, frame, image | initialise, capture two subpages, publish | I2C bus, shared state | `ThermalCamera` |
| BME690 task | calibration, BSEC instance, warm-up, last save | cycle, publish every second output, save state | I2C bus, BSEC, flash record | `Bme690Task` |
| I2C bus, `drivers/i2c_bus.rs` | who holds it, a broken-off transfer | acquire with recovery | the chips | `SensorTasks` |
| Drivers, `drivers/*.rs` | none but a copy of the configuration; chip registers | transactions, register updates, conversions, checksums | the chips | `SensorDrivers` (order), `Registers` (settings), `Readout` (data) |
| Web server, `tasks/web_server_task.rs` | one socket, the page being sent | accept, serve, send, close | shared state, the network | `DeviceNetwork`, `ReadingsPage`, `ThermalImage` |
| Wi-Fi tasks, boot, `main.rs` | link state | connect, reconnect; spawn tasks in order | radio | `DeviceNetwork` |
| Device client, `server/device.js` | request queue, requests in flight | one request at a time, retries, timeout, abort | device's web server | `Poller`, `Collection` |
| Poller, `server/poller.js` | cursors, last uptime, thermal image | `start`, `stop`, pass, cursor search, dating | device client, store | `Poller`, `Collection` |
| Store, `server/store.js` | daily files; newest and oldest timestamps | `initialize`, `append`, `readRange` | file system | `Store` |
| History queries, `server/history.js`, `routes/api/history` | none | range query, downsampling | store | `HistoryQuery` |
| Other routes, hooks, dashboard | last answers | forwarding, three polling requests, drawing | store, poller | not modelled |

What is hard, and what makes each part correct:

- **Overwriting under a reader.** The ring is pushed into while a page of it is
  being streamed. A page must stay aligned with the sequence numbers it
  announced, and withhold nothing that is still there.
- **Renumbering.** Sequence numbers restart at zero with every boot and only the
  uptime tells. The cursor must never pass a reading it has not collected.
- **Repetition.** Failed passes, server restarts and cursor searches fetch
  readings again. They should be stored once, told apart by time alone, although
  each response adds its own delay.
- **Crashes.** The server can be killed inside an append, the board can lose its
  power inside a flash write. What the restart makes of the files and of the
  record decides what is kept, lost or doubled.
- **Tearing.** The thermal image is sent in rows from a buffer that is replaced
  meanwhile, and the camera replaces its own memory while the task reads it.
- **Leftovers.** A cycle that breaks off leaves a conversion running, a result
  flag set, a register bank selected, half an image or half a configuration. The
  next cycle must not take any of it for its own.
- **Waiting.** One task accepts connections, one bus serves nine sensors, the
  sensors wait for the link: nobody may wait for what cannot come.

`PROJECT.json` lists the hazards line by line, with the properties that cover
them or the reason none does.

## Modules

| Module | Models | Run |
| --- | --- | --- |
| `ReadingWindow` | what a history promises: the newest readings, numbered since boot | abstract specification |
| `MeasurementHistory` | the ring of `utils/history.rs` | `history` |
| `ReadingsPage` | `send_readings` over the ring, with the publishing sensor task | `readings_page` |
| `ThermalImage` | the image buffer and `send_thermal` | `thermal_image` |
| `Store` | the daily files and their summaries | `store`, `store_swallowed` |
| `HistoryQuery` | range queries and their buckets, over `Store` | `store` |
| `Collection` | the poller following one sensor of a device | `collection` |
| `Poller` | the poller's passes over all sensors, and the request queue | `poller` |
| `SensorDrivers` | the order of transfers of seven drivers and their tasks | part of `sensor_tasks` |
| `SensorTasks` | the tasks on the shared bus, their chips and failures | `sensor_tasks` |
| `ThermalCamera` | the camera and its task | `thermal_camera` |
| `Bme690Task` | the BME690 with its task, BSEC's requests and the flash record | `bme690` |
| `DeviceNetwork` | start-up, Wi-Fi and the web server's one socket | `device_network` |
| `BitFields` | bytes and words as sets of bits | part of `driver_data` |
| `Registers` | settings in shared registers | part of `driver_data` |
| `Readout` | packed fields, checksums, pixel corrections | part of `driver_data` |
| `DriverData` | `Registers` and `Readout` side by side | `driver_data` |
| `Selections` | `Array.prototype.filter`, for `Store` and `Collection` | part of both |
| `SelectionTheorems` | lemmas about filtering, joining and reading off in order | see Proofs |
| `MeasurementHistoryProofs`, `SensorTasksProofs`, `Bme690TaskProofs`, `CollectionProofs` | theorems about the module of that name, for every value of its constants | see Proofs |
| `ThermalProofs` | the same for `ThermalCamera` and `ThermalImage` | see Proofs |
| `WebServerProofs` | the same for `DeviceNetwork` and `ReadingsPage` | see Proofs |
| `ServerProofs` | the same for `Poller`, `Store` and `HistoryQuery` | see Proofs |

Every `MCx` module instantiates `x` for TLC with the constants in `MCx.cfg`
(`MCStore` both `Store` and `HistoryQuery`). Where a module of proofs extends several
components, the smaller one's initial states, next-state relation and specification
carry its name (`PageInit`, `ImageNext`, `PollerSpec`), as the two would clash.

`ReadingsPage` composes with `MeasurementHistory` by `INSTANCE`, `HistoryQuery`
and `SensorTasks` extend `Store` and `SensorDrivers`. `Collection` does not
instantiate the ring, the page and the archive: it uses what the other modules
show of them. The log of a boot stands for the ring (a reading is retained if it
is among the last `Capacity`), a page is what `ReadingsPage` says it is (its
elements in place, null only where overwritten), and the archive is `Store` with
every append whole. `Poller` in turn has what `Collection` shows of one sensor as
a number of requests after which the sensor is synced.

### MeasurementHistory and ReadingWindow

`entries`, `next`, `len` and `pushed` are the fields of the Rust structure;
`Push`, `Get` and `GetOldest` are its methods. `Reboot` builds the ring over
cleared slots, as `shared_state::init` does at every boot. The ring implements
`ReadingWindow`, a plain sequence of the newest readings, under the mapping
`Retained`, which reads the slots backwards from the write position; `get`
counts forwards from the oldest slot, so that `GetReadsWindow` compares two
different ways of addressing the ring. `RingInv`, checked by the run and proved,
is the types with the agreement of the four fields. The counter is a `u64` and is
bounded by `MaxPushed` instead of wrapping; at one push a second it would take
longer than the board will exist.

Run `history`: capacity 3 and eight pushes, more than two turns of the ring.

### ReadingsPage

A step is what runs between two socket writes: the status snapshot with the
bounds worked out from it, then one reading copied per element. Publishing
interleaves between any two steps, a write can fail, the board can reboot.
A reading is the number it was published under, which lets a page be compared
with what was asked for. `reserved` says whether the histories fit the PSRAM; a
board where they did not answers empty pages. An unknown sensor name is
answered with an error and touches nothing, and is left out.

Run `readings_page`: a ring of three overwritten twice over by eight readings,
pages of up to two, requests from anywhere up to one past the last number and
for up to one more than the limit.

### ThermalImage

A row and the summary are the number of the image they were taken from.
`StoredAndSentWhole` is the buffer's invariant together with the completeness of
a response; `TearsOnlyForward` is what the row-by-row copy does guarantee.
`SummaryDescribesPixels` is what the firmware's README says, and does not hold
(see Disagreements). Run `thermal_image`: four rows, five images.

### Store and HistoryQuery

A file is its complete lines and possibly an unterminated one; a line is the
reading it parses to, or `Bad`. `append` makes one write per day the batch
touches. `CutShort` interrupts it in any of them after any number of lines,
and with nothing, part or all but the newline of the next, because the process
is killed or because the write throws. `injured` marks the sensors for which
such a cut leaves more than a damaged line: the write threw, so that memory does
not know what is on disk; the file it began has no complete line; or the cut
line lacks only its newline. `SummariesMatchDisk`, `OneCopyInOrder` and the order
of a chart's points are claimed outside those cases. Everywhere else, injured or
not: `StaysReadable` (nothing once readable is lost but a line without its
newline), `RangeFindsAll`, and every reading found counting in exactly one point, with no
point only where there is no reading.

What a thrown write does do shows in a few steps of the model: the lines of the
days before the failure are on disk, memory does not know, and the retried page
appends them a second time, without any restart. A chart of such a range has two
points at one time.

`HistoryQuery` adds no state. A reading carries the one charted field or not
(`Carrying`: absent, not finite or outside its limits), its value is its
timestamp, and a point is a sum and a count, so that the properties compare exact
numbers. The width of a bucket is a floating-point number in the code; a reading
on an edge may fall into the other bucket there.

Run `store`: two sensors, four timestamps in three days, batches of up to three
readings (up to two midnights in one batch), one restart, one cut of either
kind; the sensors are symmetric. In every state, every range within and around
the days is asked for in one and in two points (requests for 0 and for 3 points,
which the code clamps), so that up to four readings share buckets.

### Collection

One sensor. The device logs the true times of the readings of this boot; the
page and the uptime of a response are fixed when it is answered, and it arrives
up to `MaxDelay` later, elements overwritten meanwhile possibly null. `pollOnce`
runs from the status to the first request that needs an answer, `SeekResponse`
and `PageResponse` from one answer to the next request. `Retry` is the client
sending a request again after the connection broke, `GiveUp` a request that
failed for good, `Restart` the server coming back with its archive and nothing
else. What other sensors and the thermal image cost a pass is time, which may
pass before any answer.

`mishaps` records what the poller cannot tell: a reboot after which the uptime has
grown past the one last seen ("unnoticed"), a reboot between the status and a page
that was stored ("midPass"), and a response whose delay differs from the newest stored
reading's by too much, longer by more than the tolerance ("late") or shorter by an
interval less the tolerance ("early"). `seenBoot`, `mishaps` and the `taken` field of an
archived reading are there for the properties; no guard reads them.

All that bounds a delay is `REQUEST_TIMEOUT_MS`, 15 s, and a page of 250 readings takes
about a second (`config.js:34-36`), so that "late" is ordinary: it takes a page read
after the reading's own was stored, by a pass that failed or a server that restarted,
at 500 ms more. "Early" takes 4.5 s or more between two responses, with 5 to 10 s between
readings. What the properties say of them:

- `ArchiveIsSound`: without a late response every reading is stored once and in order,
  however often it was fetched and whatever reboots were missed; with one the dates are
  still in order, and each second copy is itself later than what it is behind.
- `NothingSkipped`: a late response costs nothing but the copy. The cursor passes a
  retained reading only after a missed reboot or an early response.
- `SeekFindsBoundary` needs that neither happened, as a probe compares the same dates.

The run chooses an interval of three ticks, a tolerance of one and delays of up to two,
which makes both kinds happen. `MCCollectionSecondCopy.cfg` shows the second copy,
`MCCollectionLate.cfg` the reading passed over (see Disagreements).

Run `collection`: ring of 3, pages of 2, 13 ticks (4 readings), one reboot,
restart and failure. Readings are overwritten before, between and within pages;
the search doubles past its first step, halves, and has its lower end overwritten
during it; each disturbance can hit any step, and all three can meet.

### Poller

The loop of `poller.js` over the request queue of `device.js`. `at` is how far a
pass is, `call` the request: queued behind the gap, open, lost with its
connection, paused before a retry, aborted. A pass asks for the status, the image,
then each sensor, whose turn takes any number of requests up to `MaxRequests`.
`Catch` is the three `catch` blocks: without a status the pass ends and the device
counts as gone, an image or a sensor costs itself alone. `stop` resolves the wait
between passes and aborts the open request, and only that: the pass goes on to the
next sensor and sends new requests (`poller.js:89-93`), which is why `StopEndsLoop`
is a liveness property and not a bound. `broken` is what fails every time,
`unbuffered` a sensor whose history has no capacity; failures of everything else
are bounded.

`BootsAreFollowed`: the cursors are of one boot and a reboot is counted once,
unless the uptimes hid it (`unnoticed`). `HeldImageCatchesUp`: the image is fetched in
the turn after the status, either request can fail or be retried across a reboot, and an
image is dropped only when the device says that it has none at a lower uptime; once
reboots and failures have ceased, the one held is of this boot if there is one, and
otherwise none whose uptime the device has yet to reach. `FailuresPass`: a sensor's failure
neither makes the device count as unreachable, nor keeps others from being fetched
forever, nor is it shown after it has passed.

Run `poller`: two sensors, so that one follows one that fails; one retry; up to two
requests per sensor; one broken resource, one failure, one reboot. Uptime is low or
high, which is all a comparison of two uptimes tells apart. After `stop` the loop
has returned and the device may have done all it can, so deadlock is not checked.

### SensorDrivers and SensorTasks

`SensorDrivers` writes each driver function as the sequence of its transfers and
each task as the functions it calls between `lock` and `unlock`. `SensorTasks`
executes these programs: a task initialises, discards its warm-up readings,
measures on its schedule, and starts over after an error. A chip has its settings,
a register bank, a conversion and a result with its flag. A transfer can fail
before or after the chip took it, leaving the bus wedged for whoever uses it next
without acquiring it anew; a chip can brown out at any moment and say nothing.
Results and settings carry whether they are of this cycle, which is what the
properties compare. Polls are cut to `PollLimit`: a limit only runs out when the
chip does not measure, as the real ones outlast a conversion.

`PublishedIsFresh` and `PublishedAsConfigured` name what slips past the code: a
brown-out inside the cycle or the initialisation itself, for the SPS30 any reset
(its task reads after the last poll whatever the flag says), and for the BMM350 a
reset between two cycles (it measures with its defaults). `BusAndBankInOrder` says
that a failure of one task never reaches another through the bus, and that the
AS7343 is in bank 0 whenever anything but its identification talks to it.

Run `sensor_tasks`: two tasks at a time in four pairs that cover all seven kinds,
one poll, one failing transfer and one brown-out, each at any step. Two tasks are
enough for what the bus couples: it has one holder, and what a failure leaves is
met by the next one, whichever it is.

### ThermalCamera

The camera measures one half of its pixels after the other by itself, raises a
flag and overwrites its memory; the task polls, drops the flag, reads the memory
in chunks and looks at the flag again. A measurement is known by turn and by
whether it was finished after the capture began, chunk by chunk, which is what
tearing and staleness are. A calibration with too many dead pixels is refused for
good (`faulty`), which `KeepsPublishing` excepts.

Run `thermal_camera`: a read-out of two chunks, two attempts of the four the code
has, three measurements that overtake the task, one failing transfer, one stall of
the camera. Two chunks are the fewest that can disagree; three overtakings exhaust
the attempts of one capture and reach into the next.

### Bme690Task

The control loop with the driver's cycle as bus steps, `do_steps` as any sequence of
outputs and accuracies, and `FlashStore` as erase, header and payload. BSEC is a
closed library outside the repository: it may ask for a pause, a set-up or a
measurement, produce an output or not, and refuse its configuration, which ends the
task. A power cut returns everything but the flash to its start. `seen` counts
outputs and saves for the properties only.

`BsecIsFedRight`: BSEC is fed a measurement of the cycle it asked for, taken with
that cycle's settings, none of them rewritten while it ran; settings are taken to
change between measurements only, since the task initialises anew after a failed
cycle. `SettledBeforePublished`: the warm-up is counted in readings that would be
published and survives errors, as `bme690_task.rs` says and `software/README.md` does not.
`StateIsKept`: no half-written record is restored; outside a write, and unless the last
save failed, a power cut costs no more outputs than the timer allows; and accuracy causes
at most three erases a boot. Inside a write the old record is erased and the new one not
whole, so a cut there costs everything BSEC ever learned, and the timer does not bound it
(see Disagreements). A failed save may have erased the record too and counts as done
until the next timer.

Run `bme690`: warm-up 2, every second output published, saves every 2 cycles, and one
fault, one brown-out and one power cut, each at any step including between the erase
and the payload. The task returns when BSEC refuses its configuration, so deadlock is
not checked.

### DeviceNetwork

`main` spawns the network tasks first and the sensors once there was a link.
`wifi` is `wifi_connection_task` with the radio; between its look at the state
("check") and its wait for the event lies "before wait", where a disconnect goes
unheard (`missed`). `server` is `web_server_task` with the embassy-net socket:
listen, accept, read the header block in one or two pieces, answer in parts, close,
a bounded flush, abort, a bounded flush of the reset. `client` is one client after
another, silent, cut off or gone at any byte. The access point comes and goes.
How the socket resets on `listen` and what a flush waits for is embassy-net's,
modelled from how the code uses it, as is the lost event (esp-wifi's).

`ConnectionsInOrder`: a client receives its own answer or a beginning of it, and the
socket is closed whenever it is to listen. `KeepsListening` and `SensorsStart` hold
but for the missed disconnect, after which the station stays unassociated until a
reboot; whether the radio driver can drop the event there is outside the repository,
so this is stated as an exception and not as a defect.

Run `device_network`: responses of two parts, one drop, one fault, one vanished
client. After a disconnect nobody waited for there may be nothing left to happen, so
deadlock is not checked.

### Registers, Readout and DriverData

`Registers` models how settings reach the chips: read-modify-writes under masks,
whole-register writes, verified writes, resets, modes that end by themselves. A call
is the sequence of its transfers; any of them can break it off, after which the task
starts with `init`; one write may land with a bit flipped. `SettingsStand` says that
between calls every setting of every call that succeeded reads back, whatever calls
followed; `OthersUntouched` that bits which are no setting's stay as they were.
`Readout` models what the drivers make of bytes: each quantity is a set of wires from
bits of the block to bits of the number. `EachBitCountsOnce` flips each bit of each
block against all zeros and all ones: it must move at most one quantity, by its
weight, with the sign at the top only; that determines the layout's arithmetic
without listing it a second time. `CorrectionsStayInTheirLine` does the same for
the camera's EEPROM, where rows, columns and quadrants share words.
`OnlyGoodDataIsUsed` covers checksums under bursts of up to eight bits and up to three
single errors, and the two lists of deviating pixels at their limits: all marked pixels
of an accepted camera are known, one that overflows a list is refused, and one with no
more marked pixels in all than one list holds is not. Between the two, each kind within
its list and more than four in all, the documentation contradicts itself and the code
accepts (see Disagreements).

Run `driver_data`: the six chips with settings in shared registers, two or three
configurations each, every heater duration at a boundary of its encoding, twelve
packed blocks, five checksummed answers, six pixels with lists of two (instead of 768
and four), sixteen sampled pixels at the edges and inside. The two halves share
nothing; a behaviour is of one of them, and in the readout half it stops after its
changes, so deadlock is not checked.

Three things seen while modelling. The OPT4048 task builds a new driver at every bus
lock, with the default configuration; `set_operating_mode`
(`opt4048.rs:719-724`, "keeping the programmed settings") then rewrites the whole
control word from that default. It is harmless because the task's
`MEASUREMENT_CONFIGURATION` equals the default, and the model checks that
configuration only. A disturbed write of the MLX90640's control register is caught by
the read-back, but a flip of a bit the driver does not own is read again and kept by
the retry, so `OthersUntouched` is only claimed undisturbed. And two integer
conversions lose bits outside the range the tasks use: `integration_time_us` of the
AS7343 overflows `u32` for the largest steps, `mantissa << exponent` of the OPT4048
for exponents above 12, which the chip does not produce.

## Fairness

| Module | Assumed | Because |
| --- | --- | --- |
| `Collection` | WF of `pollOnce`, of `Answer` and of a request's end (`RequestEnds`) | the loop waits a fixed time between passes and goes on after any error (`poller.js:177-209`); a reachable device answers, and a request ends with its response, an error or its timeout |
| `Poller` | WF of the loop's and the request's steps together | the event loop runs on, and a request ends with an answer, an error or its timeout |
| `SensorTasks` | WF of each task's steps and of conversions, SF of taking the bus | the executor polls every ready task; the mutex has no queue, but tasks hold it only between two of their own delays, so a task that keeps waiting gets it |
| `ThermalCamera` | WF of the task, of the camera's measuring and of its resumption | the same executor; the camera measures without being asked |
| `Bme690Task` | WF of the task and the sensor, of BSEC making a request and of a step with or without output; SF of a request to measure and of an output | BSEC keeps asking for measurements and, given enough of them, produces outputs; without that nothing could be published |
| `DeviceNetwork` | WF of the tasks, of the network's delivery, of the access point's return and of new connections | the executor; a router comes back; the poller keeps connecting |

Faults, reboots, drops, restarts and clients that vanish are bounded and never
fair; publishing and time are not fair either.

## Disagreements with the documentation

`store_swallowed` is a run of the project. The others are reproduced by hand with
the `.cfg` named, which checks the one property that TLC finds violated;
`MCBme690TaskWarmup.cfg` checks two, and with `-continue` TLC reports both.

| Run or configuration | What is said | What happens |
| --- | --- | --- |
| run `store_swallowed`, `RecordedReadingIsStored` | `store.js:6-7`: every reading pulled stays | the first reading after a kill is glued to the unterminated line and both are unreadable |
| `MCStoreSecondCopy.cfg`, `NoSecondCopy` | `store.js:203-205`: no second copy | a kill while the first line of a day is written hides all earlier days from `initialize`; what the device still retains is appended again |
| `MCThermalImageTorn.cfg`, `SummaryDescribesPixels` | `software/README.md:442`: the summary is of "this image" | a capture published between two rows is mixed into the response |
| `MCCollectionMidPass.cfg`, `PickedUpFromStart` | `poller.js:220-221`: picked up from the start | a page of the new boot stored under the old status makes the next search skip the readings before it |
| `MCCollectionUnnoticed.cfg`, `UptimeTellsReboots` | `software/README.md:301`: the uptime tells reboots | it does not if the device was up, unpolled, for as long as before |
| `MCCollectionLate.cfg`, `HistoryIsContinuous` | `poller.js:4-5`: the history is continuous | a late page makes the next reading look like a duplicate |
| `MCCollectionSecondCopy.cfg`, `StoredOnceInOrder` | `store.js:203-205`: no second copy; `poller.js:440-442`: only a round trip of tens of milliseconds is added to the dates | `receivedAt` is taken when the whole body has arrived (`device.js:195`), about a second for a page (`config.js:34-36`): fetched again after a restart, by a response 500 ms slower, a reading looks new |
| `MCBme690TaskCutWrite.cfg`, `TimerBoundsLoss` | `bme690_task.rs:459-460`, `software/README.md:205-206`: the timer bounds how much learning a power cut can cost | a cut between the erase and the end of a write leaves no record, and everything is lost |
| `MCBme690TaskWarmup.cfg`, `NothingDiscarded` | `software/README.md:118-119`: the BME690 does not discard anything | the first four readings are discarded (`bme690_task.rs:66-73`) |
| `MCBme690TaskWarmup.cfg`, `WarmupRestarts` | `software/README.md:114-116`: the countdown restarts on every re-initialisation | the BME690's does not (`bme690_task.rs:455-458`) |
| `MCDriverDataDeviating.cfg`, `FlaggedCountInTotal` | `mlx90640.rs:151-153` and `182-184`: more than four flagged pixels, of both kinds, make a faulty part | four dead and four outlying ones are accepted: each kind is counted on its own (`mlx90640.rs:725`, and `700-701` says so) |

The comments in `config.js` and `store.js` also speak of a rebooted device
serving its retained day again. It does not: the histories are rebuilt empty at
every boot, which is what `Reboot` does in these modules.

## Proofs

Eleven components have theorems, in eight modules, each about the specification its run
checks and from the assumption that component's module makes on its constants: that
numbers are numbers, that capacities and counts the code divides by or loops over are
positive, that a mark for "nothing" is not a value. The assumption of `Poller` also
says that its sensors are a sequence of distinct names, those of `Store` that a file
which does not exist is not a file. TLC evaluates every assumption. The runs show the
properties on a small instance, the theorems for every number of rows, tasks, sensors,
days, retries, cycles and accidents.

Hardly any property is inductive as it stands. Each component has an invariant that is
(`RingInv`, `ImageInv`, `PageInv`, `ConnectionInv`, `PollerInv`, `SoundInv` and
`FollowInv`, else `IInv`); TLC checked it on the run's instance before it was proved.
What each adds is the knowledge the code has without writing it down:

**`MeasurementHistoryProofs`.** `RingInv` is the types and `RingConsistent`: a length
alone would not do, since only the agreement of position, length and count says which
slots hold which readings. `RetainedSlot` shows that counting back from the write
position and forward from the oldest slot reach the same slot, by cases on whether
the ring is full and whether the index wraps. From it follow `GetCorrect`, and
`PushSlides`, the step of `RingImplementsWindow`: a push appends to the window and,
once the ring is full, drops its head.

**`WebServerProofs`, pages**, instantiates these theorems with readings that are their
numbers. `PageInv` adds that the retained readings are the newest ones in order and that
a page with elements left was cut from numbers already given out: without the last an
element could be null because its reading is yet to come. `PagesAreAligned`,
`NothingIsWithheld` and `LatePagesSkipLostReadings` follow, for every capacity, page
limit and interleaving of publishing with the stream.

**`ThermalProofs`, responses.** `ImageInv` adds to the types that every stored row belongs
to the newest image, that an announced image exists and is no newer, and that rows
are only sent of an announced one. With it a row sent now is as new as any sent before
(`ResponseTearsOnlyForward`), and the early exit of the row loop is never taken
(`ResponseIsWhole`).

**`ThermalProofs`, the camera.** What makes a read-out trustworthy is the flag at its end:
while it stays down, every chunk read so far is the camera's memory as it is now
(`FrameFollowsMemory`), and a flag raised inside a capture is of a half finished in it
(`CameraIsCurrent`), because the configuration or the clearing before it dropped the
one of before. Hence `ImagesAreWhole` and `ImagesAreOfTheirCapture` for any number of
chunks, attempts and overtaking measurements.

**`SensorTasksProofs`.** The tasks share nothing but the bus, so `IInv` is stated of
each task with its chip and its reading, by the place its program has come to:
what is still to be programmed (`Programmed`), when nothing left over can pass for a
result (`QuietBefore`), what has been measured when the gate opens (`FetchesFresh`),
what a chip that forgot its settings can still do (`NoticedLater`). Places are numbers
of steps; the lemmas `Sht41` to `Bmm350` spell the programs out, and `WhereReadSteps`
and `WhereInitSteps` say which steps occur where, so that the proof of an action
splits on the step and not on the sensor wherever it can. `OneTaskSteps` reduces a
step of the system to that of one task. The four properties follow for any set of
tasks, each with any of the seven sensors, where the run has two.

**`Bme690TaskProofs`.** `IInv` follows the task through the rest of its cycle, a suffix
of one of four sequences: outside the poll for its own result an initialised sensor
sleeps with its flag down (`RestsOtherwise`), the settings of a measurement are written
one by one before it starts (`SetUp`), every output counted against the warm-up stands
for `PublishEvery` of them (`CountsOutputs`), unsaved outputs never outnumber the
cycles of the timer by more than the one being acted on (`TimerBounds`), a state once
restored or written is still in a whole record unless a write is under way or failed
(`RecordKept`), and every erase for a better accuracy has raised the accuracy that the
next must beat (`ErasesCount`). `WhatWasLearnedIsKept` follows, with a power cut between
any two steps of a save.

**`ServerProofs`, the poller.** What the poller believes is of a past moment: the last status is of
no later boot than the device's and, within a boot, of no later uptime
(`StatusIsPast`), and no reboot after it has been counted (`CountedUpToStatus`).
Without these a lower uptime need not mean a reboot. `RebootsAreFollowed`, and the
action property `SensorsKeepTheDevice`, follow for any sensors, retries and failures.

**`WebServerProofs`, connections.** `ConnectionInv` ties the socket to the server's place
(`SocketFollowsServer`), what is queued to the request (`QueueIsDue`), and what the
client has to what was written (`ReceivedWasWritten`): that `close` and `abort` are each
waited for is what lets the next `listen` find a closed socket.
`OneConnectionAfterTheOther` holds for responses of any number of parts.

**`CollectionProofs`.** Two invariants, for any capacity, page, timeout and number of
failures, restarts and reboots. Nothing is assumed of the delays; of the intervals only
that they are longer than the tolerance. `SoundInv`: a stored reading is dated late by at
most a delay (`ArchiveOK`), and dates and readings are in order as far as the delays allow
(`OrderOK`). A response is no later than the tolerance after the newest stored reading's
unless it is counted as late (`StrayedTells`), so a reading fetched again is dated within
the tolerance of what is stored, and dropped; a late one may come back, but dated after
everything before it and itself later (`StoredBehind`). From it
`SecondCopyNeedsLateResponse`, which holds whatever reboots were missed. `FollowInv` needs
that no reboot was missed and no response early, or a new reading would be taken for a
stored one. It keeps three facts: what is retained below the cursor, the page or the lower
end of the search is stored (`CollectedTo`), what is stored of the retained readings is a
beginning of them (`NoHoles`), which is what lets one probe answer for all numbers below
it, late or not, and, while no response was late, nothing retained from the upper end on
is stored (`NewFrom`). From it `CursorSkipsNothing` and `SearchFindsBoundary`.

**`ServerProofs`, the store.** `IInv` says of the files that every readable line is in the
file of its day (`FilesPlaced`), and of a sensor not at risk that each file begins with a
complete line that parses, holds its readings in order and ends in no reading without its
newline (`FilesWhole`). Only then do the two lines `initialize` looks at decide anything:
the last file's last reading is the newest (`NewestKnown`), the first file's first line
the oldest (`OldestKnown`). `CutStep` shows that a kill in any write of a batch, at any
line, either keeps this or puts the sensor at risk. `StoredOnceInOrder`, `SummariesAgree`
and `RangesAreWhole` are consequences, the last of `FilesPlaced` alone and so for sensors
at risk too. `ReadingsStay`, an action property, follows from what a write does to a file:
its complete lines stay, and at most a line without its newline is spoilt.

**`ServerProofs`, the charts.** `historyRange` has no state, so `ChartsShowRanges` is about
`downsample` of what a range query finds in any state of `IInv` (`RangeIsPlotted`). Its
loop and its sums are recursive functions; `BucketSteps` and `SumSteps` lay them out a
reading at a time. Two things hold after every reading. What the points weigh and what the
open bucket weighs add up to what the readings so far weigh (`EnteringWeighs`; the weight
is a count or a total), so that with the last bucket averaged nothing is missing
(`BucketsWeigh`), in whatever order the readings are. And if they are in order
(`Gathers`), the open bucket ends with the last reading and has the readings of one
bucket, every point is earlier than all of it, and there are no more points than the
bucket's index. The index never falls (`BucketsFollow`), so it bounds the points; the mean
of a bucket lies between its ends (`MeanBetween`), so points stay in order and in the
range, and the ends of a bucket are at most its width apart, so none lies in a gap.

**`SelectionTheorems`.** `filter` is a recursive function, `concat` over the days a fold of
the community modules. The theorems of the library on recursive definitions and on
induction take an operator, so `Recursion` first shows that a function following the
steps exists, and `UpTo` is induction over a set of lengths instead of a predicate, from
the fact that a set of naturals has a least element. With them:
a filtered sequence is the image of the original under an increasing map and misses
nothing (`Selects`), filtering a joined sequence joins the filtered ones
(`FlattenSelected`), and ordered pieces that follow each other join to an ordered whole
(`FlattenIncreasing`).

Model-checked only:

- Liveness (`KeepsPublishing`, `EventuallyCollected`, `HeldImageCatchesUp`,
  `FailuresPass`, `StopEndsLoop`, `KeepsListening`, `SensorsStart`) is out of the prover's reach; the safety part of
  `FailuresPass` is `SensorsKeepTheDevice`.
- `EachBitCountsOnce`, `CorrectionsStayInTheirLine` and `OnlyGoodDataIsUsed` of `Readout`
  enumerate bits and bursts of bits of fixed layouts: there is no constant to generalise.
- `RegistersAreKept` of `Registers`: its chips and configurations are tables rather than
  parameters, so that the run already covers every chip.

## Not modelled

- The PSRAM allocator: a pointer bumped eight times at boot, before any task runs.
  Its failure appears as `reserved` in `ReadingsPage`.
- Floating-point compensation of the sensors and the camera's temperatures, and
  BSEC itself, which is not in the repository.
- Driver operations no task calls (heaters, sleep modes, FIFOs), the clock pulses of
  the bus recovery and the scan at boot, a build without an SSID, a board without the
  flash partition for the record.
- The statistics of a thermal image, the contents of `/api/status`, JSON formatting.
- The time axis, the other routes and hooks, which forward what the store and the
  poller have, and the dashboard, which replaces what it draws with every refresh.
  Two history requests of it may be answered out of order; the older answer is then
  drawn until the next refresh.
- The LED, build scripts, tools and the generated pages under `software/docs`.

The radio driver, the network stack, the executor and the file system are external
and appear only as the choices they leave open.

## Running

```sh
tlc -workers 2 -config MCCollection.cfg MCCollection
tlc -workers 2 -config MCStoreSwallowed.cfg MCStore
tlapm MeasurementHistoryProofs.tla
```

The longest run, `store`, takes some two to three minutes on two cores; so does the
longest proofs, `SensorTasksProofs`, `ServerProofs` and `CollectionProofs`.
