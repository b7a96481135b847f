# Betacrawler in TLA+

Betacrawler is firmware for a small radio-controlled vehicle (`src/firmware`, C++ on an
STM32F4) and a configurator that runs in the browser and talks to it over a serial port
(`src/web-app`). This directory holds TLA+ modules translated from that code, TLC
configurations that check them on small instances, and proofs checked by TLAPS.

## 1. The system

### Components, their state and their operations

| Component | State it keeps | Operations | What makes it correct |
|---|---|---|---|
| Receiver, `hardware/rx` | decoded channels, link state, the raw bus | decode a frame, time out, change protocol or source | the bus is stamped by frames and by nothing else; no data moves nothing |
| Drive mixer, `features/drive` | its own bus | one `compute()` per pass | a dead link is passed on as dead; saturation keeps the turn; the arm switch is published in the pass that saw it |
| Motor outputs, `hardware/motor*` | `armState_`, `armT0_`, the configuration, two output stages on the same pins | `apply` on a parameter change, `tick` | neutral until a whole hold at neutral; a dead link is neutral; a change of source, rate or type costs a hold; one stage drives the pins |
| Servo, `hardware/servo` | attached, last pulse, the timer's compare value | calibrate, tick | steering holds on a dead link; the reading is the pulse |
| Parameters and dispatcher, `core/` | settings in RAM | set, save, defaults, revert, get | only values the descriptors accept reach RAM |
| Settings storage, `storage.cpp` | a page of emulated EEPROM | save, load | a save is all or nothing; an acknowledged one is there |
| Registry and loop, `core/registry`, `main.cpp` | modules in registration order | add, begin, notify, tick | an index has one owner; one clock reading per pass; producers tick before consumers |
| Serial link, `webserial-link.js` | request table, write queue, port | request, resolve, time out, fail all | an answer resolves its own request |
| Device model, `device-model.js` | cached values, schema | set, save, defaults, revert, connect | the cache is what the board holds |
| Shell, `app.js` | the unsaved flag, pages | the buttons' handlers | the flag is down only when flash holds what is live |
| Flashing in the browser, `api.js`, the Firmware page | two busy flags, a parked flash, the announced bootloader | flash, park, grant, cancel, probe, enter DFU | one writer at a time; a reported success is one click's whole image; never busy for ever; a parked flash can be reached |
| Writing an image, `dfu.js` | the sector or block in hand | erase, set the address, write blocks, poll, leave | success means the whole image; nothing is programmed unerased; nothing beyond the image is lost |
| Entering DFU, `dfu.cpp` | the magic word in a backup register | arm, jump at boot | a board that was asked once goes there once |
| Battery sense, `hardware/vbat` | the reading, the cell latch, the battery bus | probe, tick, a change of source, scale or count | a count is confirmed before it is latched; a source that is off or unwired leaves nothing on the bus |
| Line protocol, `core/protocol`, `line-buffer.js`, and the CRSF parser | a bounded buffer and a flag | feed one byte | a message is whole or dropped, and the next one is read |
| Boot, `core/boot_log`, `core/health` | bounded tables, the first fault | add, fail, log | a full table refuses and changes nothing else; a module left out is told |
| LED, system telemetry, simulated board, terminal | presentation | | |

They interact in three ways. Inside the firmware there is one thread: `loop()` reads
`millis()` once, handles the commands on the serial port, and ticks every module with that
reading. Modules see each other only through two buses, the receiver's and the mixer's, each
written by one producer and stamped with the clock. Between board and browser there is a
serial stream of numbered requests and answers. In the browser every button's handler awaits
its answers while other handlers run.

### What is hard

* **Time.** `millis()` is 32 bits wide and wraps; ages are unsigned differences of stamps taken
  at different moments of a pass. A command takes its own reading.
* **Order within a pass.** The servo ticks before the mixer, the motors after it.
* **Chained staleness.** The mixer's window and the motor's window follow one another, and
  LinkState has a third.
* **Any sequence of parameter changes** on an armed output, one parameter at a time.
* **Bytes that arrive on their own.** The UART's ring fills while the loop is busy, across a
  change of protocol or source.
* **Latches.** A cell count confirmed over a window, while the pack bounces or is swapped.
* **Power cuts** between the erase of a page and its last cell, and a new build booting on old
  settings; a board reset on its way into the bootloader.
* **Awaits.** State read before an await and written after it; answers after a timeout; the
  cable pulled between two answers; a second click, a grant and a poll inside one flash.
* **Tables and buffers at their limits**, and arithmetic at the edges of its width.

Every such point is listed in `PROJECT.json` under `hazards`, at its line, with the properties
that would catch it, or with the reason none does.

## 2. The modules

```
Millis            the wrapping clock
 ├─ MotorMath     motor_math, hbridge_math                      (operators)
 │   ├─ MotorDriver   one driver and its two stages             (operators on a record)
 │   │   └─ Motor     one output in the loop ── MotorProofs
 │   └─ ServoDriver                                             (operators on a record)
 ├─ DriveDriver   compute() over DriveMath                      (operators)
 ├─ Vehicle       bus + mixer + two motors + servo ── refines ── FailSafe;  VehicleProofs
 ├─ RxLink        the receiver module and its link ── RxLinkProofs
 └─ Vbat          battery sense over BatteryMath ── VbatProofs
DriveMath         drive_math                                   (operators)
 └─ Mixing        mix() over all sticks and ratios ── VehicleProofs
FlashStore        RAM, EEPROM page, boot ── refines ── SettingsStore;  FlashStoreProofs
Registry          its tables, the boot log, the fault ── FlashStoreProofs
Session           browser and board over the serial port ── SessionProofs
FlashSession      the browser's handlers around a flash ── FlashSessionProofs
DfuWrite          board, ROM bootloader and dfu.js ── DfuWriteProofs
Framing           bytes to frames, payloads to channels ── RxLinkProofs
Lines             characters to lines, at both ends ── SessionProofs
MCArithmetic      Mixing, Registry, Framing and Lines, one subject per behaviour
```

**MotorMath, MotorDriver.** Each operator is one function of the source, under its name. The
driver is a record: `cfg` are the members copied from the parameters, `arm` and `t0` are
`armState_` and `armT0_`, `driving` the stages whose timer channels run, `pulse` and `duty`
what is in their compare registers. `Apply` is the whole of `MotorDriver::apply`: demotion, the
hold, stopping and starting of stages, the arm switch, the clip to the frame, the write.
`TickMotor` runs the same text with the configuration it already has, as the code does.
`motor1_driver.cpp` is the same text as `motor0_driver.cpp`.

**Motor.** One output inside the loop. `BeginPass` is the reading of `millis()` at the top,
`Command` a parameter change, `Tick` the pass's tick, `Advance` a millisecond. What rx and
drive publish is chosen from what those modules can publish, so that the output is checked
against every producer behaviour rather than against one, channels emptied by a change of
protocol under a stamp that is still fresh among them. A command comes in any millisecond of a
pass and reads the clock itself. `lowFor` is a history variable: real milliseconds since the hold
last had to restart.

**Vehicle.** `registerModules()` put together: `ReconfigureRx`, `SetDrive`, `SetMotor`,
`SetServo` are the modules' `onParamChanged`, `Restore` is `defaults` or `revert`, which notify
everybody, `TickHeard` and `TickSilent` are `Registry::tick` with and without a decoded frame.
The receiver is here what the other modules see of it: the channels and the stamp of its bus.
`silence` and `recovered` are history variables of real time; `waived` is the history of holds
that are not the loop's own, because the output was in the bench mode, which asks no link, or
because a command newer than its pass began them. An output leaves it when its hold starts over.

**FailSafe** is the abstract vehicle: which outputs move, how long the link has been silent, how
long it has been back, and which outputs' holds are waived. `Vehicle!ImplementsFailSafe` is the
refinement; its mapping takes *moving* to be the outputs that follow the link and are away from
neutral. A bench throttle, an output that does not follow the link, is outside that promise and
has `SwitchStops`.

**Mixing** is `mix()` by itself: the sticks move, the ratios are changed one at a time, and the
two tracks are compared with exact arithmetic on the offsets. `DriveMath!Quot` is C's division,
which truncates.

**RxLink** is the receiver module itself. Frames arrive in the ring on their own (`Air`);
`TickUart` and `TickSim` are a pass under either source: they drain the ring or make frames, feed
`LinkState`, and freeze or close the rate's window; `Pass` is the time to the next one.
`SetProtocol`, `SetSource` and `SetTimeout` are `onParamChanged`, with what each forgets; they come
before the tick of their pass, as commands do, and find frames in the ring that came before them.
Channels and statistics are reduced to who made them, the radio or `runSim`, which is what
`ShownIsReal` compares. That they also came under the selected protocol is not so: the ring
survives a change of protocol, as the comment at rx_driver.cpp:118-126 says. `quiet`, `upFor` and
`aired` are history variables of real time: since the last frame, on an unbroken link, and since
something was last on the air.

**BatteryMath, Vbat.** `vbat_math` as operators, `VbatDriver` as the state machine: the probe of
the pin, the reading, `CellLatch`, the battery bus, and rx's frame that is sent from it. Packs
are connected and removed, the divider is fitted and pulled, and source, scale and cell count
change between two passes. Two history variables: `held`, how long readings have agreed, and
`inherited`, whether the count in use was latched from another pack, source or scale than there
is now, or set explicitly.

**FlashStore** has the settings in RAM, the header and the cells of the page, and how far a save
has come. `Erase`, `ProgramHeader`, `ProgramCell`, `Verify` are the steps of one
`FlashStore::save`; `PowerCut` may come between any two, `Reflash` while the power is off.
**SettingsStore** is the abstract store: one whole image or none.
`FlashStore!ImplementsSettingsStore` is the refinement.

**Session** has both ends of the serial port. `Handle*` are the dispatcher's cases; `Request`,
`Arrive`, `Timeout`, `DropLink` are SerialLink; `SetDone`, `SaveDone`, `ResetDone`, `ReadDone`,
`Land` are the continuations of the shell's handlers after each await. The store is reduced to
`stored`, which is what SettingsStore promises. `word` is a history variable: for each key the id
of the request by which the board last set or read it, until the page has its answer (`Told`) or
has stopped waiting for it (`Lapsed`).

**FlashSession** is everything in the browser around a write. Each click on Flash is a handler
of its own with a program counter; between two awaits it takes one step. `api` is what `api.js`
keeps (the flag, the parked flash, the announced bootloader), `page` what the Firmware page's
store keeps, and the board leaves, comes back in its bootloader or as an application, and is
announced, on its own, at any moment. `runFlash` tests the busy flag at its top and sets it awaits
later; a bootloader that is announced or selected in between frees the page's button, and a second
click can pass the same test. `crowded` is a history variable: such a click was taken. The
properties have it as their one exception.

**DfuWrite** is the write and the way to it. `DfuCommand`, `JumpOnBoot`, `PressReset`,
`PullCable` are the board; the bootloader is *queued, busy, idle* or in *error*, as DfuSe's
`getStatus` reports it, and its address pointer is anywhere when it is entered; `ClearErrorState`, `Send`, `PollBusy`, `PollIdle`, `Throw`, `Leave` are
`dfu.js`. What a unit of flash holds is the image's unit, *Old*, *Blank* or *Spoilt*.

**Framing** has two machines. In `FrameSpec` the CRSF parser is fed a byte per step
(`FeedFrame` is `FrameParser::feed`), and a change of protocol or source puts a fresh one in its
place (`DropFrame`). Two history variables run beside it: the bytes since it last began to seek,
and what they leave when they are divided, bit by bit, by the CRC's polynomial. In `ChannelSpec`
a step is one pass of `unpackChannels`' loop, beside the payload it reads. The code runs `crc8`
over the buffer when the last byte is there; the model carries the same value along with each
byte.

**Lines** has the readers of the two ends. `ReaderSpec` is `LineReader`, fed a character per step
beside the letters typed so far and the lines sent; `BufferSpec` is `LineBuffer.push`, given a
chunk per step beside the whole text since the port was opened. A boot and an opened port start
with a fresh reader.

**Registry** is what `setup()` fills once. `AddModule` is a call of `Registry::add` from
`registerModules()`, which ignores its result: `Accept` or `Refuse`, and a refusal is
`Health::fail` with its line in the boot log. `Report` is any later line. `RegistryHonest` is
`ModulesFit` and `FaultIsTold`; the second holds
because `registerModules()` comes before everything else that is logged, so that the fault's line
is the first and always finds room; the comment at `include/config.h:30-32`, that nothing surfaces
a refusal, is older than that line.

## 3. The runs

Properties are stated beside the specification they belong to; the `MC*` modules hold only the
values of the constants, and `MCArithmetic` puts six machines that share no state side by side.
`Vbat` needs no values beyond numbers and is run directly.

| Run | Checks | Shows |
|---|---|---|
| `motor` | TypeOK, PinsFollowConfig, NeutralUntilArmed, DeadLinkIsNeutral, CommandLeavesLow, HoldUnlessAhead, ChangeCostsAHold, HoldCompletes | both stages, off, bench and link modes, raw and mixed sources, inverted and odd spans, the widest calibration inverted at 400 Hz, emptied channels, commands at any moment of a pass |
| `vehicle` | ImplementsFailSafe | a motor on the link that may be put on the bench and back, commands at any moment of a pass, long silences, wraps of the clock |
| `vehicle_modes` | SwitchStops | one motor on the link, one that arms and drives at a bench throttle; car and skid layouts, two protocols, and changes between them |
| `arithmetic` | ClampIsProportional, ReverseMirrors, RegistryHonest, FramesAreWhole, ChannelsAreSlices, LinesAreWhole | `mix()` against exact arithmetic, and against itself reversed; a registry and a boot log filled past their limits; the parser's frames against long division of what was sent; the channel accumulator against the payload's bits; the board's reader against the lines sent, too long ones among them; the page's buffer against a split of the whole text, however it was cut into chunks |
| `store` | TypeOK, ImplementsSettingsStore | three builds, cuts at every cell |
| `session` | AnswersMatch, ValuesHonest | all five operations of two handlers on two keys, timeouts, the cable, Disconnect, boards with and without power of their own, ids that come round again |
| `rxlink` | RateMeasured, ShownIsReal, LinkHonest, SilenceIsNoticed | two protocols, both sources, timeout changes, frames at any moment, wraps |
| `battery` | BusIsSelected, CountIsConfirmed, PackIsCounted | no pack, two packs and a simulated one, quick swaps, two scales, auto and explicit counts |
| `flash` | TypeOK, OneWriterAtATime, DoneMeansWritten, BusyWhileWritten, ParkedIsReachable, NothingStaysBusy | two clicks, a grant, the presence poll, the select and enter-DFU buttons interleaved at every await, announcements at any moment |
| `dfu` | DoneIsWholeImage, NothingSpoilt, OnlyItsSectors, MagicIsAsked, FlashEnds | five image lengths over three sectors, stalls, errors, resets, a pulled cable |
| `vehicle_nodata` | NoDataNoMotion (violated) | see the next table |
| `flash_crowded` | OneWriter (violated) | see the next table |

### Where code and words differ

Each of these configurations finds a violation: it states what a comment or a document of the
repository says, and TLC shows an execution in which the code does something else.
`vehicle_nodata` and `flash_crowded` are runs of the project, and `findings` in `PROJECT.json`
quotes both sides. The others are run by hand, `tlc -config MCMotor_late.cfg MCMotor`; where a row names a second
property of a configuration, put it in the place of the first.

| Configuration | Property | What is said | What happens |
|---|---|---|---|
| `MCVehicle_nodata` | NoDataNoMotion | 0 is "this slot carries no data" (drive_driver.cpp:78) | a protocol change publishes 0 µs on a fresh bus, mixed as full reverse |
| `MCMotor_late` | ArmHoldRespected | the hold lasts `armHoldMs` (motor_math.h:64) | a late command stamps the hold in the tick's future, and the hold is skipped |
| `MCMotor_inverted` | FrameLeavesLow | "Last, so no route to the pin can outrun the frame" (motor0_driver.cpp:186) | inversion after the clip holds an ESC's line high |
| `MCVehicle_words` | TimeoutStops | the protocol's timeout stops the outputs (arming-and-modes.md:27-30) | fixed 500 ms windows do |
| `MCVehicle_words` | ArmingNeverLurches | arming never lurches (arming-and-modes.md:36-40) | the hold completes while disarmed; flipping the switch moves at once |
| `MCVehicle_words` | SilentMixerCentred | a stale link never commands motion (drive_driver.cpp:37) | a link silent for 2^32 ms looks alive for a window |
| `MCVehicle_servo` | ServoReadingHonest | "The commanded pulse width, or 0 when detached" (servo_params.cpp:27) | a re-attached servo runs at its old pulse, reading 0 |
| `MCRxLink_stale` | DeadRadioIsDown | the outputs go to neutral when frames stop for longer than the timeout (arming-and-modes.md:27-30) | frames left in the ring under the simulated source bring the link up (rx_driver.cpp:118-126) long after the radio went off |
| `Vbat_words` | ExplicitCountStays | set explicitly, the per-cell readout stays right (battery-sense.md:64-66) | the reading of a removed pack clears the count, and the next pack is detected (vbat_driver.cpp:140-141) |
| `Vbat_words` | OffSendsNothing | "SRC_OFF publishes nothing at all, so rx sends no frame" (vbat_driver.cpp:158) | the stamp of the last publication stays on the bus, and rx goes on sending it |
| `MCFlashStore_fault` | AckedIsStored | `flash`: "the read-back did not match" (protocol.md:39) | a payload cell that fails is acknowledged: only the header is read back |
| `MCSession_words` | ReconnectsOnOneClick | "reconnects on one click" (app.js:637-638) | one failed write rejects every request until the page reloads |
| `MCSession_words` | DirtyHonest | "RAM now matches what is stored" (app.js:759-761) | a set during a revert's reload loses its unsaved flag |
| `MCSession_words`, no "revert", `MayDisconnect = TRUE` | DirtyHonest | unsaved changes "died with the connection" (app.js:30-31) | Disconnect hides changes that the board still has |
| `MCSession_words`, no "revert", `Timeouts = TRUE` | DirtyHonest | "Anything that changes the device's RAM" is flagged (app.js:700-703) | a timed-out set was applied and is not flagged |
| `MCFlashSession_crowded` | OneWriter | "a firmware flash is already in progress" (api.js:241), "a second concurrent flash is refused" (tests/api.test.js:388) | the flags are set only after awaits (api.js:240-249, 317-319); a bootloader announced or selected between them frees the button, and a second click gets through |
| `MCFlashSession_crowded` | ParkedHasAButton | "so nothing stays busy forever" (api.js:482-483) | the second click's write ends the first one's prompt and leaves its flash parked |
| `MCFlashSession_crowded` | PresencePollKeepsOff | "the presence poll never opens a device a write is about to take over" (api.js:69-70) | it reads the flag, awaits, and opens the device |

### Bounds, and why they are enough

* **Time.** The durations keep their order and shrink: holds of 2 to 9 ms for 2000, stale
  windows of 2 or 3 for 500, passes of at most 1 or 2 ms, a clock of 4 to 12 ms. The code compares
  ages with the windows and does nothing else with time, so what matters is which comparisons
  can differ: hold longer than a window, window longer than a pass, clock longer than hold and
  pass. The assumptions of the modules state exactly those. The clock starts anywhere and
  wraps in every run that is checked for a safety property. `vehicle` has a hold of 9, which leaves
  2 ms of it that no wrap can hide (`AssuredHold`, the hold less two stale windows and three
  passes); with the code's numbers it leaves about a second of two. `vehicle_modes` asks nothing
  of the hold but that it ends, and has one of 2. In `motor` the stale window is longer
  than a pass, so that a link can stay fresh while the loop steps over the stamp 0, which the bus
  takes for "never marked"; without that every hold would be restarted by the wrap and
  `HoldCompletes` would hold of nothing.
* **Microseconds.** Channels take two or three values: neutral or just inside the margin, a
  stop, a value beyond the calibration. Calibrations are the default, one with an odd span, and
  the limits. `arithmetic` uses eleven stick positions, around centre, at the stops and beyond them,
  and four ratios; its theorems are about every integer.
* **Modes.** Seven configurations of one output instead of the product of all fields: each
  differs from the default in the fields the code branches on.
* **Commands** come in any millisecond of a pass, in every run. A change of protocol is in
  `vehicle_modes` and `vehicle_nodata`; in `vehicle` the motor's mode changes instead. The theorems
  have all of them at once.
* **Histories.** `vehicle_modes` is checked over the program's own variables (`VIEW Program`): the
  histories decide no step, and `SwitchStops` reads none of them.
* **The receiver.** Two protocols with different timeouts and a change of each; a ring of two
  frames, so that it overflows; a rate window of one pass or more. Frames are *rc*, *stats* or
  *bad*: the bytes are Framing's.
* **Battery.** A floating pin, no pack and two packs with different counts; scales that move a
  reading across a count's boundary; a window of two passes.
* **Bytes.** Seven byte values (sync, lengths in and out of range, noise, and bytes that complete
  a CRC) in streams of any length, with frames whose length byte is at most four; payloads with
  one bit set and ramps that set every field. Lines of up to four letters for a buffer of two, two
  lines at a time; texts of up to seven characters in chunks of up to three. That is enough for a
  frame inside a frame, a line too long followed by one that fits, a carriage return in the
  middle, and a line cut by every chunk boundary. The theorems have every size.
* **Tables.** Four modules where three fit, of up to two parameters and two readings where three
  fit, and a log of two lines.
* **Store.** Tables of one and two parameters: a cut between header and payload, inside the
  payload, and after it; a build with wider bounds, and one with a parameter fewer.
* **Session.** Two handlers at once, two keys, two values, two messages on the wires when a button
  is pressed (`MaxWire`), four ids (`MaxId`) that come round again. Everything the program has is on:
  timeouts, the cable, Disconnect, the terminal's save, and boards that lose power with the cable
  and boards that do not (`OwnPower`). Handlers are interchangeable, and so are keys, since the
  defaults give both the same value; the symmetry is sound for invariants. The code's id grows
  without bound; reusing ids is harsher than the code as long as no more requests than ids are
  outstanding, which `SessionAssumption` says.
* **Flashing.** Two clicks: the races are between a handler and one other, and the theorems of
  FlashSessionProofs are about any number. Past the crowding click every property holds by its
  exception, so `flash` stops there (`CONSTRAINT Uncrowded`).
* **The write.** Sectors of 1, 2 and 4 units, as the F411 has 16, 64 and 128 KB; blocks of two,
  so that a sector boundary falls inside a block; images that end on, before and after
  boundaries; two faults; an address pointer at the origin or one unit on. DfuWriteProofs has every map, size and number.

### Abstractions a reader should know

* `Connect` is one step: hello, schema, getall and the reload of the form. The handshake runs
  before the shell enables anything else.
* The CRC of the settings tells any two payloads apart, so the header carries the payload it was
  computed from. The CRC of a CRSF frame is computed, byte by byte as they come.
* The wait between a handler's last answer and its last assignment (`alpineNextTick`, the schema
  and params reads of `loadDevice`) is one state, `landing`.
* A message on the wire is lost only with the cable. The stream has no other loss.
* `freq` of the H-bridge scales its timer period and is left out.
* A pass of the loop lasts at most `MaxPass`. A save stalls the loop for about a second; that
  longer pass is not in Vehicle.
* In DfuWrite a control transfer and the status read that follows it are steps of their own;
  the delay between two status reads is not.

### Fairness

* `RxLink!FairSpec`, `Vbat!FairSpec`: `loop()` is called for ever by the Arduino core and each pass
  ends in a tick. Commands, frames and packs are never fair: nobody has to send them.
* `Motor!FairSpec`: the same loop, stated of `phase`, which changes for ever (`LoopGoesOn`), and the
  hardware timer, stated of `clock`, which runs for ever (`TimePasses`). `HoldCompletes` needs the
  clock because the hold is measured in time, and the loop because a tick ends it.
* `FlashSession!Spec`: an await ends, in success or failure, because a promise of WebUSB or of a
  fetch settles, and a user answers the browser's device chooser or closes it. Clicks, the
  board's reboot and the announcements are not fair.
* `DfuWrite!Spec`: the host's next transfer is answered or throws. That the bootloader finishes or
  refuses what it took up is an assumption about ROM code outside this repository: `pollUntilIdle`
  (dfu.js:124-128) has no bound of its own, and a bootloader that stayed busy for ever would be
  polled for ever. Nobody has to plug the board in.

## 4. The proofs

TLC checks small instances; these hold for every value of the constants their assumptions allow.

**MotorProofs**: `TypeCorrect`, `PinsTheorem` (PinsFollowConfig),
`NeutralTheorem` (NeutralUntilArmed), `DeadLinkTheorem` (DeadLinkIsNeutral). The argument has
three layers. Lemmas about the arithmetic come first: neutral lies in the calibrated span, the
frame's clip never moves it, each stage's rendering of neutral is neutral. Then lemmas about one
evaluation of the driver: `Apply` on a well-typed driver and sane buses gives a well-typed driver,
drives exactly its own stage, and outside `ARMED` writes neutral. Last come the steps of `Next`,
one case each. `NeutralUntilArmed` is not inductive alone: what the pin carries after a step that
keeps the old stage depends on the old stage having been right, so the invariant carries
`PinsFollowConfig` and the types with it. `DeadLinkIsNeutral` follows from the demotion in the
tick together with neutral outside `ARMED`.

How long the hold is, and what a pulse leaves of its frame, is the module's second part:

* `HoldTheorem`, `Spec => HoldUnlessAhead`. The invariant `HoldMeasured` relates the stamp to real
  time: while an output is arming, has been low for less than the hold and its stamp is not ahead
  of its pass, the stamp looks at most `lowFor + MaxPass` old on the wrapping clock, which is less
  than the modulus. A stamp that a command left ahead of its pass is the exception the code makes
  (`MCMotor_late`), and the theorem says it is the only one.
* `ChangeTheorem`, `Spec => ChangeCostsAHold`.
* `FrameTheorem`, `Spec => []CommandLeavesLow`: no command outruns its frame, for every set of
  configurations. It is not a matter of the clip alone, which only runs when the output is
  evaluated: a channel without data holds the last command, and a change of rate must not leave a
  longer one behind. What inversion makes of the command on the pin is not covered
  (`MCMotor_inverted`).

**VehicleProofs** is about the composition.

* `SwitchTheorem`, `Spec => []SwitchStops`, with no hypothesis beyond the constants' assumptions:
  an open arm switch stops both motors in whatever mode, with commands anywhere in a pass. The
  invariant adds to it that the motors and the mixer's bus have their shapes, so that what a
  driver reads as the switch is the slot the mixer wrote.
* `VehicleImplements`, `Spec => ImplementsFailSafe`, the refinement, from `Link`: the two stale
  windows and three passes are no longer than the hold, as 500 + 500 ms and three passes are to
  2000. Commands come anywhere in a pass and motors go to the bench and back; what that waives is
  in the abstract vehicle's own words (`waived`). The invariant `LinkInv` relates stamps on the
  wrapping clock to real time through three values that exist in every state: when a driver was
  last evaluated, when the last frame came, and the silence then. A bus that looks fresh was
  stamped by that frame, or by a mixer that found it fresh; the stamp of a hold that is not waived
  is no older than the time the link has been back and one long silence, which after a wrap may be
  a phantom link's, and this is why a hold assures only `AssuredHold`.
* `FailSafeKeepsPromises`: the abstract vehicle is still once the link has been silent for
  `Limit`, waived outputs too until the silence is `Long`, and after a long silence nothing but a
  waived output moves until the link has been back for `Hold`; `VehicleKeepsPromises` says the
  same of the vehicle.
* `ClampTheorem`, `MirrorTheorem`: the mixer's two properties for every integer stick and ratio.
  (A channel is 16 bits and a ratio at most 100, so no product leaves the code's 32 bits.) The
  argument bounds C's quotient on both sides, finds that the larger offset has the smaller
  factor, and carries the two truncations through to the hundredth and the microsecond that the
  property allows.

**RxLinkProofs**: `RxTypes`; `LinkIsHonest` (LinkHonest), from `SilenceTracked`: as long as
the link is up, the age of the last frame's stamp is the real silence and no wrap is in sight;
`RateIsMeasured` (RateMeasured), from `WindowTracked`: an open window is no older than the link;
`ShownReal` (ShownIsReal) and `TimeoutSelected`: the timeout in force is the selected
protocol's, in whatever order protocol and timeouts are set.

Its second part is Framing, for every stream of bytes and every `MaxLen`, and for all payloads.

* `FramesTheorem`, `FrameSpec => []FramesAreWhole`. The lemma behind it is about two ways to
  compute: the register that `crc8` folds bytes into is the remainder of the long division with
  eight more bits shifted out, so that one more byte leaves no remainder exactly when it equals the
  register. Bytes are equal when their eight bits are, and every step of either computation is
  described by what it does to each bit. The invariant says that what the parser gathered are the
  bytes behind the length, never more than the length allows, with their register beside them.
* `ChannelsTheorem`, `ChannelSpec => []ChannelsAreSlices`. The invariant says that the
  accumulator holds exactly the payload's bits that no field has taken yet, that it is less than
  `2^bits`, and that `bits` is at most 10 between two passes, so that one field per byte is all
  the inner loop can make.

**VbatProofs**: `VbatTypes`; `CountConfirmed` (CountIsConfirmed), from an invariant that says how
old the latch's stamp may look for how long readings have agreed; `BusSelected` (BusIsSelected).

**FlashStoreProofs**: `SettingsAccepted` (TypeOK), cells failing or not; `StoreImplements`, the
refinement of SettingsStore, for stores whose cells do not fail (`Faults = FALSE`): initial states
map to initial states, and every step of a save or a boot to a step of the abstract store or to
none. The invariant says how much of the page each stage of a save has written, which is what
makes a header whose CRC matches a whole image.

Its second part is Registry: `RegistryTheorem` (RegistryHonest, which is ModulesFit and
FaultIsTold: `TablesTheorem` and `FaultTheorem`), for every size of the tables and the log and
every sequence of modules. The invariant says that the entries tile the indices below each count,
that the fault's line is the first of the log, and that while modules are being added the log
holds nothing else.

**SessionProofs**: `AnswersTheorem` (AnswersMatch), for any number of handlers, keys, values and
messages, whatever of timeouts, unplugging, disconnecting and a board with its own power is
allowed. The invariant sees the two wires as one queue, answers first. On an open port the queue
carries the last ids that were given out, in order, ending just before `nextId`; with fewer
messages than ids the next id is therefore on neither wire, and every id that is awaited is under
way, so a new request never takes one that an old answer could resolve. Its other half says that
a port can be opened only when the wires behind it are empty, which is why an answer never
crosses a reconnect. The slip it excludes, reusing the lowest id nobody awaits, is the run's
mutant.

`ValuesTheorem` (ValuesHonest) is about the page when every handler is done, for all five
operations, whatever of timeouts, the cable, Disconnect and power is allowed. For each key the
request with the board's last word on it has been heard by the page, is still awaited, or has
timed out, and the last is the exception: the set was applied and the page does not know.
`OwnedInv` says that what is on the wires and awaited is awaited by the handler it names, and by
no other message; `CacheInv`, that for each key whose last word did not lapse, the last answer
under way that will fix the page's value gives the board's, or, when none will, the page has it
already; or that a read-back of everything is still to come.

The unsaved flag has no theorem: with the program's own buttons it is not honest (the three rows
on DirtyHonest above).

The module's last part is Lines. `LinesTheorem`, `ReaderSpec /\ BufferSpec => []LinesAreWhole`, for
every buffer length, every text and every way it is cut into chunks.

* On the board (`BoardReads`) the invariant relates the reader to the letters typed since the
  last line feed: it holds all of them, or, when they are too many, a full buffer and the mark
  that it is dropping. A line feed then delivers or flags that line, and leaves nothing of it.
* In the page (`PageReads`) the property is inductive, but what it says has to be shown of a
  definition that counts. The line feeds of a text are numbered without a gap, because the
  numbering is an injection of a finite set into an interval of the same size. The line feeds of
  a text with a chunk appended are those of the text and, moved along, those of the rest with the
  chunk appended; so splitting the rest with the chunk continues the split of the whole text.

**FlashSessionProofs**, for any number of clicks and announcements at any moment: `FlashTypes`,
`OneWriterHolds` (OneWriterAtATime), `DoneIsWrittenHolds` (DoneMeansWritten), `BusyIsHonestHolds`
(BusyWhileWritten), `ParkedHasAButtonHolds` (ParkedIsReachable). The invariant, until the crowding
click, says that at most one handler is between its check and the flag or past it, the write and
the grant included, and that the page's flag may be down only in that window.

**DfuWriteProofs**, for every flash map, block size, image and number of faults: `DfuTypes`,
`WholeImageTheorem` (DoneIsWholeImage), `ErasedFirstTheorem` (NothingSpoilt),
`OnlyItsSectorsTheorem` (OnlyItsSectors), `MagicTheorem` (MagicIsAsked). The layout comes first:
the starts of the sectors are a recursive function, and that they run from 0 to the flash's size
without overlap is shown by induction over a set of naturals, from the least element of a
counterexample. The invariant then says how far the write has come: blank up to the sector in
hand, then, with the address pointer set, written up to the block in hand and blank behind it,
unless the bootloader is in error; and the bootloader works on nothing but what the host waits for.

Assumptions: the named `ASSUME`s of the modules, all evaluated by TLC in the runs, and the
hypotheses named above.

Only model-checked: liveness under fairness (`HoldCompletes`, `SilenceIsNoticed`,
`PackIsCounted`, `NothingStaysBusy`, `FlashEnds`), which is out of this prover's reach. Every
invariant and every action property of the passing runs is a theorem, under the hypotheses named
above where there are any. What folds over a whole text or payload would compute needs
induction over data, which the installed provers cannot instantiate; the readers are therefore
machines that take a step per byte, character or chunk, and what they have computed so far is
their invariant.

## 5. What is not modelled, and why

* **LED, telemetry formatting, pages, charts, page labels**: presentation; no state the
  properties here depend on. The page's *connected* label after a late handler is listed as a
  hazard without a property.
* **JSON, terminal commands, INI files**: text parsing in front of operations that are modelled.
* **Partial writes of a telemetry line** (`writeLine`, main.cpp:49-67): what the host sees of a
  line cut short is LineBuffer's business, and it resynchronises at the next newline.
* **The simulated board** mirrors the firmware modelled here. **The service worker, browser
  detection and the bundling script** keep no state of the running system.
* **The schema cache and the enum's option names**: layouts in FlashStore are what the
  fingerprint hashes.
* **A save's stall of the loop** is a pass longer than any model of the loop takes.

What would come next: a pass of arbitrary length in Vehicle, for the save's stall.
