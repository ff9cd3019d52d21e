# bustaferl: a TLA+ model of the wake, fetch, render and sleep cycle

bustaferl is the firmware of a battery-friendly departure board: an ESP32 with a
400x300 e-paper panel that fetches departures over WiFi, draws them, plans how
long it can sleep and sleeps.  Nothing runs between two cycles except the RTC;
what the device knows of the past is what it put into RTC memory and what is
still on the glass.  Almost every bug in its changelog is a disagreement between
those two, or between them and the clock.  This directory models that core and
the components around it - connection, realtime fetch, timetable hints, parsers,
button, RTC memory, layout - checks them with TLC and proves with TLAPS, for every
value of the constants, all that is safety.

Source paths below are relative to the repository root (`src/...` is its source
tree).

## 1. Inventory

| Component | State it keeps | Operations | Interacts with | What must hold |
|---|---|---|---|---|
| Cycle runner (`src/logic/cycle_runner.cpp`, `src/main.cpp`) | the working copy of `PersistedMeta`, the frames `curr`/`prev`, the locals of a cycle | cold cycle, warm cycle, push, rescue fetch, nightly clean, offline and wrong-password exits, B/W reset, diagnostic session, sleep | everything below, by direct calls from one thread | a cycle ends; sleeps are bounded and end before the bus; the panel is drawn when and how it should be |
| Pure policies (`sleep_planner`, `refresh_planner`, `rescue_policy`, `render_input`) | none | `planSleep`, `planRefresh`, `nextRescueStep`, `selectDisplayState`, `selectCycle` | called by the runner | hard caps, boundaries of windows |
| Persistent store (`hal/Esp32PersistentStore.cpp`) | meta, framebuffer, schedule and trace slots in RTC memory | load and save of each; a frame that does not fit is refused | written in the middle and at the end of a cycle | the slots describe the glass |
| Display (`hal/Esp32Display.cpp`, `display_apply.cpp`) | the glass and the controller's RAM | deep clean, light full, partial window | survives every reset, its RAM does not | partials are bounded, and made on trusted RAM |
| Clock (`hal/Esp32Clock.cpp`) | system time; SNTP daemon | `now`, `ntpSync`, `isSynced` | SNTP writes it in the background | no plan rests on a reading without a date |
| Sleep (`hal/Esp32Sleep.cpp`) | wake cause, reset reason | `deepSleep`, `pause` | timer, boot button (EXT0), resets | |
| WiFi (`hal/Esp32Network.cpp`, `boot_sequencer.cpp`) | auth-failure latch, scan | `connect`, `httpGet` | latch written by the event task | failures of an earlier attempt do not count for this one |
| Snapshot fetch (`snapshot_fetcher`, `api_fetcher`) | OGD auth streak, last success | retries, batches | writes fields of meta | one lost batch is not a lost fetch |
| Schedule (`schedule_fetcher`, `schedule_refresh`) | hints, fetch time | refresh when due | after the fetch, before the push | a partial result keeps older hints |
| Slot merger | none | merge of realtime and hints | before a plan and before a push | ascending, no duplicate minute, realtime wins |
| Button classifier | none | short, double, long | button line and clock | |
| Diagnostic mode | page | pages until long press or timeout | over the panel, past the store | it ends, and the board returns |
| Cycle trace | two rings in RTC memory | push, read newest | runner | last records, in order |
| API parsers (`oebb_hafas_parse`, `wienerlinien_parse`, `efa_parse`) | none | one reply to slots or hints | called on a body, or on a stream while it arrives | the next departures, of the right line, at the right instant |
| Frame codec (`render/rle.cpp`), HTTP decoding (`Esp32Network.cpp`) | none; the reader's position | encode, decode; wait for a byte | store; parsers | what was put in comes out, or nothing |
| Rendering (`render/layout.cpp` and the files beside it) | none | draw a board, a notice, the no-network plan, the stamp | the slots, the scan | legible whatever the slots hold |
| Filters and labels, logging | | tables, text | | see `PROJECT.json` |

The hard behaviours are: resets and power loss at any point (only the slots
survive); exits of a cycle that save less than others; a clock that is lost,
ahead, or corrected while a cycle is using it; presses that wake the device early
or cut a pause short; answers that arrive late, in part, or not at all.
`PROJECT.json` lists each hazard at its line with the properties that watch it.

## 2. Modules

| Module | Models |
|---|---|
| `Policies` | The pure decisions, as operators; the constants `Config` (the tunables of `config.h` and `CycleConfig`) and `World` (what network, clock, user and power supply may do) with their assumptions |
| `CycleRunner` | The state machine: runner, slots, glass, clock, sleep, resets |
| `CycleProperties`, `NoNetCadence` | Type invariant and properties of `CycleRunner`; `CycleRunner` with a history variable that counts no-network cycles since the last repaint |
| `WifiConnect`, `SnapshotFetch` | `connect()` against the event task; the fetch with its batches, retries, auth streak and flag, on that connection |
| `FetchPromise` | Abstract specification of a fetch in one step; `SnapshotFetch` implements it, `CycleRunner`'s `Fetch` assumes no more |
| `SlotMerger`, `ScheduleHints` | The merge of a row; the timetable hints over days, from the EFA calls to the merged row |
| `ButtonPress` | Finger, classifier, its three callers, the diagnostic pager |
| `CycleTrace`, `TraceLog` | The two rings in RTC memory; the log they promise, which they implement |
| `Rle`, `RtcMemory` | The frame codec; the framebuffer slot it writes in place, composed with `CycleTrace` |
| `ChunkedStream` | A body read off the socket while it arrives |
| `BoardReplies`, `BoardLayout`, `Board` | The realtime parsers; the boxes the renderer draws; both composed with `SlotMerger` from a reply to the panel |
| `MC*` | Model values of the runs |
| `*_proofs` | Proofs, section 4: one module for each of `CycleRunner` (with its properties and `NoNetCadence`), `RtcMemory` (with `CycleTrace`), `ButtonPress`, `SnapshotFetch`, `SlotMerger`, `ScheduleHints`, `ChunkedStream`, `Board`; those of `ScheduleHints` and `Board` rest on those of `SlotMerger` |

```
Policies <- CycleRunner <- CycleProperties <- MCCycle
                        <- NoNetCadence    <- MCCadence
WifiConnect <- SnapshotFetch  (implements FetchPromise)
SlotMerger <- ScheduleHints <- MCSchedule
           <- BoardReplies, BoardLayout <- Board <- MCBoard
Rle, CycleTrace <- RtcMemory <- MCRtc   (CycleTrace implements TraceLog)
ButtonPress      ChunkedStream <- MCChunked
```

### How the state of CycleRunner corresponds to the code

| Variable | Code |
|---|---|
| `meta`, `rtc` | the `PersistedMeta &meta` a cycle works on, and `g_meta` in RTC memory |
| `store`, `sched` | `g_rle` decoded; whether `g_sched` holds hints |
| `curr` | `g_frame_new`, from a render to the save of its frame |
| `glass`, `panelRam` | the image on the panel; whether the controller's RAM holds it (lost when the panel is re-initialised after a reset or wake-up) |
| `now`, `clk` | real time, and what the system clock is worth: `Good`, `Unsynced` (reads almost zero), `Ahead` (by `World.skew`), `Correcting` (ahead, SNTP daemon started) |
| `pc`, `deepWake`, `wake`, `trigger`, `ctx` | the point of the thread; `CycleDeps::deep_wake`; wake cause, reset reason and button level; `CycleTrigger`; what a push belongs to |
| `fc`, `plan`, `planNow`, `rescue` | `FetchCycleResult`, `SleepDecision`, the local `now`, the locals of `runRescueFetch` |
| `wakeAt` | when the present sleep or pause ends |
| `ghosts`, `residue`, `resets` | history variables: partials since a full refresh; the glass was left showing something RTC memory does not know; resets so far |

A frame is a record of the screen it shows and the minute of its "upd HH:MM"
stamp; two boards with different departures are different screens.  Meta fields
no decision of the cycle reads (`last_reset_reason`, `last_api_success`, the
filter and auth streaks) are left out, as are the trace and the log.

Each action is one stretch of code between two points at which something else can
happen: time passing (connect, NTP, fetch, pauses), a reset, SNTP.  Writing the
glass and writing RTC memory are separate actions (`Push`/`PushSave`,
`Nightly`/`NightlySave`, `ColdFinish`/`ColdSave`, `AuthScreen`/`AuthSleep`,
`ColdNoNet`/`ColdNoNetSleep`, `BwReset`/`BwSave`), since a brownout on the refresh
current is the reset the code's comments report.

| Code | Actions |
|---|---|
| `setup`, `showBrownoutScreen`, `selectCycle`; `loop` | `Setup`; `Loop` |
| `runButtonWake`, `pollButtonAndRunWarm` | `Press`, then `BwReset`, `BwSave`, `Diag`, `DiagExit` or `Warm` |
| `runColdCycle`, `runColdBoot`, `handleColdBootOutcome`, `finishColdCycle` | `Cold`, `ColdConnect`, `ColdNoNet`, `ColdNoNetSleep`, `AuthScreen`, `AuthSleep`, `ColdFetch`, `ColdBootCheck`, `ColdFinish`, `ColdSave` |
| `runWarmCycle`, `handleWarmWifiDown`, `ensureClockSynced` | `Warm`, `WifiDown`, `OfflineSleep`, `ClockOk`, `ClockLost`, `Fetch`, `Schedule` |
| `finishWarmCycle`, `doNightlyClean`, `renderAndPush` | `Decide`, `Nightly`, `NightlySave`, `Push`, `PushSave` |
| `runRescueFetch` | `RescueStart`, `RescueTurn`, `RescueStop`, `RescueWait`, `RescueRetry` |
| `doSleepOrLoop` | `SleepOrLoop` |
| environment | `WakeByTimer`, `WakeByButton`, `PauseEnds`, `Reset`, `PowerLoss`, `SntpSetsClock` |

`HorizonReached` is a stutter at the time bound of a run; it lets every run check
for deadlock.

### How the other modules correspond to the code

`WifiConnect`. `latch` is `g_wifi_auth_failed`, `failure` is `last_failure_`,
`posted` the events the driver has posted and the event task not yet delivered.
`Connect` is the head of `connect()`; `Joined` and `GaveUp` are its two ends, the
latter with the verdict; `Disconnected` posts an event, and `OnWifiEvent` handles
it at any later moment.  `EventsDrained` is the one thing the
code relies on without enforcing it: an attempt begins after the events of the
attempt before have been delivered.

`SnapshotFetch`. One action per server answer: `Ogd` and `Oebb` either ask again
(`AskAgain`, `runRetryLoop`) or conclude a call (`OgdFails`, `OgdAnswers`,
`OebbFails`, `OebbAnswers`) and go on to the next.  `auth`, `streak`, `failed`,
`total`, `out` are `auth_error_seen`, `ogd_auth_streak`, the summary's counters and
the streams of the snapshot; `before` and `log` are histories.  `Outcome` reads
the counters as `doFetchCycle` does, and maps the fetch to `FetchPromise`.

`ScheduleHints`. `hint`, `fetchedAt` are the fields of `ScheduleSnapshot`; `took`
remembers when each stream's hint was taken.  `Refresh` is `needScheduleRefresh`,
`fetchSchedule` with any subset of its calls failing, and
`applyScheduleFetchResult`; `Tick` is time.  `EfaAnswer` stands for the server:
the next `Limit` departures of a stop from the asked time on, foreign lines among
them.  `ConsumeEfaDoc` is the parser's loop over one answer.

`ButtonPress`. `pc` is the place in `classifyHeld`, `classifyPress` or a caller;
`ms` is `millis()`, modulo `Modulus`; `Finger` moves the line between any two
steps; a sleep may take up to `Lag` longer than asked.  `elapsed` and `claimed`
are histories: the time really passed since `t0`, and what the present hold has
been taken for.

`CycleTrace`, `Rle`, `RtcMemory`. `slot`/`magic` and `g_rle`/`g_rle_len`/`g_magic`/
`g_valid` are the RTC variables of `Esp32PersistentStore.cpp`; `Frames` are the
bitmaps there are to save.  `saveFramebuffer` is split where a reset can strike:
`SaveFramebuffer` begins it, `EncodePair` is one turn of the encoder's loop, which
writes over what the slot held, `SetLength` and `SetFlag` are what follows it, and
`SlotReset` may cut it between any two of these or within a pair (`HalfPair`).
`SaveMeta` writes the valid flag of a caller's copy, whatever it says; `TracePush`
and `TraceSave` split `traceCycle`.  `Written`, `EncodedLen`, `DecodeDelta` are the
codec.  `saved`, `touched` and `torn` are histories: the bitmap the recorded length
belongs to, how many of its pairs have been overwritten since, and the bitmap whose
save over it a reset cut.

`ChunkedStream`. `Arrive` and `Close` are the network, the other actions one
`waitForByte` each: a byte, or nothing because of the timeout or a closed
connection.  The waits whose result the code ignores (`Skip`) do so here.

`BoardReplies`, `BoardLayout`, `Board`. `TakeJourney` and its repetition are the
HAFAS parser's loop, `TakeDeparture`, `TakeMonitor` and `ParseMonitorResponse` the OGD parser's; ISO 8601 instants are
computed as in the code (`CivilToDays`), and compared with a calendar counted from
the definition of a leap year (`DayNumber`).  A drawing is a set of boxes.  A text
the build fixes has the width of the font compiled in; a line that names networks
(`Naming`) is as wide as what it says around the names and the names together, and is
centred whatever its width, as `drawCentered` does.  The actions of `Board` build a
reply entry by entry, then fetch, then show it after some seconds; or draw the
KEIN-EMPFANG screen with the networks configured and found (`ShowOffline`, with
`FindCaseMismatch` for a name found in another spelling), the wrong-password screen
(`ShowWifiAuth`) or one of the others (`ShowNotice`).  `BoardReplies` writes the loops
of the parsers as functions of how many entries have been read.

### What is assumed of the environment

- RTC memory survives deep sleep and every reset but a power-on, as the comments
  of `selectCycle` say of brownout, watchdog and panic.
- A clock that is set is never behind real time.  It can be lost or come back
  ahead across a sleep or a reset.
- A partial refresh on trusted RAM changes exactly the window; on untrusted RAM
  the rest of the panel is garbage (`Garbled`), as `refresh_planner.cpp` says.
- The earliest slot a merge leaves is not before the reading it was made at.
- `lastSync()` after a boot is the reading at the sync.
- The event task has delivered the events of an attempt before the next attempt
  begins (`EventsDrained`).
- A struct assignment of a trace to its slot is not torn by a reset; the
  framebuffer, written by the encoder count by count and value by value, is.
- The days of `ScheduleHints` have equal length: no change of daylight saving.
- Size lines of a chunk do not overflow `strtol`.

## 3. Runs

Times are scaled: what matters to a decision is the order of the intervals and
whether a step is shorter or longer than a window, so small numbers in the order
of `config.h` reach every branch.  `epoch` stands for `MIN_PLAUSIBLE_EPOCH` and
is the time a run starts.  A sleep begun before `horizon` runs its full length,
so what is checked at the horizon is complete cycles.

| Run | Question | Result |
|---|---|---|
| `panel` | With failing saves and fetches, every WiFi outcome, cold retries, button wakes, B/W resets, two brownouts or power losses at any step: is a frame stored as valid the one on the glass (`GlassFaithful`)?  Do partials on the glass stay below the hard cap (`GhostsBounded`) although offline exits and resets drop the saved counter?  Does a boot picture come back to a device that has had a board (`BootScreenOnlyWithoutBoard`)?  Types (`TypeOK`). | holds |
| `sleep` | With readings made stale by fetches, schedule refreshes and rescues, and a clock lost, ahead or corrected between any two steps: is every sleep bounded (`NoAbsurdSleep`), short without data (`NoLongSleepWithoutData`), over before the departure it was planned from (`WakesBeforeBus`), and deep-cleaned before when long (`NightlyCleanUnlessRescued`)? | holds |
| `rescue` | Does the extra push keep its distance when presses cut the pauses (`RescueNotBackToBack`), and does every cycle end even if no time passes in its waits (`CycleEnds`)? | holds |
| `cadence` | With a counter of width 8 and a cadence of 3, neither dividing the other as in 256 and 5: is the no-network screen never older than the cadence, across the wrap, auth errors, resets, power loss and button wakes (`ScreenNeverOverdue`)? | holds |
| `fetch` | Does the wrong-password screen have a refusal behind it (`WrongPasswordProven`)?  Is the auth flag up exactly when the servers' final answers since the last good HAFAS answer say so (`FlagSaysWhatServersSaid`)?  Does a fetch implement the step the cycle assumes (`KeepsPromise`)? | holds |
| `schedule` | Does a row show the next departures of realtime and hints, none lost or twice, for all realtime arrivals in any order (`RowIsNextDepartures`)?  Do the hints bridge the night, whatever calls failed (`BridgesTheNight`)? | holds |
| `button` | Do verdicts fall on time across the wrap (`VerdictsOnTime`), does a hold reset once (`OneResetPerHold`), does a diagnostic session end (`SessionEnds`)? | holds |
| `rtc` | Until a reset cuts the encoder over a stored frame: does a load give the frame stored last or nothing, whatever saves fail and whatever flags the callers set (`LoadsWhatWasSaved`)?  Are the two rings the log of the last cycles and errors, through wrap, saturation, resets and power loss with frame writes between (`TraceIsLog`)? | holds |
| `torn` | And once a reset has cut it: is a load of full length still a frame somebody meant to store (`NeverLoadsAMix`)? | violated, section 5 |
| `stream` | Does the parser see a prefix of the body, all of it if nothing was missed (`OnlyTheBody`), and is it never left waiting (`ReadEnds`)? | holds |
| `board` | Are the rows the right trains (`SBahnRowIsNextTrains`) and buses (`BusRowIsOfItsLine`), does nothing drawn lie on anything else or, but for lines with long names, beyond the panel (`NothingOverlaps`), do gauges look alike only if they say the same (`GaugesTellApart`)? | holds |
| `morning` | The board has loaded its hints one evening: does it know in every evening from then on when the first bus of the morning leaves (`MorningBusKnown`)? | violated, section 5 |

Bounds. `panel`: a hard cap of 1 makes the third board in a row the interesting
one; two boards are enough to change and to change back; two resets or power
losses, each at any step (a reset erases all locals and leaves only the slots
and the glass behind), as in `cadence`; two cold retries as maximum, so the counter is
0, below and at its maximum. `sleep`:
the lead before the bus (4) is longer than the work after the plan's reading
(fetch of the refresh, push, and a rescue that fails inside its window), as 180
s + boot margin are against 40 s in `config.h`; one departure inside the active
threshold, one beyond the nightly threshold, and none. `cadence`: nine outage
cycles and more, once around the counter.
`fetch`: three fetches of two batches are six OGD answers, twice the tripwire of
3; two attempts tell the first from the last.  `schedule`: days of eight minutes
of two seconds, so that two departures share a minute; a line past midnight; a
limit of 7 that cuts some answers short; three mornings and two nights.
`button`: a counter that wraps after two holds, a poll of 1 against windows of 4
and 3, one SNTP step per session.  `rtc`: two rows of two bytes, runs that cross rows
and are cut at the longest count 3; of the four frames three fill the slot of two pairs
and one does not fit; rings of 3 and 1, and instants with and without a date.  `torn`:
three rows, whose frames can be mixed to one of full length.  `stream`: up to two chunks of up to two bytes, of which one is a digit
and one a carriage return, in four framings; and a chunk of 17 bytes, whose size takes
two digits, on a size line longer than its buffer.  No size takes all the room there
is for it, as none of eleven digits would: with a full buffer the line feed of a
missed line end would push the last digit out (`MessagesAssumption`).
`board`: five entries of a reply fill every slot of one row and reach past
it, or give several rows one; trains that have left, are late, cancelled, doubled, in
four minutes for the three columns, and one that leaves between fetch and merge;
deviations beyond both ends of the scale; names of networks of 6 and of 31 characters, each in two
spellings, two configured at most and none, two or four found, one more than there are
lines for.

`CHECK_DEADLOCK FALSE` stands where a behaviour is meant to end: `schedule` and
`morning` at the last day, `stream` at the end of the body, `board` at the picture.

Fairness.  `CycleEnds`: `WF_vars(Device)`, the single thread runs until it
sleeps.  Nothing is assumed of the network, the button, SNTP or time: the rescue
loop must end by its own counters even if its pauses take no time.
`SessionEnds`: the device runs (`WF_vars(Device)`), and a finger does not lie on
the button for ever at the end of every page's refresh and at every poll after it
(`SF` of `DiagShow /\ ~down` and of `DiagUntouched`); someone who taps through the
pages for ever without such a pause keeps the session open, and the code means
it.  `ReadEnds`: `WF_vars(Reader)`, a wait gives a byte or its timeout passes;
nothing is assumed of the server.

## 4. Proofs

For all tunables and every world allowed by `ConfigAssumption` and
`WorldAssumption`, with no bound on time:

- `TypeCorrect`: `Spec => []TypeOK`, with the ranges of the two counters.  The one
  step that is not immediate is `Push`: `planRefresh` answers "Partial" only below
  the cap (`PlanForValues`), so `Applied` cannot pass it.
- `SleepsAreBounded`: `Spec => NoAbsurdSleep`, and `RetriesStayShort`:
  `Spec => NoLongSleepWithoutData`.  Neither property is inductive: the sleep
  happens up to seven steps after the reading it was planned from, with a push and
  a rescue in between.  `SleepInv` follows the plan: from the clock check to the
  sleep the clock has a date (`ClockKnown`); the departure of the fetch is within
  the farthest offset of the present and of the reading used (`TRefNear`,
  `PlanNowNear`); hence the plan is bounded (`PlanBounded`); and without data the
  plan is the short retry and stays it until a rescue brings data
  (`PlanForFailure`).  `WaysToSleep` then lists the exits with their durations.
- `GhostsStayBounded`: `Spec => []GhostsBounded`, on two conditions: a reset is
  answered by the overlay (`OverlayShown`, 4 s in `config.h`), and the no-network
  screen looks like no board (`ScreensDiffer`).  `partial_count` alone does not
  bound the partials on the glass: the offline exit sleeps without saving it, and a
  reset drops it.  `GhostInv` says what holds instead (`Recorded`): the counter
  covers the glass, or the stored frame is unusable, so that the next refresh is
  full, or the stored frame is the offline screen.  In the last case no board
  compares equal to it and the first refresh after the deep sleep is full again;
  another offline screen is no refresh, and sleeps.  Inside an active stretch, where
  partials are planned, the counter always covers the glass (`Counted`), since only
  a cycle with data stays awake (`ActiveWithData`).
- `GlassStaysFaithful`: `Spec => []GlassFaithful`.  The property speaks of the device
  at rest; paint and save are two steps, and the flag exists in the cycle's copy and
  in RTC memory.  `GlassInv` says, for each copy, that a frame it calls valid is on
  the glass, and that between a paint and its save the frame in hand is
  (`PaintedAndHeld`).
- `BootPictureNeedsNoBoard`: `Spec => BootScreenOnlyWithoutBoard`, if a reset is
  answered by the overlay (`OverlayShown`) and the boot picture is none of the boards
  and no-network screens (`BootIsNoBoard`).  A windowed refresh repaints only what
  differs from the stored frame, so it would leave a boot picture that the stored
  frame does not record: `BootInv` says that a valid frame records it, and that the
  state on show and the route to the cold cycle speak of a device without data.
- `LongSleepsAreClean`: `Spec => []NightlyCleanUnlessRescued`, if the clean has an
  interval at all (`NightlyIntervalSet`).  The decision and the sleep are up to six
  steps apart: `NightlyInv` keeps, until the sleep, that the plan is short, or the
  clean was decided against, or it has just been done; and that time has passed
  forwards since (`StepDated`).
- `RescueKeepsDistance`: `Spec => RescueNotBackToBack`, if the clock is right or
  without a date (`NeverAhead`): a clock ahead opens the window early.  `RescueInv`
  carries the time of the attempt over to the push it leads to.
- `AwakeBeforeDeparture`: `Spec => WakesBeforeBus`, if some `d` bounds every wait on
  the network and the lead covers what a cycle may lose between its plan and its
  sleep: `LeadCovers(d)`, two such waits, the rescue window and a pause within
  `wake_before_bus` plus the boot margin.  With the 930 s, 40 s and 5 s of `config.h`
  a wait may take seven minutes; run `sleep` meets it with `d` = 1.  `LeadInv` keeps,
  from the reading to the sleep, how much of the lead is used up, also across an
  SNTP correction in between.
- `NeverOverdue`: `CadenceSpec => []ScreenNeverOverdue`, for every repaint interval
  and every modulus of the counter.  `CadenceInv`: where the counter's
  remainder is not zero it covers the cycles since the last paint; `NextRemainder` is
  the arithmetic, and a wrap only shortens an interval, since the remainder then
  starts again from zero.

For all capacities, windows and numbers of attempts, in the modules beside the
cycle:

- `LoadsTheBitmap`: `Spec => []LoadsWhatWasSaved`, for every bitmap size, capacity,
  longest run and set of frames.  `PairsOfBitmap` says that the decoder's two loops undo
  the encoder's two.  `SlotInv` says what stands in the slot at any moment
  (`SlotInvariant`): the length is that of the bitmap stored last, or 0; the pairs of a
  frame being saved stand at the front; and behind every pair overwritten since stand
  those of the bitmap stored last.  That holds after a reset inside the encoder, too:
  the slot is then not marked unusable, but a mix of two bitmaps under the old length,
  and it is the only way to such a mix.  `LoadsTheBitmap` needs the part of it in which
  no pair of the stored bitmap is overwritten and no save is under way.
- `TraceRefinesLog`: `TraceSpec => TraceIsLog`, and `RtcTraceIsLog`: `Spec => TraceIsLog`
  for the composed memory.  `TraceInvariant` says that head and
  count of both rings stay in range; `PushEnters` that reading a ring newest first
  after a push is the log with the record entered, by cases on whether the ring is
  full; every other step stutters or empties the log.
- `VerdictsAreOnTime` and `OneResetForAHold`.  The first rests on `MeasuresTime`:
  while `elapsed` is below the counter's period, the difference of two readings
  modulo the period is the time that passed, wherever the wrap falls.  The second
  on an invariant that ties what the hold has been taken for to the places the
  device can be in.
- `WrongPasswordIsProven`, and `FetchKeepsPromise`: `Spec => KeepsPromise`.  The
  invariant counts: with `total` calls concluded, `failed` of them without data,
  the streams of a batch carry this fetch's number iff the batch was parsed; hence
  no failure means all buses and all failures mean none.  Retries stutter.

- `FlagIsEarned`: `Spec => []FlagSaysWhatServersSaid`.  `FlagInv` ties the flag and the
  streak to the history of final answers, batch by batch.
- `MergeIsNext`, about the merge alone, and with it `RowShowsNext`:
  `Spec => []RowIsNextDepartures`.  The code walks over the departures once and keeps
  a sorted list of bounded length; the property speaks of ranks in a set.  Between
  the two stands `Shows`: the row is in order, holds only departures that count, and
  one it does not hold is later than all of a full row.  `InsertNew` keeps it;
  `InsertKnown` is the case that is easy to get wrong: a departure of a known minute
  leaves the row alone even when that minute has been pushed out of the row.
- `HintsBridgeTheNight`: `Spec => []BridgesTheNight`, for every timetable, cutoff, query
  time and limit.  `HintInv`: a hint is empty or what the refresh that replaced it
  last made of its answer.  `AnswerFacts`: what an answer leaves out is later than
  what it has; `ConsumeHolds`: `consumeEfaDoc` keeps the last two departures before the
  cutoff and the first two after it.  The premise that the answer reached two
  departures past the cutoff is needed: a cut answer says nothing of the morning.
  So is `MinutesApart`, that a line does not depart twice in a minute.

- `StreamIsClean`: `Spec => []OnlyTheBody`, for every message, chunk size, padding and
  chunk extension.  `FlattenLayout` says where each frame begins on the wire and each
  chunk in the body; `StreamInv` locates the reader in both.  The cases that make it
  an argument are those after a wait for a line end that came back empty and whose
  outcome `read` drops: the reader starts a size line one or two bytes early.  One
  byte early, the line feed lands in the buffer and `strtol` skips it (`SizeRead`); two
  bytes early, the carriage return ends an empty line, its size is 0 and the read
  is over.  Either way no byte of the framing reaches the parser.

For every reply, instant, offset and font, in `Board_proofs`:

- `BoardHolds`: `Spec => []BoardInv`.  The four properties of the board speak of the
  reply and of the picture; between them lie a parser, a merge and seconds of time.
  `BoardInv` closes the gap: what is listed is well formed, the slots are empty or
  what the parsers make of exactly that list, and a board on show is the merge of
  those slots at its time.  The properties follow from it by what the operators do.
- `SBahnRowHolds`: `Spec => []SBahnRowIsNextTrains`.  `Collected` says what the loop of
  `consumeOebbDoc` has after n journeys: trains of n journeys, a minute each, none
  before the fetch, and all the minutes there are unless the slots are full.
  `TrainsShown` carries that through the merge: if no train leaves in between, none
  of the slots is dropped.
- `BusRowHolds`: `Spec => []BusRowIsOfItsLine`.  Three arguments meet.  `CivilIsCalendar`:
  `civil_to_days`, which consults no table of months or leap years, gives for every
  date from 1970 on the number of days the definition of a leap year counts; so what is
  written is read back as meant, in any zone and on either side of midnight
  (`WrittenIsRead`).  `LineCollected`: `LineSlots` has the first `MaxSlots` departures that
  carry a time.  `StreamCollected`: nothing in a stream is of another line, and if one
  line alone serves it, it is all of that line's.
- `GaugesHold`: `Spec => []GaugesTellApart`.  `NearestMark`: rounding half away from
  zero is the nearest mark of the scale.  `GaugeByPlace` brings every deviation down to
  eleven places, and `PlacesLookDifferent` tells any two of these and the hollow square
  apart by a pixel of `Probes`.
- `NothingOverlapsHolds`: `Spec => []NothingOverlaps`, for names of networks of any width.
  A drawing is `Neat` if it keeps to
  a rectangle and its parts to themselves; neighbours are neat together (`Beside`,
  `Below`).  So each row is split into columns and the panel into bands; markers and
  gauges are eleven columns beside their time (`MarkerNeat`).  A line with names has no
  rectangle to keep to: it keeps to its band, and is on the panel or, wider than it, cut
  at both ends (`OnSheet`, `NamingSheet`); bands one below the other are legible together
  (`SheetBelow`).  The screens that stand alone are parts of one that holds everything
  any of them may (`AloneLegible`).

`WorldAssumption` of `Board` says what a reply can hold: a field has one time or
none, a year is 1970 or later, and `Dates` has the dates that are written.
`TextAssumption` is the room the columns and rows leave for the texts the build fixes;
the widths of the fonts compiled in, which run `board` uses, lie within it.  It is
where another font would have to be measured.  Of the name of a network it says only
that it has a width.

The recursions in these proofs (the merge, the parsers' loops, a fold over a set, the
codec, flattening) are functions on numbers.  `SetInduction`, from the least member of
a set of numbers, shows that they are well defined (`RecursionExists`, for those of the
merge and the parsers) and what they compute.

Model-checked only: `CycleEnds`, `SessionEnds` and `ReadEnds`, liveness under
fairness, which TLAPS cannot prove.

## 5. Where the code and its words differ

Two of the differences are runs, with their quotations in `PROJECT.json`:

- `morning`: the board has loaded its hints one evening.  The next refresh comes in
  the first cycle after midnight, because yesterday's last bus has left, and then not
  again that day (`schedule_refresh.cpp:25`); so in the next evening the hints end before
  the coming morning.  (`BridgesTheNight` says what the hints do keep: the night they
  were fetched in.)
- `torn`: the encoder writes over the stored frame in place (`Esp32PersistentStore.cpp:83`).
  A reset before the length is set leaves the old length and the valid flag over
  bytes of two frames.  Where the counts still add up to a whole frame, what is loaded
  is the top of the new picture with the bottom of the old one's deltas, and
  the callers, who test the length alone, diff against it; where they do not, the
  load gives another length or nothing, and the next refresh is a full one.

The rest was met while modelling.  It follows from the modules and is described
here only.

The cycle:

- The offline exit pushes a stamped screen and sleeps without `saveMeta`, so the
  stamp's time is lost; the next push differs in the stamp alone and refreshes the
  panel.  `cycle_runner.cpp:120-122`: "the stamp alone never causes a panel update".
- A press with the WiFi down and data younger than the offline threshold draws
  nothing (`cycle_runner.cpp:850`).  `cycle_runner.h:166-167`: "so a boot-button
  press always gives visible feedback".
- `ntpSync` polls `isSynced`, a lower bound an ahead clock already meets
  (`Esp32Clock.cpp:28`), so the guard against an ahead clock goes on with it.
  `cycle_runner.cpp:719`: "only proceed on the corrected clock".
- The board rendered after a diagnostic session can equal the stored frame, and
  then the diagnostic page stays.  `cycle_runner.cpp:978`: "After a diagnostic
  session this also re-renders the board".  The brownout overlay is the same.
- A setup cycle with nothing to push, followed by the active loop, lets the first
  refresh after a wake-up be a partial (`refresh_planner.cpp:58`).
  `cycle_runner.h:113-115`: "the first refresh must be a full, not a partial".
- The offline exit also leaves `expected_wake_at` behind; a chain of offline sleeps
  longer than `max_wake_overshoot_s` makes a correct clock look ahead.
- A button wake inside the cold-retry loop can fetch a board with
  `cold_boot_retries` still set; the next timer wake is routed to the cold cycle
  although the device has a board.
- The sleep is planned from the merge made before the schedule refresh of the
  same cycle; the screen may show an earlier departure than the one planned for.
- A rescue's re-plan may be long and is not promoted to a nightly clean; hence
  the exception in `NightlyCleanUnlessRescued`.
- The rescue window is checked before the fetch, so its push may come after it.
- With `BROWNOUT_SHOW_S` 0 a reset after a partial loses the count and no overlay
  clears the panel: `GhostsBounded` then fails (hence `OverlayShown` in section 4).
- 256 is no multiple of 5: the "KEIN EMPFANG" repaint cadence has one short
  interval at the wrap of `no_wifi_cycles`.

The button:

- The second press of a double click is taken at its long verdict, while still
  held; so is a long press that leaves the diagnostic session.  The same hold is
  then taken again by the next pause's poll: a panel reset, or another double
  click.  `button_classifier.cpp:41-42` says the release is consumed "so the caller
  resumes on a released line".

The fetch:

- A HAFAS 401 arrives as a result that is not ok and is asked again;
  `api_fetcher.cpp:42` and its header except 4xx from retries.  A 2xx HAFAS body
  the parser refuses is asked again too.
- `fetchWithRetry` promises `{true, last_status}` after the last 5xx; `ok` is false.
- HAFAS with `err` FAIL counts as an answered call: the fetch is complete, without
  trains, and no rescue follows.
- A good HAFAS answer clears the auth flag although the OGD streak stands at its
  tripwire, against `IPersistentStore.h:38-39`; and while HAFAS is down nothing
  clears a flag OGD raised.
- `last_success_at` is documented as the last fully successful fetch; a partial
  one moves it.
- Two access points, the first refusing the key and the second absent, end in the
  wrong-password screen.

The timetable:

- `next_today` holds the last two departures before the cutoff, not the next two.
- `schedule_fetcher.h` says its retries mirror `api_fetcher`; there are none.
- After a cold boot in the morning the answer may be cut at its limit before the
  last departure of the day.

The parsers and the layout:

- HAFAS journeys are taken in list order, the first three; a delayed train listed
  first displaces an earlier one (`SBahnRowIsNextTrains` therefore speaks of a list
  in order of departure).
- A second line of the same name and direction in one OGD monitor is lost; a
  second monitor of the same rbl is written over the first's slots from the front.
- The OGD parser keeps departures that have left, so a row can be shorter than
  what the reply holds (`BusRowIsOfItsLine` speaks of the first three).
- `filter_builder.cpp:11-13` says the parser keys off `rbl != 0`;
  `findFilterForRbl` does not.
- The gauge's footprint comment ends at `cx + 3`; the extended ticks reach `cx + 4`.
  Its hollow square stands for "plan only", and for a live departure without plan.
- Lines that name networks are drawn whole and centred (`display_state.cpp:108`, `:211`).
  Their buffers are sized for names of full length (`display_state.cpp:104`, `:202-203`),
  the panel is not: with two long spellings of one name, which is what the first line
  is for, or with one long name in the second, the line is wider than the panel and
  loses both its ends, the names among them.  Hence `Overlong` in `NothingOverlaps`.

## 6. Plan

1. (done) `Policies`, `CycleRunner`, properties, cadence; the theorems on types,
   sleeps, the glass, the boot picture, partial refreshes, the nightly clean, the
   rescue and the cadence.
2. (done) `CycleTrace` with its refinement; `RtcMemory`, the frame codec.
3. (done) `SnapshotFetch` and `WifiConnect`, refining what the cycle assumes.
4. (done) `ButtonPress`; `SlotMerger` and `ScheduleHints`; `ChunkedStream`; `Board`.
5. (open) `DeviceLife`, an abstract specification (dark, showing, sleeping; one board at a
   time) that `CycleRunner` implements; what it would promise is now stated property by
   property in `CycleProperties`.
6. (done) The theorems on the bus, the slots of RTC memory, the auth flag, the merge,
   the hints, the stream, and the four of the board.

## 7. Not modelled

Glyphs, dithering and boot-stage pictures; the diagnostic pages' text; JSON, TLS,
URLs and request bodies; in which order a scan finds networks, and how strong they
are: data no decision of the cycle depends on.  Line labels are taken to fit their badges.  `diffBbox`, whose window
only bounds the partial refresh.  The magic numbers of the RTC slots across a
firmware update in the field.  Daylight saving.  `filter_health`, which feeds the
diagnostic pages.  `stale_policy.cpp`, which the firmware no longer
calls.  Tests, the native runtime and the scripts.
