# Formal models of the Witch(hunt) Reader firmware

Witch(hunt) Reader is an e-ink reader firmware in C++ for the ESP32-C3 and ESP32-S3. This
directory holds TLA+ modules of its core logic, TLC configurations that check them on small
instances, and proofs that TLAPS checks for every value of the constants. File names below are
relative to the repository.

| | Modelled in | Checked by | Proved in |
|---|---|---|---|
| Activity manager and render task | `ActivityManager`, against `ScreenStack` | `am_stack`, `am_waiting` | `ActivityManager_proofs` |
| Reading history on the card | `ReadingStats`, against `ReadingHistory` | `rs_updates`, `rs_damage` | `ReadingStats_proofs` |
| Background sync worker | `KOReaderSyncWorker` | `sync_worker`, one finding | `KOReaderSyncWorker_proofs` |
| Flash glyph store | `FlashGlyphStore` | `glyph_store` | `FlashGlyphStore_proofs`, `FlashGlyphStore_answers` |
| Reader's automatic sync | `EpubReaderAutoSync` | `auto_sync` | `EpubReaderAutoSync_proofs` |
| File replacement, bookmarks, publication of the library index | `FileReplace`, against `ReplacedFile` | `file_replace`, one finding | `FileReplace_proofs` |
| Serial file transfer | `SerialTransfer` | `serial_transfer`, one finding | `SerialTransfer_proofs` |

To check a module: `tlc -config <cfg> <module>`, where `PROJECT.json` pairs the two (the modules
named `MC…` hold the instances' sets); to check its proofs: `tlapm` on the modules of the last
column. `PROJECT.json` also names, for every definition, the lines it translates.

## 1. Inventory

### 1.1 The parts of the system

| Component | Source | State it keeps | Operations | Hard behaviour |
|---|---|---|---|---|
| Activity manager and render task | `src/activities/ActivityManager.*`, `Activity.*`, `RenderLock.h` | the screen on show, the buried ones, one pending transition, the rendering mutex, `renderPassActive`, `requestedUpdate`, the waiter, the input drain | push, pop, replace, `requestUpdate` (deferred, immediate, blocking), `loop()`, the render task's cycle, `goToSleep` | two tasks over one object graph; the reader drops the mutex in mid-pass; callbacks that navigate from inside a transition |
| Reading history | `src/ReadingStats.*`, `ReadingStatsSlotFile.*`, `ReadingStatsJson.*` | a file of two directory copies and cap + 1 slots, the older firmware's JSON file, `prepared` | record a session, mark finished, remove, rename, list, import | power cuts and failures between the writes of one update; one spare slot; lists that outlive the update they were read before |
| Background sync worker | `src/activities/reader/KOReaderSyncWorker.*`, `KOReaderAutoSync.*`, `main.cpp` (`enterDeepSleep`) | one job slot under a mutex, the task handle, the active sequence number, who started the radio | `post`, `isDone`, `consume`, `drain`, `waitFor`; the worker's cycle and its idle exit | a task that ends itself while it is being posted to; a radio shared with the screens and with deep sleep; callers that go away |
| Reader's automatic sync | `src/activities/reader/EpubReaderAutoSync.cpp`, `lib/KOReaderSync/` | `AutoSyncState`: last pushed page, the fetched position, pending flags; `LastPushCache` | pull on wake, interval push, push on sleep, apply or offer a fetched position | positions that change while a job is out; answers collected late |
| Flash glyph store | `lib/EpdFont/ttf/FlashGlyphStore.*` | a ring of segments, an index of write-once slots, a journal of rebuilds, all in a flash partition | `open`, `find`, `store`, reclaim, rebuild, wipe | NOR bits only clear; power goes between any two programmings; 12-bit epochs that wrap |
| File replacement, bookmarks | `lib/FsHelpers/FileReplace.cpp`, `src/BookmarkFile.h` | `<path>`, `.tmp`, `.old` | `replace`, recover, load, save | a cut between two renames |
| Library index | `lib/LibraryIndex/` | the published index, its staleness marks, temporary row files | build, publish, query | replacing the index when the card is full or the power goes |
| Serial file transfer | `lib/SerialTransfer/`, `src/SerialTransferDevice.cpp` | the open file, the bytes expected; on the host, the operation and its tries | put, get, rm, books and the like, chunks with ACKs, timeouts | a link that loses bytes; a late answer taken for the next one's; a confirmation of what was not written |
| Buttons and gestures | `src/ButtonEventManager.cpp`, `GestureEventManager.cpp` | one state per button, a ring of events | `update`, replay of edges, take and push back | double-click windows against replayed edges; the ring at its limit |
| Reader's gates | `src/activities/reader/*Gate.h`, `DisplayedPage.h`, `components/SeqPublish.h` | a few flags each | small decisions | two tasks (`SeqPublish`), staleness |
| EPUB reader | `src/activities/reader/EpubReaderActivity.*` | the page, the section, the build in progress | paging, chapter builds, rendering | long builds that must notice input |
| EPUB parsing and layout | `lib/Epub` | section caches | parse, lay out, index | data more than control |
| OTA update | `src/network/OtaUpdater.cpp`, `FirmwareFlasher.cpp`, `OtaBootSwitch.cpp` | the inactive image, two otadata slots | download, flash, switch | a cut while the boot selection is rewritten |
| Web and WebDAV servers, HTTP client | `src/network/` | requests in progress | handlers, downloads | partial uploads |
| Storage layer, HAL, power, clock | `lib/hal` | one recursive mutex around the card | file calls | taken as atomic here |
| Boot, main loop | `src/main.cpp` | boot mode, diagnostics ring | `setup`, `loop`, `enterDeepSleep` | in part in the models above |
| USB drive mode | `src/activities/network/UsbDriveActivity.cpp` | the raw card | enter, leave | owns the card exclusively |
| Settings and small stores, moving a book | `src/CrossPointSettings.cpp`, `CrossPointState.cpp`, `BookRelocation.cpp` | plain records | load, save, rename with sidecars | several renames in a row |
| Abort of a long build, fonts, dictionary, other screens, vendored code | `lib/CooperativeAbort`, `lib/EpdFont`, `src/util`, `src/activities`, `lib/uzlib` … | | | |

`PROJECT.json` lists all of them with their status, and the hazards of the parts modelled, each at
its line. Hazards of the parts that are not modelled:

| Where | What can go wrong |
|---|---|
| `ButtonEventManager.cpp:85` | a burst of edges after a long step overflows the event ring |
| `ButtonEventManager.cpp:177` | the double-click window against edges replayed late |
| `OtaBootSwitch.cpp:72` | a cut between the erase and the write of an otadata slot |
| `components/SeqPublish.h:38` | a reader of geometry while the next is published |

Three more belong to parts modelled, without a property that forbids them: a notification left
over from the last screen may draw the new one before its `onEnter()` (`ActivityManager.cpp:441`;
no document promises the order, and `StartPass` models it); an import whose old file could not be
renamed comes again if the new history is lost altogether (`ReadingStats.cpp:456`); and a meta write
reported as failed may be whole (section 4.4).

### 1.2 How they interact

- **One main loop.** Screens, stores, web handlers and the file system code run on the loop
  task. The render task and the sync worker are the only other tasks of the firmware's own that
  the models need. Hence the two concurrent models, and the sequential one with crashes.
- **Calls into the activity manager** come from activities (any callback) and from `main.cpp`'s
  button dispatch. They never act at once, except a launch on an empty screen: they leave a
  pending transition that `loop()` carries out with the rendering mutex held.
- **Shared state of the two tasks** is the activity on show. The rendering mutex protects it,
  except while the reader waits for the waveform with the mutex dropped; `renderPassActive` says
  that a pass is still in the activity.
- **The sync worker** shares its slot with the reader, and the radio with every network screen
  and with the way to deep sleep; the only things said between them are `drain()`,
  `wifiActivityOnStack()` and the WiFi driver's own state.
- **The reader and its worker** talk through that slot only: the reader posts a job, goes on
  turning pages, and collects the answer in a later tick. `KOReaderSyncWorker` has the slot, the
  task and the radio, with jobs that are only numbers; `EpubReaderAutoSync` has the positions and
  the server, with the slot alone for a worker.
- **The glyph store** is called by the font code on either task under the font's lock, one call at
  a time; what interrupts it is power.
- **`FileReplace::replace()`** serves bookmarks, uploads, downloads, WebDAV and the serial
  transfer; the library index and the web's replacement of a book have sequences of their own.
- **The serial transfer** is a screen of its own: its `loop()` polls the port, and while a file
  moves it waits for the host within one call.
- **The history** is updated by the reader when a session ends, and by whoever moves or deletes
  a book; lists read it in pages, with updates in between.

### 1.3 What makes each part correct

- *Activity manager*: the activity being drawn is alive and on top; nobody owns an activity twice
  and nobody loses one; every parent gets its own child's result; a requested update is drawn; a
  queued transition happens; a waiter wakes. Together: it behaves as one stack of screens.
- *Reading history*: an update happens whole or not at all, whatever fails and wherever the power
  goes; the books not updated stay as they were; what is acknowledged is on the card; a stale
  list finds out.
- *Sync worker*: a posted job is run once; its result goes to who posted it; what is reported as
  synced was stored; the radio is on while somebody needs it, off when nobody does, and never
  switched off under an open request; deep sleep is reached.
- *Auto sync*: a page that counts as synced is the server's; a page slept on is sent or known
  not to be; an upload made without asking never takes the server back.
- *Glyph store*: what `find` returns is what was stored under that key; no byte is programmed
  twice; a cut costs at most what was being written; writing resumes.
- *File replacement, index*: after a failure or a cut, either the old content or the new one is
  there, and the caller knows which.
- *Serial transfer*: only whole files reach the card; what was confirmed is true; nobody waits for
  good.
- *Buttons*: every press is one event of one kind, whatever the delay between its edges and their
  replay.

## 2. Plan

Most important first. Each module is written to be proved about as well as checked: parameters
are constants with named assumptions, one action per operation, no `RECURSIVE` operator.

| # | Module | Models | Abstract specification | Proved | Left to prove |
|---|---|---|---|---|---|
| 1 | `ActivityManager` | stack, transitions, render task | `ScreenStack` | all safety properties, refinement | – |
| 2 | `ReadingStats` | the history file | `ReadingHistory` | all properties, refinement | – |
| 3 | `KOReaderSyncWorker` | slot, task, radio, deep sleep | – | all safety properties | – |
| 4 | `FlashGlyphStore` | segment ring, write-once index, epochs, reclaim, rebuild journal, power cuts | – | all invariants, `WriteOnce`, `AnswersStay` | `OpenMakesRoom` |
| 5 | `EpubReaderAutoSync` | which position is pushed, pulled, applied | – | all properties | – |
| 6 | `FileReplace` | `replace()` and its callers under failures and cuts | `ReplacedFile` | all safety properties, refinement | – |
| 7 | `SerialTransfer` | both sides of the USB transfer and the link | – | all safety properties | – |

Modules 1 to 7 stay separate: what they share is a flag each (`activityUsesWifi`, which 1 shows to
be kept and 3 takes as its `screen`), a slot that 3 and 5 see from either side, and `replace()`,
which 7 takes as one step on the strength of 6.

## 3. Activity manager (`ScreenStack`, `ActivityManager`)

### 3.1 State and actions

The variables have the names of the fields of `ActivityManager.h`. `loopAt` and `renderAt` are
the program counters of the two tasks. An activity's own code is a *context*: the place from
which the loop task may make any of the calls an activity may make, any number of times, and
at most one navigation call: `loop`, `enter` and `enterRoot` (`onEnter()`), `handler` (a result
handler), `usb` (the loop of a screen with exclusive storage), `boot` (`setup()`), `main` (the
button dispatch of `main.cpp`). `Calls` in a configuration says which calls its activities make.
An activity is a member of a small set; an address is free again when nothing refers to it.

| Code | Actions |
|---|---|
| `requestUpdate()`, `requestUpdate(true)`, `requestUpdateAndWait()` | `RequestUpdate`, `RequestUpdateImmediate`, `RegisterWaiter` → `NotifyRenderAndWait` → `WaiterReturns` |
| `RenderLock` of an activity | `LockState`, `UnlockState` |
| `replaceActivity`, `startActivityForResult`, `finish`, `releaseBuriedActivityState` | `ReplaceActivity`, `StartActivityForResult`, `Finish`, `ReleaseBuriedActivityState`; `LaunchAtOnce`, `OnEnter` on an empty screen |
| `loop()` | `LoopTop`, `MinuteTick`, `PaintBusyIndicator`, …, `TakeExclusive` → `KeepExclusive` or `RetryExclusive`, then `Push`, `Replace`, `PopToParent`, `PopToReleasedParent`, `PopLast`; `CallbackReturns`; `ClearRequested` → `NotifyRender` |
| `renderTaskLoop()` | `TakeNotification` → `StartPass` → (`RenderReturns`, or `UnlockForWaveform` → `Relock` → `TailDone`, or `WaveformOnly`) → `ClearPassActive` → `WakeWaiter` |
| `goToSleep()`, deep sleep | `GoToSleep`, `Wake` |
| buttons | `PressButton`, `ReleaseButton`, `StillDraining` |

The flags are read and written where the code does, in particular where no lock is held:
`renderPassActive` may be cleared after `render()` has given the mutex back
(`ActivityManager.h:98` says it is cleared under it; nothing here depends on that), and the render
task itself sets `requestedUpdate` (the comment at `ActivityManager.h:123` reserves it to the loop
task).

`owed` and `press` are history variables: an update asked for and not yet drawn, and the activity
a button was pressed on.

### 3.2 What is checked

- **`am_stack`** (917,145 states). One reader, a USB screen, two ordinary screens of which one
  uses the network, and the sleep screen; every navigation call. Stack depth 2 and two
  transitions in one `loop()`: a parent under a parent, and a callback that navigates from inside
  the transition that called it. `NoUseAfterFree`: the render task's activity is current, also
  while the reader has dropped the mutex. `StackWellFormed`: a transition always has what it needs,
  so the `while` over `pendingAction` makes progress (`PendingHasActivity`); every screen has one
  owner (`OwnedOnce`); a handler is kept for a child that can still finish (`HandlerAwaitsChild`);
  a screen that gave its state back is not drawn again (`ReleasedNeverShown`); the radio flag says
  what the stack holds (`RadioFlagMatchesStack`). `ImplementsScreenStack`: mapped to one sequence
  of screens, every step opens one above the others, leaves the top, replaces all, starts or
  ends a drawing, restarts the device, or stutters, and the stack moves only between drawings.
- **`am_waiting`** (83,559 states). Every way to ask for an update and to lock, with Replace as
  the navigation. `NoTornFrame`: what is drawn is not changed under the drawing. With fairness:
  `EveryUpdateDrawn`, `TransitionHappens`, `WaiterReturnsEventually`.

*Bounds.* Stack operations touch the top two entries, so a depth of two shows a parent buried
under a parent; five activities leave one free at any time. The waiting run needs no stack. The
proofs below hold for all bounds.

*Fairness.* Both tasks are scheduled by FreeRTOS (`WF` on the managers' own steps and on the
render task's). A callback returns, however many calls it makes first (`SF` on `EnterManagerLoop`
and `CallbackReturns`). A mutex that is free again and again is obtained, as FreeRTOS queues its
waiters by priority and time (`SF` on `TakeExclusive`, `StartPass`, `Relock`). Nothing is assumed
of the user.

### 3.3 What is proved (`ActivityManager_proofs`)

For every set of activities and every bound: `TypeOK`, `NoUseAfterFree`, `NoTornFrame`,
`StackWellFormed` with its five parts, and the refinement `Spec => Screens!Spec`. The inductive
invariant adds to the types who holds the mutex at which point (`LockInv`), that a pass is in
flight exactly between two points of the render task and on the activity on show, and that none
is while a transition holds the mutex (`PassInv`, which is what `renderPassActive` read under the
mutex gives, and the mutex alone does not), when the screen is empty (`ScreenInv`), what a
transition point finds (`PendingInv`), and that the sleep screen only ever belongs to a sleep
transition (`SleepInv`): it is the one object reused, and without this `OwnedOnce` is not
inductive. `OwnedOnce` also needs the sequence lemmas `BuriedByPush` and `BuriedByPop`.
`BookInv`, on top of it, carries the other three: what was released is buried, a handler belongs to
a buried screen or to the one a pending Push is about to bury, and the radio flag is what the last
transition left of the stack.

Only model-checked: the three liveness properties.

## 4. Reading history (`ReadingHistory`, `ReadingStats`, `MCReadingStats`)

### 4.1 State and actions

The card: whether the history file exists, its two meta copies (valid, generation, total,
directory) and its slots, the temporary file, the older firmware's file, and which written
regions are not flushed yet (`unflushed`). The store: `prepared_`, and the call it is in with
its locals: the copy it loaded from, the directory in memory, the book, its slot. The list
screen: the directory it shows and the generation it was read at. The calls run one at a time on
the loop task, so the interleaving is with failures and power cuts, not with other calls.

| Code | Actions |
|---|---|
| `recordSession`, `markFinished`, `removeBook`, `renameBook`, the queries | `Call(o)` for `o` in `Ops` |
| `prepare()`, `importLegacy()` | `Prepare`; `ImportCreate`, `ImportBook`, `ImportSeal`, `ImportRename`, `ImportRetire`, `ImportMalformed`, `ImportFails` |
| `write()`: load | `LoadNone`, `LoadFound`, `LoadCorrupt`, `LoadFails`; `SetAside`, `Refuse` |
| `write()`: a fresh file | `CreateTmp`, `CreateRename`, `CreateFails` |
| `write()`: the update | `WriteSlot`, `FlushSlot`, `WriteMeta`, `FlushMeta`, and their failures |
| power, the card | `PowerCut`, `Damage` |

A book is its key, its seconds and the time it was last read; title and days, which only its slot
holds, are one flag. `Newest` is the copy a load takes; `FreeSlot`, `VictimOf`, `EvictsBefore`
and `TakeOut` are translated operator for operator. A write not flushed, or failed, leaves its
region as it was, torn, or new; a power cut decides each unflushed region by itself. Assumed:
rename and remove are atomic, and a flush that returned has reached the card.

### 4.2 What is checked

- **`rs_updates`** (682,211 states up to the symmetry of books). Three books, a cap of two, three
  updates: the first two fill the directory, the third evicts and reuses the victim's slot;
  sessions, removals, renames and lists, each with a failure or a cut at any step. Or the history
  starts from a file of an older firmware: past the cap in either order, with a book twice, with a
  total below the sum of its books (`TypeOK`: no sum below zero), malformed. `FileAlwaysLoads`,
  `NeverOutOfSlots`, `StaleIndexDetected`, `DoneIsOnTheCard`, and `ImplementsReadingHistory`: seen
  through the copy a load would take, every update happens at one step or not at all, the import
  included. That step is the one at which the power cut or the write leaves the new meta on the
  card, not the return of the call. Four updates without an older file hold too (866,000 states).
- **`rs_damage`** (392,247 states). Up to two regions go bad at any time. `DamageCostsOneBook`:
  each costs at most one book its days. `RemovalNeverStartsOver`: a removal or a rename never
  sets an unreadable history aside.

*Bounds.* An update reads the directory, and writes one slot and one meta copy; what the next one
finds depends on the last two generations. Three updates write one copy twice and have the spare
slot come round to each place; the cap of two has the victim, the newcomer and one bystander.

### 4.3 What is proved

Every property of the two runs, for every set of books, cap, set of older files and every bound.
`ReadingStats_proofs`:

- `TypeOK`; `NeverOutOfSlots`, by the pigeonhole (entries map to slots, of which there is one more:
  `SpareSlot`).
- For as long as no region of the card has gone bad, `SlotsIntact` (the slots hold what the
  directory says) and `FileAlwaysLoads`. The inductive invariant is the types, with the shape of
  the call (`CallShape`), and, while `damages = 0`, `HInv`: `FileHealthy` (a copy is valid, and the
  slots back the directory of the newest); `ImportHealthy` (the draft backs the directory being
  built); `UpdateHealthy` (until the meta is written, the copy loaded from is still the newest and
  its slots are the ones in use, and the slot written is none of them; after, the slots back both
  directories). `SlotsIntact` alone is not inductive: it says nothing of what a cut between the two
  flushes would expose.
- `DoneIsOnTheCard`, whatever has gone bad, and `StaleIndexDetected` while nothing has. Their
  invariant, `GInv`, says of the generations what `HInv` says of the books: a valid copy has a
  number above zero and a slot for each book, an update has the number of the copy it was loaded
  from until it writes that one's successor. For the list, `ListCurrent` adds that no copy it could
  be compared with is older than it.
- `RemovalNeverStartsOver`, whatever has gone bad: a call that creates a file is one that adds
  reading.

It ends with `DamageCostsOneBook`, for any number of damages. The count of books lost in the newest
copy is not inductive, for the copy before it becomes the newest when that one goes bad, and the
slot that updates have been writing in the meantime may be one of its own. The invariant (`DInv`)
therefore bounds the older copy's losses beside that one slot (`OlderLost`); it stays one slot
because a failed update takes the same one again (`FreeSlot` depends on the newest directory alone).
`UpdateLost` carries it through an update: a book whose slot did not read is written without its
days in the place where it was lost already.

With `MaxDamages = 0`, `Spec => ImplementsReadingHistory` (`Refinement`). The mapping
shows the directory of the newest copy as a set; most steps are not seen, and the one that puts the
other copy on the card is `Record`, `Remove` or `Rename` (`CopySeen`). Its invariant, `RInv`: a
valid copy has one entry for each book (`CopiesOnce`); what is in memory is the copy loaded from
with the one book of the call put in or taken out, and the totals with it (`UpdateMade`); of the
older firmware's first *n* books an import holds all, or as many as the cap and then none that was
read before one left out (`ImportMade`, kept by `KeepsOne`).

### 4.4 Left out

The days, streaks and paces of a book and the trims of its day list, sessions and pages counted
beside the seconds (arithmetic on data, which unit tests cover); parsing of ids and of JSON;
sums that wrap at 2^32 seconds and generations at 2^32 updates. A meta write that the card
reported as failed may be whole after all, and the model lets it be: the update then shows
though the call said `Failed`. No caller tries again, so it is not counted twice.

## 5. Background sync worker (`KOReaderSyncWorker`)

### 5.1 State and actions

What runs under one `SlotLock` is one action, since every access to the slot is under it. The
rest of a job runs with nothing held, and `workerAt` walks through it. The contents of a job
are a tag, its sequence number: what the properties tell apart is whose job it is. `stored`,
`reported` and `undercut` are history variables: pushes the server stored, pushes marked as
synced, and whether a clock screen turned the radio off between the worker's first look at it and
its own use of it.

| Code | Actions |
|---|---|
| `post()`, its notification | inside `AutoPull`, `AutoPush`, `PostSleepPush`, `RetrySleepPush`; then `NotifyWorker` |
| `consume()`, `isDone()`, `drain()` | `Consume` in `PollPull`, `PollPush`, `ReleaseAutoSyncSlot`; `IsDone` in `DrainEnds`, `JoinSleepPush` |
| the worker task | `TakeNotification`, `IdleTimeout`, `ExitIfIdle`, `TakeJob`, `CheckOwner`, `LookAtRadio`, `LookAtLink`, `ChooseNetwork`, `BeginAssociating`, `Associated`, `AssociateTimesOut`, `Request`, `CheckRadio`, `RadioOff`, `FinishJob` |
| the reader | `OpenReader`, `CloseReader` and the posts and polls above |
| network screens | `OpenScreen`, `BringRadioUp`, `ClockDone`, `CloseScreen`; three kinds: those that drain the worker and always reboot (`sync`), the clock screens that switch the radio off themselves (`clock`), all others (`server`) |
| `enterDeepSleep()` | `EnterDeepSleep`, `PreSleepDrain`, `ExitForSleep`, `PostSleepPush`, `RetrySleepPush`, `JoinSleepPush`, `LastTeardown`, `Wake` |

The worker reads the radio's state with nothing held, so each read is an action: the mode
(`startedRadio`, `KOReaderSyncWorker.cpp:107`), the link (:55), the mode again (:60), then
`WiFi.mode(WIFI_STA)` (:80); `CheckRadio` and `RadioOff` likewise, for the code checks and then
acts. A reboot or a wake from deep sleep resets all of it.

### 5.2 What is checked

- **`sync_worker`** (536,825 states; three posts between two boots, with the push on sleep on).
  `PostedJobHasWaker`: a job that was posted is being run, or a worker has been or is about to be
  notified of it, whatever the idle exit does. `ReportedWasStored`: a push marked as synced was
  stored. `RadioReturned`: no screen and no job, no radio, with the exception below.
  `SleepSparesTheSocket`: the last teardown before deep sleep switches the radio off under no
  request, unless the wait for it ran out. With fairness, `SleepReached`, although a request may
  never return.
- **`sync_finding_deinit`**: section 12.

*The exception of `RadioReturned`.* A network screen comes up after the worker looked for one
(:101) and brings the radio up before the worker reads its mode (:107): `startedRadio` is false. If
it is a clock screen whose network selection is cancelled, it turns the radio off and goes away
without a reboot (`SyncTimeActivity.cpp:73`); should the worker pass `WiFi.mode(WIFI_STA)` after
that, it leaves on a radio that it takes for somebody else's, and so does every later job.
`undercut` records exactly that order. Without it TLC finds the trace, and
`docs/contributing/koreader-synchronization.md:225` ("if it brought the radio up, takes it down
again after the job") does not hold of it (section 12).

*Bounds.* Three posts: one job left behind, one posted over its result, one on the way to sleep.

*Fairness.* `WF` on the worker's steps other than the request, whose length depends on the server,
and of which nothing is assumed; `WF` on the loop task's waits (`drain()`, `waitFor()`), which
have timeouts.

### 5.3 What is proved (`KOReaderSyncWorker_proofs`)

For any number of posts and both settings: all safety properties of that run, and that whoever was
told the worker is done has the radio to himself (`DoneJobsReleased`). The inductive
invariant: `Typed`, with a number left for whoever may still post; `Wakers`, a posted job has
exactly one carrier (the notification on its way, the notification value, the woken worker or the
worker on the job), which is stronger than `PostedJobHasWaker` since it also says that a
notification always finds the job it was sent for; `Tags`, the job in the slot or taken from it is
the active one; `Honest`, a result that reads OK was stored; `RadioHeld`, a radio that is up with
no screen belongs to a job that will take it down, and a worker about to turn it on with
`startedRadio` false still sees it up, both unless `undercut`.

Only model-checked: `SleepReached`.

### 5.4 Left out

Boards without PSRAM, on which the worker does not exist. The reader's positions (which page is
pushed, and what a pulled one leads to) are `EpubReaderAutoSync`'s (section 7). The HTTP exchange
is one step that stores the push or does not.

## 6. Flash glyph store (`FlashGlyphStore`, `MCFlashGlyphStore`)

### 6.1 State and actions

`flash` is what a power cut leaves: the segments with their headers and records, the index, the
journal of rebuilds, and a wipe under way. `ram` has the fields of the open store, `count` the use
counts, `op` the call in progress and what is left of it. A call is one step for each flash
operation it does. Each may happen; be cut, which leaves any part of it (a header or slot torn, a
record without its end) and ends the session; or fail, after which the store waits to be wiped.
`Does` says so once for all of them.

| Code | Actions |
|---|---|
| `open()` | `Open`, by `Reopened`: scan of headers, end of the head's fill, index, journal |
| the commit of a batch | `Commit` → `MoveHead` (`StopWrites` if it cannot), `PlaceRecord`, `CommitSlot`, key by key |
| a codepoint without a glyph, a page drawn | `MarkNoGlyph`, `NoteDrawn`, `LastFace`, `MarkFull` |
| `makeRoom()` | `MakeRoom` → `Reclaim` → `CopySlot`, `RetireTail`, `EraseTail`; or `Rebuild` → `RebuildBase`, `RebuildErase`, `RebuildInsert`, `RebuildDone`; `RoomMade` |
| `wipe()` | `Wipe` → `WipeStep` |

A slot keeps the whole epoch of the segment it names; what the code can compare is that modulo
`EpochMod` (its 12 bits), and a lookup of the model compares only that. A torn slot may read as the
same key at a later place of its segment: bits only clear.

### 6.2 What is checked

- **`glyph_store`** (946,492 states). `WriteOnce`: nothing is programmed over anything, by any path
  that resumes after a cut. `NothingTornServed`: `find` never returns a record whose write was cut.
  `AnswersStay`: a glyph once answered stays so until it is given up on purpose; in particular the
  store does not forget by being opened again without a cut. `CutForgetsNothing`: nor after one, but
  for what was being written or given up when the power went. `OpenFindsWhatWasThere`: the counters
  and cursors in RAM are what `open()` would compute, all the time, so that a session that goes on
  and one that starts anew do the same. `OpenMakesRoom`: after the open of a chapter the store is
  not stopped. Between them: a reclaim drops nothing it chose to keep, a rebuild cut anywhere is
  redone, and an epoch whose low bits come round does not make an old slot name a new record
  (`NothingTornServed` and `OpenFindsWhatWasThere` both fail on an instance whose `EpochMod` is less
  than `RebuildLimit`).

*What a reclaim keeps.* Of the tail's glyphs drawn since the store was opened, the most drawn first,
at most half a segment, and none if those do not fit what may be opened
(`FlashGlyphStore.h:206`). What the page on show drew beyond that is dropped, as the larger glyph
of this run is, which takes a whole segment.

*Bounds.* Three segments, the fewest with a head, a tail and one between; five slots with two
glyphs of different sizes and one codepoint without, and probe chains of two, so that a chain is
full while the index is not; an epoch space of four, a rebuild due at three and forced at four,
where the code has 4096, 2048 and a little less than 4096; one fault, which is enough for every
single cut to be followed by everything else. Also explored, without a violation: chains of one
(1.12 million states), three and four (0.40 and 0.39 million), and two faults with batches of one
(6.79 million).

*Where room is not made.* `OpenMakesRoom` excepts a rebuild that found no memory, and a chain that
fills again once the rebuild is done: `makeRoom()` rebuilds once (`op.tried`), and the copies of
the reclaim after it may find a full chain, which then stops the store until the next open.
Instances whose chains span the index never show it.

*What two cuts can do.* A slot cut when only its key is programmed (it stays as junk) and, in a
later session, a record cut at the place the remaining bits of that slot happen to name: then a
lookup finds the slot and a record with that key, not whole. `FlashGlyphStore.h:55` says "a power
cut leaves at worst bytes that nothing references"; that holds of one, and `NothingTornServed` says
so. Two counters drift after a cut, without effect on any answer: a rebuild cut in the erase of the
index may make a slot reachable again, and a torn slot whose chain is full is not counted
(`ram.done`, `TornGlyphSlots` in `OpenFindsWhatWasThere`).

*Left out.* Face and pair records and `install()` of a prepared image; the erase of the state
sector, taken as atomic; the sizes of records, in coarse units; keys of a batch are distinct and
not stored yet, as the callers have it. Nothing is assumed to be fair, so that writing resumes is
stated of the step that should make it resume.

### 6.3 What is proved (`FlashGlyphStore_proofs`, `FlashGlyphStore_answers`)

All invariants of the run, `WriteOnce` and `AnswersStay`, for any glyphs and sizes, any number of
segments, slots, probes, epochs and journal entries that `StoreAssumption` allows, and any number of
cuts and failed writes (`NothingTornServed`: of one). Four inductive invariants, each on the ones
before, the last two in the second module:

- `SInv` gives the types and `WriteOnce`. The flash is sane: records of a segment share no unit, a
  blank header means an empty segment. The live segments are a run of the ring with rising epochs.
  While the RAM is trusted it mirrors them, the fill of the head, the journal and the counts of
  slots; `ReopenedMirrors` shows that `open()` computes the same from any such flash. The call in
  progress has its form (`OpSane`). For torn operations `Does` is taken apart once: each part a cut
  may leave of an operation is sane and has written nothing over anything (`Kept`).
- `JInv` gives `NothingTornServed`. A slot that names a segment by the exact epoch it has now names
  a record in it, whole while there is at most one fault. All epochs of slots and segments lie in a
  window narrower than `EpochMod` (`Within`), so that the bits a slot has, all that `find()` can
  compare, tell them apart. One fault leaves a torn record or a torn slot and not both (`Lasting`),
  which is where two faults break it. The property alone says nothing of slots that point to
  retired segments, nor of the records and plans of calls under way, and so is not inductive.
- `LInv` gives `OpenFindsWhatWasThere`. The ring, the journal and the counts of used slots follow
  from `SInv`. The counter of live slots is kept by adding and taking away, where `open()` looks each
  slot up; so the invariant says what it counts: the slots of whole glyphs that name a live segment
  by its epoch, each with a record of its own (`Current`, `Once`), all within reach of a lookup
  (`AllReach`, unless a rebuild was cut), as many as the counter says while no slot is torn.

- `KInv` gives `AnswersStay`. The other steps are settled by what they leave alone: an answer comes
  from a slot that a probe reaches and a record its segment still holds (`Answers`), no flash
  operation of theirs, whole or torn, takes a slot in use or a record of the ring away (`Keeps`,
  `Holds`), and the RAM goes on knowing those segments (`Follows`; after `Open` by `FoundAgain`). The
  retiring of a tail does take one away. For it `KInv` says of a reclaim under way that each glyph it
  is to keep is still to be placed, has its copy placed, or has a whole slot for one outside the
  tail, within reach of a lookup even if a cut rebuild left others out of it (`CopyAt`).

TLC checked the four on the run's states, the first three with two faults and batches of one too.
Only model-checked: `OpenMakesRoom` and `CutForgetsNothing`.

## 7. Reader's automatic sync (`EpubReaderAutoSync`)

### 7.1 State and actions

One book, whose positions are its pages, as far as the comparison of two positions tells them apart.
The loop task makes the calls of `serviceAutoSync()` one
after the other (`at`), and between any two of them the worker answers, the render task draws, the
other device sends a record, the power goes. A call that tries the render lock may find it held: it
then does nothing, this tick. `theirs`, `newer`, `crossed` and `unsent` are history variables,
described below.

| Code | Actions |
|---|---|
| `maybeAutoPullOnWake`, `pollAutoSyncPull`, `pollAutoSyncJob` | `MaybeAutoPullOnWake`, `CollectPull`, `PollAutoSyncPull` (`Evaluate`, `SilentApplyRemote`, `SilentUpload`), `PollAutoSyncJob` |
| `noteAutoSyncProgress`, `maybeAutoPushInterval` | `NotePage`, `MaybeAutoPushInterval` |
| paging, the render task | `TurnPage`, `RenderPass` |
| `onExit()`, `maybeAutoPushOnSleep`, the release of the slot, deep sleep | `Exit`, `MaybeAutoPushOnSleep`, `ReleaseAutoSyncSlot`, `PushStashed`, `RetryStashed`, `JoinStashed` |
| opening, wake, reset | `Reopen`, `Wake`, `Reset`, which read `autosync.json` again |
| the two sync screens | `CompareScreen`, `AutoPushScreen`, which reboot |
| worker, server, other device | `Fetch`, `Store`, `Unreachable`, `Finish`, `OtherDevice` |

### 7.2 What is checked

- **`auto_sync`** (about 11 million states). `SleepAccounts`: a page read on and slept on is
  marked as synced, or the sync as failed; the push that was stashed is not forgotten when an older
  one holds the slot, nor when that one's answer takes the pending mark off. `SettledMeansStored`:
  a page that is not pending is on the server, under the id the book goes by. `UploadGoesFurther`:
  what a wake pull uploads without asking is further than the record it replaces, although the
  answer may have waited for the lock while pages turned, and may be the other id's. Deadlock is
  not checked: the user may stop.

*Excepted*, because the code does not have it otherwise: a record of the other device that came
after the last exchange (`theirs`: "Neither push compares with the server first",
`docs/contributing/koreader-synchronization.md:240`); an id moved to without an exchange under it,
as when a pull adopts a record that is behind and the upload it asks for is refused (also `theirs`);
a jump to a record's place that is marked as another page than the record's (`theirs` again:
`silentApplyRemote()` finds the place with `toCrossPoint()`, the comparison with `peekRemote()`); a
record the other device wrote after an answer was read (`newer`); a sleep for which no push was made
up (`unsent`: "Send on sleep" off, a section without pages, `EpubReaderAutoSync.cpp:429`, or no hash
or XPath, `KOReaderAutoSync.cpp:232`, whose false is not looked at), after which the page is pending
and the sync not marked as failed; and three ways a push and the state come apart (`crossed`): it
goes out while a pull is under way and the two are judged by one mark; it sends a page that was not
noted yet, so its answer clears the mark of the note before; on sleep an older push's answer takes
the mark off the page slept on. In the last the push of that page is still on its way, so
`SleepAccounts` holds; but the page no longer counts as pending on the card should that push be lost
together with the power.

*Bounds.* Three pages, two posts and two turns, a record of the other device, a boot: enough for a
push to be overtaken, lost or overwritten once, and for what follows. The proofs cover the rest.

*Left out.* How a page becomes an XPath and a record a page: a jump may land on any page, mark any
page, or not happen, as for a record in no chapter of the book. The pause of 60 s between interval
pushes, which may have passed or not. `lastSeen` as the next session finds it (`Kept`). A card that
refuses the small file in which an adopted id is learned. A further observation: an interval push
may overwrite a pull's answer that lies in the slot finished and not consumed; the pull then reads
as a network error and is tried at the next wake, which loses nothing.

### 7.3 What is proved

All four properties, for every number of pages, posts, turns, records and boots, from
`SizesAssumption` alone. `SleepAccounts` and `SettledMeansStored` need an invariant of their own:

- `SleepAccounts` needs the page followed on its way (`SleepInv`): while the reader closes it is
  stashed, or it is what the state says was sent (`AtRelease`, `AtSleepPost`); once posted it is what
  the slot holds under the number waited for (`AtJoin`), which no other job can have (`Numbered`); an
  older push that is still out sends a page that is pending or sent (`PushNoted`), so that its answer
  cannot make another page look sent; and the card has the outcome the RAM has (`SameOutcome`).
- `SettledMeansStored` (`StoredInv`) needs, while nothing has crossed: that a push in the slot is
  alone, goes to the book's id and was stored if it says so (`PushMine`); that there is one pull,
  which is pending, in the slot or in hand, and what it found is there still unless `newer` says
  otherwise (`OnePull`, `Fetched`); that a stashed push is pending (`StashPending`); and the claim for
  the last page sent, at any time and not only after a note (`SentIsStored`).
- `UploadGoesFurther` follows from `OnePull` and the comparison.

## 8. File replacement (`ReplacedFile`, `FileReplace`)

`ReplacedFile` is a file with two states of a replacement, putting and put: the value changes
once, at one step, or not at all, and the answer says which, unless the power goes.

`FileReplace` is a file under up to four names and the calls that replace it, one step for each
rename and removal, each of which works or fails, with a power cut anywhere.

| Code | Actions |
|---|---|
| a caller | `Begin`; `Load` → `Loaded` → `RecoverReplace` (`bookmarks`); `Write`, `Discard`, `Failed`, `Done` |
| `replace()` | `Replace` → `Place`, or `SetAside` → `MoveIn` → `DropOld`, `PutBack` |
| the web's replacement of a book | `Swap` → `SwapIn`, `SwapBack`, `Kept` |
| `LibraryPublish::publish()` | `RemoveIndex` → `RenameIndex` |
| power | `PowerCut` |

- **`file_replace`** (7,576 states, all there are for three contents). `NoLeavesBoth`: after a
  false the file is there, under its own name or aside, and what was to be moved is where it was.
  `ImplementsReplacedFile`, for all but the index: the content changes at one step or not at all, and the answer says which.
- **`file_finding_publish`**: section 12.

*Proved*, for every set of contents: both properties and the types. The inductive invariant
has where each call may be (`Callers`), what is under which name there (`Places`), that until the
new file is in place the file is the one the call began with (`Unchanged`), and
`RecoveryClearsTheWay` (`NeverRefusedAfterRecovery`): after a recovery of the bookmarks that failed
in nothing, nothing is aside and the next replacement is not refused.

*Observations.* Only the bookmarks look for a replacement that was cut; an upload cut between its
two renames leaves the original at `.old`, and every later replacement of that file refuses, as
`FileReplace.h:25` says. A book cut there is left at `.bak`, and nothing looks there. A recovery
whose rename fails and a save right after it drop the file aside: two failures in a row, excepted
by `sound`.

*Left out.* The refusal of folders; the second staging name of an upload, folded into `Write`; what
is in the bookmarks; the index of bookmarks (section 12). A rename is taken to be atomic. No
fairness: nothing here waits.

## 9. Serial file transfer (`SerialTransfer`, `MCSerialTransfer`)

### 9.1 State and actions

Both sides and two byte streams. A message has no number: a side knows what it reads from what it
waits for. A token is a header, a chunk, a length, a CRC, an ACK or a line. In a session, from one
opening of the port, which resets the device, to the next, one thing goes wrong: a token lost or
mangled, a command's path that comes over as another one (`misnamed`), a stall of either side, a
failure of the card, or one of the final flush, close and replacement (`unsaved`). A mangled path is
one with a control byte, which `refuseBadPath()` refuses; any other path is taken for what it says.

| Code | Actions |
|---|---|
| `SerialTransferProtocol`: `poll`, the handlers, `receiveFile`, `sendFile` | `Poll` (`HandleWrite`, `HandleDownload`, `HandleRemove`, `HandleBooks`), `Chunk`, `FileEnd`, `Crc`, `Acked`, `DevTimeout`, `Listed` |
| `tools/serial_transfer.py` | `Open`, `Begin`, `ReadReady`, `ReadAnswer`, `ReadAck`, `ReadDownload`, `ReadLost`, `HostTimeout`; up to `Tries` downloads |
| the link | `Lose`, `Mangle`, `Misname`, `Stall`, `Resume` |

A side gives up only on silence: a device when there is nothing for it to read and nothing for the
host either, a host when nothing comes and the device is back at its loop with nothing queued;
unless the other one is stalled. The walk of the books' list, which is slow, is such a stall.

### 9.2 What is checked

- **`serial_transfer`** (1,108,813 states). `TypeOK` says that a file on the card is one that was
  sent, never a part of one or of two. `AnswersAreTrue`: a confirmed upload, download or removal
  happened, to the name that came over, and a confirmed download is one whole file whatever happened.
  `OneHiccupForgiven`: a single fault never fails a download, and an upload fails of a
  fault only. `NoneWaitsForever`: no fault leaves either side waiting for the other for good.
- **`serial_finding_ok`**: section 12.

*The name that came over.* A header has no checksum, and `refuseBadPath()`
(`SerialTransferProtocol.cpp:86-99`) sees control bytes only. A path with any other damage is a path:
the file is stored, sent or removed under that name, and the answer is "OK". So `AnswersAreTrue`
speaks of `host.as`, a history variable that holds the name the device has read, and the host's own
name is promised only when no header was damaged into another one.

*Excepted* is what follows a request given up on (`late`): its answers still come, and are taken for
the next one's. A late "OK" confirms a removal, or an empty upload, that has not happened; with
retries queued, `get p` may save what `q` holds; and a queue of old headers may shift uploads by
one, each confirmed by the one before (four operations). Opening the port again ends it. A download
reported done is still one whole file, if perhaps the other one, and the card holds whole files only.

*Bounds.* Two paths, files of none, one and two chunks (with the second different, so a shift by one
shows), three tries as in the tool, three operations: the one with the fault, and two after it. Also
explored: four operations (11.9 million states, safety only) and five on one path.

*Fairness.* `WF` on the device's loop, on the host's program and on the end of a stall: both run,
and every wait of theirs has a timeout. Deadlock is not checked: the user may stop.

### 9.3 What is proved (`SerialTransfer_proofs`)

`WholeFilesOnly`: `Spec => []TypeOK`, for all paths, files, tries and numbers of operations, from
`FilesAssumption` and `TriesAssumption`. The inductive invariant (`IInv`) adds what each side is at
(`DevInv`, `HostInv`) and, as the heart of it, `LinkInv`: a CRC on its way is a file's or mangled,
so what passes it is a file.

`AnswersTrue` and `OneHiccup`: `AnswersAreTrue` and `OneHiccupForgiven`, with three tries or more.
Three is the tool's number, and needed: a download whose first try fails may find the device still
sending to it, so that the second try's request is read as an ACK or its answer overtaken; the third
finds the device at its poll. Neither property is inductive, for both speak of the end of an
operation. `StepInv` says where the two sides and the two streams stand to each other at every step
while no stalled answer is outstanding: one disjunct for each stretch of an operation (`Asked`,
`Uploading`, `Uploaded`, `Downloading`, …) and one for each way a fault takes it out of step
(`UploadLost`, `FirstTryLost`, `SecondTryLost`). A request is followed by the name it came over with,
and `Misled` says that only a download's first try can have got another file's name. `JInv` has
these with the properties themselves, and `NameInv` in `IInv` that the two names differ only after
such a fault. `WInv` holds after late answers too: only a whole file passes the comparison at a
download's end. Each action of each side, the link's faults included, leads from one disjunct to
another. TLC checked it on the run's states.

Only model-checked: `NoneWaitsForever`, which rests on fairness.

### 9.4 Left out

`mv`, `mkdir`, `status` and `ls`, which have the shape of a removal; the text command of the test
interface; the `.part` left after a fault, which nothing reads; a books' list that is cut at 15 s
and returned as if whole. No byte of a file is taken for an ACK (0x06), nor four for a magic: after
a lost token the code may take them so, and the CRC then refuses the file. No CRC collides. Left out
too is damage to an opcode, which may make one command another (a download a removal), and to a
length or a size in a header, as is a path that becomes one outside `Paths` (the file goes there).

## 10. What keeps the checks honest

- Every property of a passing run has a mutant: a definition changed the way a plausible bug would
  change the code (a guard dropped, a reset missing, two steps swapped), with which the run fails.
  The mutants stand right before the definitions they would replace. `PROJECT.json` pairs them.
- Every action and every alternative of every next-state relation fires in a passing run.
- Deadlock is checked in every run but `auto_sync` and the serial ones.
- No run replaces a definition; an instance gives constants values and nothing else.
- An exception a property makes is one of a named history variable, and sections 6 to 9 say what
  happens there.

## 11. Limits, and what is not modelled

TLC checks small instances; where nothing is proved, larger ones may behave otherwise. Liveness is
only model-checked: the provers do not treat fairness. Of the safety properties one, the glyph
store's `OpenMakesRoom`, is left to TLC: it needs limits that fit each other (a rebuild must free
enough slots, and renumbering the ring enough epochs) which `StoreAssumption` does not ask for.

Tasks switch between actions: what one action does happens under one lock in the code, or touches
nothing another task looks at. Single flags are read and written whole
(`activityStateMux`, aligned words). The card keeps what a flush acknowledged, except in
`rs_damage`, and a rename happens or does not.

Not modelled, with the reason:

- *Buttons and gestures*: one task and thresholds of time; unit tests drive it edge by edge.
- *Page and build gates, abort of a build*: single decisions and a latch; a model would restate
  them.
- *EPUB reader, parsing, layout; fonts on the card; dictionary*: transformations of data. They are
  most of the code, and next to none of them is about an order of events.
- *OTA update*: what a cut in `switchTo()` leads to is decided by a boot loader outside this
  repository.
- *Web and WebDAV servers, HTTP client*: handlers run one at a time; what they do to files is in
  `FileReplace`.
- *Storage layer, HAL, USB drive mode*: drivers; assumed (above), or modelled where they hold the
  loop.
- *Settings, stores, moving a book*: plain records, or renames in a row with no recovery promised.
- *Library index*: all but its publication sorts and joins rows.
- *Other screens, vendored code*: the former's contract with the activity manager is modelled for
  any screen.

## 12. Where the code and its documents disagree

Found by a run that violates what is quoted:

| Run | Says | Does |
|---|---|---|
| `sync_finding_deinit` | `main.cpp:625`: "Deiniting esp_wifi under a worker job's open socket crashes so let's drain first." | the clock screens switch the radio off without a drain (`SyncTimeActivity.cpp:112`, `DetectTimezoneActivity.cpp:152`) |
| `file_finding_publish` | `LibraryPublish.h:23`: false leaves the previous index as it was | it was removed before the rename that failed (`LibraryPublish.cpp:334`); the result of `out.close()` is not looked at |
| `serial_finding_ok` | `SerialTransferProtocol.h:22`: the device replies "OK"/"ERR:..." to what it saved | "OK", whatever became of the last flush, the close and the replacement (`SerialTransferProtocol.cpp:230`) |

Seen while modelling; no run asserts them:

- `requestUpdateAndWait()` returns after whatever pass is in flight, which may have begun before
  the call (`ActivityManager.cpp:1249`); `docs/activity-manager.md:298` has it for "when the screen
  must show the new state before you go on", and `Activity.h:53` says "Request an immediate render
  and block until it completes".
- A press held through the launch of the last pop's successor reaches it: that path arms no drain
  (`ActivityManager.cpp:343`, `docs/activity-manager.md:342`).
- A pending activity is dropped when a second navigation call follows (`ActivityManager.cpp:725`:
  "should never happen in practice"); the button dispatch in `main.cpp:2062` and the reader's loop
  (`EpubReaderActivity.cpp:4173`) may make one each in a turn.
- `goToSleep()` runs `loop()` once more, and the screen on show may navigate in it
  (`ActivityManager.cpp:675`).
- The worker looks whether a screen has the radio and then switches it off
  (`KOReaderSyncWorker.cpp:136`); a screen may have come in between (`USER_GUIDE.md:730`).
- The same worker reads `startedRadio` before it connects (:107); a clock screen that turns the
  radio off in between leaves it on after the job, with no one to turn it off before the next sleep
  or reboot (section 5.2; `docs/contributing/koreader-synchronization.md:225`).
- In smart mode, when the request under one id fails, the record under the other is taken whatever
  it says (`EpubReaderAutoSync.cpp:179`); `docs/contributing/koreader-synchronization.md:215` says
  "the alternate wins only when strictly ahead".
- `maybeAutoPushOnSleep()` does not look at what `stashSleepPush()` returns
  (`EpubReaderAutoSync.cpp:435`): a page whose push cannot be made up is slept on without the sync
  being marked as failed (section 7.2).
- `SerialTransferProtocol.cpp:299` says "No per-chunk ACK on download"; line 320 waits for one.
- Two power cuts may make the glyph store serve a torn glyph (section 6.2).
- A command's header has no checksum: a path damaged into another path (or an opcode into another)
  is acted on and answered "OK". `refuseBadPath()` sees control bytes only
  (`SerialTransferProtocol.cpp:86`, section 9.2).
- Answers of a request given up on are taken for the next one's (section 9.2).
- Bookmarks: a load refused for want of heap looks like no bookmarks, and the reader's exit then
  takes the book out of the index (`EpubReaderActivity.cpp:878`, `TxtReaderActivity.cpp:100`);
  `StarredPages` saves a book's bookmarks without the index, of which `docs/file-formats.md:25`
  says "updated from its `bookmarks.bin` as that saves"; a deleted book stays in it until the next
  reconciliation.
