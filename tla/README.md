# Verification of the document reader

LectorCedulas reads an identity document with a serial bar-code reader, parses it,
checks it, and types the person's data into whatever form the operator had in front.
The production runtime (`src/template/assets/runtime/hardened/`, abbreviated `H/` below)
is a Windows tray application built of threads: serial reader, parser, writer, watchdog,
tray, hotkeys.  This directory holds TLA+ modules translated from that code, TLC
configurations that check them on small instances, and TLAPS proofs of the main results
for every instance.

The question the project asks is the operator's: *is every document that was passed
written once, in order, in the right form, or visibly refused, and can the reader always
take the next one?*  Around it stand the questions of those who keep the system running:
is what the configuration editor saved still there, does a delivered licence open the
application, does an update leave it whole?

## 1. Inventory of the system

| Component | State | Operations | What makes it correct |
|---|---|---|---|
| **Write queue** `H/scan_queue.py` | FIFO of jobs, `_pause`, `_stop`, `_current`, `_current_cancel`, the worker thread | submit, pause, resume, cancel_current, clear_pending, cancel_for_configuration_change, stop, `_run` | a job is written at most once, in order; a job's end is final; stop reaches the write under way; pause lets at most one job slip through; stop ends the thread |
| **Admission** `H/single_scan_app.py` | `_reserved`, `_handed_to_queue`, `_cooldown_until` | try_reserve, mark_handed_to_queue, release_unhanded, cancel_pending, finish_written_cycle | one document at a time from the parser to the end of the cooldown; the ticket always comes back |
| **Pipeline** `H/production_app.py`, `H/single_scan_app.py`, `H/app_runtime.py` | parser pool of one thread, `_processing_slots`, `_configuration_transition_lock`, duplicate window | `_submit_serial_frame`, `_process_scan_async`, `_enqueue_validated_scan`, `_change_configuration`, `_toggle_favorites`, shutdown | no permit or ticket is lost; no job of a former configuration is written after a change; order |
| **Configuration service** `H/config_service.py`, `H/atomic_io.py` | `_generation`, `config_actual.json`, `favoritos.json`, form files | load_active with its migration, set_active, toggle_favorite, atomic write | what is read is a configuration that was saved whole; the generation tells changes apart |
| **Configuration editor** `src/template/crear_configuracion.py`, `editor_core.py` | the same files, from another process; the window's payload | create, edit, rename, activate, delete, save favourites | what the user was told is saved stays; active form and favourites exist |
| **Serial manager** `H/serial_manager.py` | thread, `_active_serial`, stop and reconnect events, bytes of a frame | start, stop, reconnect_now, `_read_frame`, `_run` | a frame is a scan; one thread owns the port and reads again after any failure |
| **Calibration and control panel** `H/desktop_app.py`, `H/reader_calibration.py`, `H/desktop_ui.py` | the running calibration, its worker thread, the replaced serial manager | stop the manager, borrow the port, build another | a stopped manager has no port; the reader returns |
| **Watchdog** `H/production_app.py:339` | time of the last state callback, restarts | replaces a dead serial manager, queue thread, hotkeys or tray | a dead component is replaced once; a live one is left alone |
| **Form writer** `H/writer.py`, `H/stress_safe_writer.py`, `H/reliable_writer.py`, `H/safe_clipboard.py`, `H/windows_target.py`, `H/windows_control.py` | field, attempt, clipboard to restore; outside it the foreground window, the clipboard, the target's controls | write a job field by field, test window and event between keys, paste, type directly, verify, retry, restore | nothing is typed into another window; a completed form is right; the clipboard is given back; it ends |
| **Process supervision** `H/process_supervisor.py`, `H/runtime_state.py`, `H/instance_control.py` | marker files (manual exit, suspension), the child process, the instance mutex | run, restart with back-off, suspend for an update, leave | one reader process; it comes back after a crash and stays away after a manual exit |
| **Updater** `src/tools/updater.py` | install directory, backup, staged package | wait for the processes, back up, replace, roll back | the installation is the old version or the new one |
| **License service** `H/license_service.py` | key pair, `licencia.key`, `licencia_estado.json` | verify, ensure_keypair, issue_license | a delivered licence verifies; nobody is turned away for a clock that was right |
| **Dashboard and release builder** `src/dashboard.py`, `src/tools/release_builder.py` | clients in memory and on file, client folders, deliveries | create, renew, extend, export, installer, update package, delete | the record promises what was signed |
| **Parsing and quality** `H/parser_service.py`, `H/format_engine.py`, `H/scan_quality.py`, `formatos_cedulas.json`, parsers of `lector_core.py` | the cache of TSE answers | parse, enrich, validate_parser_data, validate_for_configuration | what is written is the document's; a sound document passes |
| Diagnostics, hotkeys, theme | log files | | out of scope (I/O) |
| Previous runtime: the rest of `lector_core.py`, `dms_*_guard.py` | globals of one module | | replaced by `H/`, not modelled |

### How the components interact

```
 serial thread ──frame──▶ _submit_serial_frame          user threads: tray, panel, hotkeys
     │   try_reserve ▸ permit ▸ snapshot (under lock) ▸ pool.submit        │
     ▼                                                                     │
 parser thread ── parse ▸ lock ▸ recheck generation ▸ put_nowait ▸ mark ▸ unlock
     │               ▸ permit back ▸ release_unhanded                      │
     ▼                                                                     ▼
 _queue (capacity 1) ◀── clear_pending, pause, cancel, stop, configuration change
     ▼
 DMSScanQueue thread ── gate ▸ get ▸ current ▸ writer.write ▸ finish_written_cycle
```

Each component has a lock of its own, held for single operations.  The one lock that
spans components is `_configuration_transition_lock`: a configuration change, the
snapshot taken for a frame and the enqueuing of a job hold it while they call into the
configuration service, the queue and the admission.  Everything else is a sequence of separately atomic calls, and that is where this code is
hard: `clear_pending` empties the queue entry by entry, looks at `status()` and returns
the ticket in three steps; `submit`, `mark_handed_to_queue` and `release_unhanded` are
three steps of the parser thread; `stop` reads the cancellation event without the lock.

Outside the pipeline the components meet in files: the editor and the application share
the configuration without a lock between processes; dashboard, installer and updater hand
licence and public keys from one directory to the next.

The hazards that follow from this, each at its line, are listed in `PROJECT.json`
(`hazards`) with the properties that watch over them.

## 2. The modules

| Module | Stands for |
|---|---|
| `ScanQueue` | the write queue: producer, worker thread, any number of user threads |
| `WriteDelivery` | what the queue promises: the abstract specification |
| `ScanQueue_proofs` | theorems about the queue, and that it implements the promise |
| `ScanAdmission` | the ticket: one action per method |
| `ScanCycle` | the pipeline: composes `ScanQueue` and `ScanAdmission` with readers, parser, configuration and shutdown |
| `SerialLifecycle` | the threads that own the COM port: serial managers, runtime supervisor, manual calibration with its worker, shutdown |
| `FrameReader` | bytes in time become frames: one call of `_read_frame` after another |
| `FormWriter` | one call of `write`, with the user, the target window and the clipboard around it |
| `ConfigStore` | configuration files between the application and the editor |
| `Licences` | licences from the dashboard through the release builder to the start of an installation |
| `Documents` | one scan through parsers, enrichment and the two checks |
| `UpdateTransaction` | the updater's file transaction, with errors and kills between any two file operations |
| `ProcessSupervision` | supervisor, reader processes and updater; extends `UpdateTransaction` with the processes around it |
| `ScanCycle_proofs`, `FormWriter_proofs`, `ConfigStore_proofs`, `Licences_proofs`, `Documents_proofs` | theorems about those modules |
| `ProcessSupervision_proofs` | theorems about `UpdateTransaction` and `ProcessSupervision` |
| `Serial_proofs` | theorems about `SerialLifecycle` and `FrameReader` |
| `MCScanQueue`, `MCScanCycle`, `MCApplication`, `MCSerial`, `MCFormWriter`, `MCDocuments`, `MCParts`, `MCUpdateTransaction`, `MCProcessSupervision` | small instances for TLC |

`MCApplication`, `MCSerial` and `MCParts` put modules that share no state into one run: a
behaviour chooses one of them in its initial state and the others rest, so the run explores
each module whole and no product of them.

**Atomicity.** An action is the code between two points where another thread can see or
change shared state.  A method that holds its lock throughout (every method of the
admission; `cancel_current`) is one action; one that does not (`clear_pending`, `stop`,
`submit`, `_run`) is as many actions as it has accesses.  `queue.Queue` and
`threading.Event` are atomic by their contract.  Where the code calls an operation of
another component, the action is the conjunction of both, so `PutJob` is `PutNoWait` of
the queue with the parser's step, and the worker's step from `written` to `settle` is
`FinishWrittenCycle`, because the finally clause of `_CooldownWriter` runs there.

**State of the queue.** `queue`, `gate`, `stopped`, `current` are `_queue`, `_pause`,
`_stop`, `_current`.  A cancellation event is named by the job it was made for;
`cancelRef` is the event that the attribute `_current_cancel` refers to, `cancelled` the
events that are set, `uref[u]` the event a stopping thread read and is about to set.
`jobState` is the state of each job; `new`, `submitting`, `taken` and `refused` are
situations of a job that the code represents by where the job is rather than by its
`JobState`.  `removed` is the local counter of `clear_pending`, reduced to whether it is
positive.  `lateStarts` is a history variable: writes begun since writing was paused.

**State of the pipeline.** A frame and the job made of it share a number; `frame` says
how far a frame has come, `snap` what snapshot was taken for it, `rpc`/`rframe` where
each serial thread is, `ppc`/`pframe` where the parser thread is, `pool` the work items
waiting for it, `slots` the free permits, `transition` who holds the transition lock,
`gen` and `active` the configuration service.  What the parser says of a frame, whether
the data satisfies the fields, whether the window is still there and whether the frame
is a duplicate are choices of the environment: both answers are explored everywhere.

**State of the reader's threads** (`SerialLifecycle`). A serial manager is a number; `serial`
is the attribute `self.serial`, which supervisor, calibration and shutdown read and write
without a lock.  `thread[m]` is where the thread of manager `m` is in `_run` and
`_connected_loop`, `registered[m]` whether `_active_serial` is set, `port` who has the
port open at the operating system.  `stop()` is three steps (set the events, close what is
registered, join) shared by its three callers, whose positions are `pc`; `ref` is the
manager each is stopping.  A closed handle is a `port` that is not `m`: the thread
notices at its next access.  `hung` is a driver that does not return from a read before its
port is closed; `opening` an open that takes long: no port is registered yet, so there is
nothing to close, and `OpensReturn` says whether it returns some time.  `busy` says that the
last state reported is one of the watchdog's stuck states (CONNECTING, READING,
PROCESSING).  A read reports again after at most four seconds, so 15 s without a report
pass only in an open, in a hung read or in the processing of a frame (`Stuck`).
`reconnect_now` is one step, as the thread treats the event and the closed port
alike.  The worker thread of a calibration dialog is `searching`; it owns the port as
`Search` while it tries it, and closing the dialog does not wait for it.  There is one
port; which of several is tried first is left out, and two workers of successive dialogs,
which would compete for it, are one.  What the process does after `shutdown` is left out
too: its daemon threads end with it.

**State of a frame** (`FrameReader`).  Time is discrete; a tick is one turn of the loop
with nothing to read (10 ms in the code).  The bytes are numbered in the order they are
sent, so `data` and the driver's buffer are the intervals `first+1..taken` and
`taken+1..arrived`.  `silence` and `quiet` are the times since `last_data` and
`quiet_started`.  The reader's hardware is external: within a scan its bytes are at most
`MaxGap` ticks apart, between scans it pauses for at least `MinPause`.  A reconnection in
the middle of a frame, which drops what was read, is in `SerialLifecycle`.

**State of a write** (`FormWriter`).  `write` is straight-line code with early returns:
test the window, send a key, sleep, test again.  Those lines are rows of the table
`Line`, which gives for each position what is done and where it goes on, and three
actions, `Check`, `Send` and `Sleep`, execute them; loops and decisions are actions of
their own.  Test and key are two steps, because the user may leave between them.  The
target keeps the keys it was sent in `inbox` and handles them one by one, and Ctrl+V
reads the clipboard at that moment.  The controls are its tab stops: `<<f, k>>` is the one
that `k` tabs before field `f` lead to, the last of them is the field's own (`Place`), and
the others must never be written.  A control's content is a sequence of characters, a
value the sequence of its own.  `Probe` is `WindowsControlProbe`: it answers only while the
target is in front, and for controls that know `WM_GETTEXT`.  `PromptTarget` says that the
target handles a key before the pause after it is over; the pauses exist for that and
nothing in the code can enforce it.

**State of the configuration** (`ConfigStore`).  What a form's file holds is absent, torn,
or the number of the edit it comes from with the schema it is in.  `write_json_atomic`
replaces it or leaves it; the editor's `open("w")` tears it until the dump.  `loader[p]` is
the position of `load_active` in each process, with the payload it read; `switch` the form
the application's `set_active` has checked before it takes the lock; `window` where the
editor is, single-threaded, from the dialog to `_replace_references`, and `edit` its
operation.  `saved[f]` is the edit the user was last told that `f` holds; only a deletion
takes it away and a rename moves it, no failure does.  `Faults` names what may go wrong: a
save cut between `open("w")` and the end of the dump (`"dump"`), an atomic write or a
removal that raises (`"write"`), an editor that is closed anywhere else (`"close"`).  With
`Overlaps` the editor changes a form also while the application is between reading it and
writing after that.  A save that the user tries again in the same window is another edit,
and the `.bak` copies, which nobody reads, are left out.

**State of the licences** (`Licences`).  A key is a number, a signature the number of the
private key that made it, a payload the operation that issued it.  An operation of the
dashboard is a `task` that passes from file to file: private key, public key, licence, copy
of the public key, build, save; between any two it may raise (`Fail`) or the dashboard be
killed (`Restart`).  Installations start with any clock; `seen` is `licencia_estado.json`.

**State of a document** (`Documents`).  A text is whose it is, the column it was taken from,
and what it is: a name, plain, with two blanks in a row or with control characters in it; a
date that is past, future or before 1900; one of six or seven digits, which `strptime` reads
all the same; noise; nothing.  A document gives each of its columns such a content, and each
parser is the set of results it gives for it: the engine with the official catalogue, the
two safe parsers, the parsers of `lector_core.py`, of which the one for an address asks the
TSE itself.  The labels of the data are the columns, `Apellidos`, and the date of expiry a
second time with its accent (`Accented`); `ColumnOf` gives the column behind a label.
`Madre` is treated as `Padre` is and left out, the two places are copied and never checked.
The cache is a sequence of entries with an age, least recently used first; the address an
entry stands at is the person and the cedula it asks for.

**State of an update** (`UpdateTransaction`).  A file's content is its version, or `torn`
when an error cut a copy short; `phase` and `file` are the position in the four loops of
`tools/updater.py`.  `os.replace` and `unlink` are atomic.  `Failing` says in which phases
an operation may raise, `Killable` whether the process may be ended at any moment,
`Interruptible` whether `KeyboardInterrupt`, which `except Exception` does not catch, may
come.  The manifest and the payload are verified before anything is touched, so an update
begins verified.

**State of the processes** (`ProcessSupervision`).  A named mutex exists as long as its
process lives or has it open, so it is no variable: `HoldsMutex(w)` and `SupervisorMutex`
are states of a process.  `spc` is the supervisor's position in `supervise`, `worker[w]`
that of a reader process as the others can observe it, `upc` the updater's outside its
file transaction.  The two marker files are variables; the suspension's age is fresh or
over 300 s (`SuspensionAges`), and it does not pass that age during the updater's own
waits, which have a total of 25 s.  `MarkersFail` says which operations on the markers may
raise: the write of either, and the unlink, which leaves the marker where it is while
`consume_manual_exit` answers as if it were gone.  The check of the suspension is three
accesses (`CheckSuspended`, `ReadSuspension`, `RemoveExpired`), for the updater may remove
or write the marker between them; then `read_text` or `stat` raises out of `supervise`.  An
executable that a copy has cut short does not start: the supervisor takes that for an
unexpected end, the updater ignores it.  A supervisor that is killed leaves its reader
running.  `userLeft` is a history variable: the user has left the reader that the
supervisor waits for.

**Left out of these modules.** The return values of `cancel_current` and `clear_pending`
(the callers only show them), notifications and logging, `stop`'s join of at most three
seconds (it changes no state), the privacy fields of a finished job.

## 3. What the runs check

All bounds are constants of the configurations.  `MaxJobs` bounds documents,
`MaxChanges` configuration changes; users and readers are model values, exchanged by
symmetry where no liveness is checked.

| Run | Instance | Properties |
|---|---|---|
| `queue` | 3 jobs, capacity 2, 2 users, every operation, fairness | `JobsAccounted`, `StoppedWriteIsCancelled`, `PauseAdmitsOneWrite`, `RefinesDelivery`, `StopEndsWorker`, `QueuedJobEnds` |
| `cycle_discards` | 3 frames, 2 permits, 2 users that clear and change the configuration, every way a configuration can be read | `ConfigurationBarrier`, `ScanOrderKept` |
| `application` | 3 frames, 2 serial threads; pause, resume, cancel, stop | `AtMostOneCycle` |
| | 2 forms, 3 operations of the editor, 1 switch; unknown labels, atomic writes and removals that raise, an editor closed anywhere but in the dump | `EditSurvives` |
| `cycle_live` | 2 frames, 1 permit; changes, pauses, cancellations, stop; fairness | `SlotsAccounted`, `ReservationHasOwner`, `CycleFrees`, `AdmittedFrameIsDecided` |
| `serial` | 4 managers, supervisor, no calibration, joins may time out, opens may take long; or, with a connected manager, 2 scans of 5 bytes, at most 3 and at least 2 to a frame, windows of 2 + 2 ticks, timeout 9, pause 6, a stop at any moment; fairness | `OneManager`, `ReaderRecovers`; `QuietMeansScanEnd`, `OneScanPerFrame`, `EveryByteIsFramed` |
| `writer` | 5 jobs of 2 fields, 2 characters to a value, 2 attempts, 1 departure or closing of the window, 1 foreign copy, a locked clipboard, keys that raise; fairness | `StrayKeys`, `CancelStopsTyping`, `CompletedForm`, `ClipboardRespected`, `WriteEnds` |
| `parts` | 3 managers with supervisor, calibration and shutdown, joins wait | `StopReleasesPort` |
| | 1 client, 2 licences, 3 deliveries, clock 0 to 2, tolerance 1, kills and errors anywhere | `InstalledVerifies`, `LicenceBacksRecord`, `TurnedAwayByClock` |
| | 2 holders, every document with up to two things wrong, catalogue official, missing or broken, one field at a time, a cache of 1 entry | `WrittenIsTheDocuments`, `SoundDocumentPasses`, `CatalogueAgrees` |
| | 2 forms, 3 operations of the editor, 2 switches; saves that are cut | `ReferencesRepaired` |
| `supervision_orphans` | 2 reader processes, 2 files, errors from the first replacement on, a suspension that cannot be written, markers that cannot be removed; supervisor and updater may be killed; 1 update | `NobodyDuringUpdate`, `SingleReader`, `RollbackRestores`, `OriginalsKept`, `ExitIsFinal` |
| `supervision_live` | 1 reader process, 2 files, errors in every phase, Ctrl+C, an updater killed anywhere, 2 updates, fairness | `AppliedIsWhole`, `CrashIsRestarted`, `ReaderReturns` |

Deadlock is checked except in `writer`, `parts` and `supervision_live`: a write that is done
does nothing more, the licences stop at their bounds, and after a rollback that went wrong
there may be no executable left to start.

Four managers are one that dies, its successor, and two more deaths while the stop of an
earlier one is still under way; the last one the bound allows does not die.  The times of
`FrameReader` keep the order of the code's: the gap inside a scan (3) is shorter than both
windows together (4), those are shorter than the pause between scans (6), and all are
shorter than the timeout (9); the constructor enforces part of it.  A scan of five bytes
against a limit of three gives frames that are full, frames closed by silence, and, when
the timeout cuts, frames too short to hand on.  Two files are one already replaced and one
still to come, each installed or new; the theorems below are for every number.

The jobs of `writer` (`SmallJobs`) hold every way a field is written, skipped, emptied or
refused, with and without tabs, replacement and verification, before and after another
field; two characters are a value that can be typed in part, two attempts a first and a
retry.  One departure is enough for a key to go astray between test and sending, and
`StrayKeys` counts one per departure.  In the licences, three deliveries let an old, a new
and again the old licence be installed, which the check of the clock must tell apart; a
clock of three values with a tolerance of one has times within and beyond it.  The two
forms are the renamed one and another that is active or favourite; of three operations of
the editor the first saves, the second saves again, renames or deletes, and the third meets
what the second left, by itself or after a failure.  Two reader processes are the orphan of
a killed supervisor and the child of its successor.  Two holders and a
cache of one entry show an answer that is dropped, expires, or would be another person's;
with two entries the run would not end in time, and the theorems below are for every limit.

Two users are enough for the races the code has: two `clear_pending` loops that compete
for one entry with the worker, and two `stop` calls of which one reads the old event.
Three jobs give one being written, one waiting and one arriving; the third frame of the
pipeline is the one that finds what the first two left behind.  With a single permit the
path "no permit left" is reached; two permits let a second frame in while the first still
runs.

The two-step `stop` of the queue deserves a word.  `StoppedWriteIsCancelled` says that a
write still going on after `stop` has its event set.  `stop` reads `_current_cancel`
without the lock, so it may set the event of a job that is already over; the property
holds all the same because the worker tests `_stop` after it has adopted a job, and the
flag is raised before the event is read.

### Disagreements found

Three runs expect a violation; each is listed under `findings` with the sentence it
contradicts.

* `unreadable_configuration` (`ReservationHasOwner`).  `_submit_serial_frame` catches
  `ConfigurationError`; an unreadable `config_actual.json` raises `AtomicJsonError`,
  which is none, and leaves with the ticket and the permit.
* `serial_overlap` (`OneManager`).  A calibration stops the manager and shows its dialog;
  the runtime supervisor, every two seconds, finds a manager whose thread is dead, builds
  another and starts it.  That one takes the port from the dialog, and when the dialog
  closes the calibration overwrites `self.serial` with its own manager: the supervisor's
  runs on and nobody can stop it.
* `update_early_error` (`RollbackRestores`).  When staging or the backup itself raises,
  `_rollback` removes each installed file that the backup does not have yet, although
  nothing has been replaced.

Other disagreements were met on the way.  Each shows when one constant of a run is
changed, or one invariant of the module is added to it:

* `cycle_live` with `UserActions <- ClearsOnly` (`ReservationHasOwner`).  `clear_pending`
  runs between `put_nowait` and `mark_handed_to_queue`.  Frame 2 takes the ticket, the late
  mark lands on it, and when frame 2 is refused `release_unhanded` declines, because the
  ticket counts as handed to the queue.  Every later frame is answered "busy".
* `application` with `UserActions <- ChangesOnly` and `MaxChanges = 1`
  (`AtMostOneCycle`).  A configuration change removes the job of frame 1 from the queue
  and returns its ticket while the parser thread is still between `put_nowait` and its
  finally clause.  Frame 2 takes the ticket; the finally clause of frame 1 then calls
  `release_unhanded`, which does not know whose ticket it is, and frees it; frame 3 is
  admitted beside frame 2.
* `cycle_discards` with `ChangeCancelsCurrent`.  `docs/ARCHITECTURE.md:47` says that a
  configuration change cancels the pending *and the current* job; the code lets the
  current write finish.
* `serial` with `ClosedByQuiet`.  `frame_timeout` counts from the call of `_read_frame`,
  which begins again every four seconds while no document is passed.  A document passed
  shortly before that moment is cut in the middle and submitted in pieces.
* `supervision_orphans` with `"exit"` in `MarkersFail` (`ExitIsFinal`).  `_request_exit` shuts
  down in a finally clause, also when the marker could not be written
  (`H/production_app.py:63-68`); the supervisor then launches what the user has left.  `docs/FINAL_PRODUCTION_AUDIT.md:145`: "La
  salida manual no provoca reinicio."
* `supervision_live` with `SupervisorMayDie` and two reader processes (`CrashIsRestarted`).  Any
  marker counts as the exit of the supervisor's own child (`H/process_supervisor.py:106`),
  although it holds a pid.  The user leaves the orphan of a killed supervisor, the successor's
  reader crashes, and the successor ends instead of launching it again.
* `serial` with `OpensReturn = FALSE` (`ReaderRecovers`).  The watchdog asks for a reconnection
  of a thread that does not return from `open_port`; there is no registered port to close
  (`H/serial_manager.py:131-139`), and as the thread is alive nobody replaces it.
  `CHANGELOG.md:83`: "Un lector atascado en conexión, lectura o procesamiento fuerza una
  reconexión."
* `application` with `"dump"` in `Faults` (`EditSurvives`).  A second save of a form empties the
  file first (`editor_core.py:335`); an error or the end of the process then loses the first
  save too.  `docs/QA_AUDIT.md:149` speaks of "backup y escritura atómica".
* `application` with `Overlaps` (`EditSurvives`).  `load_active` writes the migration of what it
  read over what the editor has saved since (`H/config_service.py:312`).
* `parts` with `"close"` in `Faults` (`ReferencesRepaired`), or `"write"`.  The editor is closed,
  or a write fails, between the rename or deletion of a form and the favourites and active form
  that name it (`crear_configuracion.py:178`; `docs/QA_AUDIT.md:151`).
* `parts` with `Overlaps` (`ReferencesRepaired`).  `set_active` checks the form, the editor
  deletes or renames it, and the name is written all the same (`H/config_service.py:315-325`).
* `parts` with `AliasIsFilled`.  The catalogue never fills the date of expiry under its accented
  label (`H/format_engine.py:73`), which the former parser does "por compatibilidad"
  (`lector_core.py:489`); a form with that label is valid and refuses every XOR card.

These were met while reading, and the properties are stated around them:

* Editor.  A form that could not be read opens with an empty name and can overwrite another
  one.  A rename whose form has an invalid label fails in `_harden_form`
  and skips `_replace_references`, against `docs/QA_AUDIT.md:151`.  An activation in the editor
  does not raise the generation of the application.  Migration from the first schema sets the
  validation of a field to none.
* Supervision.  A supervisor that finds the suspension gone between `exists` and `read_text`
  or `stat` ends with an exception.  When it leaves for the suspension just before the updater
  lifts it and starts the application, that start may find the old supervisor's mutex and
  return: the application then stays closed after an update that timed out.  `ReaderReturns`
  speaks of updates that reached the files.
* Licences.  A renewal whose `save_db` raises leaves the licence in the folder replaced while the dialog
  says it was not renewed, the memory keeps the new date, and a second try extends it again
  (`dashboard.py:577`; `CHANGELOG.md:116`); a creation that fails there leaves a
  client in memory that the table does not show.  `last_seen_utc` is overwritten with a
  clock up to the tolerance earlier, so small steps back add up
  (`H/license_service.py:248`).  An error while that file is written turns the user away as
  well (`H/license_service.py:248-252`); in the module the file can always be written.
* Documents.  The former parsers collapse blanks and remove control characters inside a name,
  the engine does not; `strptime` reads a date of six or seven digits, which the former parser
  drops.  `MENOR_CSV` takes every document of `CEDULA_CSV_EXTENDIDA_V2`, which stands
  behind it in the catalogue.  `DESCONOCIDO` counts as a value of `Sexo`
  (`H/scan_quality.py:126`); names are required even where the policy is to preserve; the
  safe parser takes cedulas of 5 to 12 digits, the check wants 9 to 12; eight digits of the
  parameter `sol` are kept unconverted and make the date invalid; a TSE page without names
  is cached like one with.
* Writer.  Test M-027 (`docs/MANUAL_TEST_MATRIX.md:33`) expects a write to be cancelled when the
  focus is lost: a user who is back before the next test goes unnoticed, which is why
  `CompletedForm` has `returned`.  `H/windows_control.py:43-44`, `docs/ARCHITECTURE.md:55`
  and QA-017 say Ctrl+A is not used on a control that cannot be read; the code uses it, as
  `CHANGELOG.md:94` says.  When the paste fails after Ctrl+V was sent the direct path types
  the same value behind it (`H/stress_safe_writer.py:176`); a write that completes shows the
  doubled value only where nothing can be read back and the user had left and returned.
* Calibration.  Its end resumes the queue although the user had paused it
  (`H/desktop_app.py:105`).  An error while saving the port is reported as a reader that was
  not detected; a worker that was cancelled may still save a port; the new dialog's worker
  meets a port the old one still holds.

The passing runs of `AtMostOneCycle` and `ReservationHasOwner` therefore restrict what
users do: `application` has neither clear nor change, `cycle_live` has no direct clear and
a configuration that can be read.  Within their bounds they show that these are the only
ways in which the two properties fail.  Likewise `serial` is without calibration, and its
opens return; `supervision_orphans` is without errors before the backup is complete, and the
marker of the exit can be written there; in `application` no save is cut and none falls
between the application's reading and writing; the supervisor of `supervision_live` is not
killed; and in `parts` the editor is not closed, no write but the window's own save fails,
and the application does not choose the very form that goes away.  Each of these is one
constant of the module, and the lists above say what happens when it is changed.  What
`OriginalsKept` claims ends with the finally clause: an interrupted updater, or one whose
rollback raises, deletes the backup although a mixture is installed.  The supervision runs
let the user start the application at any step of an update but the replacement itself
(`UserMayStart`); nothing in the code prevents that start.

### Fairness

`Fairness` and `CycleFairness` ask that a thread with a step to take eventually takes it:
the worker, the parser, a serial thread or a user thread in the middle of a call, and the
clock.  The operating system schedules all of them; `WF` is asked of each thread, not of
each action, except that the producer's second step is named by itself.  No fairness is
asked of the environment: frames, pauses, resumes and stops may never come.  The form
writer is asked to return, because every wait in `H/writer.py` has a timeout.  The
worker's gate is looked at four times a second and may be found closed each time, so the
liveness properties are stated for behaviours in which pausing ends (`<>[]gate`).

`SLFairness` asks the same of each manager's thread, each stopper and the supervisor's
two checks, and that a calibration dialog is closed some time.  Plugging, reconnecting and
calibrating are never asked for: `ReaderRecovers` is stated for behaviours in which the
reader is plugged in from some point on, the application is not left, the user stops
asking for reconnections and opens no longer take the 15 s of the watchdog: an open that
takes longer each time is given up each time.  The number of managers is bounded, so a thread that dies for an
error in listing the ports does so only while another manager can be built.
`FRFairSpec` asks that time passes, that the loop runs and that the reader sends its
bytes.  `MCSerial` states both, each for the half it belongs to (`SerialFairness`).
`WriterFairSpec` asks two things: the writer's thread goes on, for every wait in
`H/writer.py` has a timeout, and the target handles its keys, for a window that answers no
message is ended by the system; user and other programs owe nothing.  The fairness of `ProcessSupervision` is of the supervisor, the updater and each
reader process; starting, leaving, crashing and being killed are choices.

`PromptThreads` (constant of `ScanCycle`): when TRUE the cooldown of two seconds does not
end while a thread still has to run the handful of statements that follow the write of
its own frame.  It is an assumption about scheduling, not something the code enforces.
`cycle_discards` does without it; the runs about the ticket need it, for
otherwise the leftovers of one frame meet the next, as in the first finding, without any
configuration change.

## 4. What is proved

`ScanQueue_proofs` (for all `MaxJobs`, `Capacity`, `Users`, `UserActions` that satisfy
`QueueAssumption`):

| Theorem | States | Invariant it rests on |
|---|---|---|
| `TypeCorrect` | `Spec => []TypeOK` | inductive by itself |
| `StopReachesTheWrite` | `Spec => []StoppedWriteIsCancelled` | `StopInv` |
| `PauseHolds` | `Spec => []PauseAdmitsOneWrite` | `PauseInv` |
| `NoJobLost` | `Spec => []JobsAccounted` | `QueueInv` |
| `WritesInOrder` | `Spec => []WriteOrder` | `QueueInv /\ LineInv` |
| `FinalStates` | `Spec => OutcomeIsFinal` | `QueueInv` |
| `QueueDelivers` | `Spec => RefinesDelivery`, every step of the queue is a step of `WriteDelivery` or a stutter | `QueueInv /\ LineInv` |

* `StopInv` follows one cancellation event.  From its adoption to its end a job's event is
  the one `cancelRef` refers to, which nobody but the worker changes; a thread that has
  read the attribute while a write goes on has therefore read that write's event; and
  whoever is between two statements of `stop` has raised the flag already, so that no
  write begins behind its back.
* `PauseInv` counts: with the gate open there is nothing to count, and once a late write
  has begun the worker is no longer between its gate and a write; to get there again it
  would have to find the gate open.
* `HandsInv` says which job the worker holds at which step; `JobsAccounted` is inductive
  together with it and with the type invariant.  The step that matters is the competition
  for the head of the queue: `get` and `get_nowait` both remove what they return.
* `LineInv` orders all jobs: the entries of the queue increase, everything before the
  first waiting job is decided or in the worker's hands, the submitted job is later than
  all of them.
* The refinement maps the job that the worker has taken but not started to the first of
  the abstract line.  `get` is then a stutter, a job taken during `stop` is a withdrawal
  from the head of the line, and `clear_pending` withdraws the first or, if the worker
  holds one, the second.

The other proof modules.  A theorem without a hypothesis in the last column holds for
every value of the constants that the module's assumption allows.

| Theorem | States | Invariant it rests on | Hypothesis |
|---|---|---|---|
| `PipelineDelivers` | `CycleSpec => RefinesDelivery`: the pipeline, too, implements `WriteDelivery` | `QueueKept` | |
| `QueueHoldsInPipeline` | `JobsAccounted`, `StoppedWriteIsCancelled`, `PauseAdmitsOneWrite` and `OutcomeIsFinal` for `CycleSpec` | `QueueKept` | |
| `SlotsStayAccounted` | `CycleSpec => []SlotsAccounted` | `FramesInv` | `"raises" \notin ConfigReads` |
| `BarrierHolds` | `CycleSpec => []ConfigurationBarrier` | `LockInv`, `SnapshotInv` | |
| `OneDocumentAtATime` | `CycleSpec => []AtMostOneCycle` | `TicketInv` | `UsersLeaveJobs` |
| `TicketHasOwner` | `CycleSpec => []ReservationHasOwner` | `OwnerInv` | `ClearsUnderLock` |
| `WrittenInScanOrder` | `CycleSpec => []ScanOrderKept` | `OrderInv` | `OneReaderThread` |
| `UpdTypeCorrect` | `UpdSpec => []UpdTypeOK` | inductive by itself | |
| `AppliedUpdateIsWhole` | `UpdSpec => []AppliedIsWhole` | `Replaced` | |
| `FailedUpdateIsUndone` | `UpdSpec => []RollbackRestores` | `Restorable` | `FaultsAfterBackup` |
| `KilledUpdateKeepsOriginals` | `UpdSpec => []OriginalsKept` | `Restorable` | `FaultsAfterBackup` |
| `UpdaterRunsTransaction` | `Spec => UpdSpec`, every step of the processes is a step of the transaction or a stutter | | |
| `UpdateAmongProcesses` | the three properties of the transaction, for `Spec` | the two before | `FaultsAfterBackup` |
| `NobodyRunsDuringUpdate` | `Spec => []NobodyDuringUpdate` | `Quiet` | `"files" \notin UserMayStart` |
| `AtMostOneReader` | `Spec => []SingleReader` | `MutexInv` | |
| `ManualExitIsFinal` | `Spec => ExitIsFinal`, an action property | `ExitInv` | `"exit" \notin MarkersFail` |
| `SupervisorKeepsOneManager` | `SLSpec => []OneManager` | `OnlySupervisor` | `~Calibrates` |
| `PortHasLiveOwner` | a manager that holds the port lives | `PortInv` | |
| `StoppedPortIsFree` | `SLSpec => []StopReleasesPort` | `PortInv`, `JoinedEnded` | `~JoinTimesOut` |
| `SilenceEndsScans` | `FRSpec => []QuietMeansScanEnd` | `QuietClocks` | `Idle + Settle > MaxGap` |
| `PauseSeparatesScans` | `FRSpec => []OneScanPerFrame` | `OpenFrame`, `FramesInside` | `Settle > 0`, `MinPause > Idle + Settle + 1` |
| `OneKeyForADeparture` | `WriterSpec => []StrayKeys` | `StrayInv` | |
| `CancelledWriteStops` | `WriterSpec => []CancelStopsTyping` | `LateInv` | |
| `ClipboardIsGivenBack` | `WriterSpec => []ClipboardRespected` | `ClipInv` | |
| `CompletedWritesAreRight` | `WriterSpec => []CompletedForm` | `Shape`, `Progress`, `Inbox`, `FormInv` | `PromptTarget` |
| `SavedEditsSurvive` | `StoreSpec => []EditSurvives` | `SavedInv`, `Loaded` | `~Overlaps`, `"dump" \notin Faults` |
| `RenamesRepairReferences` | `StoreSpec => []ReferencesRepaired` | `RefInv`, `Loaded` | `TRUE \notin Mislabels`, `~Overlaps`, `Faults \subseteq {"dump"}` |
| `DeliveredLicencesVerify` | `LicencesSpec => []InstalledVerifies` | `KeyInv` | |
| `ClockTurnsAwayRightly` | `LicencesSpec => []TurnedAwayByClock` | `KeyInv`, `ClockInv` | |
| `RecordsAreBacked` | `LicencesSpec => []LicenceBacksRecord` | `KeyInv`, `RecordInv` | |
| `NothingForeignIsWritten` | `DocumentsSpec => []WrittenIsTheDocuments` | `ScanInv`, `CacheInv` | |
| `SoundDocumentsPass` | `DocumentsSpec => []SoundDocumentPasses` | `ScanInv`, `CacheInv` | |
| `CatalogueReplaces` | `DocumentsSpec => []CatalogueAgrees` | none: what two parsers read in one document | |
| `CacheWithinLimit` | `DocumentsSpec => []CacheBounded`: at most `MaxEntries` entries, one for an address | `CacheInv` | |

The other facts assumed are the named assumptions of the modules (`QueueAssumption`,
`CycleAssumption`, `UpdateAssumption`, `SupervisionAssumption`, `LifecycleAssumption`,
`FrameAssumption`, `WriterAssumption`, `StoreAssumption`, `LicencesAssumption`, `DocumentsAssumption`), which
TLC evaluates in every run of a module that extends them.

**The hypotheses are needed.**  Each stands for a way in which the code does lose the
property, and TLC finds the counterexample when it is dropped:

* `UsersLeaveJobs` (nobody clears the queue or changes the configuration, and threads run
  promptly) and `ClearsUnderLock` (nobody clears the queue outside a change, every
  configuration can be read, threads run promptly): a `clear_pending` gives the ticket
  back while the parser may still be about to mark or release it; a reading that raises
  loses the ticket (`unreadable_configuration`); and a thread that is suspended for longer
  than the cooldown of 2 s between two statements releases the ticket of the next
  document.  Section 3 describes these behaviours.
* `OneReaderThread`: two managers at once (`serial_overlap`) can hand over their frames in
  either order.
* `FaultsAfterBackup`: `update_early_error`.
* `"files" \notin UserMayStart`: nothing keeps the user from starting the executable.
* `"exit" \notin MarkersFail`: an exit that could not be marked is taken for a crash;
  `"raises" \notin ConfigReads`: an error of `load_active` other than `ConfigurationError`
  loses the permit (`unreadable_configuration`); `~Calibrates`: `serial_overlap`;
  `~JoinTimesOut`: a driver that hangs past the join still has the port.
* `Idle + Settle > MaxGap`, `Settle > 0` and `MinPause > Idle + Settle + 1` relate the
  reader's timing to the windows of the configuration.  They are tight: TLC refutes the
  properties when any of them is relaxed by one tick.
* `PromptTarget`: in a target that is slower than the pauses, a write whose field cannot be
  read back is completed while its Ctrl+V still waits to be handled.
* `TRUE \notin Mislabels`: a form with an unknown label is not hardened, and the window
  leaves before it repairs the references; `Faults \subseteq {"dump"}`: so does one that cannot
  write or is closed on the way; `~Overlaps`: the application writes what it has read or
  checked before the editor's last step; `"dump" \notin Faults`: a save that is cut takes the
  former one with it.  Section 3 has all of these among the disagreements.

**The pipeline.**  `FramesInv` says where a frame is: which reader, place in the pool or
parser holds it, who holds a permit, and that what was submitted is a job of the queue.
`SlotsAccounted` is then a count of one set (`Holders`) that each step leaves alone or
changes by one element.
The lemmas about the queue are stated of its operations, whoever calls them and whatever the
caller does next (`QueueOps`), and every step of the pipeline is one of these or leaves the
queue alone (`CycleOps`).  So what was proved of the queue with its plain producer holds with
the parser in that place: `QueueKept` is inductive in the pipeline, and `PipelineDelivers` maps each of its
steps to a step of `WriteDelivery` or a stutter.  What has to be checked anew is that nobody
else stands between the statements of `stop` (`StopsRest`): the shutdown goes on to the
serial manager and the pool, a clearing user to the status and the ticket.
`BarrierHolds` needs who owns the transition lock at which step (`LockInv`) and that a
snapshot with the present generation is one of the active configuration (`SnapshotInv`):
between the parser's test of the generation and its `put_nowait` both facts keep their
truth only because every change takes the same lock.  While a change is emptying the queue,
and only then, older jobs may be in it.
`TicketInv` carries `AtMostOneCycle` through the one window in which the ticket and the
document part: the parser may still have a frame whose write is over.  `OwnerInv` names who
gives a ticket back: the thread that has the frame, and, once the ticket was handed to the
queue, the worker or whoever withdraws the job.  `OrderInv` compares places: every place of
the pipeline holds later frames than the places behind it, so that what comes out last was
scanned last.

**The reader.**  `PortInv`: whoever has the port is at a step of its thread from which it
gives it back, and a manager told to stop is never started again, so what a join has
waited for stays ended (`JoinedEnded`).  `QuietClocks` compares the reader's two windows with
the time since the last byte: when the windows are over, the silence has lasted longer than
any gap inside a scan, and so the last byte was the end of one.  The converse,
`PauseSeparatesScans`, bounds the age of an open frame: while it holds a byte the silence
behind it is at most both windows and one tick (`OpenFrame`), less than a pause; so no end
of a scan lies strictly inside a frame (`FramesInside`), and two bytes with no end between them
have the same quotient by the length of a scan (`Division`, `SameScan`).

**The configuration.**  `Loaded` says of whoever is about to write back what he read (a
migration in either process, the hardening) that the file still comes from the same edit;
from it the application's writes change no form but for its schema.  `SavedInv` says what
each file holds at every step of a save (`Kept`): what the user was last told or a later
edit, except for the form that is between its truncation and the end of its dump, and
exactly the present edit until the user is told of it.  A rename moves what was promised of
the old name to the new one, which has just been written whole.
`RefInv` follows a rename: until `_replace_references` has been there the only reference that
may dangle is the one to the name that the edit began with (`Referred`), and the name that
replaces it is a form that can be read (`Bookkeeping`); the application cannot make another
one dangle, for what it is about to switch to is in the list and only the window removes
files.

**The updater.**  `Restorable` is the heart of the transaction: at the file the loop has
come to, what is in place before it is new (or already restored), what lies after it is as
the update found it, and the backup holds what `before` holds for every file that has been,
or will be, replaced.  Without the half about the backup neither property is inductive: the
rollback knows nothing of `before`.  `Replaced` is the plainer half for success.
`UpdaterRunsTransaction` maps each step of supervisors, readers and users to a stutter and
each of the updater to its step of the transaction, so that the theorems about the
transaction hold among the processes.  `Quiet`: from the lock on the executable to the end
of the replacement no process lives.  `MutexInv`: whoever is between creating the mutex and
closing it is alone.  `ExitInv`: once the user has left the reader a
supervisor waits for, the marker stands until this supervisor has read it, and then it is on
its way out.  Only the supervisor removes the marker, only in front of its first launch and
at the end of a child; so neither orphans, crashes and updates nor an unlink that fails comes
between them.

**Writer and licences.**  `FormWriter`'s proofs read the table `Line` through the lemma `Lines` (what follows a test, a pause
and a key) and go position by position.  `StrayInv`: while the writer stands between a test
of the foreground and its key (`Armed`) and another window is in front, a departure of the
user is not yet paid for by a stray key; the writer never sleeps there.  `LateInv`: once a
key was sent after the cancellation the writer is at a position of `Leaving`, and those lead
to the end without another key.  `ClipInv`: what the guard saved is never a value of the
job, and while it may not modify the clipboard the clipboard is not one either.  It says
nothing of what another program copies during the write: `__exit__` puts the saved text over it
(`H/safe_clipboard.py:131-146`), and no property claims otherwise.

`CompletedForm` speaks of the end of a write, so its invariant has to say what the form
holds at each position on the way there.  `OnTrack` does: where the cursor is (`CursorAt`),
that the fields behind are right and the controls ahead, and those passed over, untouched
(`OtherControls`), when the control's content is selected (`SelectedAt`), what the
clipboard holds between copy and paste (`ClipAt`), and which part of the value the control
in hand holds behind what it had or in place of it (`TextAt`, with `Typed(n)` for the first
`n` characters).  It is true only of a write that has its target in front (`Tracked`): once
the user has left, the keys go elsewhere, and without a return (`returned`) the next test
ends the write (`StillTracked`).  The exception is the last navigation, after whose test
nothing is tested any more; by then every field is right (`Finished`), and the only key that
may still be handled, the final action, changes no control (`FinishedStays`).  `Inbox` says
that at most the one key just sent is waiting, which is what `PromptTarget` gives; `Shape` and
`Progress` bind positions, stages and counts together.  TLC checked this invariant on the
jobs of the run, and on jobs of three fields, before it was proved.

`KeyInv` says of the delivery what `InstalledVerifies` cannot by itself: past
`ensure_keypair` the two key files belong together (`TaskInv`), also when the dashboard was
killed between them and the next call repairs the public one; and whatever has been built,
delivered or installed is signed by, and packed with, that pair (`Good`).  `ClockInv` ties
`licencia_estado.json` to what happened: what it remembers of a licence was the time of a
start with that licence, so a failed start of a licence in force met a later one.
`RecordInv` orders the operations: memory is never ahead of the client's folder, nor the file
of memory, and the operation under way is the latest one or delivers that of memory.

**Documents.**  A scan is a computation, and the only thing one scan leaves to the next is
the cache, so the invariant has two parts.  `ScanInv` says at every step where the data come
from: the parser's result is one of `Results(doc)`, and the data are that result or the page
of its address (`Enriched`), whether the page was fetched or kept.  `CacheInv` is what makes
the second half inductive: an entry of the cache is the page of the very person and cedula
its address names (`Entry`), so that a hit is no different from an answer that has just
arrived; and it says that no two entries have one address, without which the entry found by
`Without` need not be the one that is replaced, and the limit would not be kept.
`WrittenIsTheDocuments` follows from lemmas that read each parser once (`CsvRead`
and its like) and say of every label whose text it gives (`About`): a text that can pass a
field's check (`Says`) is this document's, in this column.  `SoundDocumentPasses` rests on
`Sane`, what the semantic check needs to find: every parser makes it of a sound document, and
the page of an address keeps it (`PageIsSane`).  `CatalogueAgrees` compares two parsers on one
document (`CardsAgree`, `AddressesAgree`); it needs no reachability, only that what the check lets
through excludes most of the texts in which they differ: `_normalize_text` before the surnames
are joined or after gives the same (`SurnamesNormal`), and where both ask the TSE it is the
same page.  The texts it cannot claim are named in the property: the code of the sex, the
accented date of expiry, and dates of other than eight digits.

**Model-checked only.** Liveness (`StopEndsWorker`, `QueuedJobEnds`, `CycleFrees`,
`AdmittedFrameIsDecided`, `ReaderRecovers`, `EveryByteIsFramed`, `WriteEnds`,
`CrashIsRestarted`, `ReaderReturns`) needs fairness and ENABLED and is beyond the proof
system.  Every safety property that a passing run checks, invariant or action property, is
a theorem.

**Not modelled.** Logging, diagnostics, privacy, notifications, hotkeys, tray and themes:
I/O without state the properties speak of.  The windows of `desktop_ui.py` other than the
calibration dialog, and editing, previewing and testing a form in the editor's memory: they
write nothing.  Compiling, packing and the installer script of the release builder:
external tools.  The choice among ports by score.  The driving licence of the catalogue,
which is disabled and has no data.  Shift+Tab, Enter and custom keys after a field and the
extra wait, which differ from a tab only in the key.  `H/app_runtime.py` and the writers of
`writer.py` and `reliable_writer.py` where production overrides them.  The previous
runtime except its parsers.

## 5. Plan

Ordered by what an operator loses when it goes wrong.

1. *(done)* `ScanQueue`, `WriteDelivery`, `ScanAdmission`, `ScanCycle`: a document on its
   way from the port to the form.
2. *(done)* `SerialLifecycle` and `FrameReader`: the reader's threads, and frames.
3. *(done)* `UpdateTransaction` and `ProcessSupervision`: files and processes.
4. *(done)* `FormWriter`, `Documents`, `ConfigStore`, `Licences`.
5. *(done)* `ScanCycle_proofs`, `Serial_proofs`, `ConfigStore_proofs`: every safety property
   the runs check of these modules, the promise of the queue kept by the pipeline, and the
   updater among its processes.
6. *(done)* `CompletedForm` for any job: the text of a control while a field is written;
   `Documents_proofs`: a document through its parsers and the cache.
7. `FormWriter` under `ScanQueue`: the writer's early returns as the queue's outcomes; the
   queue's pause during a calibration.
8. The score of a port (`H/serial_manager.py:151-171`) and the updater's protected paths as
   operators against reference definitions.

## 6. Running it

`tlc -config <cfg> <module>`:

| Configuration | Module |
|---|---|
| `ScanQueue.cfg` | `MCScanQueue` |
| `ScanCycle_*.cfg` | `MCScanCycle` |
| `Serial.cfg` | `MCSerial` |
| `Serial_overlap.cfg` | `SerialLifecycle` |
| `FormWriter.cfg` | `MCFormWriter` |
| `Parts.cfg` | `MCParts` |
| `Application.cfg` | `MCApplication` |
| `Supervision_*.cfg` | `MCProcessSupervision` |
| `Update_early_error.cfg` | `MCUpdateTransaction` |

`tlapm <module>_proofs.tla` checks the proofs of a module.  The longest runs, `application`, `writer`
and `parts`, take between two and four minutes on two workers.
