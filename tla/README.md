# Verification project for the RCLL RefBox station communication

This directory holds TLA+ models of the referee box's machine (MPS) command
and feedback path. It also holds TLC configurations that model-check those
models on small instances, and TLAPS proofs that hold for every instance.
The source is:

- `src/unnamed/part_000` is the current `refbox.cpp`, built on `mps_comm`
  (OPC-UA stations). Line numbers below refer to this file unless another
  file is named.
- `src/src/refbox/refbox.cpp` is an older `refbox.cpp`, built on `llsf_sps`
  (SPS/Modbus, RFID polling).
- `src/src/libs/mps_comm/opcua/stations.h` holds station class declarations
  only. The station implementations and `MachineFactory` are not under
  `src/`.

## 1. Inventory

### Components and their state

| Component | Code | State | Operations |
|---|---|---|---|
| Rule engine and `clips_mutex_` | `handle_timer` 1662, `start_clips` 536, protobuf handlers (external) | the recursive `clips_mutex_`, the CLIPS fact base | a CLIPS run under the mutex, every timer tick and on every protobuf message |
| Command dispatcher | `clips_mps_*` 671-944, `mutex_future_ready` 656 | `mutex_futures_`: station name -> `std::future<bool>` | reset, deliver and cs_process run async and single-flight; bs_dispense, ds_process, rs_mount_ring, move_conveyor, cs_retrieve_cap, cs_mount_cap, set_light, set_lights and reset_lights are synchronous; reset_base_counter is a no-op |
| Command tasks | the lambdas at 685, 716, 859 | program counter, local `MutexLocker` | station calls, with feedback facts asserted under `clips_mutex_` |
| Status feedback router | `addCallback` lambdas 474-529 | one subscription per (station, register) | assert `(mps-status-feedback ...)` under `clips_mutex_` |
| Station bring-up | constructor 160-238 | `mps_`, `mps_connections` futures | create_machine, parallel `connect_PLC`, then a wait loop that throws on the first failure |
| Stations and factory | `stations.h`; implementations not in src | OPC-UA session, registers | reset, conveyor_move, band_on_until_mid/out, get_base, ... |
| Legacy SPS | old `refbox.cpp` 160-230, 957-990 | `sps_`, `MPSRefboxInterface` | bring-up, `sps_read_rfids` with `try_reconnect` |
| I/O glue | protobuf, MongoDB/BSON, config, logging | external | not concurrent beyond taking `clips_mutex_` |

### How they interact

Everything CLIPS does runs with `clips_mutex_` held:
- the timer handler on the `io_service` thread;
- the protobuf communicator's handlers on their own threads.

The CLIPS rules call the `clips_mps_*` functions. Three of them (reset,
deliver, cs_process) first ask `mutex_future_ready(machine)`. If a future is
stored for the station and `wait_for(0)` does not report it ready, the call
returns and the command is dropped without a signal. Otherwise they launch a
`std::async` task and store its future.

The tasks run without the mutex. They take the mutex only to assert their
feedback facts:
- `AVAILABLE` and `DONE` for cs_process;
- `mps-deliver success` for deliver.

All other commands call the station directly, on the CLIPS thread, while it
holds the mutex.

Status callbacks run on the OPC-UA client's threads and also take
`clips_mutex_`. At start-up, the constructor launches one `connect_PLC` task
per configured station and throws if any of them fails.

### Hard behaviours

- **Interleaving:** the CLIPS thread, command tasks and subscription threads
  share one mutex and the stations.
- **Check-then-act:** single-flight admission is a check followed by an act.
  Every caller runs inside a CLIPS evaluation holding `clips_mutex_`, so the
  model takes it as one step.
- **Ordering window:** a task announces completion, then releases the mutex,
  then its future becomes ready. A command issued in that window is
  refused; spec section 4.4 emits the completion fact before clearing the
  slot, so this is the specified order, and no property treats it as an
  error.
- **Blocking destructors:** the destructor of a `std::async` future blocks
  until its task ends.
- **Exceptions:** an exception inside a task is stored in its future, and
  nobody reads it.
- **Start-up race:** connect tasks look up `mps_` while the main thread
  inserts into it, and the start-up aborts on the first failed connect.

### What makes each component correct

| Component | Properties |
|---|---|
| Dispatcher | at most one running task per station (single flight); the feedback of a cap operation is not interleaved with other feedback; same-station commands serialized (spec) |
| Router | every value change yields exactly one fact; per-register order is kept; facts reach CLIPS while a command is in flight |
| Bring-up | start-up fails if and only if some connect fails; no task dereferences a missing `mps_` entry |
| Legacy | no NULL `sps_` use; a failed read is followed by one reconnect attempt |

The hazards, each at its source line, are listed in `PROJECT.json`.

## 2. Modules

| Module | Models | Proofs |
|---|---|---|
| `MpsDispatch` (+ `MC_MpsDispatch`) | the command dispatcher, the command tasks, the rule engine's use of `clips_mutex_` (part_000 656-944, 1662) | `MpsDispatchProofs` |
| `PendingOperations` | the spec's abstract table of pending operations (sections 3 and 4.4) | refined by `MpsDispatch` in `MpsDispatchProofs` |
| `MpsStartup` | the station bring-up in the constructor (part_000 166-240) | `MpsStartupProofs` |
| `MpsStatusFeedback` (+ `MC_MpsStatusFeedback`) | the status callbacks of `setup_clips` (part_000 474-523), composed with `MpsDispatch` | `MpsStatusFeedbackProofs` (safety and refinement; liveness TLC only) |
| `StatusChannel` | the spec's abstract status channel (section 4.5): per station, subscribed changes queued and delivered in order | refined by `MpsStatusFeedback` in `MpsStatusFeedbackProofs` |
| `LegacyRefBox` | the older `refbox.cpp`: bring-up, the io_service loop with RFID polling, protobuf threads, signal, destructor | `LegacyRefBoxProofs` |

Still open: the station kinds behind the `static_cast`s of part_000 851
(the classes are declared in `stations.h` but the factory that picks them
is not under `src/`), and per-register order of the status facts when one
client thread serves several registers.

## 3. Module MpsDispatch

**State:**

| Variable | Meaning |
|---|---|
| `clips` | the rule engine: `idle` (`clips_mutex_` free), `run` (CLIPS evaluating), `sync` (inside a station call made on the CLIPS thread, at `syncAt`) |
| `futs` | `mutex_futures_`: station -> id of the task whose future is stored, 0 = no entry |
| `task` | task id -> `[op, at, pc]`; `pc = "done"` means the future is ready |
| `nTask` | tasks launched so far, bounded by `MaxTask` |
| `fb` | per station, the sequence of `mps-feedback` facts the tasks asserted, each tagged with its task |
| `lastCall` | auxiliary: the outcome of the rule engine's last call in the current run (ignored, rejected, accepted, called); reset when the run ends |

**Actions:**
- `ClipsLock` and `ClipsUnlock` model `handle_timer`.
- There is one action per `clips_mps_*` function. Invalid symbols and
  unknown machine names take the early return.
- `MutexFutureReady` is `mutex_future_ready`. `Launch` is
  `std::async` plus the store into `mutex_futures_`.
- The task actions are the lambdas' statements in order: `ResetTask`,
  `DeliverMove`/`DeliverFeedback`, and `CsBandMid`, `CsAvailable`,
  `CsAction`, `CsBandOut`, `CsDone`.
- `TaskReturn` is the moment the future becomes ready, after the lambda has
  released the mutex.
- Each station call may throw. The task then ends, and its future is ready
  holding the exception.

**Abstractions:**
- A task's "lock, assert, unlock" is one step. It is enabled when the rule
  engine does not hold the mutex. This is sound because the task does
  nothing else while it holds the mutex.
- Symbolic arguments are `valid` or `invalid`.
- Station calls are single steps, because the station code is not under
  `src/`.

### Runs

| Run | Config | Checks | Result |
|---|---|---|---|
| dispatch_safety | `MC_MpsDispatch.cfg` | SingleFlight, FeedbackOrder, IInv, RefinesPendingOperations | pass, about 373k distinct states |
| station_exclusive | `MC_MpsDispatch_exclusive.cfg` | StationExclusive | violation: `mps-ds-process` (or any synchronous command) runs on a station while its async reset/deliver/cs_process task is still driving it. The spec says same-station commands are serialized. |

**Bounds:**
- Two stations and one unknown name.
- Three tasks. This is enough for two stations to run concurrently and for
  one station to run two commands back to back, which is the case every
  property is about.
- The depth of the state graph is 31.
- Symmetry over the two stations is sound for these safety checks.

**Mutants:**
- Ignoring the `wait_for` status in `mutex_future_ready` breaks SingleFlight
  and IInv.
- Dropping the `mutex_future_ready` call from `clips_mps_cs_process` breaks
  FeedbackOrder. `clips_mps_bs_dispense` and the other synchronous commands
  really do drop it.

### Proofs (`MpsDispatchProofs`, checked by tlapm)

**Assumptions:** `NoStation \notin Station` and `MaxTask \in Nat`.

**Inductive invariant `IInv`:**
1. `TypeOK`.
2. The tasks launched so far are exactly `1..nTask`.
3. Every launched task targets a configured station.
4. A stored future belongs to a launched task of its own station.
5. Every running task's future is the one stored for its station.

SingleFlight alone is not inductive. A launch is safe only because
`mutex_future_ready` saw no running future at the station. Conjunct 5 turns
that check into "no running task at this station".

**Proof structure:** one lemma per kind of step:
- `TaskStepIInv` covers every task action;
- `AsyncCallIInv` covers the admission, with a case for an admitted launch
  and a case for a rejected or ignored call;
- `SyncCallIInv` covers the synchronous calls.

**Theorems:**
- `IInvInvariant`, `TypeCorrect` and `SingleFlightInvariant` (`Spec =>
  []SingleFlight`).

**Refinement.** `MpsDispatch` defines
`pendingBar[s]` = the task whose future is stored for `s` if that task has
not returned, else `NoTask`, and
`Pending == INSTANCE PendingOperations WITH Command <- TaskId, NoCommand <- NoTask, pending <- pendingBar`.
`RefinesPendingOperations == Pending!Spec` is checked by `dispatch_safety`
and proved as `DispatcherRefinesPendingOperations`:
- an initial state maps to `Pending!Init` (no futures);
- an admitted `Launch` maps to `Pending!Admit(s, nTask + 1)`: IInv conjunct
  5 says the slot was empty;
- a task's `TaskReturn` maps to `Pending!Complete(at)`: its future is the
  stored one (conjunct 5);
- every other step (CLIPS steps, rejected or ignored calls, task steps
  before the return) leaves `pendingBar` unchanged, a stutter.

The mutant that ignores the `wait_for` status in `mutex_future_ready`
admits a second command into a full slot and breaks the refinement.

**Feedback order.** `FeedbackOrder` says that in each station's feedback
sequence every `DONE` fact directly follows the `AVAILABLE` fact of the
same task (`Bracketed`). It is not inductive: a task that asserts `DONE`
must know that the last fact on its station is its own `AVAILABLE`. The
strengthening `FeedbackIInv == IInv /\ AvailableLast /\ FeedbackOrder`
adds `AvailableLast`: a task whose pc is in `CapWindowPc` (between its
`AVAILABLE` and its `DONE`) finds its own `AVAILABLE` last on its station.
Two things keep that true, and both are code guards: single flight (IInv)
keeps every other task of the station out of its window, and the
synchronous commands that bypass `mutex_future_ready` assert no feedback.
TLC checked `FeedbackIInv` as an invariant of `dispatch_safety` before it
was proved. It is not listed as a property of the run: it only combines IInv,
FeedbackOrder and the helper conjunct. The
proof has `QuietStepFeedback` (steps that touch no feedback),
`FactStepFeedback` (the fact-asserting steps, via the lemma
`AppendBracketed`), `LaunchFeedback` and `NextFeedbackIInv`, and gives the
theorems `FeedbackIInvInvariant` and `FeedbackOrderInvariant`.

**Left to TLC:** the violation `station_exclusive`.

## 4. Module MpsStartup

**State:** the configuration (`enable`, per name `active` and `entry`:
`ok`, or `bad` when `get_string`/`get_uint`/`create_machine` throws) is
chosen by Init. The constructor's `pc` runs through `enable`, `loop`,
`create`, `insert`, `wait`, `unwind` to an outcome `ok`, `failed` or
`crashed`. `configs`, `ignored` and `mps` are `mps_configs`,
`ignored_mps_configs` and the keys of `mps_`; `conn[n]` is the connect
task of `n` (`lookup` before it evaluates `mps_[cfg_name]`, `connecting`,
then its result); `waited` the futures the wait loop found true;
`inserting` is true while `mps_[cfg_name] = ...` modifies the map.

**Actions:** `ReadEnable` (168), `Visit` (181-197, first visit of a name),
`CreateMachine` (198-217, may throw), `LaunchConnect` (217-221),
`EndLoop`, `WaitConnection` (227-234: any unexamined future, since the
`unordered_map` order is unspecified; a false one throws), `AllConnected`,
`Unwind` (the exception path: the futures' destructors join every task).
Each task has `Lookup` (the racing `operator[]`: it may find the entry, or
crash the process when it overlaps an insertion) and `Connect`.

**Fairness:** weak fairness on the constructor's thread and on each task:
the OS schedules threads and `connect_PLC` is bounded by the transport's
timeouts.

| Run | Config | Checks | Result |
|---|---|---|---|
| startup | `MpsStartup.cfg` | StartupOutcome, StartupTerminates | pass, 4,467 states |
| startup_map_race | `MpsStartup_NoMapRace.cfg` | NoMapRace | violation: a task's `mps_[cfg_name]` overlaps the insertion of the next machine (line 220 against 217), a data race |
| startup_config_error | `MpsStartup_ConfigErrorBeforeConnect.cfg` | ConfigErrorBeforeConnect | violation: a bad later entry throws after earlier connects started; the spec says a configuration error aborts before any connection attempt |

**Bounds:** three names, every configuration and every connect result:
enough for a connect to run while a later entry is created and for the
wait loop to meet a failure with another task still running. The run
ends (terminal states are the outcomes), hence `CHECK_DEADLOCK FALSE`.

**Proofs (`MpsStartupProofs`):** `IInvInvariant`, `TypeCorrect`,
and `StartupOutcomeHolds`, for every set
of names. The inductive invariant `IInv` says: the launched tasks are
exactly `mps_configs`; the futures found true are a subset of it, with
result true; ignored names are inactive; the name being created was not
visited before; the loops run only with the MPS enabled; in the wait loop
every name was visited; at `ok` every future was found true and every name
visited; at `failed` every launched task has finished. StartupOutcome
needs the first and the last-but-one. The last conjunct is the join of the
futures that `Unwind` encodes as its guard; it is kept in IInv, not as a
property, because it restates that guard.

## 5. Module MpsStatusFeedback (composition)

`MpsStatusFeedback` EXTENDS `MpsDispatch` and adds, per station, the
sequence of register changes, the client's queue of notifications for
monitored registers, the callback in progress, and the status facts
asserted. `RegisterChange` and `Notify` model the OPC-UA client (not
under `src/`, spec-modelled). `StatusCallback` is the lambda: it needs
`clips_mutex_` free (`clips = "idle"`) and appends its fact. `Subscribed`
is the registration: READY, BUSY, BARCODE, and SLIDE-COUNTER only for the
four literal names. A dispatcher step leaves the router alone and a router
step leaves the dispatcher alone, so the two share only `clips_mutex_`.

**Fairness** (`RouterFairness`):
- strong fairness on `ClipsUnlock`: a CLIPS run fires finitely many rules,
  but while it makes synchronous station calls it can end only between
  them;
- weak fairness on `SyncReturn` and on the tasks' steps that take no lock:
  station calls are bounded by timeouts;
- strong fairness on the tasks' lock-taking steps and on `StatusCallback`:
  `handle_timer` holds the mutex for one CLIPS run per tick, so it is free
  infinitely often, though not continuously;
- weak fairness on `Notify`: the client thread dispatches its queue.
Register changes and the rule engine's calls are not forced.

| Run | Config | Checks | Result |
|---|---|---|---|
| status_router | `MC_MpsStatusFeedback.cfg` | StatusDelivered, RefinesStatusChannel | pass, about 54k states |
| status_ring_by_name | `MC_MpsStatusFeedback_ringname.cfg` | StatusDelivered | violation: a ring station not named C-RS1/C-RS2/M-RS1/M-RS2 has no slide-counter callback (508) |

**Bounds:** two stations, one ring station, one command task, two register
changes. Two tasks take more than ten minutes; one task already lets a
task's feedback, a CLIPS run with station calls and the callbacks contend
for the mutex. `VIEW MC_View` leaves out the auxiliary `lastCall`, which
no guard reads. No symmetry: the ring station breaks it, and symmetry is
unsound for liveness.

**Refinement of `StatusChannel`.** The changes of a station that are in
flight are the one the client's callback is handling, then the queued
ones: `InFlight(s)`. With `Sub <- SpecSubscribed`, `queue <- InFlight` and
`facts <- sfacts`, `RefinesStatusChannel == Channel!Spec` is checked by
`status_router`. The mutant that subscribes SLIDE-COUNTER on every station
breaks it: such changes reach the rule engine though the spec does not
subscribe them.

**Proofs (`MpsStatusFeedbackProofs`):**
- `RouterKeepsFeedbackIInv` and `RouterRefinesPendingOperations`: a router
  step leaves the dispatcher's variables unchanged, so every dispatcher
  step of the composition is a `[Next]_vars` step
  (`RouterStepIsDispatchStep`). The dispatcher's invariants and its
  refinement hold in the composition.
- `RouterRefinesStatusChannel`, with the hypothesis
  `RingName \subseteq RingStation`: every station named as a ring really is
  a ring station. Then the code's `Subscribed` equals the spec's
  subscription. A subscribed change is `Channel!Publish`, an unsubscribed
  one is a stutter, `Notify` moves a change from the queue into the
  callback (a stutter of `InFlight`, by `HeadTailConcat`), and
  `StatusCallback` is `Channel!Deliver`. Without the hypothesis the
  refinement fails, and `status_ring_by_name` shows the consequence. The
  hypothesis is stated in the theorem, not assumed of the constants.

## 6. Module LegacyRefBox

The main thread of the older `refbox.cpp` (constructor, `run()`'s
io_service loop with `handle_timer`, `handle_signal`, the destructor), the
protobuf server and peer threads with their MongoDB logging handlers (only
the server's is ever reached: `handle_peer_msg` is connected at 265-270 to
the peers that exist then, and the broadcast peer is created later by
CLIPS, `LoggingThread`), and
the environment (SPS reachability, timer, signal). Bounds: two MPS entries,
two messages, three reachability changes.

Fairness: weak on the main thread, the comm threads' handlers and the
timer's expiry; strong on `HandleSignal`, because the io_service runs its
handlers in completion order, so a queued signal handler is not overtaken
forever, although it is enabled only between ticks.

| Run | Checks | Result |
|---|---|---|
| legacy_lifecycle | TypeOK, SpsRecovers, SignalStops | pass |
| legacy_null_sps | NoNullSpsCall | violation at 213: `sps_->reset_lights()` on a NULL `sps_` |
| legacy_abort_server | AbortStopsServer | violation at 254: a throwing constructor leaves `pb_comm_` serving |
| legacy_log_race | LogWriteExclusive | violation at 552: the server thread (outside `clips_mutex_`) and the CLIPS thread's sent-message handlers write `mongodb_protobuf_` at once |

Proofs (`LegacyRefBoxProofs`): `IInvInvariant` and `TypeCorrect`. IInv adds that a signal is pending only while
`run()` serves the io_service and that once handled the main thread is
shutting down.

## 7. What is proved and what is only checked

TLAPS proves, for every value of the constants allowed by the named
assumptions (`NoStation \notin Station`, `MaxTask \in Nat`,
the legacy bounds in `Nat`): the type
invariants and inductive invariants of `MpsDispatch`, `MpsStartup` and
`LegacyRefBox`; `SingleFlight`; `FeedbackOrder`, through its inductive
strengthening `FeedbackIInv`; the refinement of `PendingOperations`,
alone and in the composition with the router; the invariant `FeedbackIInv`
in the composition; the refinement of `StatusChannel` by the router, for
configurations whose ring names are ring stations; `StartupOutcome`.

Only model-checked: every liveness property (StartupTerminates,
StatusDelivered, SpsRecovers, SignalStops), because the prover does not
reason about fairness or ENABLED; and every violation.

## 8. Not modelled

| Part | Reason |
|---|---|
| Protobuf communication, MongoDB/BSON conversion and logging, configuration loading (`clips_load_config`, `clips_now`) | pure I/O and data conversion into external libraries; only their locking and failure points are in `LegacyRefBox` |
| `handle_clips_periodic` in the old `refbox.cpp` | nothing inserts into `clips_msg_facts_`, so it never acts |
| Station internals, the OPC-UA client and `MachineFactory` | not under `src/`; their visible effects are steps of the modules above |
| Shutdown of the current refbox | member destruction order lives in `refbox.h`, which is not under `src/` |
