----------------------------- MODULE MpsDispatch -----------------------------
(***************************************************************************)
(* The MPS command functions that LLSFRefBox registers with CLIPS          *)
(* (src/unnamed/part_000, clips_mps_* and mutex_future_ready), the         *)
(* std::async tasks three of them launch, and the clips_mutex_ that the    *)
(* rule engine and those tasks share.                                      *)
(*                                                                         *)
(* Actors:                                                                 *)
(*  - the rule engine: every CLIPS evaluation (handle_timer, and the       *)
(*    protobuf handlers) runs with clips_mutex_ held, so they are one      *)
(*    actor; while it runs it calls the clips_mps_* functions;             *)
(*  - one async task per accepted reset / deliver / cs_process call.       *)
(*                                                                         *)
(* A task takes clips_mutex_ only to assert one feedback fact and gives it *)
(* back before its next station call, so "take, assert, release" is one   *)
(* step here, enabled when the rule engine does not hold the mutex.        *)
(***************************************************************************)
EXTENDS Naturals, Sequences

CONSTANTS
    Station,    \* names of the configured machines (keys of mps_)
    NoStation,  \* a machine name that is not a key of mps_
    MaxTask     \* bound on the number of async tasks launched in a run

ASSUME StationAssumption == NoStation \notin Station
ASSUME MaxTaskAssumption == MaxTask \in Nat

\* Machine names CLIPS may pass to a clips_mps_* function.
Machine == Station \cup {NoStation}

\* A symbolic argument (colour, position, light state, cap operation) is
\* only told apart by whether the function's string comparison accepts it.
Arg == {"valid", "invalid"}

TaskId == 1 .. MaxTask
NoTask == 0

AsyncOp == {"reset", "deliver", "cs_process"}
SyncOp  == {"bs_dispense", "ds_process", "rs_mount_ring", "move_conveyor",
            "cs_retrieve_cap", "cs_mount_cap", "set_light", "set_lights",
            "reset_lights"}
CallOp  == AsyncOp \cup SyncOp \cup {"reset_base_counter"}

\* Program counters of a task; "none" = not launched, "done" = the future
\* is ready (lambda returned or threw).
TaskPc == {"none", "reset", "move", "deliverFb", "mid", "availFb", "action",
           "out", "doneFb", "ret", "done"}

\* Points where a task is inside a call on its station.
StationCallPc == {"reset", "move", "mid", "action", "out"}

\* A fact (mps-feedback ...) asserted by a task, tagged with that task.
Fact == [kind : {"AVAILABLE", "DONE", "DELIVERED"}, task : TaskId]

Reply == {"none", "ignored", "rejected", "accepted", "called"}

VARIABLES
    clips,    \* rule engine: "idle" (mutex free), "run", "sync" (in a station call)
    syncAt,   \* the station of the rule engine's current station call
    futs,     \* mutex_futures_: station -> task of the stored future
    task,     \* task id -> [op, at, pc]
    nTask,    \* number of tasks launched so far
    fb,       \* station -> sequence of feedback facts asserted for it
    lastCall  \* auxiliary: the rule engine's last call in its current run

vars == <<clips, syncAt, futs, task, nTask, fb, lastCall>>

NoCall == [op |-> "none", at |-> NoStation, reply |-> "none"]

TypeOK ==
    /\ clips \in {"idle", "run", "sync"}
    /\ syncAt \in Machine
    /\ futs \in [Station -> TaskId \cup {NoTask}]
    /\ task \in [TaskId -> [op : AsyncOp \cup {"none"}, at : Machine, pc : TaskPc]]
    /\ nTask \in 0 .. MaxTask
    /\ fb \in [Station -> Seq(Fact)]
    /\ lastCall \in [op : CallOp \cup {"none"}, at : Machine, reply : Reply]

Init ==
    /\ clips = "idle"
    /\ syncAt = NoStation
    /\ futs = [s \in Station |-> NoTask]
    /\ task = [t \in TaskId |-> [op |-> "none", at |-> NoStation, pc |-> "none"]]
    /\ nTask = 0
    /\ fb = [s \in Station |-> <<>>]
    /\ lastCall = NoCall

-----------------------------------------------------------------------------
(* Rule engine.                                                            *)

\* handle_timer (and a protobuf handler) takes clips_mutex_ and runs CLIPS.
ClipsLock ==
    /\ clips = "idle"
    /\ clips' = "run"
    /\ UNCHANGED <<syncAt, futs, task, nTask, fb, lastCall>>

\* The CLIPS run ends and the MutexLocker releases clips_mutex_.
ClipsUnlock ==
    /\ clips = "run"
    /\ clips' = "idle"
    /\ lastCall' = NoCall
    /\ UNCHANGED <<syncAt, futs, task, nTask, fb>>

\* Variant of MutexFutureReady whose caller ignores the wait_for status.
MutexFutureReadyIgnoringStatus(s) == TRUE

\* mutex_future_ready(name): false when a future is stored for the station
\* and wait_for(0) does not report it ready; otherwise true (a ready entry
\* is erased, and overwritten by the caller's launch).
MutexFutureReady(s) == ~(futs[s] # NoTask /\ task[futs[s]].pc # "done")

\* mutex_futures_[machine] = std::move(std::async(...)): a new task starts
\* at program counter pc and its future replaces the station's entry.
Launch(op, s, pc) ==
    /\ nTask < MaxTask
    /\ nTask' = nTask + 1
    /\ task' = [task EXCEPT ![nTask + 1] = [op |-> op, at |-> s, pc |-> pc]]
    /\ futs' = [futs EXCEPT ![s] = nTask + 1]
    /\ lastCall' = [op |-> op, at |-> s, reply |-> "accepted"]

\* Body shared by clips_mps_reset, _deliver and _cs_process: argument check
\* and mps_.at(machine) lookup, then mutex_future_ready, then the launch.
AsyncCall(op, m, arg, pc) ==
    /\ clips = "run"
    /\ \/ /\ arg = "invalid" \/ m = NoStation
          /\ lastCall' = [op |-> op, at |-> m, reply |-> "ignored"]
          /\ UNCHANGED <<futs, task, nTask>>
       \/ /\ arg = "valid" /\ m \in Station
          /\ ~MutexFutureReady(m)
          /\ lastCall' = [op |-> op, at |-> m, reply |-> "rejected"]
          /\ UNCHANGED <<futs, task, nTask>>
       \/ /\ arg = "valid" /\ m \in Station
          /\ MutexFutureReady(m)
          /\ Launch(op, m, pc)
    /\ UNCHANGED <<clips, syncAt, fb>>

MpsReset(m) == AsyncCall("reset", m, "valid", "reset")

MpsDeliver(m) == AsyncCall("deliver", m, "valid", "move")

\* Variant of MpsCsProcess that, like clips_mps_bs_dispense, skips
\* mutex_future_ready and always launches.
MpsCsProcessUnguarded(m, operation) ==
    /\ clips = "run"
    /\ \/ /\ operation = "invalid" \/ m = NoStation
          /\ lastCall' = [op |-> "cs_process", at |-> m, reply |-> "ignored"]
          /\ UNCHANGED <<futs, task, nTask>>
       \/ /\ operation = "valid" /\ m \in Station
          /\ Launch("cs_process", m, "mid")
    /\ UNCHANGED <<clips, syncAt, fb>>

MpsCsProcess(m, operation) == AsyncCall("cs_process", m, operation, "mid")

\* The other station commands call the station directly, on the rule
\* engine's thread and with clips_mutex_ held; no future is consulted.
SyncCall(op, m, arg) ==
    /\ clips = "run"
    /\ \/ /\ arg = "invalid" \/ m = NoStation
          /\ lastCall' = [op |-> op, at |-> m, reply |-> "ignored"]
          /\ UNCHANGED <<clips, syncAt>>
       \/ /\ arg = "valid" /\ m \in Station
          /\ clips' = "sync"
          /\ syncAt' = m
          /\ lastCall' = [op |-> op, at |-> m, reply |-> "called"]
    /\ UNCHANGED <<futs, task, nTask, fb>>

MpsBsDispense(m, color) == SyncCall("bs_dispense", m, color)

MpsDsProcess(m) == SyncCall("ds_process", m, "valid")

MpsRsMountRing(m) == SyncCall("rs_mount_ring", m, "valid")

MpsMoveConveyor(m, goal) == SyncCall("move_conveyor", m, goal)

MpsCsRetrieveCap(m) == SyncCall("cs_retrieve_cap", m, "valid")

MpsCsMountCap(m) == SyncCall("cs_mount_cap", m, "valid")

MpsSetLight(m, state) == SyncCall("set_light", m, state)

\* Three clips_mps_set_light calls; each looks the station up again.
MpsSetLights(m) == SyncCall("set_lights", m, "valid")

MpsResetLights(m) == SyncCall("reset_lights", m, "valid")

\* "TODO implement": only logs.
MpsResetBaseCounter(m) ==
    /\ clips = "run"
    /\ lastCall' = [op |-> "reset_base_counter", at |-> m, reply |-> "ignored"]
    /\ UNCHANGED <<clips, syncAt, futs, task, nTask, fb>>

\* The station call made on the rule engine's thread returns (or throws and
\* is caught by CLIPS); the rule engine goes on with clips_mutex_ held.
SyncReturn ==
    /\ clips = "sync"
    /\ clips' = "run"
    /\ syncAt' = NoStation
    /\ UNCHANGED <<futs, task, nTask, fb, lastCall>>

-----------------------------------------------------------------------------
(* Async tasks (the std::async lambdas).  A station call may throw; the    *)
(* lambda then ends and its future becomes ready holding the exception,    *)
(* which nobody reads.                                                     *)

SetPc(t, pc) == task' = [task EXCEPT ![t].pc = pc]

\* Assert one (mps-feedback ...) fact for task t's station under clips_mutex_.
AssertFact(t, kind) ==
    /\ clips = "idle"
    /\ fb' = [fb EXCEPT ![task[t].at] = Append(@, [kind |-> kind, task |-> t])]

\* clips_mps_reset lambda: station->reset(); return true.
ResetTask(t) ==
    /\ task[t].pc = "reset"
    /\ SetPc(t, "done")
    /\ UNCHANGED <<clips, syncAt, futs, nTask, fb, lastCall>>

\* clips_mps_deliver lambda: conveyor_move(FORWARD, OUTPUT), or a throw.
DeliverMove(t) ==
    /\ task[t].pc = "move"
    /\ \/ SetPc(t, "deliverFb")
       \/ SetPc(t, "done")
    /\ UNCHANGED <<clips, syncAt, futs, nTask, fb, lastCall>>

\* MutexLocker lock(&clips_mutex_); assert (mps-feedback mps-deliver success
\* <machine>); the lock is released when the lambda returns.
DeliverFeedback(t) ==
    /\ task[t].pc = "deliverFb"
    /\ AssertFact(t, "DELIVERED")
    /\ SetPc(t, "ret")
    /\ UNCHANGED <<clips, syncAt, futs, nTask, lastCall>>

\* clips_mps_cs_process lambda, station->band_on_until_mid() (lock not held).
CsBandMid(t) ==
    /\ task[t].pc = "mid"
    /\ \/ SetPc(t, "availFb")
       \/ SetPc(t, "done")
    /\ UNCHANGED <<clips, syncAt, futs, nTask, fb, lastCall>>

\* lock.relock(); assert (mps-feedback <m> <op> AVAILABLE); lock.unlock().
CsAvailable(t) ==
    /\ task[t].pc = "availFb"
    /\ AssertFact(t, "AVAILABLE")
    /\ SetPc(t, "action")
    /\ UNCHANGED <<clips, syncAt, futs, nTask, lastCall>>

\* station->retrieve_cap() or station->mount_cap().
CsAction(t) ==
    /\ task[t].pc = "action"
    /\ \/ SetPc(t, "out")
       \/ SetPc(t, "done")
    /\ UNCHANGED <<clips, syncAt, futs, nTask, fb, lastCall>>

\* station->band_on_until_out().
CsBandOut(t) ==
    /\ task[t].pc = "out"
    /\ \/ SetPc(t, "doneFb")
       \/ SetPc(t, "done")
    /\ UNCHANGED <<clips, syncAt, futs, nTask, fb, lastCall>>

\* lock.relock(); assert (mps-feedback <m> <op> DONE); return true, whose
\* MutexLocker destructor releases clips_mutex_.
CsDone(t) ==
    /\ task[t].pc = "doneFb"
    /\ AssertFact(t, "DONE")
    /\ SetPc(t, "ret")
    /\ UNCHANGED <<clips, syncAt, futs, nTask, lastCall>>

\* After the lambda has returned and released the mutex, std::async makes
\* the future ready: from here on wait_for(0) reports ready.
TaskReturn(t) ==
    /\ task[t].pc = "ret"
    /\ SetPc(t, "done")
    /\ UNCHANGED <<clips, syncAt, futs, nTask, fb, lastCall>>

-----------------------------------------------------------------------------
Next ==
    \/ ClipsLock \/ ClipsUnlock \/ SyncReturn
    \/ \E m \in Machine :
          \/ MpsReset(m) \/ MpsDeliver(m) \/ MpsDsProcess(m)
          \/ MpsRsMountRing(m) \/ MpsCsRetrieveCap(m) \/ MpsCsMountCap(m)
          \/ MpsSetLights(m) \/ MpsResetLights(m) \/ MpsResetBaseCounter(m)
    \/ \E m \in Machine, a \in Arg :
          \/ MpsCsProcess(m, a) \/ MpsBsDispense(m, a)
          \/ MpsMoveConveyor(m, a) \/ MpsSetLight(m, a)
    \/ \E t \in TaskId :
          \/ ResetTask(t) \/ DeliverMove(t) \/ DeliverFeedback(t)
          \/ CsBandMid(t) \/ CsAvailable(t) \/ CsAction(t) \/ CsBandOut(t)
          \/ CsDone(t) \/ TaskReturn(t)

Spec == Init /\ [][Next]_vars

-----------------------------------------------------------------------------
(* Properties.                                                             *)

Running(t) == task[t].pc \notin {"none", "done"}

\* Single flight (spec, Pending Operation invariant): at no time do two
\* launched tasks whose futures are not ready target the same station;
\* mutex_future_ready must refuse every call while the stored future runs.
SingleFlight ==
    \A t, u \in TaskId :
        Running(t) /\ Running(u) /\ task[t].at = task[u].at => t = u

\* A station's feedback sequence in which every DONE comes right after the
\* AVAILABLE of the same task.
Bracketed(q) ==
    \A i \in 1 .. Len(q) :
        q[i].kind = "DONE" => i > 1 /\ q[i - 1] = [kind |-> "AVAILABLE", task |-> q[i].task]

\* The feedback of a cap operation brackets it: on each station, a
\* cs_process task's DONE comes right after that task's own AVAILABLE, so
\* no other command's feedback falls between the two.  (A task whose
\* station call throws after AVAILABLE asserts no DONE at all.)
FeedbackOrder == \A s \in Station : Bracketed(fb[s])

TaskCalls(t, s) == task[t].at = s /\ task[t].pc \in StationCallPc
ClipsCalls(s) == clips = "sync" /\ syncAt = s

\* Spec, concurrency model: commands against the same station are
\* serialized; at no time are two station calls (a task's or the rule
\* engine's own) under way on one station.
StationExclusive ==
    \A s \in Station :
        /\ ~(ClipsCalls(s) /\ \E t \in TaskId : TaskCalls(t, s))
        /\ \A t, u \in TaskId : TaskCalls(t, s) /\ TaskCalls(u, s) => t = u

\* Refinement mapping onto the spec's table of pending operations: the
\* operation pending at station s is the task whose future mutex_futures_
\* stores for s, for as long as wait_for(0) does not report it ready.
pendingBar ==
    [s \in Station |->
        IF futs[s] # NoTask /\ task[futs[s]].pc # "done" THEN futs[s] ELSE NoTask]

Pending == INSTANCE PendingOperations
               WITH Command <- TaskId, NoCommand <- NoTask, pending <- pendingBar

\* Spec, Command Dispatcher and Pending Operation: mutex_future_ready and
\* the launches of clips_mps_reset/_deliver/_cs_process implement the
\* single-flight table.  A station's entry is set only when it was empty,
\* and cleared only when that very task's future becomes ready; a refused
\* call leaves the table alone, so the running command is not disturbed.
RefinesPendingOperations == Pending!Spec

\* Inductive strengthening of SingleFlight: the launched tasks are
\* 1..nTask, each at a configured station, a stored future belongs to a
\* launched task of its station, and a running task's future is stored.
IInv ==
    /\ TypeOK
    /\ \A t \in TaskId : task[t].pc = "none" <=> t > nTask
    /\ \A t \in TaskId : t <= nTask => task[t].at \in Station
    /\ \A s \in Station : futs[s] # NoTask => futs[s] <= nTask /\ task[futs[s]].at = s
    /\ \A t \in TaskId : Running(t) => futs[task[t].at] = t

\* Program counters of a cs_process task between its AVAILABLE and its DONE.
CapWindowPc == {"action", "out", "doneFb"}

\* While a cs_process task is between its AVAILABLE and its DONE, its
\* AVAILABLE is still the last feedback fact of its station.
AvailableLast ==
    \A t \in TaskId :
        task[t].pc \in CapWindowPc =>
            /\ fb[task[t].at] # <<>>
            /\ fb[task[t].at][Len(fb[task[t].at])] = [kind |-> "AVAILABLE", task |-> t]

\* Inductive strengthening of FeedbackOrder: IInv (hence single flight,
\* so no other task of the station asserts while a cap operation runs),
\* AvailableLast, and FeedbackOrder itself.
FeedbackIInv == IInv /\ AvailableLast /\ FeedbackOrder

=============================================================================
