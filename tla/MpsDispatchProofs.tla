-------------------------- MODULE MpsDispatchProofs --------------------------
(***************************************************************************)
(* Proofs about MpsDispatch for every set of stations and every bound on  *)
(* the number of tasks: IInv is an inductive invariant, hence TypeOK and   *)
(* SingleFlight hold in every reachable state; FeedbackIInv strengthens it *)
(* to prove FeedbackOrder; and the dispatcher refines PendingOperations.   *)
(***************************************************************************)
EXTENDS MpsDispatch, TLAPS

USE StationAssumption, MaxTaskAssumption

\* A step of task t that only moves its program counter to p (p is not
\* "none") and possibly asserts one feedback fact for t's station keeps
\* IInv.  Every task action of MpsDispatch is such a step.
LEMMA TaskStepIInv ==
    ASSUME IInv,
           NEW t \in TaskId,
           NEW p \in TaskPc \ {"none"},
           task[t].pc \notin {"none", "done"},
           task' = [task EXCEPT ![t].pc = p],
           UNCHANGED <<clips, syncAt, futs, nTask, lastCall>>,
           \/ fb' = fb
           \/ \E k \in {"AVAILABLE", "DONE", "DELIVERED"} :
                 fb' = [fb EXCEPT ![task[t].at] = Append(@, [kind |-> k, task |-> t])]
    PROVE  IInv'
<1>1. t <= nTask /\ task[t].at \in Station
  BY DEF IInv, TypeOK, TaskId
<1>2. task' \in [TaskId -> [op : AsyncOp \cup {"none"}, at : Machine, pc : TaskPc]]
  <2>1. task[t] \in [op : AsyncOp \cup {"none"}, at : Machine, pc : TaskPc]
    BY DEF IInv, TypeOK
  <2>2. [task[t] EXCEPT !.pc = p] \in [op : AsyncOp \cup {"none"}, at : Machine, pc : TaskPc]
    BY <2>1
  <2>3. QED
    BY <2>2 DEF IInv, TypeOK
<1>3. fb' \in [Station -> Seq(Fact)]
  <2>1. CASE fb' = fb
    BY <2>1 DEF IInv, TypeOK
  <2>2. ASSUME NEW k \in {"AVAILABLE", "DONE", "DELIVERED"},
               fb' = [fb EXCEPT ![task[t].at] = Append(@, [kind |-> k, task |-> t])]
        PROVE  fb' \in [Station -> Seq(Fact)]
    <3>1. [kind |-> k, task |-> t] \in Fact
      BY DEF Fact
    <3>2. Append(fb[task[t].at], [kind |-> k, task |-> t]) \in Seq(Fact)
      BY <1>1, <3>1 DEF IInv, TypeOK
    <3>3. QED
      BY <2>2, <1>1, <3>2 DEF IInv, TypeOK
  <2>3. QED
    BY <2>1, <2>2
<1>4. TypeOK'
  BY <1>2, <1>3 DEF IInv, TypeOK
<1>5. \A u \in TaskId : task'[u].at = task[u].at /\ (task'[u].pc = "none" <=> task[u].pc = "none")
  BY DEF IInv, TypeOK
<1>6. \A u \in TaskId : Running(u)' => Running(u) \/ u = t
  BY DEF Running
<1>7. (\A u \in TaskId : Running(u) => futs[task[u].at] = u)'
  BY <1>5, <1>6, <1>1 DEF IInv, Running
<1>8. QED
  BY <1>4, <1>5, <1>7 DEF IInv

\* A call of the rule engine that launches no task, or that launches one
\* through Launch once mutex_future_ready has admitted it, keeps IInv.
LEMMA AsyncCallIInv ==
    ASSUME IInv,
           NEW op \in AsyncOp, NEW m \in Machine, NEW arg \in Arg,
           NEW pc \in TaskPc \ {"none", "done"},
           AsyncCall(op, m, arg, pc)
    PROVE  IInv'
<1>1. CASE /\ lastCall' \in {[op |-> op, at |-> m, reply |-> r] : r \in {"ignored", "rejected"}}
           /\ UNCHANGED <<clips, syncAt, futs, task, nTask, fb>>
  <2>1. lastCall' \in [op : CallOp \cup {"none"}, at : Machine, reply : Reply]
    BY <1>1 DEF CallOp, Reply
  <2>2. QED
    BY <1>1, <2>1 DEF IInv, TypeOK, Running
<1>2. CASE /\ m \in Station /\ MutexFutureReady(m) /\ Launch(op, m, pc)
           /\ UNCHANGED <<clips, syncAt, fb>>
  <2> DEFINE n == nTask + 1
  <2>1. n \in TaskId /\ task[n].pc = "none"
    BY <1>2 DEF Launch, IInv, TypeOK, TaskId
  <2>2. task' = [task EXCEPT ![n] = [op |-> op, at |-> m, pc |-> pc]]
        /\ futs' = [futs EXCEPT ![m] = n] /\ nTask' = n
    BY <1>2 DEF Launch
  <2>3. TypeOK'
    BY <1>2, <2>1, <2>2 DEF IInv, TypeOK, Launch, CallOp, Reply, Machine
  \* The future that mutex_future_ready found is absent or ready, so no
  \* running task is at m before the launch.
  <2>4. \A u \in TaskId : Running(u) => task[u].at # m
    BY <1>2 DEF MutexFutureReady, IInv, Running, NoTask, TaskId
  <2>5. (\A u \in TaskId : Running(u) => futs[task[u].at] = u)'
    <3> SUFFICES ASSUME NEW u \in TaskId, Running(u)'
                 PROVE  futs'[task'[u].at] = u
      OBVIOUS
    <3>1. CASE u = n
      <4>1. task'[n].at = m
        BY <2>1, <2>2 DEF IInv, TypeOK
      <4>2. futs'[m] = n
        BY <1>2, <2>2 DEF IInv, TypeOK
      <4>3. QED
        BY <3>1, <4>1, <4>2
    <3>2. CASE u # n
      <4>1. task'[u] = task[u]
        BY <3>2, <2>2 DEF IInv, TypeOK
      <4>2. Running(u) /\ task[u].at \in Station
        BY <4>1, <2>1 DEF Running, IInv, TypeOK, TaskId
      <4>3. task[u].at # m /\ futs[task[u].at] = u
        BY <4>2, <2>4 DEF IInv
      <4>4. QED
        BY <4>1, <4>2, <4>3, <2>2 DEF IInv, TypeOK
    <3>3. QED
      BY <3>1, <3>2
  <2>6. (\A u \in TaskId : task[u].pc = "none" <=> u > nTask)'
    BY <2>1, <2>2 DEF IInv, TypeOK, TaskId
  <2>7. (\A u \in TaskId : u <= nTask => task[u].at \in Station)'
    BY <1>2, <2>1, <2>2 DEF IInv, TypeOK, TaskId
  <2>8. (\A s \in Station : futs[s] # NoTask => futs[s] <= nTask /\ task[futs[s]].at = s)'
    BY <1>2, <2>1, <2>2 DEF IInv, TypeOK, TaskId, NoTask
  <2>9. QED
    BY <2>3, <2>5, <2>6, <2>7, <2>8 DEF IInv
<1>3. QED
  BY <1>1, <1>2 DEF AsyncCall

\* A call that stays on the rule engine's thread changes no task state.
LEMMA SyncCallIInv ==
    ASSUME IInv, NEW op \in SyncOp, NEW m \in Machine, NEW arg \in Arg,
           SyncCall(op, m, arg)
    PROVE  IInv'
BY DEF SyncCall, IInv, TypeOK, Running, CallOp, Machine, Reply

\* The start state of run() (no futures stored, no task launched, no
\* feedback asserted) satisfies IInv.
LEMMA InitIInv == Init => IInv
BY DEF Init, IInv, TypeOK, Running, TaskId, NoTask, NoCall, CallOp, Reply, Machine, TaskPc

\* Every step of the rule engine, of a clips_mps_* call or of a task
\* lambda keeps IInv.
LEMMA NextIInv == IInv /\ [Next]_vars => IInv'
<1> SUFFICES ASSUME IInv, [Next]_vars PROVE IInv'
  OBVIOUS
<1>1. CASE ClipsLock
  BY <1>1 DEF ClipsLock, IInv, TypeOK, Running
<1>2. CASE ClipsUnlock
  BY <1>2 DEF ClipsUnlock, IInv, TypeOK, Running, NoCall, CallOp, Reply, Machine
<1>3. CASE SyncReturn
  BY <1>3 DEF SyncReturn, IInv, TypeOK, Running, Machine
<1>4. ASSUME NEW m \in Machine,
             \/ MpsReset(m) \/ MpsDeliver(m) \/ MpsDsProcess(m)
             \/ MpsRsMountRing(m) \/ MpsCsRetrieveCap(m) \/ MpsCsMountCap(m)
             \/ MpsSetLights(m) \/ MpsResetLights(m) \/ MpsResetBaseCounter(m)
      PROVE IInv'
  <2>1. CASE MpsReset(m)
    BY <2>1, AsyncCallIInv DEF MpsReset, AsyncOp, Arg, TaskPc
  <2>2. CASE MpsDeliver(m)
    BY <2>2, AsyncCallIInv DEF MpsDeliver, AsyncOp, Arg, TaskPc
  <2>3. CASE MpsResetBaseCounter(m)
    BY <2>3 DEF MpsResetBaseCounter, IInv, TypeOK, Running, CallOp, Reply
  <2>4. CASE \/ MpsDsProcess(m) \/ MpsRsMountRing(m) \/ MpsCsRetrieveCap(m)
             \/ MpsCsMountCap(m) \/ MpsSetLights(m) \/ MpsResetLights(m)
    BY <2>4, SyncCallIInv DEF MpsDsProcess, MpsRsMountRing, MpsCsRetrieveCap,
       MpsCsMountCap, MpsSetLights, MpsResetLights, SyncOp, Arg
  <2>5. QED
    BY <1>4, <2>1, <2>2, <2>3, <2>4
<1>5. ASSUME NEW m \in Machine, NEW a \in Arg,
             \/ MpsCsProcess(m, a) \/ MpsBsDispense(m, a)
             \/ MpsMoveConveyor(m, a) \/ MpsSetLight(m, a)
      PROVE IInv'
  <2>1. CASE MpsCsProcess(m, a)
    BY <2>1, AsyncCallIInv DEF MpsCsProcess, AsyncOp, TaskPc
  <2>2. CASE MpsBsDispense(m, a) \/ MpsMoveConveyor(m, a) \/ MpsSetLight(m, a)
    BY <2>2, SyncCallIInv DEF MpsBsDispense, MpsMoveConveyor, MpsSetLight, SyncOp
  <2>3. QED
    BY <1>5, <2>1, <2>2
<1>6. ASSUME NEW t \in TaskId,
             \/ ResetTask(t) \/ DeliverMove(t) \/ DeliverFeedback(t)
             \/ CsBandMid(t) \/ CsAvailable(t) \/ CsAction(t) \/ CsBandOut(t)
             \/ CsDone(t) \/ TaskReturn(t)
      PROVE IInv'
  BY <1>6, TaskStepIInv DEF ResetTask, DeliverMove, DeliverFeedback, CsBandMid,
     CsAvailable, CsAction, CsBandOut, CsDone, TaskReturn, SetPc, AssertFact, TaskPc
<1>7. CASE UNCHANGED vars
  BY <1>7 DEF vars, IInv, TypeOK, Running
<1>8. QED
  BY <1>1, <1>2, <1>3, <1>4, <1>5, <1>6, <1>7 DEF Next

\* IInv holds in every reachable state: a task whose future mutex_futures_
\* does not report ready is the one stored for its station.
THEOREM IInvInvariant == Spec => []IInv
BY InitIInv, NextIInv, PTL DEF Spec

\* Type correctness of every reachable state of MpsDispatch.
THEOREM TypeCorrect == Spec => []TypeOK
BY IInvInvariant, PTL DEF IInv

\* Single flight: in every reachable state, for every configuration and
\* task bound, no two running tasks (std::async lambdas whose futures are
\* not ready) target one station; the clips_mps_reset, _deliver and
\* _cs_process calls are admitted only through mutex_future_ready.
THEOREM SingleFlightInvariant == Spec => []SingleFlight
<1>1. IInv => SingleFlight
  BY DEF IInv, SingleFlight, TypeOK
<1>2. QED
  BY <1>1, IInvInvariant, PTL

-----------------------------------------------------------------------------
(* Refinement: MpsDispatch implements PendingOperations under pendingBar. *)

\* A task step that moves a running task t's program counter keeps the
\* table when t keeps running, and clears exactly t's slot when its future
\* becomes ready ("done").
LEMMA TaskStepRefines ==
    ASSUME IInv,
           NEW t \in TaskId,
           NEW p \in TaskPc \ {"none"},
           task[t].pc \notin {"none", "done"},
           task' = [task EXCEPT ![t].pc = p],
           futs' = futs
    PROVE  [Pending!Next]_pendingBar
<1> DEFINE at == task[t].at
<1>1. at \in Station /\ futs[at] = t
  BY DEF IInv, TypeOK, TaskId, Running
<1>2. \A s \in Station : s # at => pendingBar'[s] = pendingBar[s]
  BY DEF IInv, TypeOK, pendingBar
<1>3. pendingBar[at] = t
  BY <1>1 DEF pendingBar
<1>4. CASE p # "done"
  <2>1. pendingBar'[at] = t
    BY <1>1, <1>4 DEF IInv, TypeOK, pendingBar, NoTask, TaskId
  <2>2. pendingBar' = pendingBar
    BY <1>2, <1>3, <2>1 DEF pendingBar
  <2>3. QED
    BY <2>2
<1>5. CASE p = "done"
  <2>1. pendingBar'[at] = NoTask
    BY <1>1, <1>5 DEF IInv, TypeOK, pendingBar
  <2>2. pendingBar' = [pendingBar EXCEPT ![at] = NoTask]
    BY <1>1, <1>2, <2>1 DEF pendingBar
  <2>3. pendingBar[at] # NoTask
    BY <1>3 DEF NoTask, TaskId
  <2>4. Pending!Complete(at)
    BY <2>2, <2>3 DEF Pending!Complete
  <2>5. QED
    BY <1>1, <2>4 DEF Pending!Next
<1>6. QED
  BY <1>4, <1>5

\* A launch admitted by mutex_future_ready fills the empty slot of its
\* station with the new task and leaves every other slot alone.
LEMMA LaunchRefines ==
    ASSUME IInv,
           NEW op \in AsyncOp, NEW m \in Station,
           NEW pc \in TaskPc \ {"none", "done"},
           MutexFutureReady(m), Launch(op, m, pc)
    PROVE  Pending!Admit(m, nTask + 1)
<1> DEFINE n == nTask + 1
<1>1. n \in TaskId /\ task[n].pc = "none"
  BY DEF Launch, IInv, TypeOK, TaskId
<1>2. task' = [task EXCEPT ![n] = [op |-> op, at |-> m, pc |-> pc]]
      /\ futs' = [futs EXCEPT ![m] = n]
  BY DEF Launch
<1>3. pendingBar[m] = NoTask
  BY DEF MutexFutureReady, pendingBar
<1>4. pendingBar'[m] = n
  BY <1>1, <1>2 DEF IInv, TypeOK, pendingBar
<1>5. \A s \in Station : s # m => pendingBar'[s] = pendingBar[s]
  BY <1>1, <1>2 DEF IInv, TypeOK, pendingBar, NoTask, TaskId
<1>6. pendingBar' = [pendingBar EXCEPT ![m] = n]
  BY <1>4, <1>5 DEF pendingBar
<1>7. QED
  BY <1>3, <1>6 DEF Pending!Admit

\* Every step of MpsDispatch from a state satisfying IInv is a step of the
\* pending-operation table or leaves it unchanged.
LEMMA NextRefines == IInv /\ [Next]_vars => [Pending!Next]_pendingBar
<1> SUFFICES ASSUME IInv, [Next]_vars PROVE [Pending!Next]_pendingBar
  OBVIOUS
\* Steps that touch neither mutex_futures_ nor a task.
<1>1. CASE UNCHANGED <<futs, task>>
  BY <1>1 DEF pendingBar
<1>2. ASSUME NEW op \in AsyncOp, NEW m \in Machine, NEW arg \in Arg,
             NEW pc \in TaskPc \ {"none", "done"},
             AsyncCall(op, m, arg, pc)
      PROVE  [Pending!Next]_pendingBar
  <2>1. CASE UNCHANGED <<futs, task>>
    BY <2>1 DEF pendingBar
  <2>2. CASE m \in Station /\ MutexFutureReady(m) /\ Launch(op, m, pc)
    <3>1. nTask + 1 \in TaskId
      BY <2>2 DEF Launch, IInv, TypeOK, TaskId
    <3>2. QED
      BY <2>2, <3>1, LaunchRefines DEF Pending!Next
  <2>3. QED
    BY <1>2, <2>1, <2>2 DEF AsyncCall
<1>3. ASSUME NEW t \in TaskId,
             \/ ResetTask(t) \/ DeliverMove(t) \/ DeliverFeedback(t)
             \/ CsBandMid(t) \/ CsAvailable(t) \/ CsAction(t) \/ CsBandOut(t)
             \/ CsDone(t) \/ TaskReturn(t)
      PROVE  [Pending!Next]_pendingBar
  BY <1>3, TaskStepRefines DEF ResetTask, DeliverMove, DeliverFeedback, CsBandMid,
     CsAvailable, CsAction, CsBandOut, CsDone, TaskReturn, SetPc, AssertFact, TaskPc
<1>4. QED
  <2>1. CASE \E m \in Machine :
               MpsReset(m) \/ MpsDeliver(m) \/ (\E a \in Arg : MpsCsProcess(m, a))
    BY <2>1, <1>2 DEF MpsReset, MpsDeliver, MpsCsProcess, AsyncOp, Arg, TaskPc
  <2>2. QED
    BY <2>1, <1>1, <1>3 DEF Next, vars, ClipsLock, ClipsUnlock, SyncReturn, SyncCall,
       MpsDsProcess, MpsRsMountRing, MpsCsRetrieveCap, MpsCsMountCap, MpsSetLights,
       MpsResetLights, MpsResetBaseCounter, MpsBsDispense, MpsMoveConveyor, MpsSetLight

\* The dispatcher implements the spec's pending-operation table, for every
\* set of stations and task bound: mutex_futures_ with mutex_future_ready
\* admits a command only into an empty slot, and only the stored task's
\* completion clears it.
THEOREM DispatcherRefinesPendingOperations == Spec => RefinesPendingOperations
<1>1. Init => Pending!Init
  BY DEF Init, Pending!Init, pendingBar
<1>2. QED
  BY <1>1, NextRefines, IInvInvariant, PTL
     DEF Spec, RefinesPendingOperations, Pending!Spec

-----------------------------------------------------------------------------
(* FeedbackOrder: a DONE fact comes right after its own AVAILABLE.        *)

\* Appending a fact to a bracketed feedback sequence keeps it bracketed,
\* provided a DONE is appended only right after the AVAILABLE of its task.
LEMMA AppendBracketed ==
    ASSUME NEW q \in Seq(Fact), Bracketed(q), NEW f \in Fact,
           f.kind = "DONE" => q # <<>> /\ q[Len(q)] = [kind |-> "AVAILABLE", task |-> f.task]
    PROVE  Bracketed(Append(q, f))
BY DEF Bracketed

\* IInv makes the running tasks of a station unique.
LEMMA IInvSingleFlight == IInv => SingleFlight
BY DEF IInv, SingleFlight, TypeOK

\* A step that asserts no fact keeps AvailableLast and FeedbackOrder when
\* no task enters the cap window and no task changes station.
LEMMA QuietStepFeedback ==
    ASSUME FeedbackIInv, TypeOK', fb' = fb,
           \A u \in TaskId : /\ task'[u].at = task[u].at \/ task[u].pc \notin CapWindowPc
                             /\ task'[u].pc \in CapWindowPc => task[u].pc \in CapWindowPc
    PROVE  (AvailableLast /\ FeedbackOrder)'
BY DEF FeedbackIInv, AvailableLast, FeedbackOrder

\* Task t at a running program counter asserts a fact of kind k for its
\* station and moves to p; it may enter the cap window only with its
\* AVAILABLE, and it asserts DONE only from doneFb.
LEMMA FactStepFeedback ==
    ASSUME FeedbackIInv, TypeOK',
           NEW t \in TaskId, task[t].pc \notin {"none", "done"},
           NEW k \in {"AVAILABLE", "DONE", "DELIVERED"}, NEW p \in TaskPc,
           task' = [task EXCEPT ![t].pc = p],
           fb' = [fb EXCEPT ![task[t].at] = Append(@, [kind |-> k, task |-> t])],
           p \in CapWindowPc => k = "AVAILABLE",
           k = "DONE" => task[t].pc = "doneFb"
    PROVE  (AvailableLast /\ FeedbackOrder)'
<1> DEFINE s == task[t].at
<1>1. s \in Station /\ fb[s] \in Seq(Fact) /\ [kind |-> k, task |-> t] \in Fact
  BY DEF FeedbackIInv, IInv, TypeOK, TaskId, Fact
<1>2. fb'[s] = Append(fb[s], [kind |-> k, task |-> t])
      /\ \A r \in Station : r # s => fb'[r] = fb[r]
  BY <1>1 DEF FeedbackIInv, IInv, TypeOK
\* No other task is inside the cap window of t's station: single flight.
<1>3. \A u \in TaskId : u # t /\ task[u].pc \in CapWindowPc => task[u].at # s
  <2>1. SingleFlight
    BY IInvSingleFlight DEF FeedbackIInv
  <2>2. QED
    BY <2>1 DEF SingleFlight, Running, CapWindowPc
<1>4. AvailableLast'
  <2> SUFFICES ASSUME NEW u \in TaskId, task'[u].pc \in CapWindowPc
               PROVE  /\ fb'[task'[u].at] # <<>>
                      /\ fb'[task'[u].at][Len(fb'[task'[u].at])] = [kind |-> "AVAILABLE", task |-> u]
    BY DEF AvailableLast
  \* t enters the cap window only with the AVAILABLE it has just appended.
  <2>1. CASE u = t
    <3>1. task'[t].at = s /\ task'[t].pc = p
      BY DEF FeedbackIInv, IInv, TypeOK
    <3>2. k = "AVAILABLE"
      BY <2>1, <3>1
    <3>3. fb'[s] = Append(fb[s], [kind |-> "AVAILABLE", task |-> t])
      BY <1>2, <3>2
    <3>4. QED
      BY <2>1, <3>1, <3>3, <1>1
  <2>2. CASE u # t
    <3>1. task'[u] = task[u] /\ task[u].pc \in CapWindowPc
      BY <2>2 DEF FeedbackIInv, IInv, TypeOK
    <3>2. task[u].at \in Station /\ task[u].at # s
      BY <3>1, <2>2, <1>3 DEF FeedbackIInv, IInv, TypeOK, CapWindowPc, TaskId
    <3>3. QED
      BY <3>1, <3>2, <1>2 DEF FeedbackIInv, AvailableLast
  <2>3. QED
    BY <2>1, <2>2
<1>5. FeedbackOrder'
  <2>1. Bracketed(fb'[s])
    <3>1. k = "DONE" => fb[s] # <<>> /\ fb[s][Len(fb[s])] = [kind |-> "AVAILABLE", task |-> t]
      BY DEF FeedbackIInv, AvailableLast, CapWindowPc
    <3>2. Bracketed(fb[s])
      BY <1>1 DEF FeedbackIInv, FeedbackOrder
    <3>3. QED
      BY <1>1, <1>2, <3>1, <3>2, AppendBracketed
  <2>2. QED
    BY <2>1, <1>2 DEF FeedbackIInv, FeedbackOrder
<1>6. QED
  BY <1>4, <1>5

\* A task step that asserts nothing moves t's program counter into the cap
\* window only from inside it.
LEMMA TaskQuietFeedback ==
    ASSUME FeedbackIInv, TypeOK', NEW t \in TaskId, NEW p \in TaskPc,
           task' = [task EXCEPT ![t].pc = p], fb' = fb,
           p \in CapWindowPc => task[t].pc \in CapWindowPc
    PROVE  (AvailableLast /\ FeedbackOrder)'
<1>1. \A u \in TaskId : /\ task'[u].at = task[u].at
                        /\ task'[u].pc \in CapWindowPc => task[u].pc \in CapWindowPc
  BY DEF FeedbackIInv, IInv, TypeOK
<1>2. QED
  BY <1>1, QuietStepFeedback

\* A launch admitted by mutex_future_ready starts its task outside the cap
\* window and asserts nothing.
LEMMA LaunchFeedback ==
    ASSUME FeedbackIInv, TypeOK', NEW op \in AsyncOp, NEW m \in Station,
           NEW pc \in {"reset", "move", "mid"}, Launch(op, m, pc), fb' = fb
    PROVE  (AvailableLast /\ FeedbackOrder)'
<1> DEFINE n == nTask + 1
<1>1. n \in TaskId /\ task[n].pc = "none"
  BY DEF Launch, FeedbackIInv, IInv, TypeOK, TaskId
<1>2. \A u \in TaskId : /\ task'[u].at = task[u].at \/ task[u].pc \notin CapWindowPc
                        /\ task'[u].pc \in CapWindowPc => task[u].pc \in CapWindowPc
  BY <1>1 DEF Launch, FeedbackIInv, IInv, TypeOK, CapWindowPc
<1>3. QED
  BY <1>2, QuietStepFeedback

\* Every step keeps FeedbackIInv.
LEMMA NextFeedbackIInv == FeedbackIInv /\ [Next]_vars => FeedbackIInv'
<1> SUFFICES ASSUME FeedbackIInv, [Next]_vars PROVE FeedbackIInv'
  OBVIOUS
<1>1. IInv' /\ TypeOK'
  BY NextIInv DEF FeedbackIInv, IInv
<1>2. (AvailableLast /\ FeedbackOrder)'
  \* The rule engine's own steps, synchronous calls and refused calls
  \* touch neither the tasks nor the feedback.
  <2>1. CASE UNCHANGED <<task, fb>>
    BY <1>1, <2>1, QuietStepFeedback
  <2>2. ASSUME NEW op \in AsyncOp, NEW m \in Machine, NEW arg \in Arg,
               NEW pc \in {"reset", "move", "mid"}, AsyncCall(op, m, arg, pc)
        PROVE  (AvailableLast /\ FeedbackOrder)'
    <3>1. CASE UNCHANGED <<futs, task, nTask>>
      BY <1>1, <2>2, <3>1, QuietStepFeedback DEF AsyncCall
    <3>2. CASE m \in Station /\ Launch(op, m, pc)
      BY <1>1, <2>2, <3>2, LaunchFeedback DEF AsyncCall
    <3>3. QED
      BY <2>2, <3>1, <3>2 DEF AsyncCall
  <2>3. ASSUME NEW t \in TaskId,
               \/ ResetTask(t) \/ DeliverMove(t) \/ CsBandMid(t) \/ CsAction(t)
               \/ CsBandOut(t) \/ TaskReturn(t)
        PROVE  (AvailableLast /\ FeedbackOrder)'
    BY <1>1, <2>3, TaskQuietFeedback DEF ResetTask, DeliverMove, CsBandMid, CsAction,
       CsBandOut, TaskReturn, SetPc, CapWindowPc, TaskPc
  <2>4. ASSUME NEW t \in TaskId, DeliverFeedback(t) \/ CsAvailable(t) \/ CsDone(t)
        PROVE  (AvailableLast /\ FeedbackOrder)'
    <3>1. CASE DeliverFeedback(t)
      BY <1>1, <3>1, FactStepFeedback DEF DeliverFeedback, AssertFact, SetPc, CapWindowPc, TaskPc
    <3>2. CASE CsAvailable(t)
      BY <1>1, <3>2, FactStepFeedback DEF CsAvailable, AssertFact, SetPc, CapWindowPc, TaskPc
    <3>3. CASE CsDone(t)
      BY <1>1, <3>3, FactStepFeedback DEF CsDone, AssertFact, SetPc, CapWindowPc, TaskPc
    <3>4. QED
      BY <2>4, <3>1, <3>2, <3>3
  <2>5. QED
    <3>1. CASE \E m \in Machine :
                 MpsReset(m) \/ MpsDeliver(m) \/ (\E a \in Arg : MpsCsProcess(m, a))
      BY <3>1, <2>2 DEF MpsReset, MpsDeliver, MpsCsProcess, AsyncOp, Arg
    <3>2. QED
      BY <3>1, <2>1, <2>3, <2>4 DEF Next, vars, ClipsLock, ClipsUnlock, SyncReturn,
         SyncCall, MpsDsProcess, MpsRsMountRing, MpsCsRetrieveCap, MpsCsMountCap,
         MpsSetLights, MpsResetLights, MpsResetBaseCounter, MpsBsDispense,
         MpsMoveConveyor, MpsSetLight
<1>3. QED
  BY <1>1, <1>2 DEF FeedbackIInv

\* The start state has no feedback and no task in the cap window.
LEMMA InitFeedbackIInv == Init => FeedbackIInv
BY InitIInv DEF Init, FeedbackIInv, AvailableLast, FeedbackOrder, Bracketed, CapWindowPc

\* FeedbackIInv holds in every reachable state: while a cs_process task is
\* between its AVAILABLE and its DONE, its AVAILABLE is the last feedback
\* fact of its station.
THEOREM FeedbackIInvInvariant == Spec => []FeedbackIInv
BY InitFeedbackIInv, NextFeedbackIInv, PTL DEF Spec

\* The feedback of a cap operation brackets it, for every set of stations
\* and task bound: on each station a cs_process task's DONE comes right
\* after its own AVAILABLE, because mutex_future_ready keeps every other
\* reset, deliver and cs_process task off the station in between.
THEOREM FeedbackOrderInvariant == Spec => []FeedbackOrder
<1>1. FeedbackIInv => FeedbackOrder
  BY DEF FeedbackIInv
<1>2. QED
  BY <1>1, FeedbackIInvInvariant, PTL

=============================================================================
