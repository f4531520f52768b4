-------------------------- MODULE MpsStatusFeedback --------------------------
(***************************************************************************)
(* The status feedback router of setup_clips (src/unnamed/part_000, lines *)
(* 474-523) composed with the command dispatcher of MpsDispatch: both take *)
(* the one clips_mutex_.                                                   *)
(*                                                                         *)
(* For every machine, setup_clips registers callbacks on the READY, BUSY   *)
(* and BARCODE input registers, and on SLIDE-COUNTER for the machines      *)
(* named C-RS1, C-RS2, M-RS1 or M-RS2.  The OPC-UA client (not under src)  *)
(* queues the changes of the monitored registers of its station and runs   *)
(* their callbacks one at a time on its own thread; a callback takes       *)
(* clips_mutex_, asserts (mps-status-feedback <m> <reg> <value>) and       *)
(* releases it.  A change's value is its identity here: 1..MaxChange.      *)
(***************************************************************************)
EXTENDS MpsDispatch

CONSTANTS
    RingStation,    \* machines whose configured type is a ring station
    RingName,       \* machines whose name is one of the four tested ones
    MaxChange       \* bound on the number of register changes in a run

ASSUME RouterAssumption ==
    RingStation \subseteq Station /\ RingName \subseteq Station /\ MaxChange \in Nat

StatusRegister == {"READY", "BUSY", "BARCODE", "SLIDE-COUNTER"}

Note == [reg : StatusRegister, id : 1 .. MaxChange]

NoNote == [reg |-> "none", id |-> 0]

VARIABLES
    changes,    \* station -> every change of its status registers, in order
    pub,        \* station -> changes of monitored registers not yet dispatched
    cb,         \* station -> the change whose callback runs, or NoNote
    sfacts,     \* station -> the (mps-status-feedback ...) facts asserted
    nChange     \* number of changes so far

routerVars == <<changes, pub, cb, sfacts, nChange>>

allVars == <<vars, routerVars>>

RouterInit ==
    /\ Init
    /\ changes = [s \in Station |-> <<>>]
    /\ pub = [s \in Station |-> <<>>]
    /\ cb = [s \in Station |-> NoNote]
    /\ sfacts = [s \in Station |-> <<>>]
    /\ nChange = 0

\* Variant of Subscribed in which the slide-counter callback is never
\* registered.
SubscribedNoSlideCounter(s) == {"READY", "BUSY", "BARCODE"}

\* Variant of Subscribed that registers the slide-counter callback on every
\* machine.
SubscribedSlideCounterEverywhere(s) == StatusRegister

\* The registers setup_clips registers a callback for on machine s: the
\* slide counter only when the name is one of the four ring names ("TODO
\* proper MPS type check").
Subscribed(s) ==
    {"READY", "BUSY", "BARCODE"} \cup (IF s \in RingName THEN {"SLIDE-COUNTER"} ELSE {})

-----------------------------------------------------------------------------
(* The station and its OPC-UA client thread.                              *)

\* A status register of station s changes value; the client queues a
\* notification when a callback monitors that register.
RegisterChange(s, r) ==
    /\ nChange < MaxChange
    /\ nChange' = nChange + 1
    /\ changes' = [changes EXCEPT ![s] = Append(@, [reg |-> r, id |-> nChange + 1])]
    /\ pub' = IF r \in Subscribed(s)
                THEN [pub EXCEPT ![s] = Append(@, [reg |-> r, id |-> nChange + 1])]
                ELSE pub
    /\ UNCHANGED <<cb, sfacts, vars>>

\* The client thread of s takes the next notification and enters its
\* callback.
Notify(s) ==
    /\ cb[s] = NoNote
    /\ pub[s] # <<>>
    /\ cb' = [cb EXCEPT ![s] = Head(pub[s])]
    /\ pub' = [pub EXCEPT ![s] = Tail(@)]
    /\ UNCHANGED <<changes, sfacts, nChange, vars>>

\* The callback: fawkes::MutexLocker clips_lock(&clips_mutex_);
\* clips_->assert_fact_f("(mps-status-feedback %s <REG> %s)", ...); the lock
\* is released when the lambda returns.
StatusCallback(s) ==
    /\ cb[s] # NoNote
    /\ clips = "idle"
    /\ sfacts' = [sfacts EXCEPT ![s] = Append(@, cb[s])]
    /\ cb' = [cb EXCEPT ![s] = NoNote]
    /\ UNCHANGED <<changes, pub, nChange, vars>>

RouterStep(s) ==
    \/ \E r \in StatusRegister : RegisterChange(s, r)
    \/ Notify(s)
    \/ StatusCallback(s)

\* A step of the dispatcher leaves the router alone.
DispatchStep(A) == A /\ UNCHANGED routerVars

RouterNext == DispatchStep(Next) \/ \E s \in Station : RouterStep(s)

-----------------------------------------------------------------------------
(* Fairness.  A station call and a client's dispatch end.  A CLIPS run    *)
(* fires finitely many rules, so it ends although between its station    *)
(* calls it can only intermittently end: strong fairness.  A thread that  *)
(* waits for clips_mutex_ gets it when it is free infinitely often,       *)
(* because handle_timer holds it only for one CLIPS run per tick.  The    *)
(* rule engine's calls and the station's changes are not forced.         *)

TaskLockStep(t) == DeliverFeedback(t) \/ CsAvailable(t) \/ CsDone(t)

TaskOtherStep(t) ==
    \/ ResetTask(t) \/ DeliverMove(t) \/ CsBandMid(t) \/ CsAction(t)
    \/ CsBandOut(t) \/ TaskReturn(t)

RouterFairness ==
    /\ SF_allVars(DispatchStep(ClipsUnlock))
    /\ WF_allVars(DispatchStep(SyncReturn))
    /\ \A t \in TaskId : /\ WF_allVars(DispatchStep(TaskOtherStep(t)))
                         /\ SF_allVars(DispatchStep(TaskLockStep(t)))
    /\ \A s \in Station : WF_allVars(Notify(s)) /\ SF_allVars(StatusCallback(s))

RouterSpec == RouterInit /\ [][RouterNext]_allVars /\ RouterFairness

-----------------------------------------------------------------------------
(* Properties.                                                             *)

\* The registers spec section 4.5 subscribes: the slide counter for the
\* ring-station kinds.
SpecSubscribed(s) ==
    {"READY", "BUSY", "BARCODE"} \cup (IF s \in RingStation THEN {"SLIDE-COUNTER"} ELSE {})

\* The changes of station s the client has taken up and not yet seen
\* through: the one whose callback runs, then those still queued.
InFlight(s) == (IF cb[s] = NoNote THEN <<>> ELSE <<cb[s]>>) \o pub[s]

Channel == INSTANCE StatusChannel
               WITH Sub <- [s \in Station |-> SpecSubscribed(s)], Change <- Note,
                    queue <- [s \in Station |-> InFlight(s)], facts <- sfacts

\* Spec, Status Feedback Router: the callbacks implement the status
\* channel of the spec's subscriptions.  Every status fact asserted for a
\* station is the oldest change of a register the spec subscribes for it
\* that has not been asserted yet: no fact of an unsubscribed register, no
\* duplicate, no reordering, although the callbacks of all stations and
\* the dispatcher's tasks contend for clips_mutex_.
RefinesStatusChannel == Channel!Spec

SpecChanges(s) == SelectSeq(changes[s], LAMBDA n : n.reg \in SpecSubscribed(s))

\* Spec, Status Feedback Router: every value change of a subscribed
\* register becomes a status fact, even while CLIPS runs and command tasks
\* compete for clips_mutex_: once k such changes have happened on a
\* machine, it eventually has k status facts.
StatusDelivered ==
    \A s \in Station, k \in 1 .. MaxChange :
        Len(SpecChanges(s)) >= k ~> Len(sfacts[s]) >= k

=============================================================================
