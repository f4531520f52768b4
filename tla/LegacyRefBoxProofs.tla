------------------------- MODULE LegacyRefBoxProofs -------------------------
(***************************************************************************)
(* Proofs about LegacyRefBox for every bound: the type invariant, and that *)
(* no handle_timer tick starts once handle_signal has run.                 *)
(***************************************************************************)
EXTENDS LegacyRefBox, TLAPS

USE BoundsAssumption

\* The main thread on its way out after handle_signal: the destructor, its
\* (finalize) CLIPS run, the deletion of pb_comm_, the end.
ShuttingDown == pc \in {"dtor", "teardown", "exit"} \/ (pc = "run" /\ ret = "teardown")

\* A signal is only pending while run() serves the io_service, and once
\* handled the main thread is shutting down; a CLIPS run knows where it
\* returns.
IInv ==
    /\ TypeOK
    /\ pc = "run" => ret \in {"main", "rearm", "teardown"}
    /\ signal = "pending" => Serving
    /\ signal = "handled" => ShuttingDown

\* The constructor starts with no signal and no CLIPS run.
LEMMA InitIInv == Init => IInv
<1> SUFFICES ASSUME Init PROVE IInv
  OBVIOUS
<1>1. hooks \in BOOLEAN /\ clipsLog \in BOOLEAN
  BY Zenon DEF Init
<1>2. QED
  BY <1>1 DEF Init, IInv, TypeOK, ShuttingDown, Serving, CommThread, MainPc

\* The steps of the constructor, from configuration to start_clips, leave
\* the signal alone and never enter run() or the destructor.
LEMMA CtorIInv ==
    ASSUME IInv,
           CtorConfig \/ CtorSps \/ CtorMpsEntry \/ CtorSpsInit
           \/ SetupProtobufComm \/ SetupClips \/ CtorMongo \/ StartClips
    PROVE  IInv'
<1>1. CASE CtorConfig
  BY <1>1 DEF CtorConfig, Goto, IInv, TypeOK, Serving, ShuttingDown, MainPc
<1>2. CASE CtorSps
  BY <1>2 DEF CtorSps, IInv, TypeOK, Serving, ShuttingDown, MainPc
<1>3. CASE CtorMpsEntry
  BY <1>3 DEF CtorMpsEntry, IInv, TypeOK, Serving, ShuttingDown, MainPc
<1>4. CASE CtorSpsInit
  BY <1>4 DEF CtorSpsInit, IInv, TypeOK, Serving, ShuttingDown, MainPc
<1>5. CASE SetupProtobufComm
  BY <1>5 DEF SetupProtobufComm, IInv, TypeOK, Serving, ShuttingDown, MainPc
<1>6. CASE SetupClips
  BY <1>6 DEF SetupClips, Goto, IInv, TypeOK, Serving, ShuttingDown, MainPc
<1>7. CASE CtorMongo
  <2>1. hooks' \in BOOLEAN
    BY <1>7, Zenon DEF CtorMongo, IInv, TypeOK
  <2>2. QED
    BY <1>7, <2>1 DEF CtorMongo, IInv, TypeOK, Serving, ShuttingDown, MainPc
<1>8. CASE StartClips
  BY <1>8 DEF StartClips, IInv, TypeOK, Serving, ShuttingDown, MainPc
<1>9. QED
  BY <1>1, <1>2, <1>3, <1>4, <1>5, <1>6, <1>7, <1>8

\* The steps of run(), of the io_service handlers, of a CLIPS run and of
\* the destructor.
LEMMA LoopIInv ==
    ASSUME IInv,
           Run \/ HandleTimer \/ TimerRearm \/ HandleSignal \/ Destructor
           \/ Teardown \/ ClipsSend \/ ClipsSendDone \/ ClipsRunEnd
    PROVE  IInv'
<1>1. CASE Run
  BY <1>1 DEF Run, StartTimer, Goto, IInv, TypeOK, Serving, ShuttingDown, MainPc
<1>2. CASE HandleTimer
  <2>1. sps' \in {"null", "ok", "lost"}
    BY <1>2 DEF HandleTimer, SpsReadRfids, IInv, TypeOK
  <2>2. QED
    BY <1>2, <2>1 DEF HandleTimer, Goto, IInv, TypeOK, Serving, ShuttingDown, MainPc
<1>3. CASE TimerRearm
  BY <1>3 DEF TimerRearm, Goto, IInv, TypeOK, Serving, ShuttingDown, MainPc
\* handle_signal is the only step out of the io loop, and it handles the
\* pending signal on its way to the destructor.
<1>4. CASE HandleSignal
  BY <1>4 DEF HandleSignal, Goto, IInv, TypeOK, Serving, ShuttingDown, MainPc
<1>5. CASE Destructor
  BY <1>5 DEF Destructor, Goto, IInv, TypeOK, Serving, ShuttingDown, MainPc
<1>6. CASE Teardown
  BY <1>6 DEF Teardown, Goto, IInv, TypeOK, Serving, ShuttingDown, MainPc
<1>7. CASE ClipsSend \/ ClipsSendDone
  <2>1. clipsLog' \in BOOLEAN
    BY <1>7, Zenon DEF ClipsSend, ClipsSendDone
  <2>2. QED
    BY <1>7, <2>1 DEF ClipsSend, ClipsSendDone, IInv, TypeOK, Serving, ShuttingDown
\* The end of a CLIPS run returns to run(), to the io loop or to the
\* destructor's teardown, according to where it was started.
<1>8. CASE ClipsRunEnd
  BY <1>8 DEF ClipsRunEnd, IInv, TypeOK, Serving, ShuttingDown, MainPc
<1>9. QED
  BY <1>1, <1>2, <1>3, <1>4, <1>5, <1>6, <1>7, <1>8

\* The comm threads and the environment leave the main thread alone; a
\* signal arrives only while run() serves the io_service.
LEMMA OthersIInv ==
    ASSUME IInv,
           \/ \E c \in CommThread : CommReceive(c) \/ HandleReceivedMsg(c) \/ LogWriteDone(c)
           \/ ReachabilityChange \/ TimerExpire \/ Signal
    PROVE  IInv'
<1>1. CASE \E c \in CommThread : CommReceive(c) \/ HandleReceivedMsg(c) \/ LogWriteDone(c)
  BY <1>1 DEF CommReceive, HandleReceivedMsg, LogWriteDone, IInv, TypeOK,
     Serving, ShuttingDown
<1>2. CASE ReachabilityChange \/ TimerExpire \/ Signal
  <2>1. reachable' \in BOOLEAN
    BY <1>2, Zenon DEF ReachabilityChange, TimerExpire, Signal, IInv, TypeOK
  <2>2. QED
    BY <1>2, <2>1 DEF ReachabilityChange, TimerExpire, Signal, IInv, TypeOK,
       Serving, ShuttingDown
<1>3. QED
  BY <1>1, <1>2

LEMMA NextIInv == IInv /\ [Next]_vars => IInv'
<1> SUFFICES ASSUME IInv, [Next]_vars PROVE IInv'
  OBVIOUS
<1>1. CASE MainStep
  BY <1>1, CtorIInv, LoopIInv DEF MainStep
<1>2. CASE \/ \E c \in CommThread : CommReceive(c) \/ HandleReceivedMsg(c) \/ LogWriteDone(c)
           \/ ReachabilityChange \/ TimerExpire \/ Signal
  BY <1>2, OthersIInv
<1>3. CASE UNCHANGED vars
  BY <1>3 DEF vars, IInv, TypeOK, Serving, ShuttingDown
<1>4. QED
  BY <1>1, <1>2, <1>3 DEF Next

\* IInv holds in every reachable state of the legacy refbox.
THEOREM IInvInvariant == Spec => []IInv
BY InitIInv, NextIInv, PTL DEF Spec

\* Type correctness of every reachable state.
THEOREM TypeCorrect == Spec => []TypeOK
BY IInvInvariant, PTL DEF IInv

=============================================================================
