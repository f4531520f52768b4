---------------------------- MODULE LegacyRefBox ----------------------------
(***************************************************************************)
(* The LLSF RefBox main program on the SPS/Modbus station interface,      *)
(* src/src/refbox/refbox.cpp.  Three kinds of thread share the object:     *)
(*                                                                         *)
(*  - the main thread runs the constructor (configuration, SPS or MPS      *)
(*    bring-up, protobuf server, CLIPS, MongoDB, start_clips), then run(): *)
(*    the io_service loop that dispatches handle_timer and handle_signal,  *)
(*    and finally the destructor;                                          *)
(*  - the protobuf server thread and the broadcast peer thread, started    *)
(*    by setup_protobuf_comm, assert each received message into CLIPS      *)
(*    under clips_mutex_; the server thread then calls the MongoDB        *)
(*    logging handler (the peer handler is never connected, see below);   *)
(*  - the environment: the SPS hosts come and go, the timer expires, a     *)
(*    SIGINT/SIGTERM arrives.                                              *)
(*                                                                         *)
(* Every clips_mutex_ scope of the main thread except a CLIPS run is one   *)
(* step; a CLIPS run (pc = "run") holds the mutex across several steps,    *)
(* during which CLIPS may send messages (the "sent" logging handlers).     *)
(***************************************************************************)
EXTENDS Naturals

CONSTANTS
    MpsCount,   \* /llsfrb/mps/count: entries the MPS bring-up loop reads
    MaxMsg,     \* bound on protobuf messages received or sent
    MaxFlip     \* bound on changes of SPS reachability

ASSUME BoundsAssumption == MpsCount \in Nat /\ MaxMsg \in Nat /\ MaxFlip \in Nat

\* The threads of pb_comm_: the ProtobufStreamServer and the broadcast peer.
CommThread == {"server", "peer"}

MainPc == {"config", "sps", "mpsLoop", "spsInit", "clips", "setupClips",
           "mongo", "start", "main", "io", "rearm", "run", "dtor",
           "teardown", "exit", "aborted", "crashed"}

VARIABLES
    pc,         \* the main thread
    ret,        \* where the CLIPS run in progress on the main thread returns
    spsEnable,  \* /llsfrb/sps/enable
    sps,        \* sps_: "null", or the SPSComm session, "ok" or "lost"
    reachable,  \* whether the SPS hosts answer
    nMps,       \* stations inserted into mps_ by the MPS bring-up loop
    comm,       \* pb_comm_: "none", "live" (its threads run), "deleted"
    hooks,      \* the MongoDB logging handlers are connected to pb_comm_
    cpc,        \* per comm thread: "idle", "handlers" (after the CLIPS
                \* assert, before the logging handler), "log" (in write)
    clipsLog,   \* the main thread is in mongodb_protobuf_->write
    timer,      \* timer_: "none", "armed", "expired" (handler queued with
                \* success), "aborted" (handler queued with operation_aborted)
    signal,     \* "none", "pending" (handler queued), "handled"
    nMsg,       \* messages received or sent so far
    nFlip       \* reachability changes so far

vars == <<pc, ret, spsEnable, sps, reachable, nMps, comm, hooks, cpc, clipsLog,
          timer, signal, nMsg, nFlip>>

TypeOK ==
    /\ pc \in MainPc
    /\ ret \in {"none", "main", "rearm", "teardown"}
    /\ spsEnable \in BOOLEAN /\ reachable \in BOOLEAN
    /\ sps \in {"null", "ok", "lost"}
    /\ nMps \in 0..MpsCount
    /\ comm \in {"none", "live", "deleted"}
    /\ hooks \in BOOLEAN /\ clipsLog \in BOOLEAN
    /\ cpc \in [CommThread -> {"idle", "handlers", "log"}]
    /\ timer \in {"none", "armed", "expired", "aborted"}
    /\ signal \in {"none", "pending", "handled"}
    /\ nMsg \in 0..MaxMsg /\ nFlip \in 0..MaxFlip

\* The main thread inside run(), serving the io_service.
Serving == pc \in {"io", "rearm"} \/ (pc = "run" /\ ret = "rearm")

\* A CLIPS run of the main thread holds the recursive clips_mutex_.
MainHoldsLock == pc = "run"

\* The object as the constructor finds it: pb_comm_ = NULL, sps_ unset.
Init ==
    /\ pc = "config" /\ ret = "none"
    /\ spsEnable \in BOOLEAN /\ reachable \in BOOLEAN
    /\ sps = "null" /\ nMps = 0
    /\ comm = "none" /\ hooks = FALSE
    /\ cpc = [c \in CommThread |-> "idle"] /\ clipsLog = FALSE
    /\ timer = "none" /\ signal = "none"
    /\ nMsg = 0 /\ nFlip = 0

Goto(from, to) == pc = from /\ pc' = to

(***************************************************************************)
(* The constructor.                                                        *)
(***************************************************************************)
\* Loading config.yaml and the timer interval: a missing key rethrows.
CtorConfig ==
    /\ \E ok \in BOOLEAN : Goto("config", IF ok THEN "sps" ELSE "aborted")
    /\ UNCHANGED <<ret, spsEnable, sps, reachable, nMps, comm, hooks, cpc,
                   clipsLog, timer, signal, nMsg, nFlip>>

\* The SPS section: disabled; SPSComm on /llsfrb/sps/hosts with the 2014
\* assignment (its constructor connects, a failure lands in the catch and
\* the refbox runs without SPS); otherwise the MPS-count loop.
CtorSps ==
    /\ pc = "sps"
    /\ \/ ~spsEnable /\ pc' = "clips" /\ UNCHANGED sps
       \/ spsEnable /\ reachable /\ sps' = "ok" /\ pc' = "spsInit"
       \/ spsEnable /\ ~reachable /\ pc' = "clips" /\ UNCHANGED sps
       \/ spsEnable /\ pc' = "mpsLoop" /\ UNCHANGED sps
    /\ UNCHANGED <<ret, spsEnable, reachable, nMps, comm, hooks, cpc, clipsLog,
                   timer, signal, nMsg, nFlip>>

\* The MPS-count loop written with i <= count: one entry too many.
CtorMpsEntryOffByOne ==
    /\ pc = "mpsLoop"
    /\ \/ nMps = MpsCount + 1 /\ pc' = "spsInit" /\ UNCHANGED nMps
       \/ nMps <= MpsCount /\ nMps' = nMps + 1 /\ UNCHANGED pc
       \/ nMps <= MpsCount /\ pc' = "clips" /\ UNCHANGED nMps
    /\ UNCHANGED <<ret, spsEnable, sps, reachable, comm, hooks, cpc, clipsLog,
                   timer, signal, nMsg, nFlip>>

\* One iteration of the MPS-count loop: a known type (1..4) inserts a
\* station into mps_; an unknown type or a missing key throws into the
\* catch.  The loop leaves sps_ NULL.
CtorMpsEntry ==
    /\ pc = "mpsLoop"
    /\ \/ nMps = MpsCount /\ pc' = "spsInit" /\ UNCHANGED nMps
       \/ nMps < MpsCount /\ nMps' = nMps + 1 /\ UNCHANGED pc
       \/ nMps < MpsCount /\ pc' = "clips" /\ UNCHANGED nMps
    /\ UNCHANGED <<ret, spsEnable, sps, reachable, comm, hooks, cpc, clipsLog,
                   timer, signal, nMsg, nFlip>>

\* sps_->reset_lights(), reset_rfids(), test_lights(): a NULL sps_ crashes
\* the process (a segfault, outside the catch); a failing SPS call lands in
\* the catch, which deletes sps_.
CtorSpsInit ==
    /\ pc = "spsInit"
    /\ \/ sps = "null" /\ pc' = "crashed" /\ UNCHANGED sps
       \/ sps = "ok" /\ reachable /\ pc' = "clips" /\ UNCHANGED sps
       \/ sps # "null" /\ ~(sps = "ok" /\ reachable) /\ pc' = "clips" /\ sps' = "null"
    /\ UNCHANGED <<ret, spsEnable, reachable, nMps, comm, hooks, cpc, clipsLog,
                   timer, signal, nMsg, nFlip>>

\* setup_protobuf_comm: the communicator and its server; a runtime_error
\* deletes config_, sps_ and pb_comm_ and is rethrown.
SetupProtobufComm ==
    /\ pc = "clips"
    /\ \/ comm' = "live" /\ pc' = "setupClips" /\ UNCHANGED sps
       \/ pc' = "aborted" /\ sps' = "null" /\ UNCHANGED comm
    /\ UNCHANGED <<ret, spsEnable, reachable, nMps, hooks, cpc, clipsLog,
                   timer, signal, nMsg, nFlip>>

\* setup_clips: one clips_mutex_ scope that builds the environment.
SetupClips ==
    /\ Goto("setupClips", "mongo")
    /\ UNCHANGED <<ret, spsEnable, sps, reachable, nMps, comm, hooks, cpc,
                   clipsLog, timer, signal, nMsg, nFlip>>

\* /llsfrb/mongodb/enable: when set, connect (a failure throws out of the
\* constructor), setup_clips_mongodb, and connect the logging handlers.
CtorMongo ==
    /\ pc = "mongo"
    /\ \/ pc' = "start" /\ UNCHANGED hooks
       \/ pc' = "start" /\ hooks' = TRUE
       \/ pc' = "aborted" /\ UNCHANGED hooks
    /\ UNCHANGED <<ret, spsEnable, sps, reachable, nMps, comm, cpc, clipsLog,
                   timer, signal, nMsg, nFlip>>

\* start_clips: init.clp failing throws; else assert (init) and run CLIPS.
StartClips ==
    /\ pc = "start"
    /\ \/ pc' = "run" /\ ret' = "main"
       \/ pc' = "aborted" /\ UNCHANGED ret
    /\ UNCHANGED <<spsEnable, sps, reachable, nMps, comm, hooks, cpc, clipsLog,
                   timer, signal, nMsg, nFlip>>

(***************************************************************************)
(* run(), the io_service handlers and the destructor.                      *)
(***************************************************************************)
\* start_timer: arm timer_ for one interval.
StartTimer == timer' = "armed"

\* run(): wait for SIGINT/SIGTERM, start the timer, run the io_service.
Run ==
    /\ Goto("main", "io") /\ StartTimer
    /\ UNCHANGED <<ret, spsEnable, sps, reachable, nMps, comm, hooks, cpc,
                   clipsLog, signal, nMsg, nFlip>>

\* sps_read_rfids that logs a failed read and never calls try_reconnect.
SpsReadRfidsNoReconnect ==
    \/ sps = "null" /\ UNCHANGED sps
    \/ sps = "ok" /\ reachable /\ UNCHANGED sps
    \/ sps # "null" /\ ~(sps = "ok" /\ reachable) /\ sps' = "lost"

\* sps_read_rfids: without sps_ nothing happens; a read on a live session
\* asserts the rfid-input facts; a failing read calls try_reconnect once,
\* which succeeds exactly when the hosts answer.
SpsReadRfids ==
    \/ sps = "null" /\ UNCHANGED sps
    \/ sps = "ok" /\ reachable /\ UNCHANGED sps
    \/ sps # "null" /\ ~(sps = "ok" /\ reachable)
       /\ sps' = IF reachable THEN "ok" ELSE "lost"

\* handle_timer without error: sps_read_rfids, then under clips_mutex_
\* assert (time (now)) and run CLIPS.
HandleTimer ==
    /\ timer = "expired" /\ timer' = "none"
    /\ Goto("io", "run") /\ ret' = "rearm"
    /\ SpsReadRfids
    /\ UNCHANGED <<spsEnable, reachable, nMps, comm, hooks, cpc, clipsLog,
                   signal, nMsg, nFlip>>

\* The end of handle_timer: expires_at + interval and async_wait again.
TimerRearm ==
    /\ Goto("rearm", "io") /\ timer' = "armed"
    /\ UNCHANGED <<ret, spsEnable, sps, reachable, nMps, comm, hooks, cpc,
                   clipsLog, signal, nMsg, nFlip>>

\* handle_signal that cancels the timer but does not stop the io_service.
HandleSignalNoStop ==
    /\ signal = "pending" /\ signal' = "handled"
    /\ timer' = IF timer = "armed" THEN "aborted" ELSE timer
    /\ pc = "io" /\ UNCHANGED pc
    /\ UNCHANGED <<ret, spsEnable, sps, reachable, nMps, comm, hooks, cpc,
                   clipsLog, nMsg, nFlip>>

\* handle_signal: timer_.cancel() (only a pending wait is aborted, an
\* expired one keeps its queued handler) and io_service_.stop(): run()
\* returns and the object is destroyed.
HandleSignal ==
    /\ signal = "pending" /\ signal' = "handled"
    /\ timer' = IF timer = "armed" THEN "aborted" ELSE timer
    /\ Goto("io", "dtor")
    /\ UNCHANGED <<ret, spsEnable, sps, reachable, nMps, comm, hooks, cpc,
                   clipsLog, nMsg, nFlip>>

\* ~LLSFRefBox, first part: cancel the timer, then under clips_mutex_
\* assert (finalize) and run CLIPS.
Destructor ==
    /\ Goto("dtor", "run") /\ ret' = "teardown"
    /\ timer' = IF timer = "armed" THEN "aborted" ELSE timer
    /\ UNCHANGED <<spsEnable, sps, reachable, nMps, comm, hooks, cpc, clipsLog,
                   signal, nMsg, nFlip>>

\* ~LLSFRefBox, second part: delete pb_comm_ (which stops and joins its
\* threads), then sps_ and clips_.
Teardown ==
    /\ \A c \in CommThread : cpc[c] = "idle"
    /\ Goto("teardown", "exit") /\ comm' = "deleted" /\ sps' = "null"
    /\ UNCHANGED <<ret, spsEnable, reachable, nMps, hooks, cpc, clipsLog,
                   timer, signal, nMsg, nFlip>>

\* A CLIPS run on the main thread sends a message; with the logging hooks
\* connected, handle_server_sent_msg / handle_client_sent_msg write it to
\* mongodb_protobuf_ on this thread.
ClipsSend ==
    /\ pc = "run" /\ hooks /\ ~clipsLog /\ nMsg < MaxMsg
    /\ clipsLog' = TRUE /\ nMsg' = nMsg + 1
    /\ UNCHANGED <<pc, ret, spsEnable, sps, reachable, nMps, comm, hooks, cpc,
                   timer, signal, nFlip>>

ClipsSendDone ==
    /\ clipsLog /\ clipsLog' = FALSE
    /\ UNCHANGED <<pc, ret, spsEnable, sps, reachable, nMps, comm, hooks, cpc,
                   timer, signal, nMsg, nFlip>>

\* The CLIPS run ends and releases clips_mutex_.
ClipsRunEnd ==
    /\ pc = "run" /\ ~clipsLog /\ pc' = ret /\ ret' = "none"
    /\ UNCHANGED <<spsEnable, sps, reachable, nMps, comm, hooks, cpc, clipsLog,
                   timer, signal, nMsg, nFlip>>

(***************************************************************************)
(* The threads of pb_comm_.                                                *)
(***************************************************************************)
\* The communicator asserts a received message into CLIPS under
\* clips_mutex_ (one step: it holds the mutex for nothing else).
CommReceive(c) ==
    /\ comm = "live" /\ cpc[c] = "idle" /\ ~MainHoldsLock /\ nMsg < MaxMsg
    /\ cpc' = [cpc EXCEPT ![c] = "handlers"] /\ nMsg' = nMsg + 1
    /\ UNCHANGED <<pc, ret, spsEnable, sps, reachable, nMps, comm, hooks,
                   clipsLog, timer, signal, nFlip>>

\* The comm threads whose signal_received reaches a logging handler once
\* setup_clips_mongodb has run: the server (handle_server_client_msg).
\* handle_peer_msg is connected to the peers that exist at that moment,
\* and the broadcast peer is created later by CLIPS, so it logs nothing.
LoggingThread == {"server"}

\* The next slot of signal_received: the logging handler, when connected.
HandleReceivedMsg(c) ==
    /\ cpc[c] = "handlers"
    /\ cpc' = [cpc EXCEPT ![c] = IF hooks /\ c \in LoggingThread THEN "log" ELSE "idle"]
    /\ UNCHANGED <<pc, ret, spsEnable, sps, reachable, nMps, comm, hooks,
                   clipsLog, timer, signal, nMsg, nFlip>>

LogWriteDone(c) ==
    /\ cpc[c] = "log" /\ cpc' = [cpc EXCEPT ![c] = "idle"]
    /\ UNCHANGED <<pc, ret, spsEnable, sps, reachable, nMps, comm, hooks,
                   clipsLog, timer, signal, nMsg, nFlip>>

(***************************************************************************)
(* The environment.                                                        *)
(***************************************************************************)
ReachabilityChange ==
    /\ nFlip < MaxFlip /\ reachable' = ~reachable /\ nFlip' = nFlip + 1
    /\ UNCHANGED <<pc, ret, spsEnable, sps, nMps, comm, hooks, cpc, clipsLog,
                   timer, signal, nMsg>>

TimerExpire ==
    /\ timer = "armed" /\ timer' = "expired"
    /\ UNCHANGED <<pc, ret, spsEnable, sps, reachable, nMps, comm, hooks, cpc,
                   clipsLog, signal, nMsg, nFlip>>

\* SIGINT or SIGTERM, once run() waits for it.
Signal ==
    /\ Serving /\ signal = "none" /\ signal' = "pending"
    /\ UNCHANGED <<pc, ret, spsEnable, sps, reachable, nMps, comm, hooks, cpc,
                   clipsLog, timer, nMsg, nFlip>>

MainStep ==
    \/ CtorConfig \/ CtorSps \/ CtorMpsEntry \/ CtorSpsInit
    \/ SetupProtobufComm \/ SetupClips \/ CtorMongo \/ StartClips
    \/ Run \/ HandleTimer \/ TimerRearm \/ HandleSignal
    \/ Destructor \/ Teardown \/ ClipsSend \/ ClipsSendDone \/ ClipsRunEnd

Next ==
    \/ MainStep
    \/ \E c \in CommThread : CommReceive(c) \/ HandleReceivedMsg(c) \/ LogWriteDone(c)
    \/ ReachabilityChange \/ TimerExpire \/ Signal

\* The main thread and the comm threads' handlers progress; the timer
\* expires once armed.  The io_service runs queued handlers in completion
\* order, so a queued handle_signal is not overtaken forever by timer
\* handlers queued after it: strong fairness, as it is enabled only
\* between two ticks.  Reachability, signals and incoming messages are the
\* environment's and are not fair.
Fairness ==
    /\ WF_vars(MainStep) /\ SF_vars(HandleSignal) /\ WF_vars(TimerExpire)
    /\ \A c \in CommThread : WF_vars(HandleReceivedMsg(c)) /\ WF_vars(LogWriteDone(c))

Spec == Init /\ [][Next]_vars /\ Fairness

(***************************************************************************)
(* Properties.                                                             *)
(***************************************************************************)
\* RFID polling recovers the SPS: when the hosts answer for good while the
\* io_service runs, the failed reads of sps_read_rfids and its one
\* try_reconnect per timer tick leave the session connected for good.
SpsRecovers == <>[](reachable /\ Serving) => <>[](sps # "lost")

\* A SIGINT/SIGTERM ends the process: handle_signal's cancel and stop make
\* run() return, the destructor runs (finalize) and deletes pb_comm_ once
\* its threads are out of their logging handlers.
SignalStops == signal = "pending" ~> pc = "exit"

\* The constructor never calls into a NULL sps_ (the MPS-count branch of
\* the SPS section leaves sps_ NULL and goes on to sps_->reset_lights()).
NoNullSpsCall == pc # "crashed"

\* A constructor that throws leaves no protobuf server running: its threads
\* would lock clips_mutex_ and assert into clips_ of a destroyed object.
AbortStopsServer == pc = "aborted" => comm # "live"

\* At most one thread at a time writes to mongodb_protobuf_: the server
\* thread (handle_server_client_msg, outside clips_mutex_) and the CLIPS
\* thread (handle_server_sent_msg, handle_client_sent_msg, under it).
LogWriteExclusive ==
    LET writers == {c \in CommThread : cpc[c] = "log"} \cup (IF clipsLog THEN {"clips"} ELSE {})
    IN  \A w1, w2 \in writers : w1 = w2

=============================================================================
