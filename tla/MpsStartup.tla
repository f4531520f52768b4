----------------------------- MODULE MpsStartup -----------------------------
(***************************************************************************)
(* Station bring-up in the LLSFRefBox constructor (src/unnamed/part_000,  *)
(* lines 166-240): the loop over /llsfrb/mps/stations/, create_machine and *)
(* the insertion into mps_, one std::async connect_PLC task per active     *)
(* station, and the loop that waits for those futures and throws on the   *)
(* first failed connect.                                                   *)
(*                                                                         *)
(* The configuration is an input: Init chooses it.  A station's entry is   *)
(* "ok" when its type, host and port are present and create_machine       *)
(* accepts the type; otherwise reading it throws.  The config iterator     *)
(* visits every key of a station; only the first visit of a name does      *)
(* anything, so a visit here is the first visit of a name.                 *)
(***************************************************************************)
EXTENDS FiniteSets

CONSTANT Name   \* station names under /llsfrb/mps/stations/

Outcome == {"ok", "failed", "crashed"}

VARIABLES
    enable,     \* /llsfrb/mps/enable: "yes", "no" or "missing"
    active,     \* name -> the station's "active" flag (default true)
    entry,      \* name -> "ok", or "bad": get_string/get_uint or create_machine throws
    pc,         \* the constructor: "enable", "loop", "create", "insert", "wait",
                \* "unwind", or an outcome
    cur,        \* cfg_name of the loop iteration in "create" / "insert"
    configs,    \* mps_configs: names whose machine was created
    ignored,    \* ignored_mps_configs: inactive names
    mps,        \* the keys of mps_
    inserting,  \* mps_[cfg_name] = std::move(mps) is modifying the map
    conn,       \* name -> connect task: "none", "lookup" (about to evaluate
                \* mps_[cfg_name]), "connecting", or its result "true"/"false"
    waited,     \* names whose future the wait loop found true
    error,      \* why the constructor throws: "none", "config", or the name
                \* of the station that failed to connect
    race        \* auxiliary: a task evaluated mps_[...] while it was modified

vars == <<enable, active, entry, pc, cur, configs, ignored, mps, inserting,
          conn, waited, error, race>>

ConnState == {"none", "lookup", "connecting", "true", "false"}

TypeOK ==
    /\ enable \in {"yes", "no", "missing"}
    /\ active \in [Name -> BOOLEAN]
    /\ entry \in [Name -> {"ok", "bad"}]
    /\ pc \in {"enable", "loop", "create", "insert", "wait", "unwind"} \cup Outcome
    /\ cur \in Name \cup {"none"}
    /\ configs \subseteq Name /\ ignored \subseteq Name /\ mps \subseteq Name
    /\ inserting \in BOOLEAN
    /\ conn \in [Name -> ConnState]
    /\ waited \subseteq Name
    /\ error \in Name \cup {"none", "config"}
    /\ race \in BOOLEAN

Init ==
    /\ enable \in {"yes", "no", "missing"}
    /\ active \in [Name -> BOOLEAN]
    /\ entry \in [Name -> {"ok", "bad"}]
    /\ pc = "enable"
    /\ cur = "none"
    /\ configs = {} /\ ignored = {} /\ mps = {}
    /\ inserting = FALSE
    /\ conn = [n \in Name |-> "none"]
    /\ waited = {}
    /\ error = "none"
    /\ race = FALSE

Config == <<enable, active, entry>>

Launched == {n \in Name : conn[n] # "none"}

Finished(n) == conn[n] \in {"true", "false"}

-----------------------------------------------------------------------------
(* The constructor's thread.                                               *)

\* if (config_->get_bool("/llsfrb/mps/enable")): a missing key throws, and
\* the surrounding catch rethrows it.
ReadEnable ==
    /\ pc = "enable"
    /\ \/ enable = "yes" /\ pc' = "loop" /\ UNCHANGED error
       \/ enable = "no" /\ pc' = "ok" /\ UNCHANGED error
       \/ enable = "missing" /\ pc' = "failed" /\ error' = "config"
    /\ UNCHANGED <<Config, cur, configs, ignored, mps, inserting, conn, waited, race>>

\* The first visit of cfg_name: an inactive station is ignored, an active
\* one goes on to create_machine.
Visit(n) ==
    /\ pc = "loop"
    /\ n \notin configs \cup ignored
    /\ \/ ~active[n] /\ ignored' = ignored \cup {n} /\ UNCHANGED <<pc, cur>>
       \/ active[n] /\ pc' = "create" /\ cur' = n /\ UNCHANGED ignored
    /\ UNCHANGED <<Config, configs, mps, inserting, conn, waited, error, race>>

\* get_string(type/host), get_uint(port), create_machine(...), then
\* mps_[cfg_name] = ... begins to modify the map.  A throw leaves the loop
\* with the connect tasks launched so far still running.
CreateMachine ==
    /\ pc = "create"
    /\ \/ entry[cur] = "ok" /\ pc' = "insert" /\ inserting' = TRUE /\ UNCHANGED error
       \/ entry[cur] = "bad" /\ pc' = "unwind" /\ error' = "config" /\ UNCHANGED inserting
    /\ UNCHANGED <<Config, cur, configs, ignored, mps, conn, waited, race>>

\* The assignment into mps_ completes; mps_configs.insert(cfg_name);
\* mps_connections[cfg_name] = std::async(... connect_PLC ...).
LaunchConnect ==
    /\ pc = "insert"
    /\ inserting' = FALSE
    /\ mps' = mps \cup {cur}
    /\ configs' = configs \cup {cur}
    /\ conn' = [conn EXCEPT ![cur] = "lookup"]
    /\ pc' = "loop"
    /\ cur' = "none"
    /\ UNCHANGED <<Config, ignored, waited, error, race>>

\* i->next() returns false: every name has been visited.
EndLoop ==
    /\ pc = "loop"
    /\ configs \cup ignored = Name
    /\ pc' = "wait"
    /\ UNCHANGED <<Config, cur, configs, ignored, mps, inserting, conn, waited, error, race>>

\* Variant of WaitConnection that logs a failed connect and goes on as if
\* it had succeeded.
WaitConnectionIgnoringResult(n) ==
    /\ pc = "wait"
    /\ n \in configs \ waited
    /\ Finished(n)
    /\ waited' = waited \cup {n}
    /\ UNCHANGED <<Config, pc, cur, configs, ignored, mps, inserting, conn, error, race>>

\* Variant of WaitConnection that waits for a future to hold true, as a
\* loop retrying fut.get() would.
WaitConnectionUntilConnected(n) ==
    /\ pc = "wait"
    /\ n \in configs \ waited
    /\ conn[n] = "true"
    /\ waited' = waited \cup {n}
    /\ UNCHANGED <<Config, pc, cur, configs, ignored, mps, inserting, conn, error, race>>

\* for (auto &[name, fut] : mps_connections) { fut.wait(); if (fut.get())
\* ... else throw }.  The iteration order of the unordered_map is
\* unspecified, so any future not yet examined may come next.
WaitConnection(n) ==
    /\ pc = "wait"
    /\ n \in configs \ waited
    /\ Finished(n)
    /\ \/ conn[n] = "true" /\ waited' = waited \cup {n} /\ UNCHANGED <<pc, error>>
       \/ conn[n] = "false" /\ pc' = "unwind" /\ error' = n /\ UNCHANGED waited
    /\ UNCHANGED <<Config, cur, configs, ignored, mps, inserting, conn, race>>

\* Every future has been found true: "Connected to all machines".
AllConnected ==
    /\ pc = "wait"
    /\ waited = configs
    /\ pc' = "ok"
    /\ UNCHANGED <<Config, cur, configs, ignored, mps, inserting, conn, waited, error, race>>

\* The exception leaves the block: the destructor of mps_connections
\* destroys each std::async future, which blocks until its task returns.
Unwind ==
    /\ pc = "unwind"
    /\ \A n \in Launched : Finished(n)
    /\ pc' = "failed"
    /\ UNCHANGED <<Config, cur, configs, ignored, mps, inserting, conn, waited, error, race>>

-----------------------------------------------------------------------------
(* The connect tasks.                                                      *)

\* The lambda evaluates mps_[cfg_name], a non-const operator[] on the map
\* the constructor may be inserting into at that moment.  Concurrent with
\* an insertion this is a data race: the lookup may find the machine, or
\* the process may crash on a map in mid-rehash.
Lookup(n) ==
    /\ conn[n] = "lookup"
    /\ pc # "crashed"
    /\ race' = (race \/ inserting)
    /\ \/ conn' = [conn EXCEPT ![n] = "connecting"] /\ UNCHANGED pc
       \/ inserting /\ pc' = "crashed" /\ UNCHANGED conn
    /\ UNCHANGED <<Config, cur, configs, ignored, mps, inserting, waited, error>>

\* ->connect_PLC() returns whether the OPC-UA session came up.
Connect(n) ==
    /\ conn[n] = "connecting"
    /\ pc # "crashed"
    /\ \E r \in {"true", "false"} : conn' = [conn EXCEPT ![n] = r]
    /\ UNCHANGED <<Config, pc, cur, configs, ignored, mps, inserting, waited, error, race>>

-----------------------------------------------------------------------------
MainStep ==
    \/ ReadEnable \/ CreateMachine \/ LaunchConnect \/ EndLoop
    \/ AllConnected \/ Unwind
    \/ \E n \in Name : Visit(n) \/ WaitConnection(n)

TaskStep(n) == Lookup(n) \/ Connect(n)

Next == MainStep \/ \E n \in Name : TaskStep(n)

\* The constructor's thread and every connect thread are scheduled by the
\* OS; connect_PLC is bounded by the transport's timeouts.
Fairness == WF_vars(MainStep) /\ \A n \in Name : WF_vars(TaskStep(n))

Spec == Init /\ [][Next]_vars /\ Fairness

-----------------------------------------------------------------------------
(* Properties.                                                             *)

\* Spec, Connection: start-up succeeds only if every active station
\* connected.  When the constructor gets past the bring-up block with the
\* MPS enabled, the wait loop has seen connect_PLC return true for every
\* active station of the configuration.
StartupOutcome ==
    pc = "ok" /\ enable = "yes" => \A n \in Name : active[n] => conn[n] = "true"

\* Bring-up ends: the constructor gets past the MPS block, throws, or the
\* process dies, once every connect_PLC call has returned.
StartupTerminates == <>(pc \in Outcome)

\* No connect task evaluates mps_[cfg_name] while the constructor's thread
\* is inserting into mps_.
NoMapRace == ~race

\* Spec, testable properties: an unknown station kind (or a missing field)
\* aborts start-up with a configuration error before any connection
\* attempt.
ConfigErrorBeforeConnect == error = "config" => Launched = {}

=============================================================================
