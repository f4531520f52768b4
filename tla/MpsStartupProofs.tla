-------------------------- MODULE MpsStartupProofs --------------------------
(***************************************************************************)
(* Proofs about MpsStartup for every set of configured stations: the      *)
(* constructor reports success only after every active station connected, *)
(* and it never leaves the bring-up block with a connect task running.     *)
(***************************************************************************)
EXTENDS MpsStartup, TLAPS

\* The wait loop only records futures that held true; the stations a
\* launch started are exactly those in mps_configs; inactive stations are
\* the ignored ones; once the loop is over every name was visited; and
\* the loops run only with the MPS enabled; and the constructor is past
\* the block only when the futures were joined.
IInv ==
    /\ TypeOK
    /\ Launched = configs
    /\ waited \subseteq configs
    /\ \A n \in waited : conn[n] = "true"
    /\ \A n \in ignored : ~active[n]
    /\ pc \in {"create", "insert"} => cur \in Name \ (configs \cup ignored)
    /\ enable # "yes" => configs = {}
    /\ pc \in {"loop", "create", "insert", "wait", "unwind"} => enable = "yes"
    /\ pc = "wait" => configs \cup ignored = Name
    /\ pc = "ok" => waited = configs /\ (enable = "yes" => configs \cup ignored = Name)
    /\ pc = "failed" => \A n \in Launched : Finished(n)

\* Every component of the start state has its type.
LEMMA InitTypeOK == Init => TypeOK
<1> SUFFICES ASSUME Init PROVE TypeOK
  OBVIOUS
<1>1. inserting \in BOOLEAN /\ race \in BOOLEAN
  BY Zenon DEF Init
<1>2. QED
  BY <1>1 DEF Init, TypeOK, ConnState, Outcome

LEMMA InitIInv == Init => IInv
BY InitTypeOK DEF Init, IInv, Launched, Finished

\* The two Boolean variables the constructor and the tasks set keep their
\* type.
LEMMA BooleansStay ==
    ASSUME TypeOK, [Next]_vars
    PROVE  inserting' \in BOOLEAN /\ race' \in BOOLEAN /\ active' \in [Name -> BOOLEAN]
BY Zenon DEF TypeOK, Next, vars, MainStep, TaskStep, ReadEnable, Visit, CreateMachine,
   LaunchConnect, EndLoop, WaitConnection, AllConnected, Unwind, Lookup, Connect, Config

\* Steps of the constructor's thread.
LEMMA MainIInv == IInv /\ MainStep => IInv'
<1> SUFFICES ASSUME IInv, MainStep PROVE IInv'
  OBVIOUS
<1>1. inserting' \in BOOLEAN /\ race' \in BOOLEAN /\ active' \in [Name -> BOOLEAN]
  BY BooleansStay DEF IInv, Next
<1>2. CASE ReadEnable
  BY <1>1, <1>2 DEF ReadEnable, Config, IInv, TypeOK, Launched, Finished, Outcome
<1>3. ASSUME NEW n \in Name, Visit(n) PROVE IInv'
  BY <1>1, <1>3 DEF Visit, Config, IInv, TypeOK, Launched, Finished
<1>4. CASE CreateMachine
  BY <1>1, <1>4 DEF CreateMachine, Config, IInv, TypeOK, Launched, Finished
\* The launch adds cur to mps_configs and starts its task in one step.
<1>5. CASE LaunchConnect
  <2>1. cur \in Name
    BY <1>5 DEF LaunchConnect, IInv
  <2>2. conn' = [conn EXCEPT ![cur] = "lookup"] /\ configs' = configs \cup {cur}
    BY <1>5 DEF LaunchConnect
  <2>3. Launched' = configs'
    <3>1. \A m \in Name : conn'[m] # "none" <=> m \in configs \/ m = cur
      BY <2>1, <2>2 DEF IInv, TypeOK, Launched
    <3>2. {m \in Name : conn'[m] # "none"} = configs \cup {cur}
      BY <3>1, <2>1 DEF IInv, TypeOK
    <3>3. QED
      BY <3>2, <2>2 DEF Launched
  <2>4. QED
    BY <1>1, <1>5, <2>1, <2>2, <2>3 DEF LaunchConnect, Config, IInv, TypeOK, Finished, ConnState
<1>6. CASE EndLoop
  BY <1>1, <1>6 DEF EndLoop, Config, IInv, TypeOK, Launched, Finished
<1>7. ASSUME NEW n \in Name, WaitConnection(n) PROVE IInv'
  BY <1>1, <1>7 DEF WaitConnection, Config, IInv, TypeOK, Launched, Finished
<1>8. CASE AllConnected
  BY <1>1, <1>8 DEF AllConnected, Config, IInv, TypeOK, Launched, Finished, Outcome
\* Leaving by the exception waits for every launched task.
<1>9. CASE Unwind
  BY <1>1, <1>9 DEF Unwind, Config, IInv, TypeOK, Launched, Finished, Outcome
<1>10. QED
  BY <1>2, <1>3, <1>4, <1>5, <1>6, <1>7, <1>8, <1>9 DEF MainStep

\* Steps of a connect task: a lookup, possibly crashing the process, and
\* the result of connect_PLC.  A finished task stays finished.
LEMMA TaskIInv ==
    ASSUME IInv, NEW n \in Name, TaskStep(n)
    PROVE  IInv'
<1>1. inserting' \in BOOLEAN /\ race' \in BOOLEAN /\ active' \in [Name -> BOOLEAN]
  BY BooleansStay DEF IInv, Next
<1>2. CASE Lookup(n)
  BY <1>1, <1>2 DEF Lookup, Config, IInv, TypeOK, Launched, Finished, ConnState, Outcome
<1>3. CASE Connect(n)
  BY <1>1, <1>3 DEF Connect, Config, IInv, TypeOK, Launched, Finished, ConnState
<1>4. QED
  BY <1>2, <1>3 DEF TaskStep

LEMMA NextIInv == IInv /\ [Next]_vars => IInv'
<1> SUFFICES ASSUME IInv, [Next]_vars PROVE IInv'
  OBVIOUS
<1>1. CASE MainStep
  BY <1>1, MainIInv
<1>2. CASE \E n \in Name : TaskStep(n)
  BY <1>2, TaskIInv
<1>3. CASE UNCHANGED vars
  BY <1>3 DEF vars, Config, IInv, TypeOK, Launched, Finished
<1>4. QED
  BY <1>1, <1>2, <1>3 DEF Next

\* IInv holds in every reachable state of the bring-up.
THEOREM IInvInvariant == Spec => []IInv
BY InitIInv, NextIInv, PTL DEF Spec

\* Type correctness of every reachable state of the bring-up.
THEOREM TypeCorrect == Spec => []TypeOK
BY IInvInvariant, PTL DEF IInv

\* Start-up succeeds only if every active station connected, for every
\* configuration: the wait loop of the constructor reaches "Connected to
\* all machines" only after connect_PLC returned true for each of them.
THEOREM StartupOutcomeHolds == Spec => []StartupOutcome
<1>1. IInv => StartupOutcome
  BY DEF IInv, StartupOutcome
<1>2. QED
  BY <1>1, IInvInvariant, PTL

=============================================================================
