-------------------------- MODULE PendingOperations --------------------------
(***************************************************************************)
(* What the command dispatcher promises (spec, sections 3 and 4.4): a     *)
(* table of pending operations with zero or one entry per station.  A     *)
(* command is admitted only into an empty slot and its entry stays until  *)
(* that command completes; a command submitted while the slot is taken is *)
(* rejected with no side effect, so it is a stuttering step here.         *)
(***************************************************************************)
CONSTANTS
    Station,    \* station names
    Command,    \* identities of admitted commands
    NoCommand   \* the empty slot

VARIABLE pending    \* station -> the command in flight there, or NoCommand

TypeOK == pending \in [Station -> Command \cup {NoCommand}]

Init == pending = [s \in Station |-> NoCommand]

\* submit(s, op) accepted: the slot is empty and command c takes it.
Admit(s, c) ==
    /\ pending[s] = NoCommand
    /\ pending' = [pending EXCEPT ![s] = c]

\* The command of station s completes, with success or failure, and its
\* slot is cleared.
Complete(s) ==
    /\ pending[s] # NoCommand
    /\ pending' = [pending EXCEPT ![s] = NoCommand]

Next ==
    \/ \E s \in Station, c \in Command : Admit(s, c)
    \/ \E s \in Station : Complete(s)

Spec == Init /\ [][Next]_pending

=============================================================================
