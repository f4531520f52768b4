--------------------------- MODULE StatusChannel ---------------------------
(***************************************************************************)
(* What the status feedback router promises (spec, section 4.5): for each  *)
(* station, the value changes of the registers subscribed for it reach    *)
(* the rule engine as status facts, each once and in the order of the     *)
(* changes.  A change waits in its station's queue until it is delivered;  *)
(* a change of a register that is not subscribed is not seen at all, so   *)
(* it is a stuttering step here.                                           *)
(***************************************************************************)
EXTENDS Sequences

CONSTANTS
    Station,    \* station names
    Sub,        \* station -> the registers subscribed for it
    Change      \* value changes; a change c is of register c.reg

VARIABLES
    queue,      \* station -> subscribed changes not yet delivered, oldest first
    facts       \* station -> status facts delivered, in order

vars == <<queue, facts>>

TypeOK ==
    /\ queue \in [Station -> Seq(Change)]
    /\ facts \in [Station -> Seq(Change)]

Init ==
    /\ queue = [s \in Station |-> <<>>]
    /\ facts = [s \in Station |-> <<>>]

\* A subscribed register of station s changes: the change is queued.
Publish(s, c) ==
    /\ c.reg \in Sub[s]
    /\ queue' = [queue EXCEPT ![s] = Append(@, c)]
    /\ UNCHANGED facts

\* The oldest pending change of station s becomes a status fact.
Deliver(s) ==
    /\ queue[s] # <<>>
    /\ facts' = [facts EXCEPT ![s] = Append(@, Head(queue[s]))]
    /\ queue' = [queue EXCEPT ![s] = Tail(@)]

Next ==
    \/ \E s \in Station, c \in Change : Publish(s, c)
    \/ \E s \in Station : Deliver(s)

Spec == Init /\ [][Next]_vars

=============================================================================
