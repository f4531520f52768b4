------------------------- MODULE MC_MpsStatusFeedback -------------------------
(* Model-checking instance of MpsStatusFeedback: two machines, one of them *)
(* a ring station, two command tasks and two register changes.             *)
EXTENDS MpsStatusFeedback, TLC

CONSTANTS s1, s2, unknown

MC_Station == {s1, s2}

\* The ring station s1 carries one of the four names setup_clips tests.
MC_RingNamed == {s1}

\* The ring station s1 is configured under another name.
MC_RingUnnamed == {}

\* lastCall is auxiliary: no guard reads it, so states that differ only in
\* it have the same behaviours.
MC_View == <<clips, syncAt, futs, task, nTask, fb, routerVars>>

=============================================================================
