CONSTANT Name = {n1, n2, n3}

SPECIFICATION Spec

INVARIANT StartupOutcome
PROPERTY StartupTerminates

\* The constructor ends (or the process crashes); nothing runs afterwards
\* in this model.
CHECK_DEADLOCK FALSE
