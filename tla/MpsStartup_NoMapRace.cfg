CONSTANT Name = {n1, n2, n3}

SPECIFICATION Spec

INVARIANT NoMapRace

CHECK_DEADLOCK FALSE
