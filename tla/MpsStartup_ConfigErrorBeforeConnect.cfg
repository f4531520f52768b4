CONSTANT Name = {n1, n2, n3}

SPECIFICATION Spec

INVARIANT ConfigErrorBeforeConnect

CHECK_DEADLOCK FALSE
