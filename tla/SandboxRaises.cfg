SPECIFICATION SandboxSpec
INVARIANT
    NeverRaises
CHECK_DEADLOCK FALSE
