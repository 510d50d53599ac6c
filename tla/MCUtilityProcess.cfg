SPECIFICATION UtilitySpec
CONSTANTS
    Conns = {c1, c2}
    Callers = {c1}
    Commands = {k1, k2}
    Nil = Nil
INVARIANTS DrainIsComplete StopIsNeverRefused  ChildIsOwned
PROPERTIES CrashOnlyWithoutProcess ChildIsReaped ActivityIsTaken ShutdownCompletes
