SPECIFICATION Spec
CONSTANTS
    Hooks <- ThreeMiddlewares
    MaxFetches = 3
INVARIANTS
    TypeOK
    EveryHookRuns
    NoHiddenFailure
PROPERTIES
    CallSettles
CHECK_DEADLOCK FALSE
