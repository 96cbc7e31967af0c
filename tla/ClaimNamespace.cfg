SPECIFICATION Spec
CONSTANTS
    Kinds = {"pipelines"}
    Namespaces = {"n1"}
    Names = {"a"}
    Labelled = {"a"}
    Specs = {"s1"}
    Statuses = {"t1"}
    Programs = {"p1"}
    Clients = {"fetch"}
    Operations <- EveryOperation
    Initially <- EmptyOrFull
    MaxCalls = 1
    MaxLosses = 0
    MaxWrites = 0
INVARIANTS
    ServedInItsNamespace
CHECK_DEADLOCK FALSE
