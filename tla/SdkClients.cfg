SPECIFICATION Spec
CONSTANTS
    Kinds = {"pipelines"}
    Namespaces = {"n1", "n2"}
    Names = {"a", "b"}
    Labelled = {"a"}
    Specs = {"s1", "s2"}
    Statuses = {"t1"}
    Programs = {"p1"}
    Clients = {"axios", "fetch"}
    Operations <- EveryOperation
    Initially <- EmptyOrFull
    MaxCalls = 2
    MaxLosses = 2
    MaxWrites = 1
INVARIANTS
    TypeOK
PROPERTIES
    DryRunChangesNothing
    NoLostUpdate
    ImplementsStore
CHECK_DEADLOCK FALSE
