SPECIFICATION Spec
CONSTANTS
    Programs <- MCPrograms
    Versions = {1, 2}
    Remappings <- MCRemappings
    Requests <- MCRequests
    Kinds <- MCKinds
    Selections <- MCSelections
    LateRequests = FALSE
    ReuseAfterImport = FALSE
INVARIANTS
    NoCodeWithErrors
    AnalysedInOrder
    RequestsServed
PROPERTY
    ImplementsInterface
