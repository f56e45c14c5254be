\* Two input stages of two symbols; one refusal is enough.
SPECIFICATION Spec
CONSTANTS
    Requests <- MCTwoInputs
    Workers = 2
    MaxRefusals = 1
INVARIANTS
    WaitsOnlyWhenAllStagesCool
