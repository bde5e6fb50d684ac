CONSTANTS
    MaxConcurrent = 2
    MaxTasks = 3
    Strategies = {"KEEP_BOTH"}
    None = None
SPECIFICATION Spec
CHECK_DEADLOCK FALSE
INVARIANTS WithinBudget NoSlotIdle OneRunPerTask AskedOnce
PROPERTIES NothingSentAfterCancel CancelIsFinal UploadsSettle
