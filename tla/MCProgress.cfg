SPECIFICATION Spec
PROPERTIES
    CommandsSettle
    CancellationCompletes
    BuildsConclude
    JobsComplete
CHECK_DEADLOCK FALSE
