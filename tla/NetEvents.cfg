\* The five sockets of main() and one more event, one transaction, one failure; a
\* tick is the delay of a sweep and the lifetime of a transaction.
SPECIFICATION Spec
CONSTANTS
    Sweep = 1
    Ping = 1
    Lifetime = 1
    MaxId = 6
    MaxTxn = 1
    MaxRead = 1
    MaxFailures = 1
CHECK_DEADLOCK FALSE
INVARIANTS
    OneLink
    Swept
    NothingStranded
PROPERTIES
    AnswersQueued
    Ends
