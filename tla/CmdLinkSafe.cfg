\* Everything that may go wrong with the connection to the broker.
SPECIFICATION FairSpec
CONSTANTS
    Methods = 3
    MaxQueries = 2
    MaxPort = 3
    Adverse = {"unreachable", "fail", "close", "deny", "garble", "cut"}
CHECK_DEADLOCK FALSE
INVARIANTS
    ReadySubscribed
    QueriesCanReturn
PROPERTIES
    ImplementsLink
    QueriesSettle
    LinkHeals
