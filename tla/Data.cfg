\* Six items with two keys, and a tree of nine keys; the messages and packets
\* of MCConversion and MCMqtt; a request over two gateways, with each kind of
\* Max-Forwards.
SPECIFICATION DataSpec
CONSTANTS
    Item = {1, 2, 3, 4, 5, 6}
    Key <- MCKey
    Nil = Nil
    Null = Null
    Missing = Missing
    Methods <- MCMethods
    Requests <- MCRequests
    Broker <- MCBroker
    Failure = Failure
    TreeKey = {1, 2, 3, 4, 5, 6, 7, 8, 9}
    Limits = {Null, 1, 2, 3}
    Gateways = 2
CHECK_DEADLOCK FALSE
INVARIANTS
    MapExact
    TreeExact
    PacketExact
    MethodKept
    AnswersRetrace
PROPERTIES
    Implements
    MeaningKept
    Settled
