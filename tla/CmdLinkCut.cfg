\* A read that ends inside a packet of the broker.
SPECIFICATION Spec
CONSTANTS
    Methods = 1
    MaxQueries = 1
    MaxPort = 2
    Adverse = {"cut"}
PROPERTIES
    LinkDroppedForCause
