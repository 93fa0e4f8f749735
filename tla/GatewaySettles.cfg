\* Nothing is left open, whatever fails.
SPECIFICATION FairSpec
CONSTANTS
    i1 = i1
    r1 = r1
    udp = udp
    tcp = tcp
    Invite = {i1}
    Plain = {}
    Subscribe = {}
    Register = {r1}
    Net = {udp, tcp}
    Reliable = {tcp}
    Said = {180, 486}
    SIP_RETRY = 1
    MaxSends = 1
    MaxPort = 1
    Adverse = {"send", "age", "refuse"}
CHECK_DEADLOCK FALSE
PROPERTIES
    SentRequestsAnswered
    TransactionsFreed
