\* An INVITE and another request at once, over UDP and TCP: replies are late,
\* connections close, the broker goes away and comes back.
SPECIFICATION Spec
CONSTANTS
    i1 = i1
    p1 = p1
    udp = udp
    tcp = tcp
    Invite = {i1}
    Plain = {p1}
    Subscribe = {}
    Register = {}
    Net = {udp, tcp}
    Reliable = {tcp}
    Said = {180, 200}
    SIP_RETRY = 1
    MaxSends = 1
    MaxPort = 2
    Adverse = {"send", "hangup", "age", "link"}
CHECK_DEADLOCK FALSE
INVARIANTS
    EntityMapExact
    SessionsOneToOne
    NoCrossedReply
PROPERTIES
    ProvisionalOnlyWhenCut
