\* While nothing fails, every caller gets a final answer.
SPECIFICATION AnsweringSpec
CONSTANTS
    i1 = i1
    p1 = p1
    s1 = s1
    udp = udp
    Invite = {i1}
    Plain = {p1}
    Subscribe = {s1}
    Register = {}
    Net = {udp}
    Reliable = {}
    Said = {180, 486}
    SIP_RETRY = 1
    MaxSends = 1
    MaxPort = 1
    Adverse = {}
CHECK_DEADLOCK FALSE
PROPERTIES
    RequestsAnswered
