\* One INVITE, retransmitted by its caller, while anything may fail.
SPECIFICATION Spec
CONSTANTS
    i1 = i1
    udp = udp
    Invite = {i1}
    Plain = {}
    Subscribe = {}
    Register = {}
    Net = {udp}
    Reliable = {}
    Said = {180, 486}
    SIP_RETRY = 2
    MaxSends = 2
    MaxPort = 2
    Adverse = {"send", "convert", "refuse", "age", "hangup", "link"}
CHECK_DEADLOCK FALSE
INVARIANTS
    NoDanglingTimer
    TokensSafe
    NoSentRequestForgotten
PROPERTIES
    TimeoutMeansSilence
    AnswersAreEarned
