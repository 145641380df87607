\* Ports of every kind, two rules that come and go, one sending thread.
SPECIFICATION Spec
CONSTANTS
    Kinds = {"udp", "udpSend", "serial", "tcp", "tcpOnce"}
    Rules = {r1, r2}
    Senders = {t1}
    MaxSockets = 6
    MaxMessages = 2
    MaxSends = 1
    MaxRequests = 3
    MaxFaults = 1
CHECK_DEADLOCK FALSE
INVARIANT OneRunPerMessage
INVARIANT NothingLeaks
PROPERTY Received
PROPERTY RequestsEnd
