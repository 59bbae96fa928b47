CONSTANTS
 Session = {s1, s2, s3}
 max_recent_msgs = 2
 MaxMsgs = 3
 MaxLines = 3
 max_body_length = 3
 MaxTyped = 4
 Peer = {p1, p2}
 Timeout = 1
 MaxQueue = 1
 Endpoints = 3
 Datagrams = 6
 Queries = {q1, q2}
 Hits = {"h1", "h2"}
 MaxCalls = 3
 MaxInput = 6

SPECIFICATION Spec
SYMMETRY Symmetry

INVARIANTS
 OneOperationEach
 NothingLost
 StaleOnlyIfOverlapping

PROPERTY NothingEndsEarly

CHECK_DEADLOCK FALSE
