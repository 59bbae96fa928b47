\* One peer each, as in ConversationsEnd.
CONSTANTS
 Session = {s1}
 max_recent_msgs = 1
 MaxMsgs = 2
 MaxLines = 3
 max_body_length = 3
 MaxTyped = 4
 Peer = {p1}
 Timeout = 2
 MaxQueue = 2
 Endpoints = 3
 Datagrams = 6
 Queries = {q1}
 Hits = {"h1"}
 MaxCalls = 1
 MaxInput = 5

SPECIFICATION FairSpec

PROPERTY SentSessionStays

CHECK_DEADLOCK FALSE
