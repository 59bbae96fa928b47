----------------------- MODULE ConnectionManagerProofs -----------------------
(* The connection manager of http/server, for every set of connections.      *)
EXTENDS ConnectionManager, TLAPS

\* The types, apart from the invariant proper.
ManagerTypes ==
  /\ acceptor_ \in {"open", "closed"} /\ new_connection_ \in Connection
  /\ connections_ \subseteq Connection
  /\ conn \in [Connection -> [socket : {"open", "closed"},
                              read : {"idle", "pending"} \cup Done,
                              write : {"idle", "pending"} \cup Done]]

\* What ManagerInv says of one connection.
Good(c) ==
  /\ (conn[c].socket = "open" /\ ~Idle(c)) => c \in connections_
  /\ c \in connections_ =>
       ~Idle(c) /\ conn[c].read /= "aborted" /\ conn[c].write /= "aborted"
  /\ conn[c].read = "idle" \/ conn[c].write = "idle"
  /\ c = new_connection_ => Idle(c) /\ c \notin connections_

\* ManagerInv is the types, what holds of every connection, and of the acceptor.
LEMMA InvByConnection ==
  ManagerInv <=> /\ ManagerTypes /\ \A c \in Connection : Good(c)
                 /\ acceptor_ = "open" => accept /= "idle"
                 /\ acceptor_ = "closed" => connections_ = {}
BY DEF ManagerInv, ManagerTypes, Good, AlwaysAccepting, ManagedWhileAlive, OneOperation

\* The same of the state after a step.
LEMMA InvAfter ==
  ASSUME ManagerTypes', \A c \in Connection : Good(c)',
         acceptor_' = "open" => accept' /= "idle",
         acceptor_' = "closed" => connections_' = {}
  PROVE  ManagerInv'
BY DEF ManagerInv, ManagerTypes, Good, AlwaysAccepting, ManagedWhileAlive, OneOperation

\* A step that leaves the connections and the set of managed ones alone.
LEMMA Unmoved ==
  ASSUME ManagerInv, UNCHANGED <<acceptor_, new_connection_, connections_, conn>>,
         acceptor_ = "open" => accept' /= "idle"
  PROVE  ManagerInv'
BY InvByConnection, InvAfter DEF ManagerTypes, Good, Idle

\* A step that changes one connection only, and no other's place in the manager.
LEMMA OthersStay ==
  ASSUME ManagerInv, NEW c \in Connection,
         conn'[c] = conn[c], c \in connections_' <=> c \in connections_,
         c = new_connection_' => c = new_connection_
  PROVE  Good(c)'
BY InvByConnection DEF Good, Idle

\* Starting an operation leaves it outstanding; closing leaves nothing pending.
LEMMA Operations ==
  /\ \A s : Started(s) \in {"pending", "error"}
  /\ \A op \in {"idle", "pending"} \cup Done :
       /\ Cancelled(op) \in {"idle", "pending"} \cup Done
       /\ Cancelled(op) = "idle" <=> op = "idle"
BY DEF Started, Cancelled, Done

\* Closing a connection that leaves the manager.
LEMMA StopStep ==
  ASSUME ManagerInv, NEW c \in Connection, NEW k,
         k \in [socket : {"open", "closed"}, read : {"idle", "pending"} \cup Done,
               write : {"idle", "pending"} \cup Done],
         k.read = "idle" \/ k.write = "idle",
         c /= new_connection_, Stop(c, k),
         UNCHANGED <<acceptor_, accept, new_connection_>>
  PROVE  ManagerInv'
<1>1. conn' = [conn EXCEPT ![c] = Close(k)] /\ connections_' = connections_ \ {c}
  BY DEF Stop
<1>2. /\ Close(k) \in [socket : {"open", "closed"}, read : {"idle", "pending"} \cup Done,
                        write : {"idle", "pending"} \cup Done]
      /\ Close(k).socket = "closed"
      /\ Close(k).read = "idle" \/ Close(k).write = "idle"
  BY Operations DEF Close
<1>3. ManagerTypes'
  BY <1>1, <1>2, InvByConnection DEF ManagerTypes
<1>4. Good(c)'
  BY <1>1, <1>2, InvByConnection DEF Good, ManagerTypes
<1>5. ASSUME NEW d \in Connection, d /= c PROVE Good(d)'
  BY <1>1, <1>5, OthersStay, InvByConnection DEF ManagerTypes
<1> QED
  BY <1>1, <1>3, <1>4, <1>5, InvByConnection, InvAfter

\* A step that gives connection c the record k and changes nothing else.
LEMMA RecordStep ==
  ASSUME ManagerInv, NEW c \in Connection, NEW k,
         k \in [socket : {"open", "closed"}, read : {"idle", "pending"} \cup Done,
               write : {"idle", "pending"} \cup Done],
         conn' = [conn EXCEPT ![c] = k],
         k.read = "idle" \/ k.write = "idle",
         k.socket = "open" /\ ~(k.read = "idle" /\ k.write = "idle") => c \in connections_,
         c \in connections_ => /\ ~(k.read = "idle" /\ k.write = "idle")
                               /\ k.read /= "aborted" /\ k.write /= "aborted",
         c = new_connection_ => k.read = "idle" /\ k.write = "idle",
         UNCHANGED <<acceptor_, new_connection_, connections_>>,
         acceptor_ = "open" => accept' /= "idle"
  PROVE  ManagerInv'
<1>1. ManagerTypes'
  BY InvByConnection DEF ManagerTypes
<1>2. Good(c)'
  BY InvByConnection DEF Good, Idle, ManagerTypes
<1>3. ASSUME NEW d \in Connection, d /= c PROVE Good(d)'
  BY <1>3, OthersStay, InvByConnection DEF ManagerTypes
<1> QED
  BY <1>1, <1>2, <1>3, InvByConnection, InvAfter

\* The operating system completes an operation.
LEMMA CompletionStep ==
  ASSUME ManagerInv,
         Signal \/ \E result \in {"success", "error"} :
                     Accepted(result) \/ \E c \in Connection : Transferred(c, result)
  PROVE  ManagerInv'
<1> USE DEF Done
<1>0. ManagerTypes /\ \A c \in Connection : Good(c)
  BY InvByConnection
<1>1. CASE Signal
  BY <1>1, InvByConnection, Unmoved DEF Signal
<1>2. ASSUME NEW result \in {"success", "error"}, Accepted(result) PROVE ManagerInv'
  <2>1. CASE result = "success"
    <3> DEFINE k == [conn[new_connection_] EXCEPT !.socket = "open"]
    <3>1. conn' = [conn EXCEPT ![new_connection_] = k]
      BY <1>2, <2>1 DEF Accepted
    <3>2. k.read = "idle" /\ k.write = "idle" /\ k.socket = "open"
      BY <1>0 DEF ManagerTypes, Good, Idle
    <3>3. k \in [socket : {"open", "closed"}, read : {"idle", "pending"} \cup Done,
                 write : {"idle", "pending"} \cup Done]
      BY <1>0 DEF ManagerTypes
    <3>4. UNCHANGED <<acceptor_, new_connection_, connections_>> /\ accept' /= "idle"
          /\ new_connection_ \in Connection /\ new_connection_ \notin connections_
      BY <1>0, <1>2 DEF Accepted, ManagerTypes, Good
    <3> HIDE DEF k
    <3> QED
      BY <3>1, <3>2, <3>3, <3>4, RecordStep
  <2>2. CASE result = "error"
    BY <1>2, <2>2, Unmoved DEF Accepted
  <2> QED
    BY <2>1, <2>2
<1>3. ASSUME NEW result \in {"success", "error"}, NEW c \in Connection, Transferred(c, result)
      PROVE  ManagerInv'
  <2> DEFINE k == conn'[c]
  <2>1. conn' = [conn EXCEPT ![c] = k] /\ UNCHANGED <<acceptor_, accept, new_connection_, connections_>>
    BY <1>0, <1>3 DEF Transferred, ManagerTypes
  <2>2. /\ k \in [socket : {"open", "closed"}, read : {"idle", "pending"} \cup Done,
                  write : {"idle", "pending"} \cup Done]
        /\ k.socket = conn[c].socket
        /\ k.read = "idle" <=> conn[c].read = "idle"
        /\ k.write = "idle" <=> conn[c].write = "idle"
        /\ k.read = "aborted" => conn[c].read = "aborted"
        /\ k.write = "aborted" => conn[c].write = "aborted"
    BY <1>0, <1>3 DEF Transferred, ManagerTypes
  <2>3. Good(c) /\ (acceptor_ = "open" => accept' /= "idle")
    BY <1>0, <2>1, InvByConnection
  <2> HIDE DEF k
  <2> QED
    BY <2>1, <2>2, <2>3, RecordStep DEF Good, Idle
<1> QED
  BY <1>1, <1>2, <1>3

\* handle_accept starts the connection that was accepted, and the next accept
\* with one that is neither used nor managed.
LEMMA AcceptStep ==
  ASSUME ManagerInv, handle_accept
  PROVE  ManagerInv'
<1>0. ManagerTypes /\ \A c \in Connection : Good(c)
  BY InvByConnection
<1>1. CASE acceptor_ = "closed"
  BY <1>1, Unmoved DEF handle_accept, StoppedBefore
<1>2. CASE acceptor_ = "open" /\ accept /= "success"
  <2>1. UNCHANGED <<acceptor_, connections_, conn>> /\ accept' = "pending"
        /\ \E c \in Connection : Destroyed(c) /\ new_connection_' = c
    BY <1>2 DEF handle_accept, StoppedBefore, start_accept
  <2>2. ManagerTypes'
    BY <1>0, <2>1 DEF ManagerTypes
  <2>3. ASSUME NEW d \in Connection PROVE Good(d)'
    BY <1>0, <2>1 DEF Destroyed, Good, Idle
  <2> QED
    BY <1>2, <2>1, <2>2, <2>3, InvAfter
<1>3. CASE acceptor_ = "open" /\ accept = "success"
  <2>0. PICK n \in Connection : n = new_connection_
    BY <1>0 DEF ManagerTypes
  <2> DEFINE r == Started(conn[n].socket)
  <2>1. /\ UNCHANGED acceptor_ /\ accept' = "pending"
        /\ connections_' = connections_ \cup {n} /\ conn' = [conn EXCEPT ![n].read = r]
        /\ \E c \in Connection : Destroyed(c) /\ new_connection_' = c
    BY <1>3, <2>0 DEF handle_accept, StoppedBefore, start_accept, Start
  <2>2. r \in {"pending", "error"} /\ n \in Connection
    BY <1>0, Operations DEF ManagerTypes
  <2> HIDE DEF r
  <2>3. ManagerTypes'
    BY <1>0, <2>0, <2>1, <2>2 DEF ManagerTypes, Destroyed, Done
  <2>4. new_connection_' /= n /\ new_connection_' \in Connection /\ new_connection_' \notin connections_
        /\ conn[new_connection_'].read = "idle" /\ conn[new_connection_'].write = "idle"
    BY <2>0, <2>1 DEF Destroyed, Idle
  <2>5. ASSUME NEW d \in Connection, d /= n PROVE Good(d)'
    <3>1. conn'[d] = conn[d] /\ (d \in connections_' <=> d \in connections_)
      BY <1>0, <2>1, <2>2, <2>5 DEF ManagerTypes
    <3>2. Good(d)
      BY <1>0
    <3> QED
      BY <2>4, <3>1, <3>2 DEF Good, Idle
  <2>6. Good(n)'
    <3>1. conn'[n].read = r /\ conn'[n].write = "idle" /\ n \in connections_'
      BY <1>0, <2>0, <2>1, <2>2 DEF ManagerTypes, Good, Idle
    <3> QED
      BY <2>2, <2>4, <3>1 DEF Good, Idle
  <2> QED
    BY <1>3, <2>1, <2>3, <2>5, <2>6, InvAfter
<1> QED
  BY <1>0, <1>1, <1>2, <1>3 DEF ManagerTypes

\* handle_read replies, reads on, or stops the connection.
LEMMA ReadStep ==
  ASSUME ManagerInv, NEW c \in Connection, handle_read(c)
  PROVE  ManagerInv'
<1> USE DEF Done
<1> DEFINE Records == [socket : {"open", "closed"}, read : {"idle", "pending"} \cup Done,
                       write : {"idle", "pending"} \cup Done]
<1>0. /\ ManagerTypes /\ Good(c) /\ conn[c] \in Records
      /\ (acceptor_ = "open" => accept /= "idle")
  BY InvByConnection DEF ManagerTypes
<1>1. /\ conn[c].read \in {"success", "error", "aborted"} /\ conn[c].write = "idle"
      /\ c /= new_connection_
      /\ UNCHANGED <<acceptor_, accept, new_connection_>>
  BY <1>0 DEF handle_read, Good, Idle
<1>2. CASE conn[c].read = "success"
  <2>1. UNCHANGED connections_
        /\ \/ conn' = [conn EXCEPT ![c] = Reply(conn[c])]
           \/ conn' = [conn EXCEPT ![c] = [conn[c] EXCEPT !.read = Started(conn[c].socket)]]
    BY <1>2 DEF handle_read
  <2>2. ASSUME NEW k \in {Reply(conn[c]), [conn[c] EXCEPT !.read = Started(conn[c].socket)]}
        PROVE  /\ k \in Records /\ k.socket = conn[c].socket
               /\ k.read = "idle" \/ k.write = "idle"
               /\ ~(k.read = "idle" /\ k.write = "idle")
               /\ k.read /= "aborted" /\ k.write /= "aborted"
    BY <1>0, <1>1, <2>2, Operations DEF Reply
  <2>3. PICK k \in {Reply(conn[c]), [conn[c] EXCEPT !.read = Started(conn[c].socket)]} :
          conn' = [conn EXCEPT ![c] = k]
    BY <2>1
  <2>4. conn[c].socket = "open" => c \in connections_
    BY <1>0, <1>1, <1>2 DEF Good, Idle
  <2> QED
    BY <1>0, <1>1, <2>1, <2>2, <2>3, <2>4, RecordStep
<1>3. CASE conn[c].read = "error"
  <2>1. Stop(c, [conn[c] EXCEPT !.read = "idle"])
    BY <1>3 DEF handle_read
  <2>2. [conn[c] EXCEPT !.read = "idle"] \in Records /\ [conn[c] EXCEPT !.read = "idle"].read = "idle"
    BY <1>0
  <2> QED
    BY <1>1, <2>1, <2>2, StopStep
<1>4. CASE conn[c].read = "aborted"
  <2> DEFINE k == [conn[c] EXCEPT !.read = "idle"]
  <2>1. UNCHANGED connections_ /\ conn' = [conn EXCEPT ![c] = k]
    BY <1>4 DEF handle_read
  <2>2. k \in Records /\ k.read = "idle" /\ k.write = "idle"
    BY <1>0, <1>1
  <2>3. c \notin connections_
    BY <1>0, <1>4 DEF Good
  <2> HIDE DEF k
  <2> QED
    BY <1>0, <1>1, <2>1, <2>2, <2>3, RecordStep
<1> QED
  BY <1>1, <1>2, <1>3, <1>4

\* handle_write closes the connection, unless it was closed before.
LEMMA WriteStep ==
  ASSUME ManagerInv, NEW c \in Connection, handle_write(c)
  PROVE  ManagerInv'
<1> USE DEF Done
<1> DEFINE k == [conn[c] EXCEPT !.write = "idle"]
<1>0. /\ Good(c) /\ (acceptor_ = "open" => accept /= "idle")
      /\ conn[c] \in [socket : {"open", "closed"}, read : {"idle", "pending"} \cup Done,
                      write : {"idle", "pending"} \cup Done]
  BY InvByConnection DEF ManagerTypes
<1>1. /\ conn[c].write \in Done /\ conn[c].read = "idle" /\ c /= new_connection_
      /\ UNCHANGED <<acceptor_, accept, new_connection_>>
  BY <1>0 DEF handle_write, Good, Idle
<1>2. /\ k \in [socket : {"open", "closed"}, read : {"idle", "pending"} \cup Done,
                write : {"idle", "pending"} \cup Done]
      /\ k.read = "idle" /\ k.write = "idle"
  BY <1>0, <1>1
<1>3. CASE conn[c].write /= "aborted"
  <2>1. Stop(c, k)
    BY <1>3 DEF handle_write
  <2> HIDE DEF k
  <2> QED
    BY <1>1, <1>2, <2>1, StopStep
<1>4. CASE conn[c].write = "aborted"
  <2>1. UNCHANGED connections_ /\ conn' = [conn EXCEPT ![c] = k] /\ c \notin connections_
    BY <1>0, <1>4 DEF handle_write, Good
  <2> HIDE DEF k
  <2> QED
    BY <1>0, <1>1, <1>2, <2>1, RecordStep
<1> QED
  BY <1>3, <1>4

\* handle_stop closes every managed connection and the acceptor.
LEMMA StopAllStep ==
  ASSUME ManagerInv, handle_stop
  PROVE  ManagerInv'
<1>0. ManagerTypes /\ \A c \in Connection : Good(c)
  BY InvByConnection
<1>1. /\ acceptor_' = "closed" /\ connections_' = {} /\ UNCHANGED new_connection_
      /\ conn' = [c \in Connection |-> IF c \in connections_ THEN Close(conn[c]) ELSE conn[c]]
  BY DEF handle_stop, stop_all
<1>2. ManagerTypes'
  BY <1>0, <1>1, Operations DEF ManagerTypes, Close
<1>3. ASSUME NEW c \in Connection PROVE Good(c)'
  <2>1. CASE c \in connections_
    <3>1. /\ conn'[c].socket = "closed" /\ c /= new_connection_
          /\ conn'[c].read = "idle" \/ conn'[c].write = "idle"
      BY <1>0, <1>1, <2>1, Operations DEF Close, Good, ManagerTypes
    <3> QED
      BY <1>1, <3>1 DEF Good
  <2>2. CASE c \notin connections_
    BY <1>0, <1>1, <2>2 DEF Good, Idle
  <2> QED
    BY <2>1, <2>2
<1> QED
  BY <1>1, <1>2, <1>3, InvByConnection, InvAfter

\* ManagerInv holds throughout.
THEOREM ManagerInvariant == ManagerSpec => []ManagerInv
<1>1. ManagerInit => ManagerInv
  BY InvByConnection DEF ManagerInit, Fresh, ManagerTypes, Good, Idle, Done
<1>2. ManagerInv /\ [ManagerNext]_managerVars => ManagerInv'
  <2>1. ManagerInv /\ run => ManagerInv'
    BY InvByConnection, Unmoved DEF run
  <2>2. ManagerInv /\ UNCHANGED managerVars => ManagerInv'
    BY InvByConnection, Unmoved DEF managerVars
  <2> QED
    BY <2>1, <2>2, CompletionStep, AcceptStep, ReadStep, WriteStep, StopAllStep DEF ManagerNext
<1> QED
  BY <1>1, <1>2, PTL DEF ManagerSpec

\* An accept is always outstanding, the manager holds exactly the connections
\* that live, and a connection has one operation at a time.
THEOREM ManagerSafe == ManagerSpec => [](AlwaysAccepting /\ ManagedWhileAlive /\ OneOperation)
<1>1. ManagerInv => AlwaysAccepting /\ ManagedWhileAlive /\ OneOperation
  BY DEF ManagerInv
<1> QED
  BY <1>1, ManagerInvariant, PTL

\* After the acceptor is closed nothing enters the manager.
THEOREM ManagerStopped == ManagerSpec => StoppedForGood
<1>1. ManagerInv /\ ManagerInv' /\ [ManagerNext]_managerVars
        => [acceptor_ = "closed" => connections_' = {}]_managerVars
  <2> SUFFICES ASSUME ManagerInv, ManagerInv', [ManagerNext]_managerVars, acceptor_ = "closed"
               PROVE  connections_' = {}
    OBVIOUS
  <2>1. acceptor_' = "closed"
    BY DEF ManagerNext, managerVars, handle_accept, handle_stop, run, Signal, handle_read,
       handle_write, Accepted, Transferred
  <2> QED
    BY <2>1 DEF ManagerInv
<1> QED
  BY <1>1, ManagerInvariant, PTL DEF ManagerSpec, StoppedForGood

=============================================================================
