-------------------------- MODULE ConnectionManager --------------------------
(***************************************************************************)
(* The Boost.Asio example http/server: an acceptor, the connections it     *)
(* starts, the connection_manager that holds them, and the stop on a       *)
(* signal.  One thread runs the io_service, so a handler is one step.      *)
(*                                                                         *)
(* An asynchronous operation is "idle", "pending", or complete with a      *)
(* result that its handler has yet to see.  Closing a socket completes     *)
(* what is pending with "aborted" and leaves a queued result as it is; an  *)
(* operation started on a closed socket completes with "error".            *)
(***************************************************************************)
CONSTANT Connection   \* bound: the connection objects alive at one time

VARIABLES
  acceptor_,        \* "open" or "closed"
  accept,           \* the accept operation
  signals_,         \* the wait for a signal
  new_connection_,
  connections_,     \* connection_manager::connections_
  conn,             \* of each connection: its socket_ and its operations
  running           \* server::run has not returned

managerVars ==
  <<acceptor_, accept, signals_, new_connection_, connections_, conn, running>>

Done == {"success", "error", "aborted"}

Fresh == [socket |-> "closed", read |-> "idle", write |-> "idle"]

Idle(c) == conn[c].read = "idle" /\ conn[c].write = "idle"

\* No shared_ptr holds the connection: it is not new, managed or bound to an
\* operation.
Destroyed(c) == c /= new_connection_ /\ c \notin connections_ /\ Idle(c)

Started(socket) == IF socket = "open" THEN "pending" ELSE "error"

Cancelled(op) == IF op = "pending" THEN "aborted" ELSE op

\* connection::stop
Close(k) ==
  [socket |-> "closed", read |-> Cancelled(k.read), write |-> Cancelled(k.write)]

-----------------------------------------------------------------------------
(* The operating system.                                                   *)

\* A client has connected, or accept fails.  bound: another connection object
\* can still be made.
Accepted(result) ==
  /\ accept = "pending"
  /\ \E c \in Connection : Destroyed(c)
  /\ accept' = result
  /\ conn' = IF result = "success"
             THEN [conn EXCEPT ![new_connection_].socket = "open"] ELSE conn
  /\ UNCHANGED <<acceptor_, signals_, new_connection_, connections_, running>>

Transferred(c, result) ==
  /\ \/ /\ conn[c].read = "pending"
        /\ conn' = [conn EXCEPT ![c].read = result]
     \/ /\ conn[c].write = "pending"
        /\ conn' = [conn EXCEPT ![c].write = result]
  /\ UNCHANGED <<acceptor_, accept, signals_, new_connection_, connections_, running>>

Signal ==
  /\ signals_ = "pending"
  /\ signals_' = "success"
  /\ UNCHANGED <<acceptor_, accept, new_connection_, connections_, conn, running>>

-----------------------------------------------------------------------------
(* The handlers.                                                           *)

\* Mutant: an accept that failed is not started again.
StartAcceptOnSuccess ==
  IF accept = "success"
  THEN /\ \E c \in Connection : Destroyed(c) /\ new_connection_' = c
       /\ accept' = "pending"
  ELSE accept' = "idle" /\ UNCHANGED new_connection_

\* with a freshly made connection
start_accept ==
  /\ \E c \in Connection : Destroyed(c) /\ new_connection_' = c
  /\ accept' = "pending"

\* connection_manager::start
Start(c) ==
  /\ connections_' = connections_ \cup {c}
  /\ conn' = [conn EXCEPT ![c].read = Started(conn[c].socket)]

\* Mutant: handle_accept does not ask whether the acceptor was closed.
NeverStopped == FALSE

StoppedBefore == acceptor_ = "closed"

handle_accept ==
  /\ running /\ accept \in Done
  /\ IF StoppedBefore
     THEN accept' = "idle" /\ UNCHANGED <<new_connection_, connections_, conn>>
     ELSE /\ start_accept
          /\ IF accept = "success" THEN Start(new_connection_)
             ELSE UNCHANGED <<connections_, conn>>
  /\ UNCHANGED <<acceptor_, signals_, running>>

\* Mutant: the socket is closed, the connection stays in the set.
StopKeeps(c, k) ==
  /\ connections_' = connections_
  /\ conn' = [conn EXCEPT ![c] = Close(k)]

\* connection_manager::stop, from a handler that leaves the connection as k
Stop(c, k) ==
  /\ connections_' = connections_ \ {c}
  /\ conn' = [conn EXCEPT ![c] = Close(k)]

\* Mutant: the next request is read while the reply is sent.
ReplyAndRead(k) == [k EXCEPT !.read = Started(k.socket), !.write = Started(k.socket)]

Reply(k) == [k EXCEPT !.read = "idle", !.write = Started(k.socket)]

\* handle_read: the parser has the whole request or refuses it, and a reply is
\* sent, or it needs more.
handle_read(c) ==
  /\ running /\ conn[c].read \in Done
  /\ CASE conn[c].read = "success" ->
            /\ \/ conn' = [conn EXCEPT ![c] = Reply(conn[c])]
               \/ conn' = [conn EXCEPT ![c].read = Started(conn[c].socket)]
            /\ UNCHANGED connections_
       [] conn[c].read = "error" -> Stop(c, [conn[c] EXCEPT !.read = "idle"])
       [] conn[c].read = "aborted" ->
            conn' = [conn EXCEPT ![c].read = "idle"] /\ UNCHANGED connections_
  /\ UNCHANGED <<acceptor_, accept, signals_, new_connection_, running>>

handle_write(c) ==
  /\ running /\ conn[c].write \in Done
  /\ IF conn[c].write /= "aborted" THEN Stop(c, [conn[c] EXCEPT !.write = "idle"])
     ELSE conn' = [conn EXCEPT ![c].write = "idle"] /\ UNCHANGED connections_
  /\ UNCHANGED <<acceptor_, accept, signals_, new_connection_, running>>

\* Mutant: the set is cleared before the sockets are closed.
ClearFirst == connections_' = {} /\ conn' = conn

stop_all ==
  /\ conn' = [c \in Connection |->
               IF c \in connections_ THEN Close(conn[c]) ELSE conn[c]]
  /\ connections_' = {}

handle_stop ==
  /\ running /\ signals_ = "success"
  /\ signals_' = "idle"
  /\ acceptor_' = "closed"
  /\ accept' = Cancelled(accept)
  /\ stop_all
  /\ UNCHANGED <<new_connection_, running>>

\* io_service::run returns when no operation is left.
run ==
  /\ running
  /\ accept = "idle" /\ signals_ = "idle" /\ \A c \in Connection : Idle(c)
  /\ running' = FALSE
  /\ UNCHANGED <<acceptor_, accept, signals_, new_connection_, connections_, conn>>

-----------------------------------------------------------------------------
\* The constructor: the signal wait and the first accept are started.
ManagerInit ==
  /\ acceptor_ = "open"
  /\ accept = "pending"
  /\ signals_ = "pending"
  /\ new_connection_ \in Connection
  /\ connections_ = {}
  /\ conn = [c \in Connection |-> Fresh]
  /\ running = TRUE

ManagerNext ==
  \/ handle_accept \/ handle_stop \/ run \/ Signal
  \/ \E c \in Connection : handle_read(c) \/ handle_write(c)
  \/ \E result \in {"success", "error"} :
       Accepted(result) \/ \E c \in Connection : Transferred(c, result)

ManagerSpec == ManagerInit /\ [][ManagerNext]_managerVars

\* The thread in run calls the handler of every completed operation.
FairManagerSpec ==
  /\ ManagerSpec
  /\ WF_managerVars(handle_accept) /\ WF_managerVars(handle_stop)
  /\ WF_managerVars(run)
  /\ \A c \in Connection :
       WF_managerVars(handle_read(c)) /\ WF_managerVars(handle_write(c))

-----------------------------------------------------------------------------
\* While the acceptor is open an accept is outstanding, also after accepts
\* that failed: what server::run says keeps it from returning.
AlwaysAccepting == acceptor_ = "open" => accept /= "idle"

\* The manager holds a connection exactly as long as it lives on an open
\* socket: what has an operation outstanding on an open socket can be stopped
\* by stop_all, and what is held will still call a handler that removes it.
ManagedWhileAlive ==
  \A c \in Connection :
    /\ (conn[c].socket = "open" /\ ~Idle(c)) => c \in connections_
    /\ c \in connections_ => ~Idle(c)

\* buffer_ and reply_ belong to one operation at a time: a connection never
\* reads while its reply is being sent.
OneOperation ==
  \A c \in Connection : conn[c].read = "idle" \/ conn[c].write = "idle"

\* A connection whose accept completed before the stop, and whose handler
\* comes after it, is not started: nothing enters the manager again.
StoppedForGood == [][acceptor_ = "closed" => connections_' = {}]_managerVars

\* The invariant the theorems of ConnectionManagerProofs rest on: beside the
\* above, the connection to be accepted next is neither used nor managed, and
\* what was aborted is no longer managed.
ManagerInv ==
  /\ acceptor_ \in {"open", "closed"} /\ new_connection_ \in Connection
  /\ connections_ \subseteq Connection
  /\ conn \in [Connection -> [socket : {"open", "closed"},
                              read : {"idle", "pending"} \cup Done,
                              write : {"idle", "pending"} \cup Done]]
  /\ AlwaysAccepting /\ ManagedWhileAlive /\ OneOperation
  /\ Idle(new_connection_) /\ new_connection_ \notin connections_
  /\ \A c \in connections_ : conn[c].read /= "aborted" /\ conn[c].write /= "aborted"
  /\ acceptor_ = "closed" => connections_ = {}

\* After a signal run returns, whatever was in flight.
RunReturns == signals_ = "success" ~> ~running

=============================================================================
