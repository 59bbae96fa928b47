------------------------------ MODULE HttpPool ------------------------------
(***************************************************************************)
(* The Boost.Asio example http/server2: a pool of io_services, each run by *)
(* a thread of its own.  The acceptor hands every connection to the next   *)
(* io_service; the connection's handlers then run on that thread, while    *)
(* the accepting thread goes on.                                           *)
(*                                                                         *)
(* A service executes one step of a handler at a time; steps of different  *)
(* services interleave.  A connection's operation is known by its kind.    *)
(***************************************************************************)
EXTENDS Integers, FiniteSets

CONSTANTS
  N,           \* io_service_pool_size
  Connection,  \* bound: the connection objects alive at one time
  MaxMade      \* bound: connections made

Service == 0..(N - 1)

VARIABLES
  next_io_service_,
  service,          \* of each connection: its io_service
  op,               \* of each connection: its operation, and whether it is complete
  new_connection_,
  accept,           \* the accept operation
  at,               \* where handle_accept is
  signal,           \* the wait for a signal: "pending", "success" or "idle"
  stopping,         \* the io_services that io_service_pool::stop has still to stop
  stopped, exited,  \* io_services that are stopped, whose run has returned
  made              \* of each io_service: the objects it was chosen for

poolVars == <<next_io_service_, service, op, new_connection_, accept, at,
              signal, stopping, stopped, exited, made>>

Next_io_service == IF next_io_service_ + 1 = N THEN 0 ELSE next_io_service_ + 1

\* The constructor takes one io_service for the signals, the next for the
\* acceptor.
SignalService == 0
AcceptService == 1 % N

\* The thread of s is in run and not inside another handler.
Runs(s) == s \notin stopped /\ s \notin exited /\ (s = AcceptService => at = "none")

Alive(c) == c = new_connection_ \/ op[c] /= "none"

\* Mutant: every new connection is given the first io_service.
NoRoundRobin(c) ==
  /\ service' = [service EXCEPT ![c] = 0]
  /\ made' = [made EXCEPT ![0] = @ + 1]
  /\ UNCHANGED next_io_service_

get_io_service(c) ==
  /\ service' = [service EXCEPT ![c] = next_io_service_]
  /\ made' = [made EXCEPT ![next_io_service_] = @ + 1]
  /\ next_io_service_' = Next_io_service

-----------------------------------------------------------------------------
Completes(c) ==
  \/ op[c] = "read" /\ op' = [op EXCEPT ![c] = "read done"]
  \/ op[c] = "write" /\ op' = [op EXCEPT ![c] = "write done"]

\* Operations complete by themselves.  bound: a new object can be made.
Complete ==
  /\ \/ /\ accept = "pending"
        /\ \E c \in Connection : ~Alive(c)
        /\ made[0] + made[N - 1] < MaxMade
        /\ accept' \in {"success", "error"}
        /\ UNCHANGED <<op, signal>>
     \/ signal = "pending" /\ signal' = "success" /\ UNCHANGED <<op, accept>>
     \/ (\E c \in Connection : Completes(c)) /\ UNCHANGED <<accept, signal>>
  /\ UNCHANGED <<next_io_service_, service, new_connection_, at, stopping,
                 stopped, exited, made>>

\* handle_accept up to the call of start, which may hand the connection to
\* another thread
handle_accept ==
  /\ Runs(AcceptService)
  /\ accept \in {"success", "error"}
  /\ accept' = "idle"
  /\ at' = "start_accept"
  /\ op' = IF accept = "success"
           THEN [op EXCEPT ![new_connection_] = "read"] ELSE op
  /\ UNCHANGED <<next_io_service_, service, new_connection_, signal, stopping,
                 stopped, exited, made>>

\* bound: the object of a failed accept is taken before it is replaced
start_accept ==
  /\ at = "start_accept"
  /\ \E c \in Connection :
       /\ op[c] = "none" /\ c /= new_connection_
       /\ new_connection_' = c
       /\ get_io_service(c)
  /\ accept' = "pending"
  /\ at' = "none"
  /\ UNCHANGED <<op, signal, stopping, stopped, exited>>

\* connection::handle_read: on success a reply is sent or more is read; on an
\* error nothing is started and the connection is destroyed.
handle_read(c) ==
  /\ op[c] = "read done" /\ Runs(service[c])
  /\ \E next \in {"none", "read", "write"} : op' = [op EXCEPT ![c] = next]
  /\ UNCHANGED <<next_io_service_, service, new_connection_, accept, at, signal,
                 stopping, stopped, exited, made>>

handle_write(c) ==
  /\ op[c] = "write done" /\ Runs(service[c])
  /\ op' = [op EXCEPT ![c] = "none"]
  /\ UNCHANGED <<next_io_service_, service, new_connection_, accept, at, signal,
                 stopping, stopped, exited, made>>

\* Mutant: only the io_service of the signals is stopped.
StopOwn == {SignalService}

StopAll == Service

\* handle_stop calls io_service_pool::stop ...
handle_stop ==
  /\ Runs(SignalService)
  /\ signal = "success"
  /\ signal' = "idle"
  /\ stopping' = StopAll
  /\ UNCHANGED <<next_io_service_, service, op, new_connection_, accept, at,
                 stopped, exited, made>>

\* ... which stops one io_service after the other
Stop ==
  /\ stopping /= {}
  /\ \E s \in stopping :
       /\ \A r \in stopping : s <= r
       /\ stopping' = stopping \ {s}
       /\ stopped' = stopped \cup {s}
  /\ UNCHANGED <<next_io_service_, service, op, new_connection_, accept, at,
                 signal, exited, made>>

\* io_service::run returns once stopped and out of its handlers; the work
\* object keeps it from returning before.
Exit(s) ==
  /\ s \in stopped \ exited
  /\ s = AcceptService => at = "none"
  /\ s = SignalService => stopping = {}
  /\ exited' = exited \cup {s}
  /\ UNCHANGED <<next_io_service_, service, op, new_connection_, accept, at,
                 signal, stopping, stopped, made>>

-----------------------------------------------------------------------------
\* The constructor, up to the first start_accept
PoolInit ==
  /\ new_connection_ \in Connection
  /\ service = [c \in Connection |-> 2 % N]
  /\ made = [s \in Service |->
              Cardinality({k \in 0..2 : k % N = s})]
  /\ next_io_service_ = 3 % N
  /\ op = [c \in Connection |-> "none"]
  /\ accept = "pending"
  /\ at = "none"
  /\ signal = "pending"
  /\ stopping = {} /\ stopped = {} /\ exited = {}

PoolNext ==
  \/ Complete \/ handle_accept \/ start_accept \/ handle_stop \/ Stop
  \/ \E c \in Connection : handle_read(c) \/ handle_write(c)
  \/ \E s \in Service : Exit(s)

PoolSpec == PoolInit /\ [][PoolNext]_poolVars

\* Each thread runs the handlers that are ready.
FairPoolSpec ==
  /\ PoolSpec
  /\ WF_poolVars(handle_accept) /\ WF_poolVars(start_accept)
  /\ WF_poolVars(handle_stop) /\ WF_poolVars(Stop)
  /\ \A s \in Service : WF_poolVars(Exit(s))
  /\ \A c \in Connection : WF_poolVars(handle_read(c)) /\ WF_poolVars(handle_write(c))

-----------------------------------------------------------------------------
\* The round robin loads the io_services evenly, the signal set and the
\* acceptor counted as the two objects they are: the one that is next has no
\* more than any other, and no other has more than one in advance.
Balanced ==
  \A s \in Service : made[s] - made[next_io_service_] \in {0, 1}

\* After a signal every thread of the pool leaves run, so that the joins of
\* io_service_pool::run return, also when connections are being served.
PoolReturns == signal = "success" ~> exited = Service

=============================================================================
