-------------------------- MODULE BlockingClients --------------------------
(***************************************************************************)
(* The Boost.Asio examples timeouts/blocking_tcp_client and                *)
(* timeouts/blocking_udp_client: each call starts an asynchronous          *)
(* operation and calls run_one until it has completed; a deadline actor,   *)
(* run by the same calls, ends the operation when it takes too long.  A    *)
(* running deadline may pass at any time.  The two clients share nothing.  *)
(***************************************************************************)
EXTENDS Naturals, Sequences

CONSTANTS
  MaxLines,       \* bound: lines the server sends
  Datagrams       \* bound: datagrams that arrive

VARIABLES
  call,           \* the call main is in, or how it ended
  op,             \* the operation of that call
  open,           \* socket_.is_open()
  deadline_,
  incoming,       \* lines on their way; TRUE is the line main has sent
  input_buffer_

tcpVars == <<call, op, open, deadline_, incoming, input_buffer_>>

VARIABLES
  receiving,      \* the operation of the current receive
  receive_deadline_,
  arrived,        \* how many datagrams have arrived
  socket_,        \* those the socket holds
  data,           \* what the completed operation has received, 0 for nothing
  printed         \* what main has printed

udpVars == <<receiving, receive_deadline_, arrived, socket_, data, printed>>

\* Moving a deadline ends the wait on it.
expires(timer, expiry) ==
  [expiry |-> expiry, wait |-> IF timer.wait = "waiting" THEN "ready" ELSE timer.wait]

-----------------------------------------------------------------------------
(* blocking_tcp_client: connect, write_line and read_line.                 *)

Calls == {"connect", "write_line", "read_line"}

\* A call begins: the deadline is set and the operation started.  A read is
\* complete at once if the buffer holds a line; else an operation on a closed
\* socket fails.  async_connect opens the socket.
Begin(name, isOpen, buffer) ==
  /\ call' = name
  /\ open' = (isOpen \/ name = "connect")
  /\ deadline_' = expires(deadline_, "running")
  /\ op' = CASE name = "read_line" /\ buffer /= <<>> -> "success"
             [] name /= "connect" /\ ~isOpen -> "error"
             [] OTHER -> "pending"

\* The call throws and main prints the exception, or main is done.
End(how) == call' = how /\ op' = "idle" /\ UNCHANGED <<open, deadline_>>

-----------------------------------------------------------------------------
(* The network and the clock.                                              *)

Completes(result) ==
  /\ op = "pending" /\ (call = "read_line" => result = "error")
  /\ op' = result
  /\ UNCHANGED <<call, open, deadline_, incoming, input_buffer_>>

ServerSends(own) ==
  /\ call \in {"write_line", "read_line"} /\ Len(incoming) + Len(input_buffer_) < MaxLines
  /\ incoming' = Append(incoming, own)
  /\ UNCHANGED <<call, op, open, deadline_, input_buffer_>>

\* One read takes all that has arrived.
Arrives ==
  /\ op = "pending" /\ call = "read_line" /\ incoming /= <<>>
  /\ input_buffer_' = input_buffer_ \o incoming
  /\ incoming' = <<>>
  /\ op' = "success"
  /\ UNCHANGED <<call, open, deadline_>>

DeadlinePasses ==
  /\ deadline_.expiry = "running"
  /\ deadline_' = expires(deadline_, "passed")
  /\ UNCHANGED <<call, op, open, incoming, input_buffer_>>

-----------------------------------------------------------------------------
(* The handlers run_one executes.                                          *)

\* Mutant: the call trusts the error code.
ConnectedUnchecked == op = "success"

Connected == op = "success" /\ open

IsAnswer == Head(input_buffer_)

\* The completion handler sets ec, and the call returns or throws; main goes
\* on with the next call.
Complete ==
  /\ op \in {"success", "error"}
  /\ UNCHANGED incoming
  /\ \/ /\ call = "connect"
        /\ IF Connected THEN Begin("write_line", open, input_buffer_) ELSE End("failed")
        /\ UNCHANGED input_buffer_
     \/ /\ call = "write_line"
        /\ IF op = "success" THEN Begin("read_line", open, input_buffer_) ELSE End("failed")
        /\ UNCHANGED input_buffer_
     \/ /\ call = "read_line"
        /\ IF op = "error" THEN End("failed") /\ UNCHANGED input_buffer_
           ELSE /\ input_buffer_' = Tail(input_buffer_)
                /\ IF IsAnswer THEN End("done")
                   ELSE Begin("read_line", open, Tail(input_buffer_))

\* Mutant: the actor does not compare the deadline with the clock.
TakenAsPassed == TRUE

Passed == deadline_.expiry = "passed"

check_deadline ==
  /\ call \in Calls /\ deadline_.wait = "ready"
  /\ IF Passed
     THEN /\ open' = FALSE
          /\ op' = IF op = "pending" THEN "error" ELSE op
          /\ deadline_' = [expiry |-> "infinite", wait |-> "waiting"]
     ELSE /\ deadline_' = [deadline_ EXCEPT !.wait = "waiting"]
          /\ UNCHANGED <<open, op>>
  /\ UNCHANGED <<call, incoming, input_buffer_>>

\* Mutant: the deadline actor is started with the first deadline only.
NoActor ==
  /\ call = "connect" /\ op = "pending" /\ open = TRUE
  /\ deadline_ = [expiry |-> "running", wait |-> "none"]
  /\ incoming = <<>> /\ input_buffer_ = <<>>

\* The client is constructed and connect called: setting the deadline has
\* ended the first wait of the actor.
TcpInit ==
  /\ call = "connect" /\ op = "pending" /\ open = TRUE
  /\ deadline_ = [expiry |-> "running", wait |-> "ready"]
  /\ incoming = <<>> /\ input_buffer_ = <<>>

TcpNext ==
  \/ Complete \/ check_deadline \/ Arrives \/ DeadlinePasses
  \/ \E result \in {"success", "error"} : Completes(result)
  \/ \E own \in BOOLEAN : ServerSends(own)

\* The clock goes on and run_one executes what is ready; nothing is assumed
\* of the server.
TcpSpec ==
  /\ TcpInit /\ [][TcpNext]_tcpVars
  /\ WF_tcpVars(DeadlinePasses) /\ WF_tcpVars(Complete) /\ WF_tcpVars(check_deadline)

-----------------------------------------------------------------------------
\* "We must check whether the socket is still open": connect returns to main
\* only with an open socket, even if the deadline actor ran after the connect
\* had succeeded.
ConnectReturnsOpen ==
  [][(call = "connect" /\ call' = "write_line") => open]_tcpVars

\* The deadline of one call never ends another: the socket is closed only when
\* the deadline of the call in progress has passed.
ClosedByOwnDeadline ==
  [][(open /\ ~open') => deadline_.expiry = "passed"]_tcpVars

\* The blocked calls return: no operation is left pending for ever, whatever
\* the server does not do.
CallsReturn == []<>(op /= "pending")

-----------------------------------------------------------------------------
(* blocking_udp_client: main calls receive for ever.  Datagrams wait in    *)
(* the socket until a receive takes them.                                  *)

Arrive ==
  /\ arrived < Datagrams
  /\ arrived' = arrived + 1 /\ socket_' = Append(socket_, arrived + 1)
  /\ UNCHANGED <<receiving, receive_deadline_, data, printed>>

Received ==
  /\ receiving = "pending" /\ socket_ /= <<>>
  /\ receiving' = "success" /\ data' = Head(socket_) /\ socket_' = Tail(socket_)
  /\ UNCHANGED <<receive_deadline_, arrived, printed>>

ReceiveDeadlinePasses ==
  /\ receive_deadline_.expiry = "running"
  /\ receive_deadline_' = expires(receive_deadline_, "passed")
  /\ UNCHANGED <<receiving, arrived, socket_, data, printed>>

\* Mutant: what was received too late counts as an error.
LateIsError == receiving = "error" \/ receive_deadline_.expiry = "passed"

Error == receiving = "error"

\* handle_receive has set ec: receive returns, main prints, and calls receive
\* again with a new deadline.
receive ==
  /\ receiving \in {"success", "error"}
  /\ printed' = IF Error THEN printed ELSE Append(printed, data)
  /\ receiving' = "pending" /\ data' = 0
  /\ receive_deadline_' = expires(receive_deadline_, "running")
  /\ UNCHANGED <<arrived, socket_>>

\* Mutant: the actor does not compare the deadline with the clock.
ReceiveTakenAsPassed == TRUE

ReceivePassed == receive_deadline_.expiry = "passed"

\* Mutant: the actor ends when it finds a deadline that was moved.
SleepOnce(timer) == [timer EXCEPT !.wait = "none"]

Sleep(timer) == [timer EXCEPT !.wait = "waiting"]

\* cancel ends a pending receive; it does not touch one that has completed.
check_receive_deadline ==
  /\ receive_deadline_.wait = "ready"
  /\ IF ReceivePassed
     THEN /\ receiving' = IF receiving = "pending" THEN "error" ELSE receiving
          /\ receive_deadline_' = [expiry |-> "infinite", wait |-> "waiting"]
     ELSE receiving' = receiving /\ receive_deadline_' = Sleep(receive_deadline_)
  /\ UNCHANGED <<arrived, socket_, data, printed>>

\* The client is constructed and main has called receive.
UdpInit ==
  /\ receiving = "pending" /\ data = 0
  /\ receive_deadline_ = [expiry |-> "running", wait |-> "ready"]
  /\ arrived = 0 /\ socket_ = <<>> /\ printed = <<>>

UdpNext == Arrive \/ Received \/ ReceiveDeadlinePasses \/ receive \/ check_receive_deadline

UdpSpec ==
  /\ UdpInit /\ [][UdpNext]_udpVars
  /\ WF_udpVars(ReceiveDeadlinePasses) /\ WF_udpVars(receive) /\ WF_udpVars(check_receive_deadline)

-----------------------------------------------------------------------------
\* A timeout loses no datagram: those printed, the one received and those the
\* socket holds are all that arrived, in order, though a deadline may pass
\* between the receipt of a datagram and its handler.
NoDatagramLost ==
  printed \o (IF data = 0 THEN <<>> ELSE <<data>>) \o socket_ = [i \in 1..arrived |-> i]

\* A receive is cancelled only by its own deadline, never by the one of an
\* earlier call whose actor runs late.
CancelledByOwnDeadline ==
  [][(receiving = "pending" /\ receiving' = "error") => receive_deadline_.expiry = "passed"]_udpVars

\* "The blocked receive() function will return": receive is entered again and
\* again even if no datagram comes.
ReceiveReturns == []<>(receiving = "pending") /\ []<>(receiving /= "pending")

=============================================================================
