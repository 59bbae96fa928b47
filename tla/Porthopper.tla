----------------------------- MODULE Porthopper -----------------------------
(***************************************************************************)
(* The Boost.Asio example porthopper.  The server sends numbered frames to *)
(* the ports that clients subscribe over a control connection; the client  *)
(* moves to a new port every few frames and goes on receiving on the old   *)
(* one until a frame arrives on the new one.  While it does so it runs     *)
(* three operations with one thread, and stops the io_service to print a   *)
(* frame of the old socket.                                                *)
(*                                                                         *)
(* Datagrams may be lost, delayed and reordered.  Every data socket gets a *)
(* port that was not used before.                                          *)
(***************************************************************************)
EXTENDS Naturals

CONSTANTS
  FramesPerSocket,   \* 50 in the code
  MaxPort,           \* bound: data sockets the client creates
  MaxFrame           \* bound: frames the server sends

VARIABLES
  pc,        \* "frames", "run" or "failed"
  client,    \* the client's variables
  op,        \* its operations: "change", "f1" (new socket), "f2" (old socket)
  network,   \* datagrams under way: <<port, frame number>>
  control,   \* the request on the control connection, <<0, 0>> if none
  accepted,  \* the server has accepted the control connection
  delayed,   \* the request the server holds back for two seconds
  subscribers_,
  next_frame_number_

hopVars == <<pc, client, op, network, control, accepted, delayed, subscribers_,
             next_frame_number_>>
serverVars == <<accepted, delayed, subscribers_, next_frame_number_>>

None == <<0, 0>>
Idle == [k \in {"change", "f1", "f2"} |-> "idle"]

-----------------------------------------------------------------------------
(* The server.                                                             *)

\* The server begins to read requests on the connection.
handle_accept ==
  /\ ~accepted /\ accepted' = TRUE
  /\ UNCHANGED <<pc, client, op, network, control, delayed, subscribers_, next_frame_number_>>

\* handle_control_request starts the timer that delays the request.
handle_control_request ==
  /\ accepted /\ control /= None /\ delayed = None
  /\ delayed' = control /\ control' = None
  /\ UNCHANGED <<pc, client, op, network, accepted, subscribers_, next_frame_number_>>

\* Mutant: the old subscription is kept.
Added(request) == subscribers_ \cup ({request[2]} \ {0})

Changed(request) == (subscribers_ \ {request[1]}) \cup ({request[2]} \ {0})

\* Nothing changes if the client is gone: remote_endpoint fails.
handle_control_request_timer ==
  /\ delayed /= None
  /\ subscribers_' = IF pc = "failed" THEN subscribers_ ELSE Changed(delayed)
  /\ delayed' = None
  /\ UNCHANGED <<pc, client, op, network, control, accepted, next_frame_number_>>

handle_timer ==
  /\ next_frame_number_ <= MaxFrame
  /\ network' = network \cup {<<port, next_frame_number_>> : port \in subscribers_}
  /\ next_frame_number_' = next_frame_number_ + 1
  /\ UNCHANGED <<pc, client, op, control, accepted, delayed, subscribers_>>

-----------------------------------------------------------------------------
(* The client.                                                             *)

Newer(number) == IF number > client.last_frame_number THEN number ELSE client.last_frame_number

Lose ==
  /\ \E d \in network : network' = network \ {d}
  /\ UNCHANGED <<pc, client, op, control, serverVars>>

\* The new socket, the request to change to it and the first receive on it;
\* the loop begins with a receive on the old socket.
Renegotiate(c) ==
  /\ pc' = "run"
  /\ client' = [c EXCEPT !.new_data_socket = @ + 1, !.i = 0, !.done = TRUE,
                         !.stopped = FALSE, !.failed = FALSE]
  /\ op' = [k \in DOMAIN op |-> "pending"]

\* receive on the current data socket, for so many frames.
ReceiveFrame ==
  /\ pc = "frames"
  /\ \E d \in network :
       /\ d[1] = client.data_socket
       /\ network' = network \ {d}
       /\ LET c == [client EXCEPT !.last_frame_number = Newer(d[2]), !.i = @ + 1]
          IN IF c.i < FramesPerSocket
             THEN client' = c /\ UNCHANGED <<pc, op>>
             ELSE c.new_data_socket < MaxPort /\ Renegotiate(c)
  /\ UNCHANGED <<control, serverVars>>

\* An operation completes: the request is on its way, a frame has come, or it
\* failed.
Written(result) ==
  /\ op.change = "pending"
  /\ op' = [op EXCEPT !.change = result]
  /\ control' = IF result = "success" THEN <<client.data_port, client.new_data_socket>>
                ELSE control
  /\ result = "success" => control = None
  /\ UNCHANGED <<pc, client, network, serverVars>>

Received(k) ==
  /\ op[k] = "pending"
  /\ \E d \in network :
       /\ d[1] = IF k = "f1" THEN client.new_data_socket ELSE client.data_socket
       /\ network' = network \ {d}
       /\ client' = [client EXCEPT ![k] = d[2]]
  /\ op' = [op EXCEPT ![k] = "success"]
  /\ UNCHANGED <<pc, control, serverVars>>

ReceiveFails(k) ==
  /\ op[k] = "pending"
  /\ op' = [op EXCEPT ![k] = "error"]
  /\ UNCHANGED <<pc, client, network, control, serverVars>>

\* Mutant: the handler stops the io_service and leaves done.
StopOnly(c) == [c EXCEPT !.stopped = TRUE]

\* The old socket's handler when it has received a frame.
Interrupt(c) == [c EXCEPT !.stopped = TRUE, !.done = FALSE]

\* The handlers: control_result and new_data_socket_result are kept as
\* "failed"; a frame on the new socket closes the old one.
Handler(k) ==
  /\ pc = "run" /\ ~client.stopped /\ op[k] \in {"success", "error"}
  /\ LET ok == op[k] = "success"
     IN /\ client' = CASE k = "f2" /\ ok -> Interrupt(client)
                       [] k = "f1" /\ ok -> [client EXCEPT !.data_socket = 0]
                       [] k /= "f2" /\ ~ok -> [client EXCEPT !.failed = TRUE]
                       [] OTHER -> client
        /\ op' = [op EXCEPT ![k] = "idle",
                            !.f2 = IF k = "f2" THEN "idle"
                                   ELSE IF k = "f1" /\ ok /\ @ = "pending"
                                   THEN "error" ELSE @]
  /\ UNCHANGED <<pc, network, control, serverVars>>

\* Mutant: the new socket is not taken over.
TakeNothing(c) == c

TakeOver(c) == [c EXCEPT !.data_socket = c.new_data_socket, !.data_port = c.new_data_socket]

\* run returns, stopped or for want of work: the frame of the old socket is
\* printed and the loop goes on, or the renegotiation is over.
RunReturns ==
  /\ pc = "run" /\ (client.stopped \/ op = Idle)
  /\ IF ~client.done
     THEN /\ client' = [client EXCEPT !.last_frame_number = Newer(client.f2),
                                      !.done = TRUE, !.stopped = FALSE]
          /\ op' = [op EXCEPT !.f2 = IF client.data_socket /= 0 THEN "pending" ELSE "idle"]
          /\ UNCHANGED pc
     ELSE IF client.failed THEN pc' = "failed" /\ UNCHANGED <<client, op>>
     ELSE /\ pc' = "frames"
          /\ client' = [TakeOver(client) EXCEPT !.last_frame_number = Newer(client.f1)]
          /\ UNCHANGED op
  /\ UNCHANGED <<network, control, serverVars>>

-----------------------------------------------------------------------------
\* The client has connected and asked for frames at its first port.
HopInit ==
  /\ pc = "frames" /\ op = Idle /\ network = {}
  /\ client = [data_socket |-> 1, data_port |-> 1, new_data_socket |-> 1, i |-> 0,
               last_frame_number |-> 0, f1 |-> 0, f2 |-> 0,
               done |-> TRUE, stopped |-> FALSE, failed |-> FALSE]
  /\ control = <<0, 1>> /\ accepted = FALSE /\ delayed = None
  /\ subscribers_ = {} /\ next_frame_number_ = 1

HopNext ==
  \/ handle_accept \/ handle_control_request \/ handle_control_request_timer \/ handle_timer
  \/ Lose \/ ReceiveFrame \/ RunReturns
  \/ \E result \in {"success", "error"} : Written(result)
  \/ \E k \in {"f1", "f2"} : Received(k) \/ ReceiveFails(k)
  \/ \E k \in DOMAIN op : Handler(k)

HopSpec == HopInit /\ [][HopNext]_hopVars

-----------------------------------------------------------------------------
\* The operations of a renegotiation use objects that live on the stack of
\* main: when it is over none of them is outstanding, also when stop left
\* handlers in the queue.
NoDanglingBuffers == pc = "frames" => op = Idle

\* Every port the server sends to is a socket the running client still has
\* open: the old socket is not closed before the server has left it.
SubscribedIsOpen ==
  pc /= "failed" => subscribers_ \subseteq {client.data_socket, client.new_data_socket}

\* Between renegotiations the server sends to the socket the client reads, or
\* the request for it is under way.
DataSocketIsServed ==
  pc = "frames" =>
    \/ subscribers_ = {client.data_socket}
    \/ client.data_socket \in {control[2], delayed[2]} \ {0}

=============================================================================
