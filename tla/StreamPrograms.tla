--------------------------- MODULE StreamPrograms ---------------------------
(***************************************************************************)
(* The other Boost.Asio examples, side by side: icmp/ping, services,       *)
(* porthopper, serialization, ssl, the echo servers, the two fork          *)
(* programs, and the messages of chat, porthopper and ping as bytes.  They *)
(* share no state.  Each behaviour is one of one program, chosen at the    *)
(* start; the others stay as they are.                                     *)
(***************************************************************************)
EXTENDS Ping, Integers, Sequences

CONSTANTS
  Async, MaxPosts,                                    \* services
  FramesPerSocket, MaxPort, MaxFrame,                 \* porthopper
  serial_header_length, SerialBase, Sizes, Messages,  \* serialization
  Clients, Nobody, MaxSessions, MaxLine, Buffer,      \* ssl
  MaxSent, BufferSize, Capacity,                      \* nonblocking
  EchoSession, EchoBuffer, MaxEcho,                   \* async_tcp_echo_server
  HandlerSizes, BlockSize,                            \* allocation
  UdpClient, DatagramSize, max_length, MaxDatagrams,  \* async_udp_echo_server
  PairBuffer, FilterSize, MaxLength,                  \* connect_pair
  Child, NoChild,                                     \* process_per_connection
  header_length, max_body_length, Width,              \* chat_message
  Ports, Numbers,                                     \* control_request, frame
  Base, MaxBody                                       \* icmp_header

VARIABLES
  program,
  log_isOpen, log_op, log_told, log_posted, log_done, log_ofstream, log_work,
  log_thread,
  hop_pc, hop_client, hop_op, hop_network, hop_control, hop_accepted,
  hop_delayed, hop_subscribers, hop_next_frame_number,
  ser_peer, ser_written, ser_results, ser_stream, ser_broken, ser_reader,
  ser_received,
  ssl_sess, ssl_created, ssl_client, ssl_alive,
  nb_sent, nb_echoed, nb_inbound, nb_outbound, nb_session, nb_progress,
  nb_wait, nb_isOpen,
  object, tcp_op, tcp_data_, tcp_sent, tcp_taken, tcp_echoed, tcp_broken,
  in_use_, held, needed, heap, alloc_op, alloc_data_, alloc_sent,
  alloc_taken, alloc_echoed, alloc_closed,
  network, udp_op, udp_data_, sender_endpoint_, udp_bytes, received, replies,
  datagrams,
  main_at, request, pair_sent, reply, filter, filter_data_, toFilter, toMain,
  fork_parent, fork_pending, fork_socket, fork_child,
  daemon_pc, daemon_me, daemon_alive, daemon_leader, daemon_fd,
  daemon_started, daemon_internal, daemon_answers,
  msg_data, msg_body_length, msg_outcome,
  port_old, port_new, port_number, port_message,
  icmp_rep, icmp_body, icmp_fields, icmp_phase

Logged == INSTANCE LoggedSocket WITH
  isOpen <- log_isOpen, op <- log_op, told <- log_told, posted <- log_posted,
  done <- log_done, ofstream_ <- log_ofstream, work_ <- log_work, thread <- log_thread

Hop == INSTANCE Porthopper WITH
  pc <- hop_pc, client <- hop_client, op <- hop_op, network <- hop_network,
  control <- hop_control, accepted <- hop_accepted, delayed <- hop_delayed,
  subscribers_ <- hop_subscribers, next_frame_number_ <- hop_next_frame_number

Ser == INSTANCE Serialization WITH
  header_length <- serial_header_length, Base <- SerialBase, peer <- ser_peer,
  written <- ser_written, results <- ser_results, stream <- ser_stream,
  broken <- ser_broken, reader <- ser_reader, received <- ser_received

Ssl == INSTANCE SslEcho WITH
  sess <- ssl_sess, created <- ssl_created, client <- ssl_client, alive <- ssl_alive

Echo == INSTANCE EchoServers WITH
  sent <- nb_sent, echoed <- nb_echoed, inbound <- nb_inbound,
  outbound <- nb_outbound, session <- nb_session, progress <- nb_progress,
  wait <- nb_wait, isOpen <- nb_isOpen

Fork == INSTANCE ForkPrograms WITH
  parent <- fork_parent, pending <- fork_pending, socket_ <- fork_socket,
  child <- fork_child, pc <- daemon_pc, me <- daemon_me, alive <- daemon_alive,
  leader <- daemon_leader, fd <- daemon_fd, started <- daemon_started,
  internal <- daemon_internal, answers <- daemon_answers

Codes == INSTANCE Encodings WITH
  data_ <- msg_data, body_length_ <- msg_body_length, outcome <- msg_outcome,
  old <- port_old, new <- port_new, number <- port_number, message <- port_message,
  rep_ <- icmp_rep, body <- icmp_body, fields <- icmp_fields, phase <- icmp_phase

logVars == <<log_isOpen, log_op, log_told, log_posted, log_done, log_ofstream,
             log_work, log_thread>>
hopVars == <<hop_pc, hop_client, hop_op, hop_network, hop_control,
             hop_accepted, hop_delayed, hop_subscribers,
             hop_next_frame_number>>
serVars == <<ser_peer, ser_written, ser_results, ser_stream, ser_broken,
             ser_reader, ser_received>>
sslVars == <<ssl_sess, ssl_created, ssl_client, ssl_alive>>
nbVars == <<nb_sent, nb_echoed, nb_inbound, nb_outbound, nb_session,
            nb_progress, nb_wait, nb_isOpen>>
tcpVars == <<object, tcp_op, tcp_data_, tcp_sent, tcp_taken, tcp_echoed,
             tcp_broken>>
allocVars == <<in_use_, held, needed, heap, alloc_op, alloc_data_, alloc_sent,
               alloc_taken, alloc_echoed, alloc_closed>>
udpVars == <<network, udp_op, udp_data_, sender_endpoint_, udp_bytes, received,
             replies, datagrams>>
pairVars == <<main_at, request, pair_sent, reply, filter, filter_data_,
              toFilter, toMain>>
forkVars == <<fork_parent, fork_pending, fork_socket, fork_child>>
daemonVars == <<daemon_pc, daemon_me, daemon_alive, daemon_leader, daemon_fd,
                daemon_started, daemon_internal, daemon_answers>>
msgVars == <<msg_data, msg_body_length, msg_outcome>>
portVars == <<port_old, port_new, port_number, port_message>>
icmpVars == <<icmp_rep, icmp_body, icmp_fields, icmp_phase>>

vars == <<program, pingVars, logVars, hopVars, serVars, sslVars, nbVars,
          tcpVars, allocVars, udpVars, pairVars, forkVars, daemonVars,
          msgVars, portVars, icmpVars>>

-----------------------------------------------------------------------------
\* All inputs of the program that runs; one input of a program that does not.
Inputs(name, S) == IF program = name THEN S ELSE {CHOOSE x \in S : TRUE}

Init ==
  /\ program \in {"ping", "services", "porthopper", "serialization", "ssl",
                  "nonblocking", "async_tcp_echo_server", "allocation",
                  "async_udp_echo_server", "connect_pair",
                  "process_per_connection", "daemon", "chat_message",
                  "protocol", "icmp_header"}
  /\ PingInit(Inputs("ping", BOOLEAN))
  /\ Logged!LoggedInit
  /\ Hop!HopInit
  /\ Ser!SerInit(Inputs("serialization", {"server", "other"}))
  /\ Ssl!SslInit
  /\ Echo!NbInit
  /\ Echo!TcpInit
  /\ Echo!AllocInit
  /\ Echo!UdpInit(Inputs("async_udp_echo_server", UdpClient))
  /\ Echo!PairInit
  /\ Fork!ForkInit
  /\ Fork!DaemonInit(Inputs("daemon", SUBSET (0..2)))
  /\ Codes!MessageInit(Inputs("chat_message", Codes!Headers))
  /\ Codes!ProtocolInit(Inputs("protocol", Ports), Inputs("protocol", Numbers))
  /\ Codes!IcmpInit(Inputs("icmp_header", Codes!Bodies),
                    Inputs("icmp_header", Codes!Fields))

Next ==
  /\ UNCHANGED program
  /\ \/ /\ program = "ping" /\ PingNext
        /\ UNCHANGED <<logVars, hopVars, serVars, sslVars, nbVars, tcpVars,
                       allocVars, udpVars, pairVars, forkVars, daemonVars,
                       msgVars, portVars, icmpVars>>
     \/ /\ program = "services" /\ Logged!LoggedNext
        /\ UNCHANGED <<pingVars, hopVars, serVars, sslVars, nbVars, tcpVars,
                       allocVars, udpVars, pairVars, forkVars, daemonVars,
                       msgVars, portVars, icmpVars>>
     \/ /\ program = "porthopper" /\ Hop!HopNext
        /\ UNCHANGED <<pingVars, logVars, serVars, sslVars, nbVars, tcpVars,
                       allocVars, udpVars, pairVars, forkVars, daemonVars,
                       msgVars, portVars, icmpVars>>
     \/ /\ program = "serialization" /\ Ser!SerNext
        /\ UNCHANGED <<pingVars, logVars, hopVars, sslVars, nbVars, tcpVars,
                       allocVars, udpVars, pairVars, forkVars, daemonVars,
                       msgVars, portVars, icmpVars>>
     \/ /\ program = "ssl" /\ Ssl!SslNext
        /\ UNCHANGED <<pingVars, logVars, hopVars, serVars, nbVars, tcpVars,
                       allocVars, udpVars, pairVars, forkVars, daemonVars,
                       msgVars, portVars, icmpVars>>
     \/ /\ program = "nonblocking" /\ Echo!NbNext
        /\ UNCHANGED <<pingVars, logVars, hopVars, serVars, sslVars,
                       tcpVars, allocVars, udpVars, pairVars, forkVars,
                       daemonVars, msgVars, portVars, icmpVars>>
     \/ /\ program = "async_tcp_echo_server" /\ Echo!TcpNext
        /\ UNCHANGED <<pingVars, logVars, hopVars, serVars, sslVars, nbVars,
                       allocVars, udpVars, pairVars, forkVars, daemonVars,
                       msgVars, portVars, icmpVars>>
     \/ /\ program = "allocation" /\ Echo!AllocNext
        /\ UNCHANGED <<pingVars, logVars, hopVars, serVars, sslVars, nbVars,
                       tcpVars, udpVars, pairVars, forkVars, daemonVars,
                       msgVars, portVars, icmpVars>>
     \/ /\ program = "async_udp_echo_server" /\ Echo!UdpNext
        /\ UNCHANGED <<pingVars, logVars, hopVars, serVars, sslVars, nbVars,
                       tcpVars, allocVars, pairVars, forkVars, daemonVars,
                       msgVars, portVars, icmpVars>>
     \/ /\ program = "connect_pair" /\ Echo!PairNext
        /\ UNCHANGED <<pingVars, logVars, hopVars, serVars, sslVars, nbVars,
                       tcpVars, allocVars, udpVars, forkVars, daemonVars,
                       msgVars, portVars, icmpVars>>
     \/ /\ program = "process_per_connection" /\ Fork!ForkNext
        /\ UNCHANGED <<pingVars, logVars, hopVars, serVars, sslVars, nbVars,
                       tcpVars, allocVars, udpVars, pairVars, daemonVars,
                       msgVars, portVars, icmpVars>>
     \/ /\ program = "daemon" /\ Fork!DaemonNext
        /\ UNCHANGED <<pingVars, logVars, hopVars, serVars, sslVars, nbVars,
                       tcpVars, allocVars, udpVars, pairVars, forkVars,
                       msgVars, portVars, icmpVars>>
     \/ /\ program = "chat_message" /\ Codes!MessageNext
        /\ UNCHANGED <<pingVars, logVars, hopVars, serVars, sslVars, nbVars,
                       tcpVars, allocVars, udpVars, pairVars, forkVars,
                       daemonVars, portVars, icmpVars>>
     \/ /\ program = "protocol" /\ Codes!ProtocolNext
        /\ UNCHANGED <<pingVars, logVars, hopVars, serVars, sslVars, nbVars,
                       tcpVars, allocVars, udpVars, pairVars, forkVars,
                       daemonVars, msgVars, icmpVars>>
     \/ /\ program = "icmp_header" /\ Codes!IcmpNext
        /\ UNCHANGED <<pingVars, logVars, hopVars, serVars, sslVars, nbVars,
                       tcpVars, allocVars, udpVars, pairVars, forkVars,
                       daemonVars, msgVars, portVars>>

\* The fairness of each program, for the program that runs: threads go on,
\* handlers that are due are called, timers expire and time passes.  The clients
\* of nonblocking, async_tcp_echo_server and allocation take what is echoed to
\* them; ssl is both its ends.  No other peer has to send, accept, read or answer;
\* the connection serialization reads from gets lost at last.
Spec ==
  /\ Init /\ [][Next]_vars
  /\ WF_pingVars(program = "ping" /\ Tick)
  /\ WF_pingVars(program = "ping" /\ Expire)
  /\ WF_pingVars(program = "ping" /\ start_send)
  /\ WF_pingVars(program = "ping" /\ handle_timeout)
  /\ WF_logVars(program = "services" /\ Logged!RunJob)
  /\ WF_logVars(program = "services" /\ Logged!ThreadEnds)
  /\ WF_logVars(program = "services" /\ Logged!DestroyService)
  /\ WF_serVars(program = "serialization" /\ Ser!Break)
  /\ WF_serVars(program = "serialization" /\ Ser!handle_read_header)
  /\ WF_serVars(program = "serialization" /\ Ser!handle_read_data)
  /\ WF_sslVars(program = "ssl" /\ Ssl!Handlers)
  /\ WF_nbVars(program = "nonblocking" /\ Echo!Receive)
  /\ WF_nbVars(program = "nonblocking" /\ nb_inbound /= <<>>
                /\ Echo!WaitOver("read", "success"))
  /\ WF_nbVars(program = "nonblocking" /\ Len(nb_outbound) < Capacity
                /\ Echo!WaitOver("write", "success"))
  /\ WF_nbVars(program = "nonblocking" /\ Echo!handle_read)
  /\ WF_nbVars(program = "nonblocking" /\ Echo!handle_write)
  /\ \A s \in EchoSession :
       WF_tcpVars(program = "async_tcp_echo_server" /\ Echo!TcpHandlers(s))
  /\ WF_allocVars(program = "allocation" /\ Echo!AllocSession)
  /\ WF_pairVars(program = "connect_pair" /\ Echo!MainThread)
  /\ WF_pairVars(program = "connect_pair" /\ Echo!FilterThread)
  /\ WF_forkVars(program = "process_per_connection" /\ Fork!Signalled)
  /\ WF_forkVars(program = "process_per_connection" /\ Fork!handle_signal_wait)
  /\ \A c \in Child :
       WF_forkVars(program = "process_per_connection" /\ Fork!ChildStep(c))
  /\ WF_daemonVars(program = "daemon" /\ Fork!ParentExits)

-----------------------------------------------------------------------------
\* Nobody uses what is gone and nothing needed is missing.  A porthopper
\* operation has its buffer and its socket and the socket in use is served; an
\* ssl session is deleted once and the server always accepts; a forked
\* connection has one owner; the daemon keeps its socket and its new streams and
\* lets go of the terminal; what the third party library of nonblocking wants is waited for,
\* a session of async_tcp_echo_server lives as long as its one operation, and
\* the block of allocation is marked as used exactly while a handler has it.
OwnedWhileUsed ==
  /\ Hop!NoDanglingBuffers /\ Hop!SubscribedIsOpen /\ Hop!DataSocketIsServed
  /\ Ssl!DeletedOnce /\ Ssl!AlwaysAccepting
  /\ Echo!WantedIsWaitedFor /\ Echo!OwnedByOperation /\ Echo!BlockAccounted
  /\ Fork!OneOwner /\ Fork!Detached /\ Fork!SocketKept

\* What arrives is what was sent.  The log file holds the messages logged since
\* it was opened, if it was, all of them when the service is gone; async_read delivers the
\* data async_write was given, or an error; an ssl client prints its own line;
\* datagrams go back to their sender only; a line comes back through the filter
\* of connect_pair in upper case and whole, and the two threads wait for each
\* other only over a line that is too long for the sockets.
DeliveredAsSent ==
  /\ Logged!FileIsLog /\ Logged!DrainedAtExit
  /\ Ser!ReceivedAsWritten /\ Ser!TooLongRefused /\ Ser!OtherIsError
  /\ Ssl!ReplyIsLine
  /\ Echo!RepliesToSender
  /\ Echo!ReplyInStep /\ Echo!BlockedByLongLineOnly

\* Reading bytes undoes writing them: decode_header never allows a body larger
\* than data_, ports, frame numbers and header fields come back as they were,
\* and the checksum of an ICMP packet verifies whatever the carries.
EncodingsInverse ==
  /\ Codes!BodyFits /\ Codes!PortsRoundTrip /\ Codes!NumberRoundTrip
  /\ Codes!ChecksumVerifies /\ Codes!FieldsOnWire

\* The logged socket implements the bare socket; the connection of nonblocking,
\* each session of async_tcp_echo_server and the session of allocation
\* implement an echo server; ping requests are a second or more apart, and a
\* body length that is encoded is the one decoded.
StepsAsPromised ==
  /\ Logged!LikeBareSocket
  /\ Echo!IsEchoServer /\ Echo!SessionsEcho /\ Echo!AllocEchoes
  /\ OneSecondApart /\ Codes!RoundTrip

\* ping goes on sending unless a request cannot be sent, the log service's
\* destructor returns, a read of serialization completes unless the header is a
\* negative number, ssl clients end, all bytes are echoed and sessions
\* without a client deleted, lines are answered, children end and are reaped,
\* and the daemon's parents exit.
NoProgramStuck ==
  /\ program = "ping" => KeepsSending
  /\ program = "services" => Logged!ServiceEnds
  /\ program = "serialization" => Ser!ReadCompletes
  /\ program = "ssl" => Ssl!AllEnd
  /\ program = "nonblocking" => Echo!EchoesAll
  /\ program = "async_tcp_echo_server" => Echo!SessionsEnd
  /\ program = "allocation" => Echo!AllocEchoesAll
  /\ program = "connect_pair" => Echo!LinesAnswered
  /\ program = "process_per_connection" => Fork!ChildEnds /\ Fork!NoZombieStays
  /\ program = "daemon" => Fork!DaemonAlone

=============================================================================
