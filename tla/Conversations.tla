---------------------------- MODULE Conversations ----------------------------
(***************************************************************************)
(* Programs that talk to a peer they cannot rely on, side by side: the     *)
(* chat server and the two chat clients, the server and the clients of the *)
(* timeouts examples, the search page with its ajax calls and the console  *)
(* client of the search.  They share no state.  Each behaviour is one of   *)
(* one program, chosen at the start; the others stay as they are.          *)
(***************************************************************************)
EXTENDS Naturals, Sequences, TLC

CONSTANTS
  Session, max_recent_msgs, MaxMsgs,   \* the chat server
  MaxLines,                            \* the chat client, blocking_tcp_client
  max_body_length, MaxTyped,           \* the chat client for POSIX
  Peer, Timeout, MaxQueue,             \* timeouts/server
  Endpoints, Datagrams,                \* the clients with timeouts
  Queries, Hits, MaxCalls,             \* the search page
  MaxInput                             \* the console client

VARIABLES
  program,
  chat_participants, chat_recent_msgs, chat_write_msgs, chat_reading,
  chat_writing, chat_sent, chat_since, chat_history,
  client_typed, client_posted, client_write_msgs, client_connect,
  client_read, client_write, client_socket, client_sent, client_main,
  client_running,
  posix_op, posix_part, posix_input_buffer, posix_write_msg, posix_typed,
  posix_sent, posix_closed, posix_running,
  timeout_subscribers, timeout_session,
  async_client,
  tcp_call, tcp_op, tcp_open, tcp_deadline, tcp_incoming, tcp_input_buffer,
  udp_receiving, udp_deadline, udp_arrived, udp_socket, udp_data,
  udp_printed,
  page_answer, page_field, page_asked, page_pending, page_delivered,
  page_infos, page_content,
  console_input, console_at, console_answered, console_phase

Chat == INSTANCE ChatServer WITH
  participants_ <- chat_participants, recent_msgs_ <- chat_recent_msgs,
  write_msgs_ <- chat_write_msgs, reading <- chat_reading,
  writing <- chat_writing, sent <- chat_sent, since <- chat_since,
  history <- chat_history

Client == INSTANCE ChatClient WITH
  typed <- client_typed, posted <- client_posted,
  write_msgs_ <- client_write_msgs, connect <- client_connect,
  read <- client_read, write <- client_write, socket_ <- client_socket,
  sent <- client_sent, main <- client_main, running <- client_running

Posix == INSTANCE PosixChatClient WITH
  op <- posix_op, part <- posix_part, input_buffer_ <- posix_input_buffer,
  write_msg_ <- posix_write_msg, typed <- posix_typed, sent <- posix_sent,
  closed <- posix_closed, running <- posix_running

Timeouts == INSTANCE TimeoutServer WITH
  Session <- Peer, subscribers_ <- timeout_subscribers,
  session <- timeout_session

Async == INSTANCE AsyncTcpClient WITH
  client <- async_client

Blocking == INSTANCE BlockingClients WITH
  call <- tcp_call, op <- tcp_op, open <- tcp_open,
  deadline_ <- tcp_deadline, incoming <- tcp_incoming,
  input_buffer_ <- tcp_input_buffer, receiving <- udp_receiving,
  receive_deadline_ <- udp_deadline, arrived <- udp_arrived,
  socket_ <- udp_socket, data <- udp_data, printed <- udp_printed

Search == INSTANCE SearchClients WITH
  answer <- page_answer, field <- page_field, asked <- page_asked,
  pending <- page_pending, delivered <- page_delivered, infos <- page_infos,
  content <- page_content, input <- console_input, at <- console_at,
  answered <- console_answered, phase <- console_phase

chatVars == <<chat_participants, chat_recent_msgs, chat_write_msgs,
              chat_reading, chat_writing, chat_sent, chat_since,
              chat_history>>
clientVars == <<client_typed, client_posted, client_write_msgs,
                client_connect, client_read, client_write, client_socket,
                client_sent, client_main, client_running>>
posixVars == <<posix_op, posix_part, posix_input_buffer, posix_write_msg,
               posix_typed, posix_sent, posix_closed, posix_running>>
timeoutVars == <<timeout_subscribers, timeout_session>>
asyncVars == <<async_client>>
tcpVars == <<tcp_call, tcp_op, tcp_open, tcp_deadline, tcp_incoming,
             tcp_input_buffer>>
udpVars == <<udp_receiving, udp_deadline, udp_arrived, udp_socket, udp_data,
             udp_printed>>
pageVars == <<page_answer, page_field, page_asked, page_pending, page_delivered,
              page_infos, page_content>>
consoleVars == <<console_input, console_at, console_answered, console_phase>>

vars == <<program, chatVars, clientVars, posixVars, timeoutVars, asyncVars,
          tcpVars, udpVars, pageVars, consoleVars>>

-----------------------------------------------------------------------------
Init ==
  /\ program \in {"chat server", "chat client", "posix chat client",
                  "timeouts server", "async_tcp_client", "blocking_tcp_client",
                  "blocking_udp_client", "page", "console"}
  /\ Chat!ChatInit
  /\ Client!ClientInit
  /\ Posix!PosixInit
  /\ Timeouts!SessionInit
  /\ Async!ClientInit
  /\ Blocking!TcpInit
  /\ Blocking!UdpInit
  /\ IF program = "page" THEN Search!PageInit(Search!Answers, Queries)
     ELSE Search!PageInit({Search!null}, {CHOOSE q \in Queries : TRUE})
  /\ Search!ConsoleInit(IF program = "console" THEN Search!Texts ELSE {<<>>})

Next ==
  /\ UNCHANGED program
  /\ \/ /\ program = "chat server" /\ Chat!ChatNext
        /\ UNCHANGED <<clientVars, posixVars, timeoutVars, asyncVars, tcpVars, udpVars,
                       pageVars, consoleVars>>
     \/ /\ program = "chat client" /\ Client!ClientNext
        /\ UNCHANGED <<chatVars, posixVars, timeoutVars, asyncVars, tcpVars, udpVars,
                       pageVars, consoleVars>>
     \/ /\ program = "posix chat client" /\ Posix!PosixNext
        /\ UNCHANGED <<chatVars, clientVars, timeoutVars, asyncVars, tcpVars, udpVars,
                       pageVars, consoleVars>>
     \/ /\ program = "timeouts server" /\ Timeouts!SessionNext
        /\ UNCHANGED <<chatVars, clientVars, posixVars, asyncVars, tcpVars, udpVars,
                       pageVars, consoleVars>>
     \/ /\ program = "async_tcp_client" /\ Async!ClientNext
        /\ UNCHANGED <<chatVars, clientVars, posixVars, timeoutVars, tcpVars, udpVars,
                       pageVars, consoleVars>>
     \/ /\ program = "blocking_tcp_client" /\ Blocking!TcpNext
        /\ UNCHANGED <<chatVars, clientVars, posixVars, timeoutVars, asyncVars, udpVars,
                       pageVars, consoleVars>>
     \/ /\ program = "blocking_udp_client" /\ Blocking!UdpNext
        /\ UNCHANGED <<chatVars, clientVars, posixVars, timeoutVars, asyncVars, tcpVars,
                       pageVars, consoleVars>>
     \/ /\ program = "page" /\ Search!PageNext
        /\ UNCHANGED <<chatVars, clientVars, posixVars, timeoutVars, asyncVars, tcpVars,
                       udpVars, consoleVars>>
     \/ /\ program = "console" /\ Search!ConsoleNext
        /\ UNCHANGED <<chatVars, clientVars, posixVars, timeoutVars, asyncVars, tcpVars,
                       udpVars, pageVars>>

\* The participants of the chat are alike, and so are the sessions of
\* timeouts/server.
Symmetry == Permutations(Session) \cup Permutations(Peer)

\* The fairness of each program, for the behaviours that are its own.
ChatClientFair ==
  /\ SF_clientVars(program = "chat client" /\ Client!do_write)
  /\ SF_clientVars(program = "chat client" /\ Client!Close)
  /\ WF_clientVars(program = "chat client" /\ Client!handle_connect)
  /\ WF_clientVars(program = "chat client" /\ Client!handle_write)
  /\ WF_clientVars(program = "chat client" /\ Client!handle_read)
  /\ WF_clientVars(program = "chat client" /\ Client!run)
  /\ WF_clientVars(program = "chat client" /\ Client!Join)

PosixFair ==
  /\ WF_posixVars(program = "posix chat client" /\ Posix!handle_connect)
  /\ WF_posixVars(program = "posix chat client" /\ Posix!handle_read_header)
  /\ WF_posixVars(program = "posix chat client" /\ Posix!handle_read_body)
  /\ WF_posixVars(program = "posix chat client" /\ Posix!handle_write_output)
  /\ WF_posixVars(program = "posix chat client" /\ Posix!handle_read_input)
  /\ WF_posixVars(program = "posix chat client" /\ Posix!handle_write)
  /\ WF_posixVars(program = "posix chat client" /\ Posix!run)

TimeoutsFair ==
  /\ WF_timeoutVars(program = "timeouts server" /\ Timeouts!Tick)
  /\ \A s \in Peer :
       /\ WF_timeoutVars(program = "timeouts server" /\ Timeouts!handle_read(s))
       /\ WF_timeoutVars(program = "timeouts server" /\ Timeouts!handle_write(s))
       /\ WF_timeoutVars(program = "timeouts server" /\ Timeouts!AwaitOutput(s))
       /\ \A name \in {"input_deadline_", "output_deadline_"} :
            WF_timeoutVars(program = "timeouts server" /\ Timeouts!check_deadline(s, name))

AsyncFair ==
  /\ WF_asyncVars(program = "async_tcp_client" /\ Async!DeadlinePasses)
  /\ WF_asyncVars(program = "async_tcp_client" /\ Async!HeartbeatDue)
  /\ WF_asyncVars(program = "async_tcp_client" /\ Async!handle_connect)
  /\ WF_asyncVars(program = "async_tcp_client" /\ Async!handle_read)
  /\ WF_asyncVars(program = "async_tcp_client" /\ Async!handle_write)
  /\ WF_asyncVars(program = "async_tcp_client" /\ Async!Heartbeat)
  /\ WF_asyncVars(program = "async_tcp_client" /\ Async!check_deadline)

BlockingFair ==
  /\ WF_tcpVars(program = "blocking_tcp_client" /\ Blocking!DeadlinePasses)
  /\ WF_tcpVars(program = "blocking_tcp_client" /\ Blocking!Complete)
  /\ WF_tcpVars(program = "blocking_tcp_client" /\ Blocking!check_deadline)
  /\ WF_udpVars(program = "blocking_udp_client" /\ Blocking!ReceiveDeadlinePasses)
  /\ WF_udpVars(program = "blocking_udp_client" /\ Blocking!receive)
  /\ WF_udpVars(program = "blocking_udp_client" /\ Blocking!check_receive_deadline)

ConsoleFair == WF_consoleVars(program = "console" /\ Search!ConsoleNext)

Spec == Init /\ [][Next]_vars

FairSpec ==
  /\ Spec
  /\ ChatClientFair /\ PosixFair /\ TimeoutsFair /\ AsyncFair /\ BlockingFair
  /\ ConsoleFair

-----------------------------------------------------------------------------
\* On each socket one operation of a kind is outstanding at a time, and when
\* there is something to send there is one: the queues of the chat server and
\* of its client and the output actor of timeouts/server never start a second
\* write and never leave a message without one; the buffers of the POSIX
\* client are used by one operation at a time and both its loops stay alive;
\* connecting and talking do not overlap, and a stopped session is delivered
\* nothing.
OneOperationEach ==
  /\ Chat!OneWriter
  /\ Client!LineIsWritten
  /\ Posix!BuffersUnshared /\ Posix!BothLoopsAlive
  /\ Timeouts!OneOutputActor /\ Timeouts!NoLostWakeup /\ Timeouts!SubscribersAreOpen
  /\ Async!ConnectThenTalk

\* No message is lost, repeated or put out of order: the history that each
\* participant of a chat gets, the recent messages for those who join, the
\* lines the clients send, the datagrams received around a timeout, and the
\* words of the console's input that something follows.
NothingLost ==
  /\ Chat!SameHistory /\ Chat!RecentIsTail
  /\ Client!SentInOrder
  /\ Posix!NothingTypedIsLost
  /\ Blocking!NoDatagramLost
  /\ Search!AnsweredFinished

\* The search page shows the answer to an older query in place of a newer one
\* only if the two ajax calls were under way together.
StaleOnlyIfOverlapping == Search!StaleOnlyIfOverlapping

\* Nothing is closed or cancelled before its time, however the deadline actor
\* and the completion race: in the clients only for an error or by the deadline
\* of the very operation, in timeouts/server also by the deadline of a write
\* that has completed; and a connect that the deadline actor has closed is not
\* taken for a connection.
NothingEndsEarly ==
  /\ Timeouts!StoppedForAReason
  /\ Async!ClosedForAReason /\ Async!TimedOutMovesOn
  /\ Blocking!ConnectReturnsOpen /\ Blocking!ClosedByOwnDeadline
  /\ Blocking!CancelledByOwnDeadline

\* A session of timeouts/server that has sent its message in time stays open,
\* as the comment on the class says.
SentSessionStays == program = "timeouts server" => Timeouts!SentSessionStays

\* Nobody waits for ever for a silent peer: the clients return, calls with a
\* deadline end, silent clients are dropped, and what is stopped comes to its
\* end, as the console client does with its input.
NobodyWaitsForever ==
  /\ program = "chat client" => Client!ClientReturns
  /\ program = "posix chat client" => Posix!CloseEnds
  /\ program = "timeouts server" =>
       Timeouts!SilentClientIsDropped /\ Timeouts!StoppedSessionEnds
  /\ program = "async_tcp_client" =>
       Async!NoEndlessWait /\ Async!ConnectsOrStops /\ Async!RunReturns
  /\ program = "blocking_tcp_client" => Blocking!CallsReturn
  /\ program = "blocking_udp_client" => Blocking!ReceiveReturns
  /\ program = "console" => Search!ConsoleEnds

=============================================================================
