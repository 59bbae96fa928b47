---------------------------- MODULE HttpPrograms ----------------------------
(***************************************************************************)
(* The HTTP programs among the Boost.Asio examples, side by side: the two  *)
(* request parsers, http/server with its connection manager, http/server2, *)
(* http/server3 and http/server4, the making of a reply, and the client.   *)
(* They share no state.  Each behaviour is one of one program, chosen at   *)
(* the start; the others stay as they are.                                 *)
(***************************************************************************)
EXTENDS RequestParser, ConnectionManager

CONSTANTS
  N, MaxMade,          \* http/server2
  Thread, null,        \* http/server3
  Copy, Socket, none,  \* http/server4
  MaxUri, MaxPath, MaxFile, Buf,  \* the reply
  HeaderCounts, MaxPieces         \* the client

VARIABLES
  program,
  pool_next, pool_service, pool_op, pool_new, pool_accept, pool_at,
  pool_signal, pool_stopping, pool_stopped, pool_exited, pool_made,
  th_new, th_accept, th_read, th_write, th_signal, th_stopped, th_at, th_on,
  co_value, co_socket, co_result, co_ended,
  re_pc, re_uri, re_i, re_path, re_extension, re_file, re_pos, re_failed, re_rep,
  re_encoded,
  cl_phase, cl_status, cl_headers, cl_content, cl_incoming, cl_failed,
  cl_response, cl_output

Pool == INSTANCE HttpPool WITH
  next_io_service_ <- pool_next, service <- pool_service, op <- pool_op,
  new_connection_ <- pool_new, accept <- pool_accept, at <- pool_at,
  signal <- pool_signal, stopping <- pool_stopping, stopped <- pool_stopped,
  exited <- pool_exited, made <- pool_made

Threads == INSTANCE HttpThreads WITH
  new_connection_ <- th_new, accept <- th_accept, read <- th_read,
  write <- th_write, signal <- th_signal, stopped <- th_stopped, at <- th_at,
  on <- th_on

Coroutine == INSTANCE HttpCoroutine WITH
  value_ <- co_value, socket_ <- co_socket, result <- co_result, ended <- co_ended

Replies == INSTANCE HttpReply WITH
  pc <- re_pc, uri <- re_uri, i <- re_i, request_path <- re_path,
  extension <- re_extension, file <- re_file, pos <- re_pos, failed <- re_failed,
  rep <- re_rep, encoded <- re_encoded

Client == INSTANCE HttpClient WITH
  MaxContent <- MaxPieces, phase <- cl_phase, status <- cl_status,
  headers <- cl_headers, content <- cl_content, incoming <- cl_incoming,
  failed <- cl_failed, response_ <- cl_response, output <- cl_output

poolVars == <<pool_next, pool_service, pool_op, pool_new, pool_accept, pool_at,
              pool_signal, pool_stopping, pool_stopped, pool_exited, pool_made>>
threadVars == <<th_new, th_accept, th_read, th_write, th_signal, th_stopped,
                th_at, th_on>>
coroutineVars == <<co_value, co_socket, co_result, co_ended>>
replyVars == <<re_pc, re_uri, re_i, re_path, re_extension, re_file, re_pos,
               re_failed, re_rep, re_encoded>>
clientVars == <<cl_phase, cl_status, cl_headers, cl_content, cl_incoming,
                cl_failed, cl_response, cl_output>>

httpVars == <<program, parserVars, managerVars, poolVars, threadVars,
              coroutineVars, replyVars, clientVars>>

-----------------------------------------------------------------------------
\* Connection objects, copies and sockets are interchangeable: which is the
\* first makes no difference.
First(S) == CHOOSE x \in S : TRUE

Init ==
  /\ program \in {"parsers", "server", "server2", "server3", "server4", "reply", "client"}
  /\ RequestInit
  /\ ManagerInit /\ new_connection_ = First(Connection)
  /\ Pool!PoolInit /\ pool_new = First(Connection)
  /\ Threads!ThreadInit /\ th_new = First(Connection)
  /\ Coroutine!CoroutineInit /\ co_socket[First(Copy)] = First(Socket)
  /\ IF program = "reply" THEN Replies!ReplyInit(Replies!Requests, Replies!Files)
     ELSE Replies!ReplyInit({[uri |-> <<>>, encoded |-> <<"no">>]}, {Replies!Missing})
  /\ IF program = "client"
     THEN Client!HttpInit({"ok", "other", "invalid"}, HeaderCounts, Client!Contents)
     ELSE Client!HttpInit({"ok"}, {1}, {<<>>})

Next ==
  /\ UNCHANGED program
  /\ \/ /\ program = "parsers" /\ RequestNext
        /\ UNCHANGED <<managerVars, poolVars, threadVars, coroutineVars, replyVars, clientVars>>
     \/ /\ program = "server" /\ ManagerNext
        /\ UNCHANGED <<parserVars, poolVars, threadVars, coroutineVars, replyVars, clientVars>>
     \/ /\ program = "server2" /\ Pool!PoolNext
        /\ UNCHANGED <<parserVars, managerVars, threadVars, coroutineVars, replyVars, clientVars>>
     \/ /\ program = "server3" /\ Threads!ThreadNext
        /\ UNCHANGED <<parserVars, managerVars, poolVars, coroutineVars, replyVars, clientVars>>
     \/ /\ program = "server4" /\ Coroutine!CoroutineNext
        /\ UNCHANGED <<parserVars, managerVars, poolVars, threadVars, replyVars, clientVars>>
     \/ /\ program = "reply" /\ Replies!ReplyNext
        /\ UNCHANGED <<parserVars, managerVars, poolVars, threadVars, coroutineVars, clientVars>>
     \/ /\ program = "client" /\ Client!HttpNext
        /\ UNCHANGED <<parserVars, managerVars, poolVars, threadVars, coroutineVars, replyVars>>

\* The fairness of each program, for the behaviours that are its own.
ServerFair ==
  /\ WF_managerVars(program = "server" /\ handle_accept)
  /\ WF_managerVars(program = "server" /\ handle_stop)
  /\ WF_managerVars(program = "server" /\ run)
  /\ \A c \in Connection : WF_managerVars(program = "server" /\ handle_read(c))
  /\ \A c \in Connection : WF_managerVars(program = "server" /\ handle_write(c))

PoolFair ==
  /\ WF_poolVars(program = "server2" /\ Pool!handle_accept)
  /\ WF_poolVars(program = "server2" /\ Pool!start_accept)
  /\ WF_poolVars(program = "server2" /\ Pool!handle_stop)
  /\ WF_poolVars(program = "server2" /\ Pool!Stop)
  /\ \A s \in Pool!Service : WF_poolVars(program = "server2" /\ Pool!Exit(s))
  /\ \A c \in Connection : WF_poolVars(program = "server2" /\ Pool!handle_read(c))
  /\ \A c \in Connection : WF_poolVars(program = "server2" /\ Pool!handle_write(c))

ThreadsFair ==
  /\ \A t \in Thread : WF_threadVars(program = "server3" /\ Threads!Step(t))
  /\ SF_threadVars(program = "server3" /\ \E t \in Thread : Threads!handle_stop(t))

ClientFair ==
  /\ WF_clientVars(program = "client" /\ Client!Arrives)
  /\ WF_clientVars(program = "client" /\ Client!Handler)

Spec ==
  Init /\ [][Next]_httpVars /\ ServerFair /\ PoolFair /\ ThreadsFair /\ ClientFair

-----------------------------------------------------------------------------
\* The servers keep their connections apart.  http/server2 spreads them evenly
\* over its io_services; the strands of http/server3 keep the handlers of a
\* connection on one thread at a time, new_connection_ is used by one thread
\* at a time and an accept never writes into a connection that is served; of
\* the copies of http/server4 one accepts, and no two share a socket.
ConnectionsApart ==
  /\ Pool!Balanced
  /\ Threads!HandlersNotConcurrent /\ Threads!NewConnectionUnshared
  /\ Threads!AcceptIntoFresh
  /\ Coroutine!OneAcceptor /\ Coroutine!SocketsUnshared

\* What a request is answered with is the file of the decoded path, read in
\* pieces of the buffer, with the length of what was read and the type of its
\* name, and whole unless a read failed.  The client writes the content, all
\* of it, wherever the pieces it arrives in end, unless the response has no
\* header line, of which it writes all or nothing.
AnswersWhole ==
  /\ Replies!OpenedPath /\ Replies!DecodesEncoded /\ Replies!ExtensionOfName
  /\ Replies!ReplyConsistent
  /\ Client!OutputIsContent /\ Client!WholeContent

\* In http/server4 a connection is answered once, after it was read.  In
\* http/server nothing enters the manager once the server is stopped.
NothingTwice == Coroutine!AnswersOnce /\ StoppedForGood

\* After a signal every server returns from run, whatever was in flight, and
\* the client exits.
ProgramsEnd ==
  /\ program = "server" => RunReturns
  /\ program = "server2" => Pool!PoolReturns
  /\ program = "server3" => Threads!ThreadsReturn
  /\ program = "client" => Client!ClientEnds

=============================================================================
