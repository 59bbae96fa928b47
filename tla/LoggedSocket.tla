---------------------------- MODULE LoggedSocket ----------------------------
(***************************************************************************)
(* The services of the Boost.Asio example services: stream_socket_service  *)
(* wraps the socket service and logs every call and every completion;      *)
(* logger_service passes what is logged to a thread of its own, which      *)
(* alone touches the file.  The user of the socket calls anything in any   *)
(* order.                                                                  *)
(***************************************************************************)
EXTENDS Naturals, Sequences
LOCAL INSTANCE SequencesExt

CONSTANTS
  Async,        \* the kinds of asynchronous operation
  MaxPosts      \* bound: jobs given to the logger's thread

VARIABLES
  isOpen,
  op,           \* the operation of each kind
  told,         \* what the handlers were told, in order
  posted,       \* all jobs posted to work_io_service_
  done,         \* how many of them the thread has run
  ofstream_,    \* [open, failed, text]
  work_,        \* there is an io_service::work
  thread        \* "running" or "ended"; joined once the destructor returned

socketVars == <<isOpen, op, told>>
loggerVars == <<posted, done, ofstream_, work_, thread>>
loggedVars == <<socketVars, loggerVars>>

-----------------------------------------------------------------------------
(* The socket without a log, as its user sees it: each operation is        *)
(* started, completes once, and its handler is called once with its        *)
(* result; closing the socket ends those still pending.                    *)

Open == isOpen' = TRUE /\ UNCHANGED <<op, told>>

Close ==
  /\ isOpen' = FALSE
  /\ op' = [k \in Async |-> IF op[k] = "pending" THEN "error" ELSE op[k]]
  /\ UNCHANGED told

Start(k) ==
  /\ op[k] = "idle"
  /\ op' = [op EXCEPT ![k] = IF isOpen THEN "pending" ELSE "error"]
  /\ UNCHANGED <<isOpen, told>>

Complete(k, result) ==
  /\ op[k] = "pending"
  /\ op' = [op EXCEPT ![k] = result]
  /\ UNCHANGED <<isOpen, told>>

Handle(k) ==
  /\ op[k] \in {"success", "error"}
  /\ op' = [op EXCEPT ![k] = "idle"]
  /\ told' = Append(told, <<k, op[k]>>)
  /\ UNCHANGED isOpen

SocketInit == isOpen = FALSE /\ op = [k \in Async |-> "idle"] /\ told = <<>>

SocketNext ==
  \/ Open \/ Close
  \/ \E k \in Async :
       Start(k) \/ Handle(k) \/ \E result \in {"success", "error"} : Complete(k, result)

SocketSpec == SocketInit /\ [][SocketNext]_socketVars

-----------------------------------------------------------------------------
(* The logger.                                                             *)

UseFile == <<"use_file">>

post(job) ==
  /\ work_ /\ Len(posted) < MaxPosts
  /\ posted' = Append(posted, job)
  /\ UNCHANGED <<done, ofstream_, work_, thread>>

log(message) == post(<<"log", message>>)

\* logger_service::use_file; the socket is not concerned.
use_file == post(UseFile) /\ UNCHANGED socketVars

-----------------------------------------------------------------------------
(* stream_socket_service: a line is logged and the call passed on.         *)

open == log("open") /\ Open
assign == log("assign") /\ Open
close == log("close") /\ Close

\* Calls that leave the state of the socket alone.
Inspect == {"is_open", "at_mark", "available"}
Connect == {"bind", "connect"}
Options == {"set_option", "get_option", "io_control"}
Endpoints == {"local_endpoint", "remote_endpoint"}
Transfer == {"shutdown", "send"}

Call == Inspect \cup Connect \cup Options \cup Endpoints \cup Transfer \cup {"receive"}

call(name) == log(name) /\ UNCHANGED socketVars

async_connect == log("async_connect") /\ Start("connect")
async_send == log("async_send") /\ Start("send")
async_receive == log("async_receive") /\ Start("receive")

\* The result as the wrapped handlers log it.
Result(k) == IF op[k] = "error" THEN "failed" ELSE "succeeded"

\* Mutant: a failure is logged, and the user's handler is not called.
HandlerOnSuccess(k) ==
  /\ op[k] \in {"success", "error"}
  /\ log(<<k, Result(k)>>)
  /\ IF op[k] = "success" THEN Handle(k)
     ELSE op' = [op EXCEPT ![k] = "idle"] /\ UNCHANGED <<isOpen, told>>

\* The handlers that wrap the user's: connect_handler, send_handler and
\* receive_handler.
Completed(k) == log(<<k, Result(k)>>) /\ Handle(k)
connect_handler == Completed("connect")
send_handler == Completed("send")
receive_handler == Completed("receive")

-----------------------------------------------------------------------------
(* The thread of the logger.                                               *)

\* Mutant: the state of the stream is not cleared.
OpenUncleared(opens) == [ofstream_ EXCEPT !.open = opens, !.text = <<>>]

\* The file opens, or the stream has failed until the next use_file.
use_file_impl(opens) == [open |-> opens, failed |-> ~opens, text |-> <<>>]

\* A stream that is not open fails, and a stream that has failed takes nothing.
log_impl(text) ==
  IF ofstream_.open /\ ~ofstream_.failed
  THEN [ofstream_ EXCEPT !.text = Append(@, text)]
  ELSE [ofstream_ EXCEPT !.failed = TRUE]

RunJob ==
  /\ thread = "running" /\ done < Len(posted)
  /\ done' = done + 1
  /\ LET job == posted[done + 1]
     IN \/ /\ job = UseFile
           /\ \E opens \in BOOLEAN : ofstream_' = use_file_impl(opens)
        \/ job /= UseFile /\ ofstream_' = log_impl(job[2])
  /\ UNCHANGED <<posted, work_, thread, isOpen, op, told>>

\* Mutant: run returns when the work object is gone, as after stop.
NoMoreWork == ~work_

\* "Its io_service::run() function will exit once all other work has
\* completed."
RunReturns == ~work_ /\ done = Len(posted)

ThreadEnds ==
  /\ thread = "running" /\ RunReturns
  /\ thread' = "ended"
  /\ UNCHANGED <<posted, done, ofstream_, work_, isOpen, op, told>>

\* Mutant: the destructor only joins.
WorkKept == work_

WorkReset == FALSE

\* The io_service and its services are destroyed: pending operations are
\* dropped, the logger of the socket goes first, then the destructor of
\* logger_service waits for the thread.
DestroyService ==
  /\ work_
  /\ work_' = WorkReset
  /\ UNCHANGED <<posted, done, ofstream_, thread, isOpen, op, told>>

-----------------------------------------------------------------------------
LoggedInit ==
  /\ SocketInit
  /\ posted = <<>> /\ done = 0 /\ work_ = TRUE /\ thread = "running"
  /\ ofstream_ = [open |-> FALSE, failed |-> FALSE, text |-> <<>>]

ServiceCompletes(k, result) ==
  work_ /\ Complete(k, result) /\ UNCHANGED loggerVars

LoggedNext ==
  \/ use_file \/ open \/ assign \/ close \/ \E name \in Call : call(name)
  \/ async_connect \/ async_send \/ async_receive
  \/ connect_handler \/ send_handler \/ receive_handler
  \/ \E k \in Async, result \in {"success", "error"} : ServiceCompletes(k, result)
  \/ RunJob \/ ThreadEnds \/ DestroyService

LoggedSpec ==
  /\ LoggedInit /\ [][LoggedNext]_loggedVars
  /\ WF_loggedVars(RunJob) /\ WF_loggedVars(ThreadEnds)

-----------------------------------------------------------------------------
\* The file holds what was logged since the last use_file, in the order of the
\* calls, however late the thread runs; what was logged before any use_file, or
\* after one whose file did not open, is lost and does no harm to what follows.
FileIsLog ==
  LET ran == SubSeq(posted, 1, done)
      last == {i \in 1..done : ran[i] = UseFile}
      texts(s) == [i \in 1..Len(s) |-> s[i][2]]
  IN ofstream_.text = IF ~ofstream_.open THEN <<>>
                      ELSE texts(SubSeq(ran, (CHOOSE i \in last : \A j \in last : j <= i) + 1, done))

\* The destructor returns only when everything posted has been done: no line
\* is lost at shutdown.
DrainedAtExit == thread = "ended" => done = Len(posted)

\* The socket with the log is a socket: to its user, every operation completes
\* as with the service that is wrapped.
LikeBareSocket == SocketSpec

\* The destructor is entered at some time, for what is checked under fairness.
DestroyedSpec == LoggedSpec /\ WF_loggedVars(DestroyService)

\* A service that is destroyed has its thread ended.
ServiceEnds == <>(thread = "ended")

=============================================================================
