----------------------------- MODULE ChatClient -----------------------------
(***************************************************************************)
(* The Boost.Asio chat client: main reads lines and posts them to the      *)
(* io_service that a second thread runs.  Posted calls and the handlers of *)
(* completed operations are executed by that thread in any order the       *)
(* operations complete in; posted calls keep their own order.              *)
(***************************************************************************)
EXTENDS Naturals, Sequences, SequencesExt

CONSTANT MaxLines   \* bound: lines typed

VARIABLES
  typed,        \* lines main has posted
  posted,       \* calls the thread has still to make
  write_msgs_,
  connect, read, write,   \* operations: "idle", "pending", "success", "error"
  socket_,      \* "connecting", "connected" or "closed"
  sent,         \* messages written
  main,         \* "getline", "join" or "done"
  running       \* io_service::run of the thread has not returned

clientVars ==
  <<typed, posted, write_msgs_, connect, read, write, socket_, sent, main, running>>

Done == {"success", "error"}

\* An operation on a closed socket fails.
Started == IF socket_ = "closed" THEN "error" ELSE "pending"

Cancelled(op) == IF op = "pending" THEN "error" ELSE op

-----------------------------------------------------------------------------
(* main: getline and write, then close and join.                           *)

TypeLine ==
  /\ main = "getline" /\ typed < MaxLines
  /\ typed' = typed + 1
  /\ posted' = Append(posted, typed + 1)
  /\ UNCHANGED <<write_msgs_, connect, read, write, socket_, sent, main, running>>

EndOfInput ==
  /\ main = "getline"
  /\ main' = "join"
  /\ posted' = Append(posted, 0)      \* do_close
  /\ UNCHANGED <<typed, write_msgs_, connect, read, write, socket_, sent, running>>

Join ==
  /\ main = "join" /\ ~running
  /\ main' = "done"
  /\ UNCHANGED <<typed, posted, write_msgs_, connect, read, write, socket_, sent,
                 running>>

-----------------------------------------------------------------------------
(* The operating system.                                                   *)

Connects(result) ==
  /\ connect = "pending"
  /\ connect' = result
  /\ socket_' = IF result = "success" THEN "connected" ELSE socket_
  /\ UNCHANGED <<typed, posted, write_msgs_, read, write, sent, main, running>>

Reads(result) ==
  /\ read = "pending"
  /\ read' = result
  /\ UNCHANGED <<typed, posted, write_msgs_, connect, write, socket_, sent, main,
                 running>>

\* A write waits for the connection or fails.
Writes(result) ==
  /\ write = "pending"
  /\ result = "success" => socket_ = "connected"
  /\ write' = result
  /\ sent' = IF result = "success" THEN Append(sent, Head(write_msgs_)) ELSE sent
  /\ UNCHANGED <<typed, posted, write_msgs_, connect, read, socket_, main, running>>

-----------------------------------------------------------------------------
(* The thread in run.  c, r and w are the operations as the handler leaves *)
(* them.                                                                   *)

\* Mutant: the socket is only shut down, what is pending stays pending.
Shutdown(c, r, w) ==
  /\ socket_' = "closed"
  /\ connect' = c /\ read' = r /\ write' = w

do_close(c, r, w) ==
  /\ socket_' = "closed"
  /\ connect' = Cancelled(c) /\ read' = Cancelled(r) /\ write' = Cancelled(w)

Operations(c, r, w) ==
  connect' = c /\ read' = r /\ write' = w /\ UNCHANGED socket_

handle_connect ==
  /\ running /\ connect \in Done
  /\ Operations("idle", IF connect = "success" THEN Started ELSE read, write)
  /\ UNCHANGED <<typed, posted, write_msgs_, sent, main, running>>

\* handle_read_header and handle_read_body: the next read follows, after an
\* error or a bad header the socket is closed.
handle_read ==
  /\ running /\ read \in Done
  /\ \/ read = "success" /\ Operations(connect, Started, write)
     \/ do_close(connect, "idle", write)
  /\ UNCHANGED <<typed, posted, write_msgs_, sent, main, running>>

\* Mutant: each message is written at once.
NeverInProgress == FALSE

write_in_progress == write_msgs_ /= <<>>

do_write ==
  /\ running /\ posted /= <<>> /\ Head(posted) /= 0
  /\ posted' = Tail(posted)
  /\ write_msgs_' = Append(write_msgs_, Head(posted))
  /\ Operations(connect, read, IF write_in_progress THEN write ELSE Started)
  /\ UNCHANGED <<typed, sent, main, running>>

Close ==
  /\ running /\ posted /= <<>> /\ Head(posted) = 0
  /\ posted' = Tail(posted)
  /\ do_close(connect, read, write)
  /\ UNCHANGED <<typed, write_msgs_, sent, main, running>>

\* Mutant: the rest of the queue waits for the next line.
NoNextWrite == "idle"

NextWrite == IF Tail(write_msgs_) = <<>> THEN "idle" ELSE Started

handle_write ==
  /\ running /\ write \in Done
  /\ IF write = "success"
     THEN /\ write_msgs_' = Tail(write_msgs_)
          /\ Operations(connect, read, NextWrite)
     ELSE do_close(connect, read, "idle") /\ UNCHANGED write_msgs_
  /\ UNCHANGED <<typed, posted, sent, main, running>>

run ==
  /\ running
  /\ posted = <<>> /\ connect = "idle" /\ read = "idle" /\ write = "idle"
  /\ running' = FALSE
  /\ UNCHANGED <<typed, posted, write_msgs_, connect, read, write, socket_, sent, main>>

-----------------------------------------------------------------------------
ClientInit ==
  /\ typed = 0 /\ posted = <<>> /\ write_msgs_ = <<>> /\ sent = <<>>
  /\ connect = "pending" /\ read = "idle" /\ write = "idle"
  /\ socket_ = "connecting"
  /\ main = "getline" /\ running = TRUE

Handler ==
  handle_connect \/ handle_read \/ do_write \/ Close \/ handle_write \/ run

ClientNext ==
  \/ TypeLine \/ EndOfInput \/ Join \/ Handler
  \/ \E result \in Done : Connects(result) \/ Reads(result) \/ Writes(result)

ClientSpec == ClientInit /\ [][ClientNext]_clientVars

\* The thread makes the posted calls and runs every handler in turn, and join
\* returns once it has ended.  Nothing is assumed of the network or of the user.
FairClientSpec ==
  /\ ClientSpec
  /\ SF_clientVars(do_write) /\ SF_clientVars(Close)
  /\ WF_clientVars(handle_connect) /\ WF_clientVars(handle_write)
  /\ WF_clientVars(handle_read) /\ WF_clientVars(run) /\ WF_clientVars(Join)

-----------------------------------------------------------------------------
\* The server gets the lines in the order they were typed, each once and none
\* left out in between: what was written is the beginning of what was typed.
SentInOrder == sent = [k \in 1..Len(sent) |-> k] /\ Len(sent) <= typed

\* While the socket is open, queued lines have a write outstanding, and only
\* they do.
LineIsWritten ==
  socket_ /= "closed" => ((write = "idle") <=> (write_msgs_ = <<>>))

\* After the end of input main returns, whether the server answers, never
\* accepted the connection or has closed it.
ClientReturns == main = "join" ~> main = "done"

=============================================================================
