--------------------------- MODULE PosixChatClient ---------------------------
(***************************************************************************)
(* The Boost.Asio chat client for POSIX: one thread, two loops of          *)
(* operations that have nothing in common but close().  One reads a        *)
(* message from the server and prints it, the other reads a line and sends *)
(* it.  An operation is "idle", "pending" or complete.  Of what is typed   *)
(* each character is a number of its own, and 0 the end of a line.         *)
(***************************************************************************)
EXTENDS Naturals, Sequences, SequencesExt

CONSTANTS
  max_body_length,   \* 512 in the code, also the size of input_buffer_
  MaxTyped           \* bound: characters typed

VARIABLES
  op,        \* the operations, by name
  part,      \* what the read of the server is for: "header" or "body"
  input_buffer_, write_msg_,
  typed, sent,   \* all characters typed, and all bodies sent
  closed,    \* close() was called
  running    \* io_service::run has not returned

text == <<input_buffer_, write_msg_, typed, sent>>
posixVars == <<op, part, text, closed, running>>

Operation == {"connect", "read", "output", "input", "write"}

Done == {"success", "not_found", "error"}

Chars(s) == SelectSeq(s, LAMBDA c : c /= 0)

Ends(o) == running /\ op[o] \in Done

Started == IF closed THEN "error" ELSE "pending"

\* Operation o is over, and those of S are started.
Then(o, S) ==
  /\ op' = [p \in Operation |->
             IF p \in S THEN Started ELSE IF p = o THEN "idle" ELSE op[p]]
  /\ UNCHANGED <<closed, running>>

\* Mutant: the input is left open.
CloseSocket(o) ==
  /\ op' = [p \in Operation |->
             IF p = o THEN "idle"
             ELSE IF op[p] = "pending" /\ p /= "input" THEN "error" ELSE op[p]]
  /\ closed' = TRUE
  /\ UNCHANGED <<part, running>>

\* close, from the handler of o: all outstanding operations are cancelled.
close(o) ==
  /\ op' = [p \in Operation |->
             IF p = o THEN "idle" ELSE IF op[p] = "pending" THEN "error" ELSE op[p]]
  /\ closed' = TRUE
  /\ UNCHANGED <<part, running>>

\* A line is complete when the buffer holds its end, not_found when the buffer
\* is full without one.
Complete(o, result) ==
  /\ op[o] = "pending"
  /\ (result = "success" /\ o = "input") => Contains(input_buffer_, 0)
  /\ result = "not_found" =>
       /\ o = "input" /\ ~Contains(input_buffer_, 0)
       /\ Len(input_buffer_) = max_body_length
  /\ op' = [op EXCEPT ![o] = result]
  /\ sent' = IF o = "write" /\ result = "success" THEN sent \o write_msg_ ELSE sent
  /\ UNCHANGED <<input_buffer_, write_msg_, typed, part, closed, running>>

\* The user types, and the read takes it up as far as the buffer goes.
Type(end) ==
  /\ op["input"] = "pending" /\ Len(input_buffer_) < max_body_length
  /\ Len(typed) < MaxTyped
  /\ LET c == IF end THEN 0 ELSE Len(typed) + 1
     IN typed' = Append(typed, c) /\ input_buffer_' = Append(input_buffer_, c)
  /\ UNCHANGED <<op, part, write_msg_, sent, closed, running>>

handle_connect ==
  /\ Ends("connect")
  /\ Then("connect", IF op["connect"] = "success" THEN {"read", "input"} ELSE {})
  /\ part' = "header"
  /\ UNCHANGED text

\* A header that decodes is followed by its body; one that does not, and an
\* error, close everything.
handle_read_header ==
  /\ Ends("read") /\ part = "header"
  /\ \/ op["read"] = "success" /\ Then("read", {"read"}) /\ part' = "body"
     \/ close("read")
  /\ UNCHANGED text

\* Mutant: the next header is read while the message is printed.
OutputAndRead == {"output", "read"}

Output == {"output"}

handle_read_body ==
  /\ Ends("read") /\ part = "body"
  /\ IF op["read"] = "success" THEN Then("read", Output) /\ part' = "header"
     ELSE close("read")
  /\ UNCHANGED text

\* Mutant: the next message is not waited for.
OutputEnds ==
  /\ Ends("output")
  /\ IF op["output"] = "success" THEN Then("output", {}) /\ part' = "header"
     ELSE close("output")
  /\ UNCHANGED text

handle_write_output ==
  /\ Ends("output")
  /\ IF op["output"] = "success" THEN Then("output", {"read"}) /\ part' = "header"
     ELSE close("output")
  /\ UNCHANGED text

\* Mutant: what was read beyond the line is dropped with it.
LineAlone(line) == <<>>

Unread(line) == SubSeq(input_buffer_, Len(line) + 2, Len(input_buffer_))

\* A line is sent without its end, a full buffer as it is.
handle_read_input ==
  /\ Ends("input")
  /\ CASE op["input"] = "success" ->
            LET line == SubSeq(input_buffer_, 1, SelectInSeq(input_buffer_, LAMBDA c : c = 0) - 1)
            IN /\ write_msg_' = line
               /\ input_buffer_' = Unread(line)
               /\ Then("input", {"write"}) /\ UNCHANGED part
       [] op["input"] = "not_found" ->
            /\ write_msg_' = input_buffer_
            /\ input_buffer_' = <<>>
            /\ Then("input", {"write"}) /\ UNCHANGED part
       [] OTHER -> close("input") /\ UNCHANGED <<input_buffer_, write_msg_>>
  /\ UNCHANGED <<typed, sent>>

handle_write ==
  /\ Ends("write")
  /\ IF op["write"] = "success" THEN Then("write", {"input"}) /\ UNCHANGED part
     ELSE close("write")
  /\ UNCHANGED text

run ==
  /\ running /\ \A o \in Operation : op[o] = "idle"
  /\ running' = FALSE
  /\ UNCHANGED <<op, part, text, closed>>

PosixInit ==
  /\ op = [o \in Operation |-> IF o = "connect" THEN "pending" ELSE "idle"]
  /\ part = "header"
  /\ input_buffer_ = <<>> /\ write_msg_ = <<>> /\ typed = <<>> /\ sent = <<>>
  /\ closed = FALSE
  /\ running = TRUE

Handler ==
  \/ handle_connect \/ handle_read_header \/ handle_read_body
  \/ handle_write_output \/ handle_read_input \/ handle_write \/ run

PosixNext ==
  \/ Handler
  \/ \E end \in BOOLEAN : Type(end)
  \/ \E o \in Operation, result \in Done : Complete(o, result)

\* The thread in run executes every handler that is ready.
FairPosixSpec ==
  /\ PosixInit /\ [][PosixNext]_posixVars
  /\ WF_posixVars(handle_connect) /\ WF_posixVars(handle_read_header)
  /\ WF_posixVars(handle_read_body) /\ WF_posixVars(handle_write_output)
  /\ WF_posixVars(handle_read_input) /\ WF_posixVars(handle_write)
  /\ WF_posixVars(run)

-----------------------------------------------------------------------------
\* read_msg_ is not read into while it is printed, and write_msg_ is not filled
\* while it is sent, though the two loops share one thread and no lock.
BuffersUnshared ==
  /\ op["read"] = "idle" \/ op["output"] = "idle"
  /\ op["input"] = "idle" \/ op["write"] = "idle"

\* While the client is connected both loops are alive: something will come
\* from the server and from the user.
BothLoopsAlive ==
  (op["connect"] = "idle" /\ ~closed /\ running) =>
    \/ /\ op["read"] /= "idle" \/ op["output"] /= "idle"
       /\ op["input"] /= "idle" \/ op["write"] /= "idle"
    \/ \A o \in Operation : op[o] = "idle"    \* the connect has failed

\* Every character typed is sent once and in order, or is still in the buffer
\* or the message: lines, empty lines and lines longer than a message.
NothingTypedIsLost ==
  ~closed =>
    Chars(typed) = sent
      \o (IF op["write"] \in {"idle", "success"} THEN <<>> ELSE write_msg_)
      \o Chars(input_buffer_)

\* An error in either loop ends the other one, also one that waits for a line
\* of input, and run returns.
CloseEnds == closed ~> ~running

=============================================================================
