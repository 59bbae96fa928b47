---------------------------- MODULE TimeoutServer ----------------------------
(***************************************************************************)
(* The sessions of the Boost.Asio example timeouts/server: in each one     *)
(* actor reads, one writes, and two watch deadlines.  The reader and the   *)
(* writer share a queue, and a timer serves the writer as a condition      *)
(* variable.  One thread runs the io_service: a handler is one step.       *)
(*                                                                         *)
(* Time is what is left of each deadline, in ticks.  A timer's wait        *)
(* becomes ready when its time is up, when its expiry is changed and when  *)
(* it is cancelled.                                                        *)
(***************************************************************************)
EXTENDS Naturals, Sequences

CONSTANTS
  Session,
  Timeout,    \* 30 seconds in the code
  MaxQueue    \* bound: messages waiting for one client

VARIABLES
  subscribers_,   \* channel::subscribers_
  session         \* the state of each session

sessionVars == <<subscribers_, session>>

pos_infin == Timeout + 1

expires_at(timer, left) ==
  [left |-> left, wait |-> IF timer.wait = "waiting" THEN "ready" ELSE timer.wait]

cancel(timer) == expires_at(timer, timer.left)

async_wait(timer) == [timer EXCEPT !.wait = "waiting"]

Ready(timer) == timer.wait = "ready" \/ (timer.wait = "waiting" /\ timer.left = 0)

Fresh ==
  LET timer == [left |-> pos_infin, wait |-> "none"]
  IN [socket |-> "new", read |-> "idle", write |-> "idle", output_queue_ |-> <<>>,
      input_deadline_ |-> timer, output_deadline_ |-> timer,
      non_empty_output_queue_ |-> timer]

stopped(x) == x.socket /= "open"

-----------------------------------------------------------------------------
(* What the actors do to the state x of their session.                     *)

\* Mutant: the read has no deadline.
ReadWithoutDeadline(x) == [x EXCEPT !.read = "pending"]

start_read(x) ==
  [x EXCEPT !.input_deadline_ = expires_at(@, Timeout), !.read = "pending"]

start_write(x) ==
  [x EXCEPT !.output_deadline_ = expires_at(@, Timeout), !.write = "pending"]

await_output(x) ==
  IF x.output_queue_ = <<>>
  THEN [x EXCEPT !.non_empty_output_queue_ = async_wait(expires_at(@, pos_infin))]
  ELSE start_write(x)

\* Mutant: the message is queued and nobody is woken.
DeliverSilently(x, msg) == [x EXCEPT !.output_queue_ = Append(@, msg)]

\* Mutant: the write is started at once.
DeliverAndWrite(x, msg) ==
  start_write([x EXCEPT !.output_queue_ = Append(@, msg),
                        !.non_empty_output_queue_ = expires_at(@, 0)])

deliver(x, msg) ==
  [x EXCEPT !.output_queue_ = Append(@, msg),
            !.non_empty_output_queue_ = expires_at(@, 0)]

\* Mutant: only the socket is closed; the waits go on.
CloseSocket(x) ==
  [x EXCEPT !.socket = "closed",
            !.read = IF @ = "pending" THEN "error" ELSE @,
            !.write = IF @ = "pending" THEN "error" ELSE @]

stop(x) ==
  [x EXCEPT !.socket = "closed",
            !.read = IF @ = "pending" THEN "error" ELSE @,
            !.write = IF @ = "pending" THEN "error" ELSE @,
            !.input_deadline_ = cancel(@),
            !.output_deadline_ = cancel(@),
            !.non_empty_output_queue_ = cancel(@)]

join(s) == subscribers_' = subscribers_ \cup {s}

leave(s) == subscribers_' = subscribers_ \ {s}

\* channel::deliver; the broadcaster, a subscriber too, sends a datagram and
\* keeps no state.
DeliverToAll(all, msg) ==
  [t \in Session |-> IF t \in subscribers_ THEN deliver(all[t], msg) ELSE all[t]]

Becomes(s, x) == session' = [session EXCEPT ![s] = x] /\ UNCHANGED subscribers_

\* Mutant: a stopped session stays in the channel.
StopsAlone(s, x) == Becomes(s, stop(x))

\* channel_.leave and stop
Stops(s, x) ==
  /\ leave(s)
  /\ session' = [session EXCEPT ![s] = stop(x)]

-----------------------------------------------------------------------------
\* server::handle_accept: the session joins the channel and its four actors
\* start.
start(s) ==
  /\ session[s].socket = "new"
  /\ join(s)
  /\ LET x == await_output(start_read([session[s] EXCEPT !.socket = "open"]))
     IN session' = [session EXCEPT ![s] =
          [x EXCEPT !.input_deadline_ = async_wait(@),
                    !.output_deadline_ = async_wait(@)]]

\* The network: a line has come, the line was empty, or the read failed.
Received(s, what) ==
  /\ session[s].read = "pending"
  /\ \A t \in subscribers_ : Len(session[t].output_queue_) < MaxQueue
  /\ Becomes(s, [session[s] EXCEPT !.read = what])

Written(s, what) ==
  /\ session[s].write = "pending"
  /\ Becomes(s, [session[s] EXCEPT !.write = what])

\* Time passes for every deadline that is not infinite.
Less(timer) ==
  [timer EXCEPT !.left = IF @ \in 1..Timeout THEN @ - 1 ELSE @]

Tick ==
  /\ session' = [s \in Session |->
       [session[s] EXCEPT !.input_deadline_ = Less(@), !.output_deadline_ = Less(@)]]
  /\ UNCHANGED subscribers_

-----------------------------------------------------------------------------
(* The handlers.                                                           *)

\* A message goes to every subscriber, a heartbeat is answered if nothing else
\* waits to be sent; then the next read starts.
handle_read(s) ==
  /\ session[s].read \in {"message", "heartbeat", "error"}
  /\ LET x == [session[s] EXCEPT !.read = "idle"]
     IN CASE stopped(x) -> Becomes(s, x)
          [] ~stopped(x) /\ session[s].read = "message" ->
               /\ session' = [DeliverToAll([session EXCEPT ![s] = x], "message")
                                EXCEPT ![s] = start_read(@)]
               /\ UNCHANGED subscribers_
          [] ~stopped(x) /\ session[s].read = "heartbeat" ->
               Becomes(s, start_read(IF x.output_queue_ = <<>>
                                     THEN deliver(x, "heartbeat") ELSE x))
          [] OTHER -> Stops(s, x)

\* The wait on the condition variable is over.
AwaitOutput(s) ==
  /\ Ready(session[s].non_empty_output_queue_)
  /\ LET x == [session[s] EXCEPT !.non_empty_output_queue_.wait = "none"]
     IN Becomes(s, IF stopped(x) THEN x ELSE await_output(x))

handle_write(s) ==
  /\ session[s].write \in {"success", "error"}
  /\ LET x == [session[s] EXCEPT !.write = "idle"]
     IN CASE stopped(x) -> Becomes(s, x)
          [] ~stopped(x) /\ session[s].write = "success" ->
               Becomes(s, await_output([x EXCEPT !.output_queue_ = Tail(@)]))
          [] OTHER -> Stops(s, x)

\* Mutant: whoever wakes the actor, the deadline is taken to have passed.
TakenAsPassed(timer) == TRUE

Passed(timer) == timer.left = 0

\* check_deadline on the timer of that name
check_deadline(s, name) ==
  /\ Ready(session[s][name])
  /\ LET x == [session[s] EXCEPT ![name].wait = "none"]
     IN CASE stopped(x) -> Becomes(s, x)
          [] ~stopped(x) /\ Passed(x[name]) -> Stops(s, x)
          [] OTHER -> Becomes(s, [x EXCEPT ![name] = async_wait(@)])

-----------------------------------------------------------------------------
SessionInit ==
  /\ subscribers_ = {}
  /\ session = [s \in Session |-> Fresh]

Handler(s) ==
  \/ handle_read(s) \/ AwaitOutput(s) \/ handle_write(s)
  \/ check_deadline(s, "input_deadline_")
  \/ check_deadline(s, "output_deadline_")

SessionNext ==
  \/ Tick
  \/ \E s \in Session :
       \/ start(s) \/ Handler(s)
       \/ \E what \in {"message", "heartbeat", "error"} : Received(s, what)
       \/ \E what \in {"success", "error"} : Written(s, what)

SessionSpec == SessionInit /\ [][SessionNext]_sessionVars

\* Time passes and run executes what is ready.  Nothing is assumed of clients.
FairSessionSpec ==
  /\ SessionSpec
  /\ WF_sessionVars(Tick)
  /\ \A s \in Session :
       /\ WF_sessionVars(handle_read(s)) /\ WF_sessionVars(handle_write(s))
       /\ WF_sessionVars(AwaitOutput(s))
       /\ WF_sessionVars(check_deadline(s, "input_deadline_"))
       /\ WF_sessionVars(check_deadline(s, "output_deadline_"))

-----------------------------------------------------------------------------
\* The output actor is in one place: an open session has either a write or a
\* wait for the queue outstanding, never both and never none, although two
\* handlers call await_output.
OneOutputActor ==
  \A s \in Session : ~stopped(session[s]) =>
    ((session[s].write = "idle") <=> (session[s].non_empty_output_queue_.wait /= "none"))

\* No wake-up is lost: when the queue of an open session is not empty, a write
\* is outstanding or the wait of the output actor is ready.
NoLostWakeup ==
  \A s \in Session :
    (~stopped(session[s]) /\ session[s].output_queue_ /= <<>>) =>
      session[s].write /= "idle" \/ Ready(session[s].non_empty_output_queue_)

\* Sessions in the channel are open ones, and all of them: a session that is
\* stopped is delivered nothing more.
SubscribersAreOpen == subscribers_ = {s \in Session : ~stopped(session[s])}

\* A session is stopped only by an error of its socket, or when Timeout has
\* passed since its outstanding read was started or since its last write was
\* started, however often the deadlines were moved.  That write need not be
\* outstanding any more: nothing moves output_deadline_ when it completes.
StoppedForAReason ==
  [][\A s \in Session :
       (~stopped(session[s]) /\ stopped(session'[s])) =>
         \/ session[s].read = "error" \/ session[s].write = "error"
         \/ session[s].input_deadline_.left = 0 /\ session[s].read /= "idle"
         \/ session[s].output_deadline_.left = 0]_sessionVars

\* A message was sent before its deadline, and there is no other.
SentInTime(x) ==
  /\ ~stopped(x) /\ x.write = "idle" /\ x.output_queue_ = <<>>
  /\ x.output_deadline_.left \in 1..Timeout

\* "The deadline for sending a complete message is 30 seconds.  After the
\* message is successfully sent, the output actor again waits for the output
\* queue to become non-empty" (the comment on tcp_session): a session that has
\* sent its message in time stays open until there is another one to send, or
\* until its socket fails or no message came from the client in time.
SentSessionStays ==
  \A s \in Session :
    SentInTime(session[s]) ~>
      /\ ~stopped(session[s])
      /\ \/ session[s].write /= "idle" \/ session[s].output_queue_ /= <<>>
         \/ session[s].read = "error" \/ session[s].input_deadline_.left = 0

\* A client that does not send a line, or does not take one, in time is
\* disconnected: neither operation stays pending on an open socket for ever.
SilentClientIsDropped ==
  \A s \in Session :
    /\ []<>(stopped(session[s]) \/ session[s].read /= "pending")
    /\ []<>(stopped(session[s]) \/ session[s].write /= "pending")

\* "The other actors will terminate as soon as possible": after stop no
\* operation and no wait is left, so that the session is destroyed.
StoppedSessionEnds ==
  \A s \in Session :
    session[s].socket = "closed" ~>
      /\ session[s].read = "idle" /\ session[s].write = "idle"
      /\ session[s].input_deadline_.wait = "none"
      /\ session[s].output_deadline_.wait = "none"
      /\ session[s].non_empty_output_queue_.wait = "none"

=============================================================================
