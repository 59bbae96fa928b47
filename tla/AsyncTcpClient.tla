--------------------------- MODULE AsyncTcpClient ---------------------------
(***************************************************************************)
(* The Boost.Asio example timeouts/async_tcp_client.  A connect actor tries *)
(* the endpoints in turn, then forks into one that reads and one that sends *)
(* heartbeats; a deadline actor closes the socket when the connect or the  *)
(* read takes too long.  One thread runs the io_service: a handler is one  *)
(* step.  A running deadline may pass at any time.                         *)
(***************************************************************************)
EXTENDS Naturals

CONSTANT Endpoints      \* how many endpoints the resolver returned

VARIABLE client

Fresh ==
  [stopped_ |-> FALSE, open |-> FALSE, endpoint |-> 1,
   connect |-> "idle", read |-> "idle", write |-> "idle",
   deadline_ |-> [expiry |-> "infinite", wait |-> "none"],
   heartbeat_timer_ |-> "none"]

\* Changing the expiry of a timer, or cancelling it, ends the wait on it.
Woken(wait) == IF wait = "waiting" THEN "ready" ELSE wait

expires(timer, expiry) == [expiry |-> expiry, wait |-> Woken(timer.wait)]

Cancelled(op) == IF op = "pending" THEN "error" ELSE op

\* An operation on a socket that is not open fails.
Started(c) == IF c.open THEN "pending" ELSE "error"

close(c) ==
  [c EXCEPT !.open = FALSE, !.connect = Cancelled(@), !.read = Cancelled(@),
            !.write = Cancelled(@)]

\* Mutant: the deadline timer is not cancelled.
StopButDeadline(c) ==
  [close(c) EXCEPT !.stopped_ = TRUE, !.heartbeat_timer_ = Woken(@)]

stop(c) ==
  [close(c) EXCEPT !.stopped_ = TRUE,
                   !.deadline_ = expires(@, @.expiry),
                   !.heartbeat_timer_ = Woken(@)]

\* Mutant: nothing happens when the endpoints are exhausted.
ConnectOrNothing(c, endpoint) ==
  IF endpoint <= Endpoints
  THEN [c EXCEPT !.endpoint = endpoint, !.open = TRUE, !.connect = "pending",
                 !.deadline_ = expires(@, "running")]
  ELSE [c EXCEPT !.endpoint = endpoint]

\* async_connect opens the socket if it is not open.
start_connect(c, endpoint) ==
  IF endpoint <= Endpoints
  THEN [c EXCEPT !.endpoint = endpoint, !.open = TRUE, !.connect = "pending",
                 !.deadline_ = expires(@, "running")]
  ELSE stop([c EXCEPT !.endpoint = endpoint])

start_read(c) ==
  [c EXCEPT !.read = Started(c), !.deadline_ = expires(@, "running")]

start_write(c) == IF c.stopped_ THEN c ELSE [c EXCEPT !.write = Started(c)]

-----------------------------------------------------------------------------
(* The operating system.                                                   *)

Completes(op, result) ==
  /\ client[op] = "pending"
  /\ client' = [client EXCEPT ![op] = result]

DeadlinePasses ==
  /\ client.deadline_.expiry = "running"
  /\ client' = [client EXCEPT !.deadline_ = expires(@, "passed")]

HeartbeatDue ==
  /\ client.heartbeat_timer_ = "waiting"
  /\ client' = [client EXCEPT !.heartbeat_timer_ = "ready"]

-----------------------------------------------------------------------------
(* The handlers.                                                           *)

\* Mutant: only the error code is looked at.
OpenUnchecked(c) == TRUE

is_open(c) == c.open

handle_connect ==
  /\ client.connect \in {"success", "error"}
  /\ LET c == [client EXCEPT !.connect = "idle"]
     IN client' = CASE c.stopped_ -> c
                    [] ~c.stopped_ /\ ~is_open(c) -> start_connect(c, c.endpoint + 1)
                    [] ~c.stopped_ /\ is_open(c) /\ client.connect = "error" ->
                         start_connect(close(c), c.endpoint + 1)
                    [] OTHER -> start_write(start_read(c))

\* Mutant: a failed read connects anew.
ReadReconnects ==
  /\ client.read \in {"success", "error"}
  /\ LET c == [client EXCEPT !.read = "idle"]
     IN client' = IF c.stopped_ THEN c
                  ELSE IF client.read = "success" THEN start_read(c)
                  ELSE start_connect(close(c), 1)

handle_read ==
  /\ client.read \in {"success", "error"}
  /\ LET c == [client EXCEPT !.read = "idle"]
     IN client' = IF c.stopped_ THEN c
                  ELSE IF client.read = "success" THEN start_read(c) ELSE stop(c)

handle_write ==
  /\ client.write \in {"success", "error"}
  /\ LET c == [client EXCEPT !.write = "idle"]
     IN client' = IF c.stopped_ THEN c
                  ELSE IF client.write = "success"
                  THEN [c EXCEPT !.heartbeat_timer_ = "waiting"] ELSE stop(c)

\* The handler of the heartbeat timer is start_write.
Heartbeat ==
  /\ client.heartbeat_timer_ = "ready"
  /\ client' = start_write([client EXCEPT !.heartbeat_timer_ = "none"])

\* Mutant: whatever woke the actor, the socket is closed.
CloseAnyway(c) ==
  [close(c) EXCEPT !.deadline_.expiry = "infinite", !.deadline_.wait = "waiting"]

\* Mutant: the actor looks once and ends.
CheckOnce(c) ==
  IF c.deadline_.expiry = "passed"
  THEN [close(c) EXCEPT !.deadline_.expiry = "infinite"] ELSE c

CheckAndSleep(c) ==
  [IF c.deadline_.expiry = "passed"
   THEN [close(c) EXCEPT !.deadline_.expiry = "infinite"] ELSE c
   EXCEPT !.deadline_.wait = "waiting"]

check_deadline ==
  /\ client.deadline_.wait = "ready"
  /\ LET c == [client EXCEPT !.deadline_.wait = "none"]
     IN client' = IF c.stopped_ THEN c ELSE CheckAndSleep(c)

-----------------------------------------------------------------------------
\* client::start has run.  A wait on a timer that has passed is ready at once;
\* this one has no expiry, or the one start_connect has just set.
ClientInit == client = [start_connect(Fresh, 1) EXCEPT !.deadline_.wait = "waiting"]

ClientNext ==
  \/ \E op \in {"connect", "read", "write"}, result \in {"success", "error"} :
       Completes(op, result)
  \/ DeadlinePasses \/ HeartbeatDue
  \/ handle_connect \/ handle_read \/ handle_write \/ Heartbeat \/ check_deadline

\* Deadlines pass and run executes what is ready; of the network nothing is
\* assumed.
ClientSpec ==
  /\ ClientInit /\ [][ClientNext]_client
  /\ WF_client(DeadlinePasses)
  /\ WF_client(HeartbeatDue)
  /\ WF_client(handle_connect) /\ WF_client(handle_read) /\ WF_client(handle_write)
  /\ WF_client(Heartbeat) /\ WF_client(check_deadline)

-----------------------------------------------------------------------------
\* The connect actor ends where the other two begin: a read or a heartbeat is
\* never outstanding with a connect, not even when the deadline actor closed
\* the socket after the connect had succeeded.
ConnectThenTalk ==
  client.connect /= "idle" =>
    /\ client.read = "idle" /\ client.write = "idle"
    /\ client.heartbeat_timer_ = "none"

\* A connect whose socket the deadline actor closed moves on to the next
\* endpoint, even if it had succeeded before its handler ran.
TimedOutMovesOn ==
  [][(client.connect /= "idle" /\ client'.connect = "idle") =>
       client.open \/ client.stopped_ \/ client'.stopped_]_client

\* The socket is closed only for an error or because the deadline of the
\* operation in progress has passed; a deadline moved before the actor ran
\* closes nothing.
ClosedForAReason ==
  [][(client.open /\ ~client'.open) =>
       \/ "error" \in {client.connect, client.read, client.write}
       \/ client.deadline_.expiry = "passed"]_client

\* A connect or a read that gets no answer does not last: the deadline actor
\* ends it.
NoEndlessWait ==
  []<>(client.connect /= "pending") /\ []<>(client.read /= "pending")

\* "The connect actor is woken up and moves to the next endpoint": the client
\* gets connected or runs out of endpoints and stops.
ConnectsOrStops == <>(client.read /= "idle" \/ client.stopped_)

\* Once stopped, all four actors end and io_service::run returns.
RunReturns ==
  client.stopped_ ~>
    /\ {client.connect, client.read, client.write} = {"idle"}
    /\ client.deadline_.wait = "none" /\ client.heartbeat_timer_ = "none"

=============================================================================
