----------------------------- MODULE HttpThreads -----------------------------
(***************************************************************************)
(* The Boost.Asio example http/server3: several threads in the run of one  *)
(* io_service.  Any thread may take any completed operation; the handlers  *)
(* of a connection go through its strand.  handle_accept is in the steps   *)
(* between which another thread may come in.                               *)
(***************************************************************************)
EXTENDS Naturals, FiniteSets

CONSTANTS
  Thread,
  Connection,   \* bound: the connection objects alive at one time
  null

VARIABLES
  new_connection_,
  accept,           \* the accept operation: "idle", "pending" or a result
  read, write,      \* of each connection: "idle", "pending" or "done"
  signal,           \* the wait for a signal: "pending", "success" or "idle"
  stopped,          \* io_service::stop was called
  at,               \* of each thread: where it is
  on                \* of each thread: the connection its handler is for

threadVars == <<new_connection_, accept, read, write, signal, stopped, at, on>>

\* A thread in run picks the next handler; after stop it returns instead.
Free(t) == at[t] = "run" /\ ~stopped

Alive(c) ==
  \/ c = new_connection_
  \/ read[c] /= "idle" \/ write[c] /= "idle"
  \/ \E t \in Thread : on[t] = c

\* Mutant: the handlers of a connection are not wrapped.
NoStrand(c) == TRUE

\* strand_.wrap: no other handler of the connection is being executed.
strand_(c) == ~\E t \in Thread : on[t] = c

Enter(t, place, c) == at' = [at EXCEPT ![t] = place] /\ on' = [on EXCEPT ![t] = c]
Goto(t, place) == at' = [at EXCEPT ![t] = place] /\ UNCHANGED on
Leave(t) == Enter(t, "run", null)

-----------------------------------------------------------------------------
\* Operations complete by themselves.  bound: a new object can be made.
Complete ==
  /\ \/ /\ accept = "pending" /\ \E c \in Connection : ~Alive(c)
        /\ accept' \in {"success", "error"}
        /\ UNCHANGED <<read, write, signal>>
     \/ \E c \in Connection :
          /\ read[c] = "pending" /\ read' = [read EXCEPT ![c] = "done"]
          /\ UNCHANGED <<accept, write, signal>>
     \/ \E c \in Connection :
          /\ write[c] = "pending" /\ write' = [write EXCEPT ![c] = "done"]
          /\ UNCHANGED <<accept, read, signal>>
     \/ signal = "pending" /\ signal' = "success" /\ UNCHANGED <<accept, read, write>>
  /\ UNCHANGED <<new_connection_, stopped, at, on>>

\* new_connection_->start() when the accept succeeded
handle_accept(t) ==
  /\ Free(t) /\ accept \in {"success", "error"}
  /\ accept' = "idle"
  /\ read' = IF accept = "success"
             THEN [read EXCEPT ![new_connection_] = "pending"] ELSE read
  /\ Goto(t, "reset")
  /\ UNCHANGED <<new_connection_, write, signal, stopped>>

\* start_accept makes the connection ...
Reset(t) ==
  /\ at[t] = "reset"
  /\ \E c \in Connection : ~Alive(c) /\ new_connection_' = c
  /\ Goto(t, "async_accept")
  /\ UNCHANGED <<accept, read, write, signal, stopped>>

\* ... and then starts the accept, whose handler may run at once elsewhere
AsyncAccept(t) ==
  /\ at[t] = "async_accept"
  /\ accept' = "pending"
  /\ Leave(t)
  /\ UNCHANGED <<new_connection_, read, write, signal, stopped>>

\* Mutant: the accept is started before the connection is replaced.
AcceptThenReset(t) ==
  \/ /\ at[t] = "reset"
     /\ accept' = "pending"
     /\ Goto(t, "async_accept")
     /\ UNCHANGED <<new_connection_, read, write, signal, stopped>>
  \/ /\ at[t] = "async_accept"
     /\ \E c \in Connection : ~Alive(c) /\ new_connection_' = c
     /\ Leave(t)
     /\ UNCHANGED <<accept, read, write, signal, stopped>>

start_accept(t) == Reset(t) \/ AsyncAccept(t)

\* A reply is sent, more is read, or on an error nothing is started.
handle_read(t, c) ==
  \/ /\ Free(t) /\ read[c] = "done" /\ strand_(c)
     /\ Enter(t, "handle_read", c)
     /\ read' = [read EXCEPT ![c] = "idle"]
     /\ UNCHANGED <<new_connection_, accept, write, signal, stopped>>
  \/ /\ at[t] = "handle_read" /\ on[t] = c
     /\ \/ read' = [read EXCEPT ![c] = "pending"] /\ UNCHANGED write
        \/ write' = [write EXCEPT ![c] = "pending"] /\ UNCHANGED read
        \/ UNCHANGED <<read, write>>
     /\ Goto(t, "return")
     /\ UNCHANGED <<new_connection_, accept, signal, stopped>>

handle_write(t, c) ==
  /\ Free(t) /\ write[c] = "done" /\ strand_(c)
  /\ Enter(t, "return", c)
  /\ write' = [write EXCEPT ![c] = "idle"]
  /\ UNCHANGED <<new_connection_, accept, read, signal, stopped>>

\* The end of either handler: what it started may already be complete.
Return(t) ==
  /\ at[t] = "return"
  /\ Leave(t)
  /\ UNCHANGED <<new_connection_, accept, read, write, signal, stopped>>

\* Mutant: handle_stop closes nothing and stops nothing.
IgnoreStop == UNCHANGED stopped

Stop == stopped' = TRUE

handle_stop(t) ==
  /\ Free(t) /\ signal = "success"
  /\ signal' = "idle"
  /\ Stop
  /\ UNCHANGED <<new_connection_, accept, read, write, at, on>>

\* run returns in each thread after stop, and with that the joins.
Exit(t) ==
  /\ at[t] = "run" /\ stopped
  /\ Goto(t, "exited")
  /\ UNCHANGED <<new_connection_, accept, read, write, signal, stopped>>

-----------------------------------------------------------------------------
ThreadInit ==
  /\ new_connection_ \in Connection
  /\ accept = "pending"
  /\ read = [c \in Connection |-> "idle"]
  /\ write = [c \in Connection |-> "idle"]
  /\ signal = "pending"
  /\ stopped = FALSE
  /\ at = [t \in Thread |-> "run"]
  /\ on = [t \in Thread |-> null]

Step(t) ==
  \/ handle_accept(t) \/ start_accept(t) \/ handle_stop(t) \/ Return(t) \/ Exit(t)
  \/ \E c \in Connection : handle_read(t, c) \/ handle_write(t, c)

ThreadNext == Complete \/ \E t \in Thread : Step(t)

ThreadSpec == ThreadInit /\ [][ThreadNext]_threadVars

\* Each thread goes on; an operation is picked up by one of them, and the
\* signal handler is not passed over for ever (handlers are queued in order).
FairThreadSpec ==
  /\ ThreadSpec
  /\ \A t \in Thread : WF_threadVars(Step(t))
  /\ SF_threadVars(\E t \in Thread : handle_stop(t))

-----------------------------------------------------------------------------
\* "Strand to ensure the connection's handlers are not called concurrently":
\* at most one thread is in a handler of a connection.
HandlersNotConcurrent ==
  \A s, t \in Thread : (s /= t /\ on[s] /= null) => on[s] /= on[t]

\* new_connection_ is used by one thread at a time, without a lock: between
\* the handler of one accept and the start of the next no other thread is in
\* handle_accept.
NewConnectionUnshared ==
  \A s, t \in Thread :
    (s /= t /\ at[s] \in {"reset", "async_accept"}) =>
      at[t] \notin {"reset", "async_accept"}

\* The object an accept writes into is not one that is already served.
AcceptIntoFresh ==
  accept \in {"pending", "success"} =>
    read[new_connection_] = "idle" /\ write[new_connection_] = "idle"

\* After a signal every thread leaves run and server::run returns.
ThreadsReturn == signal = "success" ~> \A t \in Thread : at[t] = "exited"

=============================================================================
