---------------------------- MODULE ForkPrograms ----------------------------
(***************************************************************************)
(* The Boost.Asio examples fork/process_per_connection and fork/daemon.    *)
(* They share nothing.                                                     *)
(*                                                                         *)
(* process_per_connection forks a process for each connection.  The child  *)
(* gives up the acceptor and the wait for SIGCHLD it inherits and echoes   *)
(* until its client is gone; the parent closes its copy of the connection, *)
(* accepts the next one and reaps children that ended.  A SIGCHLD that is  *)
(* pending absorbs others.                                                 *)
(*                                                                         *)
(* daemon opens its UDP socket, forks twice, replaces its standard streams *)
(* and serves.  Its io_service has descriptors of its own, which it        *)
(* creates anew in the daemon.  A descriptor is always the lowest that is  *)
(* free.  The program may be started with any of its standard streams      *)
(* closed.                                                                 *)
(***************************************************************************)
EXTENDS Naturals, FiniteSets
LOCAL INSTANCE Functions

CONSTANTS
  Child,      \* bound: the connections, each with its child
  NoChild

VARIABLES
  parent,     \* [accept, wait, queued]: the accept, the wait on signal_, and
              \* whether signal_ holds a signal nobody waits for
  pending,    \* SIGCHLD is pending for the parent
  socket_,    \* the connection the parent has accepted, or NoChild
  child       \* per child [process, io, wait, acceptor]

forkVars == <<parent, pending, socket_, child>>

VARIABLES
  pc,        \* where the process that goes on is
  me,        \* which process that is: 1, its child 2 or its grandchild 3
  alive,     \* the processes that have not exited
  leader,    \* the session leaders among them
  fd,        \* the descriptors of the process that goes on
  started,   \* the standard streams that were open at the start
  internal,  \* the numbers of the descriptors the io_service opened
  answers    \* datagrams received and answered: "idle", "pending" or "due"

daemonVars == <<pc, me, alive, leader, fd, started, internal, answers>>

-----------------------------------------------------------------------------
(* process_per_connection                                                  *)

Unborn == [process |-> "none", io |-> "none", wait |-> "none", acceptor |-> FALSE]

async_wait(p) ==
  IF p.queued THEN [p EXCEPT !.wait = "ready", !.queued = FALSE]
  ELSE [p EXCEPT !.wait = "waiting"]

-----------------------------------------------------------------------------
(* The operating system.                                                   *)

Accepted(c) ==
  /\ parent.accept = "pending" /\ child[c].process = "none"
  /\ parent' = [parent EXCEPT !.accept = "success"] /\ socket_' = c
  /\ UNCHANGED <<pending, child>>

AcceptFails ==
  /\ parent.accept = "pending"
  /\ parent' = [parent EXCEPT !.accept = "error"]
  /\ UNCHANGED <<pending, socket_, child>>

\* A child's read or write completes; when the client is gone it fails.
Completes(c, result) ==
  /\ child[c].io \in {"reading", "writing"}
  /\ child' = [child EXCEPT ![c].io = IF result = "error" THEN "error"
                                      ELSE IF @ = "reading" THEN "read" ELSE "written"]
  /\ UNCHANGED <<parent, pending, socket_>>

\* io_service::run of a child returns when it has no more work.
Exit(c) ==
  /\ child[c].process = "running" /\ child[c].io = "none" /\ child[c].wait = "none"
  /\ child' = [child EXCEPT ![c].process = "zombie", ![c].acceptor = FALSE]
  /\ pending' = TRUE
  /\ UNCHANGED <<parent, socket_>>

Signalled ==
  /\ pending /\ pending' = FALSE
  /\ parent' = IF parent.wait = "waiting" THEN [parent EXCEPT !.wait = "ready"]
               ELSE [parent EXCEPT !.queued = TRUE]
  /\ UNCHANGED <<socket_, child>>

-----------------------------------------------------------------------------
(* The handlers.                                                           *)

\* Mutant: the child keeps waiting for the signal.
BornWaiting(p) ==
  [process |-> "running", io |-> "reading", wait |-> p.wait, acceptor |-> FALSE]

\* The child process: the acceptor is closed, the wait inherited from the
\* parent cancelled, and reading starts.
Born(p) ==
  [process |-> "running", io |-> "reading", acceptor |-> FALSE,
   wait |-> IF p.wait = "waiting" THEN "ready" ELSE p.wait]

\* Mutant: the parent leaves its socket open.
KeepSocket == socket_

CloseSocket == NoChild

\* fork may fail, and then the parent goes on as if it had not.
handle_accept ==
  /\ parent.accept \in {"success", "error"}
  /\ parent' = [parent EXCEPT !.accept = "pending"]
  /\ IF parent.accept = "success"
     THEN /\ socket_' = CloseSocket
          /\ \/ child' = [child EXCEPT ![socket_] = Born(parent)]
             \/ child' = [child EXCEPT ![socket_].process = "refused"]
     ELSE UNCHANGED <<socket_, child>>
  /\ UNCHANGED pending

\* Mutant: waitpid is called once.
ReapOne ==
  IF \E c \in Child : child[c].process = "zombie"
  THEN [child EXCEPT ![CHOOSE c \in Child : child[c].process = "zombie"].process = "reaped"]
  ELSE child

\* while (waitpid(-1, &status, WNOHANG) > 0) {}
Reap ==
  [c \in Child |-> IF child[c].process = "zombie"
                   THEN [child[c] EXCEPT !.process = "reaped"] ELSE child[c]]

\* In the parent: the acceptor is open there.
handle_signal_wait ==
  /\ parent.wait = "ready"
  /\ child' = Reap
  /\ parent' = async_wait(parent)
  /\ UNCHANGED <<pending, socket_>>

\* In a child: nothing is done and the wait is not renewed.
handle_signal_wait_child(c) ==
  /\ child[c].wait = "ready"
  /\ child' = [child EXCEPT ![c].wait = IF child[c].acceptor THEN "waiting" ELSE "none"]
  /\ UNCHANGED <<parent, pending, socket_>>

handle_read(c) ==
  /\ child[c].io = "read"
  /\ child' = [child EXCEPT ![c].io = "writing"]
  /\ UNCHANGED <<parent, pending, socket_>>

handle_write(c) ==
  /\ child[c].io = "written"
  /\ child' = [child EXCEPT ![c].io = "reading"]
  /\ UNCHANGED <<parent, pending, socket_>>

\* handle_read and handle_write do nothing when there was an error.
HandleError(c) ==
  /\ child[c].io = "error"
  /\ child' = [child EXCEPT ![c].io = "none"]
  /\ UNCHANGED <<parent, pending, socket_>>

ChildStep(c) ==
  \/ Exit(c) \/ handle_signal_wait_child(c) \/ handle_read(c) \/ handle_write(c)
  \/ HandleError(c)

ForkInit ==
  /\ parent = [accept |-> "pending", wait |-> "waiting", queued |-> FALSE]
  /\ pending = FALSE /\ socket_ = NoChild /\ child = [c \in Child |-> Unborn]

ForkNext ==
  \/ AcceptFails \/ Signalled \/ handle_accept \/ handle_signal_wait
  \/ \E c \in Child :
       Accepted(c) \/ ChildStep(c) \/ \E result \in {"success", "error"} : Completes(c, result)

\* Signals are delivered and each process runs what is ready.
ForkSpec ==
  /\ ForkInit /\ [][ForkNext]_forkVars
  /\ WF_forkVars(Signalled) /\ WF_forkVars(handle_signal_wait)
  /\ \A c \in Child : WF_forkVars(ChildStep(c))

-----------------------------------------------------------------------------
\* A connection belongs to one process: once its child runs the parent has no
\* descriptor of it, so that the client sees the end of the connection when
\* the child ends.
OneOwner ==
  \A c \in Child : child[c].process /= "none" => socket_ /= c

\* Every child that ends is reaped, although signals are merged and come while
\* the parent is busy or not waiting.
NoZombieStays ==
  []<>(\A c \in Child : child[c].process /= "zombie")

\* A child whose client is gone ends: neither the acceptor nor the signal wait
\* it inherited keeps its io_service running, whatever state they were in when
\* the parent forked.
ChildEnds ==
  []<>(\A c \in Child : child[c].process = "running" => child[c].io \notin {"error", "none"})

-----------------------------------------------------------------------------
(* daemon                                                                  *)

MaxInternal == 3               \* bound: descriptors of the reactor
Descriptor == 0..(4 + MaxInternal)

Lowest(table) ==
  CHOOSE n \in Descriptor : table[n] = "closed" /\ \A k \in 0..(n - 1) : table[k] /= "closed"

Opened(table, what) == [table EXCEPT ![Lowest(table)] = what]

OpenedTimes(table, what, times) ==
  FoldFunction(LAMBDA w, t : Opened(t, w), table, [i \in 1..times |-> what])

NumbersOf(table, what) == {n \in Descriptor : table[n] = what}

\* main goes on to the next statement, or returns 1.
Step(from, to) == pc = from /\ pc' = to
Fails(from) ==
  /\ pc = from /\ pc' = "failed" /\ alive' = alive \ {me}
  /\ UNCHANGED <<me, leader, fd, started, internal, answers>>

-----------------------------------------------------------------------------
\* The reactor of the io_service is created with the first object that needs
\* it, before the socket; the socket is bound and the first receive started.
Construct ==
  /\ Step("construct", "signals")
  /\ \E reactor \in 1..MaxInternal :
       fd' = Opened(OpenedTimes(fd, "internal", reactor), "socket")
  /\ internal' = NumbersOf(fd', "internal") /\ answers' = "pending"
  /\ UNCHANGED <<me, alive, leader, started>>

\* The signals are caught by way of one more descriptor of the io_service.
signal_set ==
  /\ Step("signals", "fork1")
  /\ fd' = Opened(fd, "internal") /\ internal' = NumbersOf(fd', "internal")
  /\ UNCHANGED <<me, alive, leader, started, answers>>

\* The child goes on; the parent exits in its own time.
Fork(from, to) ==
  /\ Step(from, to)
  /\ me' = me + 1 /\ alive' = alive \cup {me + 1}
  /\ UNCHANGED <<leader, fd, started, internal, answers>>

\* Mutant: after the second fork the parent goes on too.
FirstExits ==
  /\ 1 \in alive /\ me > 1 /\ alive' = alive \ {1}
  /\ UNCHANGED <<pc, me, leader, fd, started, internal, answers>>

ParentExits ==
  /\ \E p \in alive : p < me /\ alive' = alive \ {p}
  /\ UNCHANGED <<pc, me, leader, fd, started, internal, answers>>

setsid ==
  /\ Step("setsid", "fork2")
  /\ leader' = leader \cup {me}
  /\ UNCHANGED <<me, alive, fd, started, internal, answers>>

\* Mutant: every descriptor is closed.
CloseAll == [n \in Descriptor |-> "closed"]

CloseStreams == [n \in Descriptor |-> IF n < 3 THEN "closed" ELSE fd[n]]

close ==
  /\ Step("close", "null")
  /\ fd' = CloseStreams
  /\ UNCHANGED <<me, alive, leader, started, internal, answers>>

OpenNull ==
  /\ Step("null", "output")
  /\ fd' = Opened(fd, "null")
  /\ UNCHANGED <<me, alive, leader, started, internal, answers>>

OpenOutput ==
  /\ Step("output", "dup")
  /\ fd' = Opened(fd, "log")
  /\ UNCHANGED <<me, alive, leader, started, internal, answers>>

dup ==
  /\ Step("dup", "notify")
  /\ fd' = Opened(fd, fd[1])
  /\ UNCHANGED <<me, alive, leader, started, internal, answers>>

\* notify_fork(fork_child): the io_service closes its descriptors, by their
\* numbers, and opens new ones.
notify_fork ==
  /\ Step("notify", "run")
  /\ LET left == [n \in Descriptor |-> IF n \in internal THEN "closed" ELSE fd[n]]
     IN /\ fd' = OpenedTimes(left, "internal", Cardinality(internal))
        /\ internal' = NumbersOf(fd', "internal") \ NumbersOf(left, "internal")
  /\ UNCHANGED <<me, alive, leader, started, answers>>

\* io_service::run: datagrams are answered until SIGINT or SIGTERM.
Receive ==
  /\ pc = "run" /\ answers = "pending" /\ answers' = "due"
  /\ UNCHANGED <<pc, me, alive, leader, fd, started, internal>>

handle_receive ==
  /\ pc = "run" /\ answers = "due" /\ answers' = "pending"
  /\ UNCHANGED <<pc, me, alive, leader, fd, started, internal>>

Stop ==
  /\ Step("run", "stopped") /\ alive' = alive \ {me}
  /\ UNCHANGED <<me, leader, fd, started, internal, answers>>

\* Mutant: the process that called setsid goes on as the daemon.
ForkOnce == Step("fork2", "close") /\ UNCHANGED <<me, alive, leader, fd, started, internal, answers>>

SecondFork == Fork("fork2", "close")

-----------------------------------------------------------------------------
\* The program is started with one of the given sets of streams open.
DaemonInit(starts) ==
  /\ pc = "construct" /\ me = 1 /\ alive = {1} /\ leader = {} /\ answers = "idle"
  /\ internal = {}
  /\ started \in starts
  /\ fd = [n \in Descriptor |-> IF n \in started THEN "terminal" ELSE "closed"]

DaemonNext ==
  \/ Construct \/ signal_set \/ Fork("fork1", "setsid") \/ setsid \/ SecondFork
  \/ close \/ OpenNull \/ OpenOutput \/ dup \/ notify_fork
  \/ \E from \in {"construct", "signals", "fork1", "fork2", "null", "output", "dup", "notify"} : Fails(from)
  \/ ParentExits \/ Receive \/ handle_receive \/ Stop

\* A process that may exit does, and main goes on.
DaemonSpec ==
  /\ DaemonInit(SUBSET (0..2)) /\ [][DaemonNext]_daemonVars
  /\ WF_daemonVars(ParentExits)

-----------------------------------------------------------------------------
\* The daemon has no terminal and cannot acquire one: it serves as a process
\* that leads no session and has no descriptor of the terminal, whatever streams
\* the program was started with.
Detached ==
  pc = "run" => me \notin leader /\ "terminal" \notin {fd[n] : n \in Descriptor}

\* The daemon has the socket that was opened before the forks, and /dev/null and
\* the log as its standard streams, which the io_service does not close when it
\* renews its descriptors, provided the program was started with its three
\* standard streams.
SocketKept ==
  (pc = "run" /\ started = 0..2) =>
    /\ \E n \in Descriptor : fd[n] = "socket"
    /\ fd[0] = "null" /\ fd[1] = "log" /\ fd[2] = "log"

\* The processes in between end: the daemon remains alone.
DaemonAlone == [](pc = "run" => <>(alive \subseteq {3}))

=============================================================================
