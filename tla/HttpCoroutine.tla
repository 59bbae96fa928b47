---------------------------- MODULE HttpCoroutine ----------------------------
(***************************************************************************)
(* The Boost.Asio example http/server4: the server is a stackless          *)
(* coroutine that is its own completion handler.  Every accepted           *)
(* connection forks a copy of it.  value_ is what coroutine.hpp keeps: 0   *)
(* before the first entry, the line of the last yield, the negated line in *)
(* a freshly forked child, -1 when complete.                               *)
(***************************************************************************)
EXTENDS Integers, FiniteSets

CONSTANTS
  Copy,      \* bound: copies of the server alive at one time
  Socket,    \* bound: sockets alive at one time
  none

\* The lines of the yields and of the fork
AcceptLine == 54
ForkLine == 61
ReadLine == 77
WriteLine == 103

VARIABLES
  value_, socket_,  \* of each copy
  result,           \* of each copy: "pending" or the ec it will be called with
  ended             \* an accept has failed

coroutineVars == <<value_, socket_, result, ended>>

Live(x) == socket_[x] /= none

is_child(v) == v < 0
is_parent(v) == ~is_child(v)

UnusedSocket(s) == \A x \in Copy : socket_[x] /= s

\* The operation completes, well or not.  bound: copies and sockets are left
\* for a fork.
Complete(x) ==
  /\ result[x] = "pending"
  /\ value_[x] = AcceptLine =>
       (\E y \in Copy : ~Live(y)) /\ (\E s \in Socket : UnusedSocket(s))
  /\ result' = [result EXCEPT ![x] = "success"]
       \/ result' = [result EXCEPT ![x] = "error"]
  /\ UNCHANGED <<value_, socket_, ended>>

\* Called with an error, or complete: the shared_ptrs are released.
Release(x) ==
  /\ value_' = [value_ EXCEPT ![x] = -1]
  /\ socket_' = [socket_ EXCEPT ![x] = none]
  /\ result' = [result EXCEPT ![x] = "none"]

Fail(x) ==
  /\ result[x] = "error"
  /\ Release(x)
  /\ ended' = (ended \/ value_[x] = AcceptLine)

\* Mutant: the child is entered with the value the parent will go on with.
ChildAsParent == ForkLine

ChildValue == -ForkLine

\* Mutant: the loop does not make a new socket.
SameSocket(x) == {socket_[x]}

NewSocket(x) == {s \in Socket : UnusedSocket(s)}

\* Where a copy that comes out of the fork with v goes: round the accept loop,
\* or out of it to the first read.
AfterFork(v) == IF is_parent(v) THEN AcceptLine ELSE ReadLine

\* The accept has succeeded: fork server(*this)() runs a copy up to its first
\* yield, then the parent loops.
Fork(x) ==
  /\ value_[x] = AcceptLine /\ result[x] = "success"
  /\ \E y \in Copy, s \in NewSocket(x) :
       /\ ~Live(y)
       /\ value_' = [value_ EXCEPT ![y] = AfterFork(ChildValue), ![x] = AfterFork(ForkLine)]
       /\ socket_' = [socket_ EXCEPT ![y] = socket_[x], ![x] = s]
       /\ result' = [result EXCEPT ![y] = "pending", ![x] = "pending"]
  /\ UNCHANGED ended

\* The request is complete or refused, and a reply is sent, or the loop reads
\* on.
Read(x) ==
  /\ value_[x] = ReadLine /\ result[x] = "success"
  /\ \E line \in {ReadLine, WriteLine} : value_' = [value_ EXCEPT ![x] = line]
  /\ result' = [result EXCEPT ![x] = "pending"]
  /\ UNCHANGED <<socket_, ended>>

\* Mutant: after the reply the copy reads the next request.
WriteThenRead(x) ==
  /\ value_[x] = WriteLine /\ result[x] = "success"
  /\ value_' = [value_ EXCEPT ![x] = ReadLine]
  /\ result' = [result EXCEPT ![x] = "pending"]
  /\ UNCHANGED <<socket_, ended>>

\* The reply is sent: shutdown, and the coroutine is complete.
Write(x) ==
  /\ value_[x] = WriteLine /\ result[x] = "success"
  /\ Release(x)
  /\ UNCHANGED ended

\* main: the server is constructed, called once and runs up to the accept.
CoroutineInit ==
  /\ \E x \in Copy, s \in Socket :
       /\ value_ = [y \in Copy |-> IF y = x THEN AcceptLine ELSE -1]
       /\ socket_ = [y \in Copy |-> IF y = x THEN s ELSE none]
       /\ result = [y \in Copy |-> IF y = x THEN "pending" ELSE "none"]
  /\ ended = FALSE

CoroutineNext ==
  \E x \in Copy : Complete(x) \/ Fail(x) \/ Fork(x) \/ Read(x) \/ Write(x)

CoroutineSpec == CoroutineInit /\ [][CoroutineNext]_coroutineVars

-----------------------------------------------------------------------------
\* One copy accepts until an accept fails, and then none does: the children,
\* which go through the same code, never come to the accept loop again.
OneAcceptor ==
  Cardinality({x \in Copy : value_[x] = AcceptLine}) = IF ended THEN 0 ELSE 1

\* The copies share their socket_ pointers when they are forked, yet no two of
\* them ever work on one socket.
SocketsUnshared == \A x, y \in Copy : (Live(x) /\ socket_[x] = socket_[y]) => x = y

\* A connection is answered at most once, and only after it was read: a copy
\* that writes comes from a read and goes nowhere else.
AnswersOnce ==
  [][\A x \in Copy :
       /\ (value_[x] = WriteLine /\ value_'[x] /= WriteLine) => ~Live(x)'
       /\ (value_'[x] = WriteLine /\ value_[x] /= WriteLine) => value_[x] = ReadLine]_coroutineVars

=============================================================================
