----------------------------- MODULE ChatServer -----------------------------
(***************************************************************************)
(* The Boost.Asio chat server: a room of sessions, each with a queue of    *)
(* messages of which the first is being written, and the room's list of    *)
(* recent messages for those who join.  One thread runs the io_service, so *)
(* a handler is one step, and what it delivers it delivers to everyone in  *)
(* that step.  A message is known by its place in the history of the room. *)
(***************************************************************************)
EXTENDS Naturals, Sequences, SequencesExt, FiniteSets

CONSTANTS
  Session,          \* bound: the sessions that connect
  max_recent_msgs,  \* 100 in the code
  MaxMsgs           \* bound: messages sent to the room

VARIABLES
  participants_, recent_msgs_,  \* chat_room
  write_msgs_,    \* of each session
  reading,        \* of each session: "new", "header", "body" or "none"
  writing,        \* of each session: the writes outstanding
  sent,           \* of each session: what its client has got
  since,          \* of each session: the history when it joined
  history         \* the number of messages the room has had

chatVars == <<participants_, recent_msgs_, write_msgs_, reading, writing, sent,
              since, history>>

\* Mutant: the queue is taken for idle when only the front is left.
WriteInProgressLong(queue) == Len(queue) > 1

WriteInProgress(queue) == queue /= <<>>

\* chat_session::deliver of msgs, one after the other: the queue grows, and a
\* write is started when none was in progress.
Deliver(S, msgs) ==
  /\ write_msgs_' = [s \in Session |->
       IF s \in S THEN write_msgs_[s] \o msgs ELSE write_msgs_[s]]
  /\ writing' = [s \in Session |->
       writing[s] + Cardinality({k \in 1..Len(msgs) :
         s \in S /\ ~WriteInProgress(write_msgs_[s] \o SubSeq(msgs, 1, k - 1))})]

\* Mutant: the list is cut one message late.
CutLate(msgs) ==
  IF Len(msgs) > max_recent_msgs + 1 THEN Tail(msgs) ELSE msgs

Cut(msgs) == IF Len(msgs) > max_recent_msgs THEN Tail(msgs) ELSE msgs

\* handle_accept and chat_session::start: join, then the first read.  A failed
\* accept leaves nothing behind.
start(s) ==
  /\ reading[s] = "new"
  /\ participants_' = participants_ \cup {s}
  /\ Deliver({s}, recent_msgs_)
  /\ reading' = [reading EXCEPT ![s] = "header"]
  /\ since' = [since EXCEPT ![s] = history]
  /\ UNCHANGED <<recent_msgs_, sent, history>>

leave(s) ==
  /\ participants_' = participants_ \ {s}
  /\ reading' = [reading EXCEPT ![s] = "none"]
  /\ UNCHANGED <<recent_msgs_, write_msgs_, writing, sent, since, history>>

\* The header is read and decodes; otherwise the session leaves.
handle_read_header(s) ==
  /\ reading[s] = "header"
  /\ \/ /\ reading' = [reading EXCEPT ![s] = "body"]
        /\ UNCHANGED <<participants_, recent_msgs_, write_msgs_, writing, sent,
                       since, history>>
     \/ leave(s)

\* Mutant: a session does not get back what it sent.
OthersOnly(s) == participants_ \ {s}

Receivers(s) == participants_

\* The body is read and the room delivers it; otherwise the session leaves.
handle_read_body(s) ==
  /\ reading[s] = "body"
  /\ \/ /\ history < MaxMsgs
        /\ history' = history + 1
        /\ recent_msgs_' = Cut(Append(recent_msgs_, history + 1))
        /\ Deliver(Receivers(s), <<history + 1>>)
        /\ reading' = [reading EXCEPT ![s] = "header"]
        /\ UNCHANGED <<participants_, sent, since>>
     \/ leave(s)

\* The front is written: the next write starts, if there is one.  After an
\* error the session leaves the room; its read goes on.
handle_write(s) ==
  /\ writing[s] > 0
  /\ \/ /\ sent' = [sent EXCEPT ![s] = Append(@, Head(write_msgs_[s]))]
        /\ write_msgs_' = [write_msgs_ EXCEPT ![s] = Tail(@)]
        /\ writing' = [writing EXCEPT ![s] = IF Len(write_msgs_[s]) > 1 THEN @ ELSE @ - 1]
        /\ UNCHANGED participants_
     \/ /\ participants_' = participants_ \ {s}
        /\ writing' = [writing EXCEPT ![s] = @ - 1]
        /\ UNCHANGED <<sent, write_msgs_>>
  /\ UNCHANGED <<recent_msgs_, reading, since, history>>

-----------------------------------------------------------------------------
ChatInit ==
  /\ participants_ = {} /\ recent_msgs_ = <<>> /\ history = 0
  /\ write_msgs_ = [s \in Session |-> <<>>]
  /\ sent = [s \in Session |-> <<>>]
  /\ reading = [s \in Session |-> "new"]
  /\ writing = [s \in Session |-> 0]
  /\ since = [s \in Session |-> 0]

ChatNext ==
  \E s \in Session :
    start(s) \/ handle_read_header(s) \/ handle_read_body(s) \/ handle_write(s)

ChatSpec == ChatInit /\ [][ChatNext]_chatVars

-----------------------------------------------------------------------------
\* The recent messages are the last ones, at most max_recent_msgs of them.
RecentIsTail ==
  /\ Len(recent_msgs_) <= max_recent_msgs
  /\ \A k \in 1..Len(recent_msgs_) :
       recent_msgs_[k] = history - Len(recent_msgs_) + k

\* One write is outstanding while the queue of a session in the room is not
\* empty, and none when it is: no message waits without a write that will come
\* to it, and two writes never mix on one socket, with joins, deliveries and
\* completed writes in any order.
OneWriter ==
  \A s \in participants_ : writing[s] = IF write_msgs_[s] = <<>> THEN 0 ELSE 1

\* What a client was sent and will be sent is a stretch of the history without
\* a gap, a repetition or a change of order, from the recent messages of the
\* moment it joined; while it is in the room, up to the last message.
SameHistory ==
  \A s \in Session :
    LET all == sent[s] \o write_msgs_[s]
        first == IF since[s] > max_recent_msgs THEN since[s] - max_recent_msgs ELSE 0
    IN /\ \A k \in 1..Len(all) : all[k] = first + k
       /\ s \in participants_ => Len(all) = history - first

=============================================================================
