------------------------------ MODULE SslEcho -------------------------------
(***************************************************************************)
(* The Boost.Asio examples ssl/server and ssl/client.  A session of the    *)
(* server has one operation outstanding at a time and deletes itself when  *)
(* one fails; a client sends a line and reads as many bytes back.          *)
(*                                                                         *)
(* The record of a session holds its operation, the bytes of data_ still   *)
(* to be sent, its client and the two directions of the connection; an     *)
(* operation and the handler it calls are one step.                        *)
(***************************************************************************)
EXTENDS Naturals, Sequences, FiniteSets

CONSTANTS
  Clients,       \* the clients that connect
  Nobody,        \* the client of a session that has none
  MaxSessions,   \* bound: sessions the server creates
  MaxLine,       \* bound: length of the line a client sends
  Buffer         \* size of a session's data_

VARIABLES sess, created, client, alive

sslVars == <<sess, created, client, alive>>

Sessions == 1..MaxSessions

NewSession == [op |-> "none", peer |-> Nobody, data_ |-> <<>>, up |-> <<>>, down |-> <<>>, broken |-> FALSE]

Line(n) == [i \in 1..n |-> i]

\* The client has closed its socket, or the connection failed.
Gone(s) == sess[s].broken \/ client[sess[s].peer].op = "none"

\* The session of client c.
Of(c) == {s \in Sessions : sess[s].peer = c}

-----------------------------------------------------------------------------
(* The server.                                                             *)

\* delete this: nothing else frees a session.
Delete(s) == alive' = alive \ {s}

\* Mutant: a session whose write failed is left.
LeaveIt(s) == UNCHANGED alive

GiveUp(s) == Delete(s)

\* start_accept creates the next session; changed is sess after the handler.
start_accept(changed, living) ==
  IF created < MaxSessions
  THEN /\ created' = created + 1
       /\ sess' = [changed EXCEPT ![created + 1].op = "accept"]
       /\ alive' = living \union {created + 1}
  ELSE sess' = changed /\ alive' = living /\ UNCHANGED created

\* Mutant: after an error no further session is accepted.
StopAccepting(changed, living) == sess' = changed /\ alive' = living /\ UNCHANGED created

AcceptNext(changed, living) == start_accept(changed, living)

\* handle_accept without an error, and the client's handle_connect.
Accept(s) ==
  \E c \in Clients :
    /\ sess[s].op = "accept" /\ client[c].op = "connect"
    /\ start_accept([sess EXCEPT ![s].op = "handshake", ![s].peer = c], alive)
    /\ client' = [client EXCEPT ![c].op = "handshake"]

AcceptFails(s) ==
  /\ sess[s].op = "accept" /\ created < MaxSessions
  /\ AcceptNext([sess EXCEPT ![s].op = "none"], alive \ {s})
  /\ UNCHANGED client

\* Both sides complete, or the client refuses the certificate, with the server
\* told of it in the handshake or only later, or the handshake fails.
handle_handshake(s) ==
  \E serverOk, clientOk \in BOOLEAN, n \in 0..MaxLine :
    /\ sess[s].op = "handshake" /\ client[sess[s].peer].op = "handshake"
    /\ clientOk => serverOk
    /\ ~sess[s].broken
    /\ sess' = [sess EXCEPT ![s].op = IF serverOk THEN "read" ELSE "none"]
    /\ IF serverOk THEN UNCHANGED alive ELSE Delete(s)
    /\ client' = [client EXCEPT ![sess[s].peer] =
                    [@ EXCEPT !.op = IF clientOk THEN "write" ELSE "none",
                              !.line = IF clientOk THEN Line(n) ELSE <<>>,
                              !.unsent = IF clientOk THEN Line(n) ELSE <<>>]]
    /\ UNCHANGED created

HandshakeBreaks(s) ==
  /\ sess[s].op = "handshake" /\ Gone(s)
  /\ sess' = [sess EXCEPT ![s].op = "none"] /\ Delete(s)
  /\ UNCHANGED <<created, client>>

handle_read(s) ==
  /\ sess[s].op = "read"
  /\ \/ \E n \in 1..Buffer :
          /\ n <= Len(sess[s].up)
          /\ sess' = [sess EXCEPT ![s].op = "write", ![s].data_ = SubSeq(sess[s].up, 1, n),
                                  ![s].up = SubSeq(@, n + 1, Len(@))]
          /\ UNCHANGED alive
     \/ /\ sess[s].up = <<>> /\ Gone(s)
        /\ sess' = [sess EXCEPT ![s].op = "none"] /\ Delete(s)
  /\ UNCHANGED <<created, client>>

\* async_write sends the data in pieces and calls handle_write at the end.
handle_write(s) ==
  /\ sess[s].op = "write"
  /\ \/ /\ ~Gone(s)
        /\ \E n \in 1..Len(sess[s].data_) :
             sess' = [sess EXCEPT ![s].down = @ \o SubSeq(sess[s].data_, 1, n),
                                  ![s].data_ = SubSeq(@, n + 1, Len(@)),
                                  ![s].op = IF n = Len(sess[s].data_) THEN "read" ELSE "write"]
        /\ UNCHANGED alive
     \/ Gone(s) /\ sess' = [sess EXCEPT ![s].op = "none"] /\ GiveUp(s)
  /\ UNCHANGED <<created, client>>

-----------------------------------------------------------------------------
(* The client: an error is printed and io_service::run returns.            *)

ConnectFails(c) ==
  /\ client[c].op = "connect" /\ client' = [client EXCEPT ![c].op = "none"]
  /\ UNCHANGED <<sess, created, alive>>

ClientFails(c) ==
  /\ client[c].op \in {"handshake", "write", "read"}
  /\ \E s \in Of(c) :
       \/ sess[s].broken
       \/ s \notin alive /\ (client[c].op = "write" \/ sess[s].down = <<>>)
  /\ client' = [client EXCEPT ![c].op = "none"]
  /\ UNCHANGED <<sess, created, alive>>

ClientWrite(c) ==
  /\ client[c].op = "write"
  /\ \E s \in Of(c) :
       /\ ~sess[s].broken
       /\ \E n \in 0..Len(client[c].unsent) :
            /\ n = 0 => client[c].unsent = <<>>
            /\ sess' = [sess EXCEPT ![s].up = @ \o SubSeq(client[c].unsent, 1, n)]
            /\ client' = [client EXCEPT ![c].unsent = SubSeq(@, n + 1, Len(@)),
                                        ![c].op = IF n = Len(client[c].unsent) THEN "read" ELSE "write"]
  /\ UNCHANGED <<created, alive>>

\* Mutant: the first bytes that come are taken for the reply.
ReadSome(c, got) == got /= <<>>

\* Mutant: the end of the line is waited for, which is not sent.
ReadLineEnd(c, got) == Len(got) = Len(client[c].line) + 1

\* async_read completes when as many bytes have come as handle_write was told.
ReadAll(c, got) == Len(got) = Len(client[c].line)

ClientRead(c) ==
  /\ client[c].op = "read"
  /\ \E s \in Of(c) :
       LET got == client[c].reply_ \o sess[s].down IN
       /\ sess[s].down /= <<>> \/ ReadAll(c, got)
       /\ sess' = [sess EXCEPT ![s].down = <<>>]
       /\ client' = [client EXCEPT ![c].reply_ = got,
                                   ![c].op = IF ReadAll(c, got) THEN "none" ELSE "read",
                                   ![c].replied = ReadAll(c, got)]
  /\ UNCHANGED <<created, alive>>

Break(s) ==
  /\ sess[s].op \in {"handshake", "read", "write"} /\ ~sess[s].broken
  /\ sess' = [sess EXCEPT ![s].broken = TRUE]
  /\ UNCHANGED <<created, client, alive>>

-----------------------------------------------------------------------------
\* The server has started the first accept and each client a connect.
SslInit ==
  /\ sess = [s \in Sessions |-> IF s = 1 THEN [NewSession EXCEPT !.op = "accept"] ELSE NewSession]
  /\ created = 1 /\ alive = {1}
  /\ client = [c \in Clients |->
                 [op |-> "connect", line |-> <<>>, unsent |-> <<>>, reply_ |-> <<>>, replied |-> FALSE]]

Handlers ==
  \/ \E s \in Sessions : Accept(s) \/ handle_handshake(s) \/ HandshakeBreaks(s)
                          \/ handle_read(s) \/ handle_write(s)
  \/ \E c \in Clients : ConnectFails(c) \/ ClientFails(c) \/ ClientWrite(c) \/ ClientRead(c)

SslNext == Handlers \/ \E s \in Sessions : AcceptFails(s) \/ Break(s)

SslSpec == SslInit /\ [][SslNext]_sslVars /\ WF_sslVars(Handlers)

-----------------------------------------------------------------------------
\* A session that exists has an operation outstanding, whose handler will use
\* or delete it, and one that is deleted has none: no session is leaked and no
\* handler is called on a deleted one.
DeletedOnce == \A s \in 1..created : s \in alive <=> sess[s].op /= "none"

\* The server goes on accepting, whatever became of the sessions before.
AlwaysAccepting ==
  created < MaxSessions => Cardinality({s \in Sessions : sess[s].op = "accept"}) = 1

\* The reply the client prints is the line it sent, whole, though the server
\* reads and sends it in other pieces and knows nothing of lines.
ReplyIsLine == \A c \in Clients : client[c].replied => client[c].reply_ = client[c].line

\* Every client ends and every session that had a client is deleted.
AllEnd ==
  <>(/\ \A c \in Clients : client[c].op = "none"
     /\ \A s \in Sessions : sess[s].peer \in Clients => s \notin alive)

=============================================================================
