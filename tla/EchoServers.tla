---------------------------- MODULE EchoServers -----------------------------
(***************************************************************************)
(* The Boost.Asio examples that send back what they receive:               *)
(*   nonblocking/third_party_lib, echo/async_tcp_echo_server,              *)
(*   allocation/server, echo/async_udp_echo_server and, in upper case,     *)
(*   local/connect_pair.                                                   *)
(* They share no state; each has its Init and its Next.  Byte i of a       *)
(* client is the number i.                                                 *)
(***************************************************************************)
EXTENDS Naturals, Sequences, Bags, FiniteSets

CONSTANTS
  MaxSent,      \* bound: bytes the client of third_party_lib sends
  BufferSize,   \* 128 in the code
  Capacity,     \* what the socket takes before the client reads
  EchoSession,  \* bound: the session objects async_tcp_echo_server can make
  EchoBuffer,   \* size of data_ in async_tcp_echo_server and allocation
  MaxEcho,      \* bound: bytes a client sends to either
  HandlerSizes, \* sizes of handlers; an implementation's choice
  BlockSize,    \* size of storage_
  UdpClient,
  DatagramSize, \* the sizes of datagrams, 0 included
  max_length,   \* size of data_ in async_udp_echo_server
  MaxDatagrams, \* bound: datagrams sent, doubled ones included
  PairBuffer,   \* characters a socket of connect_pair holds for its reader
  FilterSize,   \* size of the filter's data_
  MaxLength     \* bound: characters of a line

VARIABLES
  sent, echoed,      \* by the client; received by the client
  inbound, outbound, \* what the kernel holds in each direction
  session,           \* [state_, write_buffer_]
  progress,          \* read_in_progress_ and write_in_progress_
  wait,              \* the two waits: "idle", "pending", "success" or "error"
  isOpen

nbVars == <<sent, echoed, inbound, outbound, session, progress, wait, isOpen>>

VARIABLES
  object,       \* of each session: "unborn", "alive", "deleted"
  tcp_op,       \* its outstanding operation: "none", "accept", "read", "write"
  tcp_data_,    \* what is still to be sent back
  tcp_sent, tcp_taken, tcp_echoed,  \* the client's stream, what was read of it, what was sent back
  tcp_broken    \* the client has closed, or the connection is lost

tcpStreams == <<tcp_data_, tcp_sent, tcp_taken, tcp_echoed, tcp_broken>>
tcpVars == <<object, tcp_op, tcpStreams>>

VARIABLES
  in_use_,      \* the flag of the allocator
  held,         \* where the memory of the outstanding operation is: "no", "storage", "heap"
  needed,       \* the size that was asked for it
  heap,         \* blocks of the heap in use
  alloc_op,     \* the outstanding operation: "accept", "read", "write", "none"
  alloc_data_,  \* what is still to be sent back
  alloc_sent, alloc_taken, alloc_echoed,  \* the client's stream, as above
  alloc_closed  \* the client has closed its socket

memory == <<in_use_, held, needed, heap>>
allocVars == <<memory, alloc_op, alloc_data_, alloc_sent, alloc_taken, alloc_echoed, alloc_closed>>

VARIABLES
  network,      \* the bag of datagrams on their way to the server
  udp_op,       \* the outstanding operation, "receive" or "send"
  udp_data_,    \* what of which datagram is in the buffer
  sender_endpoint_,
  udp_bytes,    \* how much of the buffer is to be sent
  received,     \* the bag of datagrams the server has received, empty ones left out
  replies,      \* the bag of what it has sent back, and to whom
  datagrams     \* datagrams sent

udpVars == <<network, udp_op, udp_data_, sender_endpoint_, udp_bytes, received, replies, datagrams>>

VARIABLES
  main_at,      \* main: "prompt", "write", "read"; "exit" once the process has ended
  request, pair_sent,   \* the line, and how many of its characters were written
  reply,        \* what main has read
  filter,       \* the filter's outstanding operation: "read" or "write"
  filter_data_, \* what of its buffer is still to be written
  toFilter, toMain      \* the characters under way

mainVars == <<main_at, request, pair_sent, reply>>
pairVars == <<mainVars, filter, filter_data_, toFilter, toMain>>

Least(m, n) == IF m < n THEN m ELSE n

-----------------------------------------------------------------------------
(* What an echo server promises its client: what it gets back is what it   *)
(* has sent, in order, nothing twice and nothing left out.                 *)

IsPrefix(s, t) == Len(s) <= Len(t) /\ s = SubSeq(t, 1, Len(s))

EchoInit(out, back) == out = <<>> /\ back = <<>>

EchoNext(out, back) ==
  /\ IsPrefix(out, out') /\ IsPrefix(back, back') /\ IsPrefix(back', out')

-----------------------------------------------------------------------------
(* nonblocking/third_party_lib: a library reads and writes a non-blocking  *)
(* socket itself; the connection asks it what it wants and waits, with     *)
(* null_buffers, until the socket is ready for that.  A wait may end       *)
(* although the socket is not ready: the library then gets would_block.    *)

want_read(s) == s.state_ = "reading"
want_write(s) == s.state_ = "writing"

Wants(s, k) == IF k = "read" THEN want_read(s) ELSE want_write(s)

(* The client and the socket.                                              *)

Send ==
  /\ Len(sent) < MaxSent /\ isOpen
  /\ sent' = Append(sent, Len(sent) + 1) /\ inbound' = Append(inbound, Len(sent) + 1)
  /\ UNCHANGED <<echoed, outbound, session, progress, wait, isOpen>>

Receive ==
  /\ outbound /= <<>>
  /\ echoed' = Append(echoed, Head(outbound)) /\ outbound' = Tail(outbound)
  /\ UNCHANGED <<sent, inbound, session, progress, wait, isOpen>>

WaitOver(k, result) ==
  /\ wait[k] = "pending"
  /\ wait' = [wait EXCEPT ![k] = result]
  /\ UNCHANGED <<sent, echoed, inbound, outbound, session, progress, isOpen>>

\* start_operations on the state s of the library, the flags p and the waits
\* w: a wait is started for what is wanted and not in progress.
start_operations(s, p, w) ==
  LET started == {k \in {"read", "write"} : Wants(s, k) /\ ~p[k]}
  IN /\ progress' = [k \in {"read", "write"} |-> p[k] \/ k \in started]
     /\ wait' = [k \in {"read", "write"} |-> IF k \in started THEN "pending" ELSE w[k]]

\* socket_.close()
Close(p, w) ==
  /\ isOpen' = FALSE /\ progress' = p
  /\ wait' = [k \in {"read", "write"} |-> IF w[k] = "pending" THEN "error" ELSE w[k]]

\* Mutant: the flag stays set.
StillInProgress(k) == progress

Cleared(k) == [progress EXCEPT ![k] = FALSE]

\* Mutant: after a partial write the library goes back to reading.
WroteAll(rest) == "reading"

NextState(rest) == IF rest /= <<>> THEN "writing" ELSE "reading"

\* The read of the library: some bytes, would_block when there are none, or an
\* error (the client is gone).
do_read(p, w) ==
  \/ /\ inbound /= <<>>
     /\ \E n \in 1..Least(Len(inbound), BufferSize) :
          /\ session' = [state_ |-> "writing", write_buffer_ |-> SubSeq(inbound, 1, n)]
          /\ inbound' = SubSeq(inbound, n + 1, Len(inbound))
     /\ start_operations(session', p, w) /\ UNCHANGED <<outbound, isOpen>>
  \/ /\ inbound = <<>>
     /\ start_operations(session, p, w) /\ UNCHANGED <<inbound, outbound, session, isOpen>>
  \/ Close(p, w) /\ UNCHANGED <<inbound, outbound, session>>

do_write(p, w) ==
  \/ \E n \in 1..Len(session.write_buffer_) :
       /\ Len(outbound) + n <= Capacity
       /\ outbound' = outbound \o SubSeq(session.write_buffer_, 1, n)
       /\ LET rest == SubSeq(session.write_buffer_, n + 1, Len(session.write_buffer_))
          IN session' = [state_ |-> NextState(rest), write_buffer_ |-> rest]
       /\ start_operations(session', p, w) /\ UNCHANGED <<inbound, isOpen>>
  \/ /\ Len(outbound) = Capacity
     /\ start_operations(session, p, w) /\ UNCHANGED <<inbound, outbound, session, isOpen>>
  \/ Close(p, w) /\ UNCHANGED <<inbound, outbound, session>>

\* handle_read and handle_write
handle(k) ==
  /\ wait[k] \in {"success", "error"}
  /\ LET p == Cleared(k)
         w == [wait EXCEPT ![k] = "idle"]
     IN IF wait[k] = "error" \/ ~isOpen
        THEN Close(p, w) /\ UNCHANGED <<inbound, outbound, session>>
        ELSE IF k = "read" THEN do_read(p, w) ELSE do_write(p, w)
  /\ UNCHANGED <<sent, echoed>>

handle_read == handle("read")
handle_write == handle("write")

\* The connection is accepted and start_operations has waited for a read.
NbInit ==
  /\ sent = <<>> /\ echoed = <<>> /\ inbound = <<>> /\ outbound = <<>>
  /\ session = [state_ |-> "reading", write_buffer_ |-> <<>>]
  /\ progress = [read |-> TRUE, write |-> FALSE]
  /\ wait = [read |-> "pending", write |-> "idle"] /\ isOpen = TRUE

NbNext ==
  \/ Send \/ Receive \/ handle_read \/ handle_write
  \/ \E k \in {"read", "write"}, result \in {"success", "error"} : WaitOver(k, result)

\* A socket that is ready ends the wait for it, and run calls the handlers; a
\* client reads what is there for it.
NbSpec ==
  /\ NbInit /\ [][NbNext]_nbVars
  /\ WF_nbVars(Receive)
  /\ WF_nbVars(inbound /= <<>> /\ WaitOver("read", "success"))
  /\ WF_nbVars(Len(outbound) < Capacity /\ WaitOver("write", "success"))
  /\ WF_nbVars(handle_read) /\ WF_nbVars(handle_write)

\* The connection is an echo server, however the bytes are cut into reads and
\* partial writes.
IsEchoServer == EchoInit(sent, echoed) /\ [][EchoNext(sent, echoed)]_<<sent, echoed>>

\* The library is never forgotten: while the socket is open, exactly the wait
\* it wants is in progress.
WantedIsWaitedFor ==
  isOpen => \A k \in {"read", "write"} :
              (wait[k] /= "idle") = Wants(session, k) /\ (wait[k] /= "idle") = progress[k]

\* Bytes do not stay in the server: they come back or the socket is closed.
EchoesAll == []<>(~isOpen \/ echoed = sent)

-----------------------------------------------------------------------------
(* echo/async_tcp_echo_server.  A session is owned by nobody: its handlers *)
(* are bound to a bare pointer, and the last of them deletes it.           *)

TcpSend(s) ==
  /\ tcp_op[s] \in {"read", "write"} /\ ~tcp_broken[s] /\ Len(tcp_sent[s]) < MaxEcho
  /\ tcp_sent' = [tcp_sent EXCEPT ![s] = Append(@, Len(@) + 1)]
  /\ UNCHANGED <<object, tcp_op, tcp_data_, tcp_taken, tcp_echoed, tcp_broken>>

TcpBreak(s) ==
  /\ tcp_op[s] \in {"read", "write"} /\ ~tcp_broken[s]
  /\ tcp_broken' = [tcp_broken EXCEPT ![s] = TRUE]
  /\ UNCHANGED <<object, tcp_op, tcp_data_, tcp_sent, tcp_taken, tcp_echoed>>

(* The session.                                                            *)

\* delete this
Delete(s) == object' = [object EXCEPT ![s] = "deleted"] /\ tcp_op' = [tcp_op EXCEPT ![s] = "none"]

\* Mutant: a session whose write failed is left as it is.
LeaveIt(s) == tcp_op' = [tcp_op EXCEPT ![s] = "none"] /\ UNCHANGED object

GiveUp(s) == Delete(s)

tcp_handle_read(s) ==
  /\ tcp_op[s] = "read"
  /\ \/ \E n \in 1..EchoBuffer :
          /\ tcp_taken[s] + n <= Len(tcp_sent[s])
          /\ tcp_data_' = [tcp_data_ EXCEPT
                             ![s] = SubSeq(tcp_sent[s], tcp_taken[s] + 1, tcp_taken[s] + n)]
          /\ tcp_taken' = [tcp_taken EXCEPT ![s] = @ + n]
          /\ tcp_op' = [tcp_op EXCEPT ![s] = "write"] /\ UNCHANGED object
     \/ tcp_broken[s] /\ Delete(s) /\ UNCHANGED <<tcp_data_, tcp_taken>>
  /\ UNCHANGED <<tcp_sent, tcp_echoed, tcp_broken>>

\* async_write sends a piece.
TcpWritten(s) ==
  /\ tcp_op[s] = "write" /\ tcp_data_[s] /= <<>> /\ ~tcp_broken[s]
  /\ \E n \in 1..Len(tcp_data_[s]) :
       /\ tcp_echoed' = [tcp_echoed EXCEPT ![s] = @ \o SubSeq(tcp_data_[s], 1, n)]
       /\ tcp_data_' = [tcp_data_ EXCEPT ![s] = SubSeq(@, n + 1, Len(@))]
  /\ UNCHANGED <<object, tcp_op, tcp_sent, tcp_taken, tcp_broken>>

\* Mutant: the next piece is read while the last is being sent.
AnyTime(s) == TRUE

AllWritten(s) == tcp_data_[s] = <<>>

tcp_handle_write(s) ==
  /\ tcp_op[s] = "write"
  /\ \/ AllWritten(s) /\ tcp_op' = [tcp_op EXCEPT ![s] = "read"] /\ UNCHANGED object
     \/ tcp_broken[s] /\ GiveUp(s)
  /\ UNCHANGED tcpStreams

(* The server.                                                             *)

\* A session that was not made yet; which one does not matter.
Unborn == CHOOSE s \in EchoSession : object[s] = "unborn"

\* new session; bound: there is one that was not made yet.
start_accept(o, p) ==
  /\ \E s \in EchoSession : object[s] = "unborn"
  /\ object' = [o EXCEPT ![Unborn] = "alive"] /\ tcp_op' = [p EXCEPT ![Unborn] = "accept"]

handle_accept(s) ==
  /\ tcp_op[s] = "accept"
  /\ \/ start_accept(object, [tcp_op EXCEPT ![s] = "read"])
     \/ start_accept([object EXCEPT ![s] = "deleted"], [tcp_op EXCEPT ![s] = "none"])
  /\ UNCHANGED tcpStreams

TcpInit ==
  /\ LET first == CHOOSE s \in EchoSession : TRUE
     IN  /\ object = [s \in EchoSession |-> IF s = first THEN "alive" ELSE "unborn"]
         /\ tcp_op = [s \in EchoSession |-> IF s = first THEN "accept" ELSE "none"]
  /\ tcp_data_ = [s \in EchoSession |-> <<>>] /\ tcp_sent = tcp_data_ /\ tcp_echoed = tcp_data_
  /\ tcp_taken = [s \in EchoSession |-> 0] /\ tcp_broken = [s \in EchoSession |-> FALSE]

TcpHandlers(s) == tcp_handle_read(s) \/ TcpWritten(s) \/ tcp_handle_write(s)

TcpNext ==
  \E s \in EchoSession : TcpSend(s) \/ TcpBreak(s) \/ TcpHandlers(s) \/ handle_accept(s)

\* A session is alive exactly as long as one operation is bound to it: no
\* handler is called on a deleted session, none is left that nobody deletes,
\* and one session is always waiting to be connected.
OwnedByOperation ==
  /\ \A s \in EchoSession : object[s] = "alive" <=> tcp_op[s] /= "none"
  /\ Cardinality({s \in EchoSession : tcp_op[s] = "accept"}) = 1

\* Every session implements an echo server, whatever the others do.
SessionsEcho ==
  /\ \A s \in EchoSession : EchoInit(tcp_sent[s], tcp_echoed[s])
  /\ [][\A s \in EchoSession : EchoNext(tcp_sent[s], tcp_echoed[s])]_<<tcp_sent, tcp_echoed>>

\* No session stalls: while its client stays, all it sends comes back, and a
\* session whose client has gone is deleted.
SessionsEnd ==
  []<>(\A s \in EchoSession :
         IF tcp_broken[s] THEN object[s] = "deleted" ELSE tcp_echoed[s] = tcp_sent[s])

-----------------------------------------------------------------------------
(* allocation/server: an echo session whose operations take the memory for *)
(* their handlers from a block the session owns, or from the heap when the *)
(* block is in use or too small.  Boost.Asio frees the memory of an        *)
(* operation before it calls the handler, and async_write is a chain of    *)
(* operations, one for each piece.                                         *)

(* handler_allocator.                                                      *)

allocate(flag, blocks, size) ==
  /\ needed' = size
  /\ IF ~flag /\ size < BlockSize
     THEN in_use_' = TRUE /\ held' = "storage" /\ heap' = blocks
     ELSE in_use_' = flag /\ held' = "heap" /\ heap' = blocks + 1

\* Mutant: the flag stays set.
FlagAfter == in_use_

\* deallocate tells the block from the heap by its address.
FlagFreed == IF held = "storage" THEN FALSE ELSE in_use_
HeapFreed == IF held = "heap" THEN heap - 1 ELSE heap

\* The next operation is started in a handler, after the memory of the last
\* one was freed; or none is, and the session is destroyed with its handler.
Start(operation) ==
  alloc_op' = operation /\ \E size \in HandlerSizes : allocate(FlagFreed, HeapFreed, size)

End ==
  /\ alloc_op' = "none" /\ in_use_' = FlagFreed /\ heap' = HeapFreed /\ held' = "no"
  /\ UNCHANGED needed

(* The client.                                                             *)

AllocSend ==
  /\ Len(alloc_sent) < MaxEcho /\ ~alloc_closed
  /\ alloc_sent' = Append(alloc_sent, Len(alloc_sent) + 1)
  /\ UNCHANGED <<memory, alloc_op, alloc_data_, alloc_taken, alloc_echoed, alloc_closed>>

AllocClose ==
  /\ ~alloc_closed /\ alloc_closed' = TRUE
  /\ UNCHANGED <<memory, alloc_op, alloc_data_, alloc_sent, alloc_taken, alloc_echoed>>

(* The session.                                                            *)

\* handle_accept calls start; the accept itself uses no memory of the session.
start ==
  /\ alloc_op = "accept" /\ Start("read")
  /\ UNCHANGED <<alloc_data_, alloc_sent, alloc_taken, alloc_echoed, alloc_closed>>

alloc_handle_read ==
  /\ alloc_op = "read"
  /\ \/ \E n \in 1..EchoBuffer :
          /\ alloc_taken + n <= Len(alloc_sent)
          /\ alloc_taken' = alloc_taken + n
          /\ alloc_data_' = SubSeq(alloc_sent, alloc_taken + 1, alloc_taken + n)
          /\ Start("write")
     \/ /\ alloc_taken = Len(alloc_sent) /\ alloc_closed /\ End
        /\ UNCHANGED <<alloc_data_, alloc_taken>>
  /\ UNCHANGED <<alloc_sent, alloc_echoed, alloc_closed>>

\* Mutant: what one operation sent is taken for all of it.
SentAll(n) == "read"

AfterSending(n) == IF n = Len(alloc_data_) THEN "read" ELSE "write"

alloc_handle_write ==
  /\ alloc_op = "write"
  /\ \/ \E n \in 1..Len(alloc_data_) :
          /\ alloc_echoed' = alloc_echoed \o SubSeq(alloc_data_, 1, n)
          /\ alloc_data_' = SubSeq(alloc_data_, n + 1, Len(alloc_data_))
          /\ Start(AfterSending(n))
     \/ alloc_closed /\ End /\ UNCHANGED <<alloc_echoed, alloc_data_>>
  /\ UNCHANGED <<alloc_sent, alloc_taken, alloc_closed>>

AllocInit ==
  /\ in_use_ = FALSE /\ held = "no" /\ needed = 0 /\ heap = 0
  /\ alloc_op = "accept" /\ alloc_data_ = <<>>
  /\ alloc_sent = <<>> /\ alloc_taken = 0 /\ alloc_echoed = <<>> /\ alloc_closed = FALSE

AllocSession == start \/ alloc_handle_read \/ alloc_handle_write

AllocNext == AllocSession \/ AllocSend \/ AllocClose

\* The block is marked as used exactly while an operation has it, so that it is
\* never given to two, and an operation goes to the heap only for a size the
\* block cannot hold: chained operations never find it in use.  With the
\* session every block of the heap is gone.
BlockAccounted ==
  /\ in_use_ <=> held = "storage"
  /\ held = "heap" => needed >= BlockSize
  /\ heap = (IF held = "heap" THEN 1 ELSE 0)
  /\ alloc_op \in {"read", "write"} <=> held /= "no"

\* The session implements an echo server.
AllocEchoes ==
  /\ EchoInit(alloc_sent, alloc_echoed)
  /\ [][EchoNext(alloc_sent, alloc_echoed)]_<<alloc_sent, alloc_echoed>>

\* While the client stays, all it sends comes back.
AllocEchoesAll == []<>(alloc_closed \/ alloc_echoed = alloc_sent)

-----------------------------------------------------------------------------
(* echo/async_udp_echo_server: one buffer and one sender_endpoint_ for all *)
(* clients.  Datagrams are lost, doubled and reordered on their way, and   *)
(* cut to the size of the buffer when received.                            *)

\* Every datagram has its own text: the number of the client's call.
Sent(c, n) ==
  /\ datagrams < MaxDatagrams /\ datagrams' = datagrams + 1
  /\ network' = network (+) SetToBag({[from |-> c, text |-> datagrams, size |-> n]})
  /\ UNCHANGED <<udp_op, udp_data_, sender_endpoint_, udp_bytes, received, replies>>

Lost(d) ==
  /\ network' = network (-) SetToBag({d})
  /\ UNCHANGED <<udp_op, udp_data_, sender_endpoint_, udp_bytes, received, replies, datagrams>>

Doubled(d) ==
  /\ datagrams < MaxDatagrams /\ datagrams' = datagrams + 1
  /\ network' = network (+) SetToBag({d})
  /\ UNCHANGED <<udp_op, udp_data_, sender_endpoint_, udp_bytes, received, replies>>

\* Mutant: the endpoint is that of the first datagram that was answered.
NotNoted(d) == IF udp_bytes = 0 THEN d.from ELSE sender_endpoint_

Sender(d) == d.from

\* A datagram arrives in data_ and sender_endpoint_, and handle_receive_from
\* answers it, or receives on.  A failed receive leaves everything as it was.
handle_receive_from(d) ==
  LET n == Least(d.size, max_length)
  IN  /\ udp_op = "receive" /\ network' = network (-) SetToBag({d})
      /\ sender_endpoint_' = Sender(d)
      /\ udp_data_' = IF n = 0 THEN udp_data_ ELSE d.text
      /\ IF n > 0
         THEN udp_op' = "send" /\ udp_bytes' = n
         ELSE UNCHANGED <<udp_op, udp_bytes>>
      /\ received' = IF d.size = 0 THEN received
                     ELSE received (+) SetToBag({[to |-> d.from, text |-> d.text, size |-> n]})
      /\ UNCHANGED <<replies, datagrams>>

\* The datagram is sent or not; handle_send_to does not look.
handle_send_to ==
  /\ udp_op = "send"
  /\ \/ replies' = replies (+) SetToBag({[to |-> sender_endpoint_, text |-> udp_data_,
                                           size |-> udp_bytes]})
     \/ UNCHANGED replies
  /\ udp_op' = "receive"
  /\ UNCHANGED <<network, udp_data_, sender_endpoint_, udp_bytes, received, datagrams>>

\* The endpoint is that of no sender yet.
UdpInit(endpoints) ==
  /\ network = EmptyBag /\ udp_op = "receive" /\ udp_data_ = 0 /\ sender_endpoint_ \in endpoints
  /\ udp_bytes = 0 /\ received = EmptyBag /\ replies = EmptyBag /\ datagrams = 0

UdpNext ==
  \/ \E c \in UdpClient, n \in DatagramSize : Sent(c, n)
  \/ \E d \in BagToSet(network) : Lost(d) \/ Doubled(d) \/ handle_receive_from(d)
  \/ handle_send_to

\* What a client gets back is what the server has received from that client,
\* cut to the buffer, and not more often: the one buffer never carries the text
\* of one client to another, also not after an empty datagram, which leaves the
\* text of an earlier one where it was.
RepliesToSender == replies \sqsubseteq received

-----------------------------------------------------------------------------
(* local/connect_pair: main sends the lines of the user through a pair of  *)
(* connected sockets to a filter, which runs in a thread of its own and    *)
(* sends them back in upper case.  A writer waits on a full socket.        *)

\* std::toupper: what is no lower case letter stays.
toupper(c) == IF c = "a" THEN "A" ELSE c

Upper(s) == [i \in 1..Len(s) |-> toupper(s[i])]

(* main.                                                                   *)

Getline ==
  /\ main_at = "prompt"
  /\ \E n \in 0..MaxLength : request' \in [1..n -> {"a", "1"}]
  /\ main_at' = "write" /\ pair_sent' = 0 /\ reply' = <<>>
  /\ UNCHANGED <<filter, filter_data_, toFilter, toMain>>

\* boost::asio::write goes on until everything is written.
WriteSome ==
  /\ main_at = "write" /\ pair_sent < Len(request) /\ Len(toFilter) < PairBuffer
  /\ pair_sent' = pair_sent + 1 /\ toFilter' = Append(toFilter, request[pair_sent + 1])
  /\ UNCHANGED <<main_at, request, reply, filter, filter_data_, toMain>>

WriteReturns ==
  /\ main_at = "write" /\ pair_sent = Len(request) /\ main_at' = "read"
  /\ UNCHANGED <<request, pair_sent, reply, filter, filter_data_, toFilter, toMain>>

\* boost::asio::read into a reply of the size of the request.
ReadSome ==
  /\ main_at = "read" /\ Len(reply) < Len(request) /\ toMain /= <<>>
  /\ reply' = Append(reply, Head(toMain)) /\ toMain' = Tail(toMain)
  /\ UNCHANGED <<main_at, request, pair_sent, filter, filter_data_, toFilter>>

Show ==
  /\ main_at = "read" /\ Len(reply) = Len(request) /\ main_at' = "prompt"
  /\ UNCHANGED <<request, pair_sent, reply, filter, filter_data_, toFilter, toMain>>

(* uppercase_filter, in the other thread.                                  *)

\* Mutant: data_ is sent beyond what was read.
FilteredAndMore(n) == Append(Upper(SubSeq(toFilter, 1, n)), "1")

\* The result is computed in place, and as much is sent as was read.
Filtered(n) == Upper(SubSeq(toFilter, 1, n))

filter_handle_read ==
  /\ main_at /= "exit" /\ filter = "read"
  /\ \E n \in 1..Least(Len(toFilter), FilterSize) :
       filter_data_' = Filtered(n) /\ toFilter' = SubSeq(toFilter, n + 1, Len(toFilter))
  /\ filter' = "write"
  /\ UNCHANGED <<mainVars, toMain>>

\* boost::asio::async_write, piece by piece.
FilterWrites ==
  /\ main_at /= "exit" /\ filter = "write" /\ filter_data_ /= <<>> /\ Len(toMain) < PairBuffer
  /\ toMain' = Append(toMain, Head(filter_data_)) /\ filter_data_' = Tail(filter_data_)
  /\ UNCHANGED <<mainVars, filter, toFilter>>

\* Mutant: the filter is through after one chunk.
NoMore == filter' = "done"

ReadAgain == filter' = "read"

filter_handle_write ==
  /\ main_at /= "exit" /\ filter = "write" /\ filter_data_ = <<>>
  /\ ReadAgain
  /\ UNCHANGED <<mainVars, filter_data_, toFilter, toMain>>

\* An operation fails.  The filter throws out of io_service::run, main out of
\* its loop, and either ends the process.
Fail ==
  /\ main_at /= "exit" /\ main_at' = "exit"
  /\ UNCHANGED <<request, pair_sent, reply, filter, filter_data_, toFilter, toMain>>

PairInit ==
  /\ main_at = "prompt" /\ request = <<>> /\ pair_sent = 0 /\ reply = <<>>
  /\ filter = "read" /\ filter_data_ = <<>> /\ toFilter = <<>> /\ toMain = <<>>

MainThread == WriteSome \/ WriteReturns \/ ReadSome \/ Show

FilterThread == filter_handle_read \/ FilterWrites \/ filter_handle_write

PairNext == Getline \/ MainThread \/ FilterThread \/ Fail

\* What main has read, what is on its way back, what the filter holds and what
\* it has still to read are, in this order, what main has written in upper
\* case: however the line is cut into chunks, nothing is lost, doubled or left
\* for the next line, for which both sockets are empty.
ReplyInStep ==
  main_at /= "exit" =>
    /\ reply \o toMain \o filter_data_ \o Upper(toFilter) = Upper(SubSeq(request, 1, pair_sent))
    /\ main_at = "prompt" => toMain \o filter_data_ \o toFilter = <<>>

\* main writes the whole line before it reads, and the filter writes a chunk
\* before it reads on.  Both wait for the other only when the line is longer
\* than what the two sockets and the filter hold.
BlockedByLongLineOnly ==
  /\ main_at = "write" /\ pair_sent < Len(request) /\ Len(toFilter) = PairBuffer
  /\ filter = "write" /\ filter_data_ /= <<>> /\ Len(toMain) = PairBuffer
  => Len(request) > 2 * PairBuffer + 1

\* Every line that cannot block is answered.
LinesAnswered == []<>(main_at \in {"prompt", "exit"} \/ Len(request) > 2 * PairBuffer + 1)

=============================================================================
