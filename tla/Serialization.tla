--------------------------- MODULE Serialization ---------------------------
(***************************************************************************)
(* The connection class of the Boost.Asio example serialization, between   *)
(* its server and its client: a message is a header, the length of the     *)
(* serialized data in digits of a fixed width, and the data.  The stream   *)
(* delivers them in pieces and may break anywhere.  The client may also be *)
(* connected to some other program.                                        *)
(*                                                                         *)
(* A character is a number: a digit below Base, a blank is Base, and the   *)
(* characters of an archive and the signs are greater.                     *)
(***************************************************************************)
EXTENDS Naturals, Sequences
LOCAL INSTANCE SequencesExt

CONSTANTS
  header_length,   \* 8 in the code
  Base,            \* 16 in the code
  Sizes,           \* sizes of serialized data
  Messages         \* bound: messages on one connection

VARIABLES
  peer,       \* "server", or "other" for a program that is not ours
  written,    \* the data given to async_write so far
  results,    \* what the handlers of async_write were told
  stream,     \* characters under way
  broken,     \* the connection is lost
  reader,     \* [phase, inbound_data_size]
  received    \* what the handlers of async_read were told: the data, or Error

serVars == <<peer, written, results, stream, broken, reader, received>>

Blank == Base
Error == <<0>>

Digits[n \in Nat] == IF n < Base THEN <<n>> ELSE Digits[n \div Base] \o <<n % Base>>

\* std::setw(header_length) << std::hex << size
Header(size) ==
  [i \in 1..(header_length - Len(Digits[size])) |-> Blank] \o Digits[size]

\* The archive of the k-th value, of that size; another program's data does
\* not decode.
Archive(k, size) == [i \in 1..size |-> Base + k]
Garbage == Base + Messages + 1
Decodes(data) == data /= <<>> /\ \A i \in 1..Len(data) : data[i] /= Garbage

Minus == Garbage + 1
Plus == Garbage + 2

\* The first place of the header, at or after i, that is not in S.
After(header, i, S) ==
  CHOOSE k \in i..(Len(header) + 1) :
    /\ \A j \in i..(k - 1) : header[j] \in S
    /\ k = Len(header) + 1 \/ header[k] \notin S

\* is >> std::hex >> inbound_data_size: blanks are skipped, a sign is accepted,
\* what is read are the digits up to the first other character, and it is a
\* failure if there is none.
SignAt(header) == After(header, 1, {Blank})

Signed(header, S) == SignAt(header) <= Len(header) /\ header[SignAt(header)] \in S

Text(header) ==
  LET from == SignAt(header) + (IF Signed(header, {Minus, Plus}) THEN 1 ELSE 0)
  IN SubSeq(header, from, After(header, from, 0..(Base - 1)) - 1)

Number(header) == FoldLeft(LAMBDA n, d : Base * n + d, 0, Text(header))

Valid(header) == Text(header) /= <<>>

\* A negative number is read into a size_t as a size no vector can have.
Negative(header) == Signed(header, {Minus}) /\ Number(header) /= 0

-----------------------------------------------------------------------------
\* Mutant: the header is used whatever its length.
AnyLength(header) == TRUE

Fits(header) == Len(header) = header_length

\* async_write of a value whose archive has that size.
async_write(size) ==
  /\ peer = "server" /\ Len(written) < Messages /\ Len(results) = Len(written)
  /\ LET data == Archive(Len(written) + 1, size)
         ok == Fits(Header(size))
     IN /\ written' = Append(written, data)
        /\ stream' = IF ok /\ ~broken THEN stream \o Header(size) \o data ELSE stream
        /\ results' = Append(results, IF ok /\ ~broken THEN "success" ELSE "error")
  /\ UNCHANGED <<peer, broken, reader, received>>

\* Another program sends any header and some data.
OtherSends(header) ==
  /\ peer = "other" /\ written = <<>>
  /\ written' = <<header>>
  /\ stream' = header \o <<Garbage, Garbage>>
  /\ UNCHANGED <<peer, results, broken, reader, received>>

Break ==
  /\ ~broken /\ broken' = TRUE
  /\ \E n \in 0..Len(stream) : stream' = SubSeq(stream, 1, n)
  /\ UNCHANGED <<peer, written, results, reader, received>>

-----------------------------------------------------------------------------
(* Reading.                                                                *)

\* Mutant: an error is not reported.
TellOnSuccess(what) ==
  IF what = Error THEN UNCHANGED <<received, reader>>
  ELSE received' = Append(received, what) /\ reader' = [reader EXCEPT !.phase = "idle"]

\* The caller's handler is called; async_read is over.
Tell(what) ==
  received' = Append(received, what) /\ reader' = [reader EXCEPT !.phase = "idle"]

\* The client reads once it is connected; else it starts nothing and exits.
handle_connect(connected) ==
  /\ reader.phase = "connecting"
  /\ reader' = [reader EXCEPT !.phase = IF connected THEN "header" ELSE "unconnected"]
  /\ UNCHANGED <<peer, written, results, stream, broken, received>>

\* A handler that reads the next message.
async_read ==
  /\ reader.phase = "idle" /\ Len(received) < Messages
  /\ Error \notin {received[i] : i \in 1..Len(received)}
  /\ reader' = [reader EXCEPT !.phase = "header"]
  /\ UNCHANGED <<peer, written, results, stream, broken, received>>

Take(n) == stream' = SubSeq(stream, n + 1, Len(stream))

\* An asynchronous read of n characters fails when fewer can come.
ReadFails(n) == broken /\ Len(stream) < n

\* inbound_data_.resize throws, and the exception leaves run.
ResizeThrows(header) == Negative(header)

handle_read_header ==
  /\ reader.phase = "header"
  /\ \/ ReadFails(header_length) /\ Tell(Error) /\ UNCHANGED stream
     \/ /\ Len(stream) >= header_length
        /\ Take(header_length)
        /\ LET header == SubSeq(stream, 1, header_length)
           IN \/ ~Valid(header) /\ Tell(Error)
              \/ /\ Valid(header) /\ ~ResizeThrows(header) /\ UNCHANGED received
                 /\ reader' = [phase |-> "data", inbound_data_size |-> Number(header)]
              \/ /\ Valid(header) /\ ResizeThrows(header) /\ UNCHANGED received
                 /\ reader' = [reader EXCEPT !.phase = "thrown"]
  /\ UNCHANGED <<peer, written, results, broken>>

\* Mutant: the caller is told of the data it got before it is decoded.
TellDecoded(data) == Tell(data)

\* The archive throws when the data cannot be decoded.
Decoded(data) == Tell(IF Decodes(data) THEN data ELSE Error)

\* Mutant: one character too few is asked for.
OneLess(size) == IF size = 0 THEN 0 ELSE size - 1

DataSize(size) == size

handle_read_data ==
  /\ reader.phase = "data"
  /\ LET size == DataSize(reader.inbound_data_size)
     IN \/ ReadFails(size) /\ Tell(Error) /\ UNCHANGED stream
        \/ /\ Len(stream) >= size
           /\ Take(size) /\ Decoded(SubSeq(stream, 1, size))
  /\ UNCHANGED <<peer, written, results, broken>>

SerInit(peers) ==
  /\ peer \in peers
  /\ written = <<>> /\ results = <<>> /\ stream = <<>> /\ broken = FALSE
  /\ reader = [phase |-> "connecting", inbound_data_size |-> 0] /\ received = <<>>

SerNext ==
  \/ \E size \in Sizes : async_write(size)
  \/ \E header \in [1..header_length -> (0..Base) \cup {Garbage, Minus, Plus}] : OtherSends(header)
  \/ \E connected \in BOOLEAN : handle_connect(connected)
  \/ Break \/ async_read \/ handle_read_header \/ handle_read_data

\* The reader's operations complete when what they wait for is there; a peer
\* that falls silent is lost in the end.
SerSpec ==
  /\ SerInit({"server", "other"}) /\ [][SerNext]_serVars
  /\ WF_serVars(Break) /\ WF_serVars(handle_read_header) /\ WF_serVars(handle_read_data)

-----------------------------------------------------------------------------
\* What the caller of async_read is given is what the server wrote, message by
\* message, with the one too long for its header left out: the pieces of the
\* stream never get out of step, and no header of the server makes it throw.
ReceivedAsWritten ==
  peer = "server" =>
    LET sent == SelectSeq(written, LAMBDA data : Fits(Header(Len(data))))
    IN /\ reader.phase /= "thrown"
       /\ \A i \in 1..Len(received) : received[i] /= Error => received[i] = sent[i]

\* Data whose length does not fit the header is not sent: its handler is told
\* and nothing is put on the stream.
TooLongRefused ==
  \A i \in 1..Len(results) :
    Len(written[i]) >= Base ^ header_length => results[i] = "error"

\* Data that cannot be decoded is reported as an error, never handed over.
OtherIsError == peer = "other" => \A i \in 1..Len(received) : received[i] = Error

\* Every async_read calls its handler, on every path of the two read handlers
\* but one: resize throws when the header is a negative number.
ReadCompletes ==
  []<>(\/ reader.phase \notin {"header", "data", "thrown"}
       \/ reader.phase = "thrown" /\ Negative(written[1]))

=============================================================================
