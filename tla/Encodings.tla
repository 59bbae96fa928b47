----------------------------- MODULE Encodings -----------------------------
(***************************************************************************)
(* Three messages of the Boost.Asio examples, as they are put into bytes   *)
(* and read back: chat_message of chat, control_request and frame of       *)
(* porthopper, icmp_header of icmp/ping.  They share nothing.              *)
(***************************************************************************)
EXTENDS Integers, Sequences
LOCAL INSTANCE SequencesExt

CONSTANTS
  header_length, max_body_length,  \* of a chat_message
  Width,                           \* width of size_t, in bits
  Ports, Numbers,                  \* bound: the ports and frame numbers
  Base,                            \* values of a byte of an icmp_header
  MaxBody                          \* bound: bytes of the body of a packet

VARIABLES
  data_, body_length_, outcome,    \* a chat_message
  old, new, number, message,       \* what is put into a request or a frame
  rep_, body, fields, phase        \* an icmp_header

messageVars == <<data_, body_length_, outcome>>
protocolVars == <<old, new, number, message>>
icmpVars == <<rep_, body, fields, phase>>

-----------------------------------------------------------------------------
(* chat_message: a header of header_length characters holds the length of  *)
(* the body as a number padded with blanks.  Numbers are written in base 2 *)
(* so that all headers can be tried; the code writes base 10.              *)

Digit == {"0", "1"}
HeaderChar == Digit \cup {" ", "-", "x"}

DigitValue(c) == IF c = "1" THEN 1 ELSE 0

\* The value of the digits at the start of s
Leading(s) == FoldLeft(
  LAMBDA acc, c : IF acc.more /\ c \in Digit
                  THEN [value |-> 2 * acc.value + DigitValue(c), more |-> TRUE]
                  ELSE [acc EXCEPT !.more = FALSE],
  [value |-> 0, more |-> TRUE], s).value

\* atoi: white space, a sign, the digits up to the first other character
atoi(s) ==
  LET first == SelectInSeq(s, LAMBDA c : c /= " ")
  IN CASE first = 0 -> 0
       [] first > 0 /\ s[first] = "-" -> -Leading(SubSeq(s, first + 1, Len(s)))
       [] OTHER -> Leading(SubSeq(s, first, Len(s)))

\* sprintf("%4d"): the digits of n behind blanks
Padded(n) ==
  [k \in 1..header_length |->
    LET rest == n \div 2^(header_length - k)
    IN IF rest = 0 /\ k < header_length THEN " "
       ELSE IF rest % 2 = 1 THEN "1" ELSE "0"]

\* Mutant: the length is taken as it comes.
BodyLengthUncut(n) == n

\* body_length(size_t): at most max_body_length
body_length(n) == IF n > max_body_length THEN max_body_length ELSE n

encode_header(n) ==
  /\ outcome = "new"
  /\ body_length_' = body_length(n)
  /\ data_' = Padded(body_length(n))
  /\ outcome' = "encoded"

\* Mutant: the number is compared before it becomes unsigned.
SignedTooLong(n) == n > max_body_length

TooLong(n) == n % 2^Width > max_body_length

decode_header ==
  /\ outcome \in {"new", "encoded"}
  /\ IF TooLong(atoi(data_))
     THEN body_length_' = 0 /\ outcome' = "refused"
     ELSE /\ body_length_' = atoi(data_) % 2^Width
          /\ outcome' = IF outcome = "new" THEN "decoded" ELSE "decoded again"
  /\ UNCHANGED data_

Headers == [1..header_length -> HeaderChar]

\* A header that was received, or a fresh message
MessageInit(headers) ==
  /\ data_ \in headers
  /\ body_length_ = 0
  /\ outcome = "new"

MessageNext == decode_header \/ \E n \in 0..(2 * max_body_length) : encode_header(n)

MessageSpec == MessageInit(Headers) /\ [][MessageNext]_messageVars

-----------------------------------------------------------------------------
\* Whatever the header holds, blanks, signs or letters, a body that is read
\* after decode_header fits into data_.
BodyFits == body_length_ \in 0..max_body_length

\* The length one side encodes is the length the other side decodes.
RoundTrip ==
  [][(outcome = "encoded" /\ outcome' /= outcome)
       => outcome' = "decoded again" /\ body_length_' = body_length_]_messageVars

-----------------------------------------------------------------------------
(* A control request is two ports and a frame begins with its number, each *)
(* in hexadecimal in a field of fixed width, padded with blanks.  A digit  *)
(* is a number below 16, a blank is 16.                                    *)

encoded_port_size == 4

encoded_number_size == 8

Blank == 16

Digits[n \in Nat] == IF n < 16 THEN <<n>> ELSE Digits[n \div 16] \o <<n % 16>>

\* os << std::setw(width) << std::hex << n: padded on the left, never cut
Put(n, width) ==
  [i \in 1..(width - Len(Digits[n])) |-> Blank] \o Digits[n]

\* is >> std::hex >> n: blanks are skipped
Get(field) ==
  FoldLeft(LAMBDA n, digit : 16 * n + digit, 0, SelectSeq(field, LAMBDA d : d /= Blank))

\* The private constructor writes both ports into data_, which holds no more
\* than the two fields.
control_request(old_port, new_port) ==
  LET text == Put(old_port, encoded_port_size) \o Put(new_port, encoded_port_size)
  IN SubSeq(text, 1, 2 * encoded_port_size)

start(port) == control_request(0, port)
stop(port) == control_request(port, 0)
change(from, to) == control_request(from, to)

old_port(data) == Get(SubSeq(data, 1, encoded_port_size))

\* Mutant: the second field is looked for one place too early.
NewPortEarly(data) == Get(SubSeq(data, encoded_port_size, 2 * encoded_port_size - 1))

new_port(data) == Get(SubSeq(data, encoded_port_size + 1, 2 * encoded_port_size))

\* Mutant: a blank goes before the number.
NumberAfterBlank(n) == <<Blank>> \o Put(n, encoded_number_size)

\* A frame: the number, then the payload (one place stands for it).
frame(n) == Put(n, encoded_number_size) \o <<Blank>>

number_of(data) == Get(SubSeq(data, 1, encoded_number_size))

Send(kind, data) ==
  /\ message.kind = "none" /\ message' = [kind |-> kind, data |-> data]
  /\ UNCHANGED <<old, new, number>>

ProtocolInit(ports, numbers) ==
  /\ old \in ports /\ new \in ports /\ number \in numbers
  /\ message = [kind |-> "none", data |-> <<>>]

ProtocolNext ==
  \/ Send("start", start(new)) \/ Send("stop", stop(old))
  \/ Send("change", change(old, new)) \/ Send("frame", frame(number))

ProtocolSpec == ProtocolInit(Ports, Numbers) /\ [][ProtocolNext]_protocolVars

-----------------------------------------------------------------------------
\* The server reads from a request the ports the client put into it, over the
\* whole range of ports; a start has no old port and a stop no new one.
PortsRoundTrip ==
  message.kind \in {"start", "stop", "change"} =>
    /\ old_port(message.data) = IF message.kind = "start" THEN 0 ELSE old
    /\ new_port(message.data) = IF message.kind = "stop" THEN 0 ELSE new

\* The client reads the number the server gave a frame.
NumberRoundTrip == message.kind = "frame" => number_of(message.data) = number

-----------------------------------------------------------------------------
(* icmp_header: fields kept as bytes in network order.  A byte has Base    *)
(* values (256), an unsigned short Base^2 and an unsigned int Base^4.      *)

Byte == 0..(Base - 1)
Short == Base * Base
Word == 0..(Short - 1)

-----------------------------------------------------------------------------
(* The accessors; bytes are counted from 0 in the code and from 1 here.    *)

decode(rep, a, b) == rep[a + 1] * Base + rep[b + 1]

\* Mutant: the bytes are swapped.
EncodeLittle(rep, a, b, n) == [rep EXCEPT ![b + 1] = n \div Base, ![a + 1] = n % Base]

encode(rep, a, b, n) == [rep EXCEPT ![a + 1] = n \div Base, ![b + 1] = n % Base]

checksum(rep) == decode(rep, 2, 3)
identifier(rep) == decode(rep, 4, 5)
sequence_number(rep) == decode(rep, 6, 7)

-----------------------------------------------------------------------------
\* Two bytes at a time; an odd last byte is the high byte of its word.
BodySum(b) ==
  FoldLeftDomain(LAMBDA sum, i : sum + (IF i % 2 = 1 THEN b[i] * Base ELSE b[i]), 0, b)

\* Mutant: a carry out of the first folding is left.
FoldOnce(sum) == sum \div Short + (sum % Short)

Folded(sum) ==
  LET once == sum \div Short + (sum % Short)
  IN  once + once \div Short

compute_checksum(rep, b) ==
  LET sum == (rep[1] * Base + rep[2] + identifier(rep) + sequence_number(rep) + BodySum(b))
               % (Short * Short)
  IN  encode(rep, 2, 3, Short - 1 - (Folded(sum) % Short))

-----------------------------------------------------------------------------
(* start_send: the fields are set one after the other, then the checksum.  *)

SetFields ==
  /\ phase = "new" /\ phase' = "set"
  /\ rep_' = encode(encode([rep_ EXCEPT ![1] = fields.type], 4, 5, fields.identifier),
                    6, 7, fields.sequence_number)
  /\ UNCHANGED <<body, fields>>

SetChecksum ==
  /\ phase = "set" /\ phase' = "sent"
  /\ rep_' = compute_checksum(rep_, body)
  /\ UNCHANGED <<body, fields>>

Bodies == UNION {[1..n -> Byte] : n \in 0..MaxBody}
Fields == [type : Byte, identifier : Word, sequence_number : Word]

\* A header is filled with zeros; the code stays 0.
IcmpInit(bodies, values) ==
  /\ rep_ = [i \in 1..8 |-> 0] /\ phase = "new"
  /\ body \in bodies
  /\ fields \in values

IcmpNext == SetFields \/ SetChecksum

IcmpSpec == IcmpInit(Bodies, Fields) /\ [][IcmpNext]_icmpVars

-----------------------------------------------------------------------------
(* Reference: the packet as 16-bit words, an odd last byte padded.         *)

WordAt(s, i) == s[2 * i - 1] * Base + (IF 2 * i <= Len(s) THEN s[2 * i] ELSE 0)

Total(s) == FoldLeft(LAMBDA x, y : x + y, 0, [i \in 1..((Len(s) + 1) \div 2) |-> WordAt(s, i)])

\* The receiver's test of the checksum compute_checksum stores: the words of the
\* packet, the checksum among them, add up to a multiple of 2^16 - 1 that is
\* not zero, whatever the carries.
ChecksumVerifies ==
  phase = "sent" => (Total(rep_ \o body) % (Short - 1) = 0 /\ Total(rep_ \o body) > 0)

\* The bytes on the wire are in network order, and decode gives back what was
\* encoded when all the fields have been set.
FieldsOnWire ==
  phase = "sent" =>
    /\ rep_[5] = fields.identifier \div Base
    /\ identifier(rep_) = fields.identifier
    /\ sequence_number(rep_) = fields.sequence_number
    /\ rep_[1] = fields.type /\ rep_[2] = 0

=============================================================================
