-------------------------------- MODULE Ping --------------------------------
(***************************************************************************)
(* The Boost.Asio example icmp/ping: one timer that is first the five      *)
(* second timeout of a request and then the pause before the next one, and *)
(* a raw socket that receives every ICMP packet of the host.               *)
(*                                                                         *)
(* A packet carries the age of the request it belongs to: 0 for the last   *)
(* one sent, one more with each request sent since.  Its sequence number   *)
(* is that of the last request minus the age.                              *)
(***************************************************************************)
EXTENDS Naturals, TLAPS

CONSTANTS
  Wrap,       \* sequence numbers are unsigned short: 2^16
  Life        \* bound: a packet is lost before so many more requests are sent

\* No packet stays in the network while the sequence number wraps.
ASSUME LifeAssumption == Wrap \in Nat \ {0} /\ Life \in 0..(Wrap - 1)

VARIABLES
  sequence_number_, num_replies_,
  since,      \* seconds since time_sent_, counted up to Late
  left,       \* seconds until timer_ expires
  waiting,    \* the handler of the wait on timer_, or "none"
  ready,      \* the handlers of waits that are over, not yet called
  packets,    \* the packets in the network
  answered,   \* the host has answered the last request
  ended       \* the program has ended

pingVars ==
  <<sequence_number_, num_replies_, since, left, waiting, ready, packets, answered, ended>>
timerVars == <<left, waiting, ready>>

Late == 6     \* bound: more than every time the program waits for

echo_request == "echo_request"
echo_reply == "echo_reply"

-----------------------------------------------------------------------------
(* The timer of Boost.Asio, and time.                                      *)

\* The handlers of waits that end now, because of a change of the timer.
Over(waits) == waits \union ({waiting} \ {"none"})

\* expires_at and async_wait: a wait that is under way is cancelled.
Rearm(handler, seconds, waits) ==
  /\ left' = seconds /\ waiting' = handler /\ ready' = Over(waits)

cancel == waiting' = "none" /\ ready' = Over(ready) /\ UNCHANGED left

Tick ==
  /\ since < Late \/ left > 0
  /\ since' = (IF since < Late THEN since + 1 ELSE since)
  /\ left' = (IF left > 0 THEN left - 1 ELSE 0)
  /\ UNCHANGED <<sequence_number_, num_replies_, waiting, ready, packets, answered, ended>>

Expire ==
  /\ waiting /= "none" /\ left = 0 /\ cancel
  /\ UNCHANGED <<sequence_number_, num_replies_, since, packets, answered, ended>>

-----------------------------------------------------------------------------
(* The network: the host answers, packets are lost, and packets of other   *)
(* programs come by.                                                       *)

Packet(t, id, a) == [type |-> t, identifier |-> id, age |-> a]

HostAnswers ==
  /\ \E p \in packets :
       /\ p.type = echo_request
       /\ packets' = (packets \ {p}) \union {Packet(echo_reply, "ours", p.age)}
       /\ answered' = (answered \/ p.age = 0)
  /\ UNCHANGED <<sequence_number_, num_replies_, since, timerVars, ended>>

Lose ==
  /\ \E p \in packets : packets' = packets \ {p}
  /\ UNCHANGED <<sequence_number_, num_replies_, since, timerVars, answered, ended>>

Others == {Packet(echo_reply, "theirs", a) : a \in 0..Life}

Older == {Packet(p.type, p.identifier, p.age + 1) : p \in {q \in packets : q.age < Life}}

-----------------------------------------------------------------------------
(* The program.                                                            *)

Sends(waits) ==
  /\ sequence_number_' = (sequence_number_ + 1) % Wrap
  /\ num_replies_' = 0 /\ since' = 0
  /\ packets' = Older \union {Packet(echo_request, "ours", 0)} /\ answered' = FALSE
  /\ Rearm("handle_timeout", 5, waits)
  /\ UNCHANGED ended

\* send_to throws when the request cannot be sent: the exception leaves run, and
\* main reports it and returns.
SendFails(waits) ==
  /\ sequence_number_' = (sequence_number_ + 1) % Wrap /\ since' = 0
  /\ packets' = Older /\ ready' = waits /\ ended' = TRUE
  /\ UNCHANGED <<num_replies_, left, waiting, answered>>

start_send ==
  /\ "start_send" \in ready
  /\ Sends(ready \ {"start_send"}) \/ SendFails(ready \ {"start_send"})

\* Mutant: no wait is started.
TimeoutOnly ==
  /\ "handle_timeout" \in ready /\ ready' = ready \ {"handle_timeout"}
  /\ UNCHANGED <<sequence_number_, num_replies_, since, left, waiting, packets, answered, ended>>

\* "Requests must be sent no less than one second apart."
handle_timeout ==
  /\ "handle_timeout" \in ready
  /\ Rearm("start_send", IF since < 1 THEN 1 - since ELSE 0, ready \ {"handle_timeout"})
  /\ UNCHANGED <<sequence_number_, num_replies_, since, packets, answered, ended>>

\* Mutant: the identifier is not looked at.
MatchesAny(p) == p.type = echo_reply /\ (sequence_number_ + Wrap - p.age) % Wrap = sequence_number_

Matches(p) ==
  /\ p.type = echo_reply /\ p.identifier = "ours"
  /\ (sequence_number_ + Wrap - p.age) % Wrap = sequence_number_

\* Mutant: every reply interrupts the timer.
InterruptAlways == TRUE

\* "If this is the first reply, interrupt the five second timeout."
Interrupts == num_replies_ = 0

\* Mutant: the reply is not counted.
Uncounted == num_replies_

Counted == IF num_replies_ < 2 THEN num_replies_ + 1 ELSE 2    \* bound: counted up to 2

\* A packet, which may come again, is received and the next receive is started.
handle_receive ==
  /\ ~ended
  /\ \E p \in packets \union Others :
       /\ packets' \in {packets, packets \ {p}}
       /\ IF Matches(p)
          THEN /\ num_replies_' = Counted
               /\ IF Interrupts THEN cancel ELSE UNCHANGED timerVars
          ELSE UNCHANGED <<num_replies_, timerVars>>
  /\ UNCHANGED <<sequence_number_, since, answered, ended>>

\* The constructor sends the first request, which may fail as well, and starts
\* to receive.
PingInit(failures) ==
  /\ ended \in failures
  /\ sequence_number_ = 1 % Wrap /\ num_replies_ = 0 /\ since = 0
  /\ left = 5 /\ waiting = (IF ended THEN "none" ELSE "handle_timeout") /\ ready = {}
  /\ packets = (IF ended THEN {} ELSE {Packet(echo_request, "ours", 0)})
  /\ answered = FALSE

PingNext ==
  \/ start_send \/ handle_timeout \/ handle_receive
  \/ Tick \/ Expire \/ HostAnswers \/ Lose

\* Time passes and io_service::run calls the handlers that are ready; nothing
\* is assumed of the network.
PingSpec ==
  /\ PingInit(BOOLEAN) /\ [][PingNext]_pingVars
  /\ WF_pingVars(Tick) /\ WF_pingVars(Expire)
  /\ WF_pingVars(start_send) /\ WF_pingVars(handle_timeout)

-----------------------------------------------------------------------------
\* As long as the program runs there is exactly one of the waits that keep it
\* going, and none when a request could not be sent: no reply, late or repeated,
\* starts a second chain of requests or ends the one.
OneChain ==
  /\ waiting /= "none" <=> (ready = {} /\ ~ended)
  /\ ended => ready = {}
  /\ \A h, g \in ready : h = g

\* "Requests must be sent no less than one second apart", though start_send and
\* handle_timeout take a cancelled wait for one that is over.
OneSecondApart == [][sequence_number_' /= sequence_number_ => since >= 1]_pingVars

\* A reply is counted only when the host has answered the last request: not for
\* an answer to an earlier one, a request, or a packet of another program.
CountedIsAnswer == num_replies_ > 0 => answered

\* handle_timeout reports that a request timed out only after its five seconds.
TimedOutInTime ==
  ("handle_timeout" \in ready /\ num_replies_ = 0) => since >= 5

\* What the timer is waiting for, how long ago the last request was sent and
\* whether it was answered, and that a reply to it in the network is from the
\* host: the invariant the theorems below rest on.
PingInv ==
  /\ sequence_number_ \in 0..(Wrap - 1) /\ num_replies_ \in 0..2 /\ since \in Nat /\ left \in Nat
  /\ waiting \in {"none", "handle_timeout", "start_send"}
  /\ ready \subseteq {"handle_timeout", "start_send"} /\ answered \in BOOLEAN
  /\ ended \in BOOLEAN /\ OneChain
  /\ waiting = "handle_timeout" => since + left >= 5
  /\ waiting = "start_send" => since + left >= 1 /\ (num_replies_ = 0 => since >= 5)
  /\ "start_send" \in ready => since >= 1
  /\ TimedOutInTime /\ CountedIsAnswer
  /\ \A p \in packets :
       /\ p.age \in 0..Life /\ p.identifier = "ours"
       /\ (p.type = echo_reply /\ p.age = 0) => answered

\* Requests are sent for ever, unless one cannot be sent.
KeepsSending == \A n \in 0..(Wrap - 1) : []<>(ended \/ sequence_number_ = n)

-----------------------------------------------------------------------------
(* Proofs, for every width of the sequence number.                         *)

\* Within one turn of the sequence numbers only age 0 gives the number itself.
LEMMA AgeZero ==
  ASSUME NEW n \in 0..(Wrap - 1), NEW a \in 0..(Wrap - 1), (n + Wrap - a) % Wrap = n
  PROVE  a = 0
<1> USE LifeAssumption
<1> DEFINE m == n + Wrap - a
<1>1. CASE a <= n
  <2>1. m = 1 * Wrap + (n - a) /\ n - a \in 0..(Wrap - 1)
    BY <1>1
  <2>2. m % Wrap = n - a
    BY <2>1
  <2> QED
    BY <2>2
<1>2. CASE a > n
  <2>1. m \in 0..(Wrap - 1)
    BY <1>2
  <2>2. m % Wrap = m
    BY <2>1
  <2> QED
    BY <2>2
<1> QED
  BY <1>1, <1>2

\* A packet that is taken for an answer to the last request is one.
LEMMA MatchIsAnswer ==
  ASSUME PingInv, NEW p \in packets \union Others, Matches(p)
  PROVE  answered
<1>1. p.type = echo_reply /\ p.identifier = "ours"
      /\ (sequence_number_ + Wrap - p.age) % Wrap = sequence_number_
  BY DEF Matches
<1>2. p \in packets
  BY <1>1 DEF Others, Packet
<1>3. p.age \in 0..(Wrap - 1) /\ sequence_number_ \in 0..(Wrap - 1)
  BY <1>2, LifeAssumption DEF PingInv
<1>4. p.age = 0
  BY <1>1, <1>3, AgeZero
<1> QED
  BY <1>1, <1>2, <1>4 DEF PingInv

\* Each step of the program, of the clock and of the network keeps PingInv.
LEMMA PingStep == PingInv /\ [PingNext]_pingVars => PingInv'
<1> SUFFICES ASSUME PingInv, [PingNext]_pingVars PROVE PingInv'
  OBVIOUS
<1> USE LifeAssumption
<1>0. CASE "start_send" \in ready /\ SendFails(ready \ {"start_send"})
  <2>1. sequence_number_' \in 0..(Wrap - 1) /\ since' = 0
    BY <1>0 DEF SendFails, PingInv
  <2>2. ready' = {} /\ waiting' = "none" /\ left' = left /\ num_replies_' = num_replies_
    BY <1>0 DEF SendFails, PingInv, OneChain
  <2>3. ended' \in BOOLEAN /\ ended' /\ answered' = answered
    BY <1>0, Zenon DEF SendFails
  <2>4. \A p \in packets' : /\ p.age \in 0..Life /\ p.identifier = "ours"
                            /\ ~(p.type = echo_reply /\ p.age = 0)
    BY <1>0 DEF SendFails, Older, Packet, PingInv
  <2> QED
    BY <2>1, <2>2, <2>3, <2>4 DEF PingInv, OneChain, TimedOutInTime, CountedIsAnswer
<1>1. CASE "start_send" \in ready /\ Sends(ready \ {"start_send"})
  <2>1. sequence_number_' \in 0..(Wrap - 1) /\ num_replies_' = 0 /\ since' = 0 /\ left' = 5
        /\ waiting' = "handle_timeout"
    BY <1>1 DEF Sends, Rearm, PingInv
  <2>2. answered' \in BOOLEAN /\ ended' = ended
    BY <1>1, Zenon DEF Sends
  <2>3. ready' = {} /\ ~ended
    BY <1>1 DEF Sends, Rearm, Over, PingInv, OneChain
  <2>4. \A p \in packets' : /\ p.age \in 0..Life /\ p.identifier = "ours"
                            /\ ~(p.type = echo_reply /\ p.age = 0)
    BY <1>1 DEF Sends, Older, Packet, PingInv, echo_reply, echo_request
  <2> QED
    BY <2>1, <2>2, <2>3, <2>4 DEF PingInv, OneChain, TimedOutInTime, CountedIsAnswer
<1>2. CASE handle_timeout
  <2>1. UNCHANGED <<sequence_number_, num_replies_, since, packets, answered, ended>>
    BY <1>2 DEF handle_timeout
  <2>2. ready = {"handle_timeout"} /\ waiting = "none" /\ ~ended
    BY <1>2 DEF handle_timeout, PingInv, OneChain
  <2>3. waiting' = "start_send" /\ ready' = {}
    BY <1>2, <2>2 DEF handle_timeout, Rearm, Over
  <2>4. left' \in Nat /\ since + left' >= 1
    BY <1>2 DEF handle_timeout, Rearm, PingInv
  <2> QED
    BY <2>1, <2>2, <2>3, <2>4 DEF PingInv, OneChain, TimedOutInTime, CountedIsAnswer
<1>3. CASE handle_receive
  <2> PICK p \in packets \union Others :
        /\ packets' \in {packets, packets \ {p}}
        /\ IF Matches(p)
           THEN /\ num_replies_' = Counted
                /\ IF Interrupts THEN cancel ELSE UNCHANGED timerVars
           ELSE UNCHANGED <<num_replies_, timerVars>>
    BY <1>3 DEF handle_receive
  <2>0. UNCHANGED <<sequence_number_, since, answered, ended>> /\ ~ended
    BY <1>3 DEF handle_receive
  <2>1. \A q \in packets' : q \in packets
    OBVIOUS
  <2>2. CASE ~Matches(p)
    BY <2>0, <2>1, <2>2 DEF timerVars, PingInv, OneChain, TimedOutInTime, CountedIsAnswer
  <2>3. CASE Matches(p) /\ ~Interrupts
    <3>1. answered /\ num_replies_' \in 1..2 /\ num_replies_ /= 0
      BY <2>3, MatchIsAnswer DEF Counted, Interrupts, PingInv
    <3>2. answered' \in BOOLEAN /\ answered'
      BY <2>0, <3>1, Zenon DEF PingInv
    <3>3. UNCHANGED <<left, waiting, ready>>
      BY <2>3 DEF timerVars
    <3> QED
      BY <2>0, <2>1, <3>1, <3>2, <3>3 DEF PingInv, OneChain, TimedOutInTime, CountedIsAnswer
  <2>4. CASE Matches(p) /\ Interrupts
    <3>1. answered /\ num_replies_' = 1 /\ num_replies_ = 0
      BY <2>4, MatchIsAnswer DEF Counted, Interrupts, PingInv
    <3>2. waiting' = "none" /\ ready' = Over(ready) /\ left' = left
      BY <2>4 DEF cancel
    <3>3. OneChain' /\ ready' \subseteq {"handle_timeout", "start_send"}
      BY <2>0, <3>2 DEF Over, OneChain, PingInv
    <3>4. "start_send" \in ready' => since >= 1
      BY <2>0, <3>1, <3>2 DEF Over, PingInv
    <3> QED
      BY <2>0, <2>1, <3>1, <3>2, <3>3, <3>4 DEF PingInv, TimedOutInTime, CountedIsAnswer
  <2> QED
    BY <2>2, <2>3, <2>4
<1>4. CASE Tick
  <2>1. since' \in Nat /\ left' \in Nat /\ since' >= since
        /\ (since' + left' >= since + left \/ since' >= Late)
    BY <1>4 DEF Tick, PingInv, Late
  <2> QED
    BY <1>4, <2>1 DEF Tick, Late, PingInv, OneChain, TimedOutInTime, CountedIsAnswer
<1>5. CASE Expire
  <2>1. waiting' = "none" /\ ready' = {waiting} /\ left = 0 /\ left' = left
    BY <1>5 DEF Expire, cancel, Over, PingInv, OneChain
  <2> QED
    BY <1>5, <2>1 DEF Expire, PingInv, OneChain, TimedOutInTime, CountedIsAnswer
<1>6. CASE HostAnswers
  <2> PICK p \in packets :
        /\ p.type = echo_request
        /\ packets' = (packets \ {p}) \union {Packet(echo_reply, "ours", p.age)}
        /\ answered' = (answered \/ p.age = 0)
    BY <1>6 DEF HostAnswers
  <2>1. answered' \in BOOLEAN /\ (answered => answered')
    OBVIOUS
  <2>2. \A q \in packets' : /\ q.age \in 0..Life /\ q.identifier = "ours"
                            /\ (q.type = echo_reply /\ q.age = 0) => answered'
    <3> SUFFICES ASSUME NEW q \in packets'
                 PROVE  /\ q.age \in 0..Life /\ q.identifier = "ours"
                        /\ (q.type = echo_reply /\ q.age = 0) => answered'
      OBVIOUS
    <3>1. CASE q \in packets
      BY <2>1, <3>1 DEF PingInv
    <3>2. CASE q = Packet(echo_reply, "ours", p.age)
      <4>1. q.age = p.age /\ q.identifier = "ours"
        BY <3>2 DEF Packet
      <4>2. p.age = 0 => answered'
        OBVIOUS
      <4> QED
        BY <4>1, <4>2 DEF PingInv
    <3> QED
      BY <3>1, <3>2
  <2> QED
    BY <1>6, <2>1, <2>2 DEF HostAnswers, timerVars, PingInv, OneChain, TimedOutInTime, CountedIsAnswer
<1>7. CASE Lose
  BY <1>7 DEF Lose, timerVars, PingInv, OneChain, TimedOutInTime, CountedIsAnswer
<1>8. CASE UNCHANGED pingVars
  BY <1>8 DEF pingVars, PingInv, OneChain, TimedOutInTime, CountedIsAnswer
<1> QED
  BY <1>0, <1>1, <1>2, <1>3, <1>4, <1>5, <1>6, <1>7, <1>8 DEF PingNext, start_send

\* PingInv holds throughout.
THEOREM PingInvariant == PingSpec => []PingInv
<1>1. PingInit(BOOLEAN) => PingInv
  <2> SUFFICES ASSUME PingInit(BOOLEAN) PROVE PingInv
    OBVIOUS
  <2>1. sequence_number_ \in 0..(Wrap - 1)
    BY LifeAssumption DEF PingInit
  <2>2. \A p \in packets : /\ p.age \in 0..Life /\ p.identifier = "ours"
                           /\ ~(p.type = echo_reply)
    BY LifeAssumption DEF PingInit, Packet, echo_reply, echo_request
  <2>3. answered \in BOOLEAN /\ ended \in BOOLEAN
    BY Zenon DEF PingInit
  <2>4. /\ num_replies_ = 0 /\ since = 0 /\ left = 5 /\ ready = {}
        /\ waiting = (IF ended THEN "none" ELSE "handle_timeout")
    BY DEF PingInit
  <2> QED
    BY <2>1, <2>2, <2>3, <2>4 DEF PingInv, OneChain, TimedOutInTime, CountedIsAnswer
<1> QED
  BY <1>1, PingStep, PTL DEF PingSpec

\* There is one chain of requests, a time out is reported after five seconds
\* only, and only an answer of the host to the last request is counted.
THEOREM PingSafe == PingSpec => [](OneChain /\ TimedOutInTime /\ CountedIsAnswer)
<1>1. PingInv => OneChain /\ TimedOutInTime /\ CountedIsAnswer
  BY DEF PingInv
<1> QED
  BY <1>1, PingInvariant, PTL

\* Requests are sent no less than one second apart.
THEOREM PingApart == PingSpec => OneSecondApart
<1>1. PingInv /\ [PingNext]_pingVars
        => [sequence_number_' /= sequence_number_ => since >= 1]_pingVars
  BY DEF PingInv, PingNext, start_send, Sends, SendFails, handle_timeout, handle_receive, Tick, Expire,
     HostAnswers, Lose, pingVars
<1> QED
  BY <1>1, PingInvariant, PTL DEF PingSpec, OneSecondApart

=============================================================================
