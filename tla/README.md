# Formal models of the Boost document search engine and of its Asio programs

TLA+ modules for two bodies of code in this repository:

* the **search engine** under `src/doc_searcher/`: the parser that turns the
  Boost documentation into one text file, the index that is built from that
  file, the search, the HTTP server in front of it, the page and the console
  client;
* the **Asio programs** under
  `src/doc_searcher/data/input/html/boost_asio/example/`, which come with the
  documentation the engine serves: HTTP servers, chat, clients and servers with
  timeouts, forking servers, and others. They are concurrent programs of their
  own and share no code with the engine. Paths below are relative to that
  directory.

TLC checks the modules on small instances; TLAPS proves the central properties
for every instance. `PROJECT.json` lists components, runs, the source lines of
every definition, the hazards and the properties that address them.

## Part 1: the search engine

### The system

| Part | Source | What it does |
|---|---|---|
| Parser | `parser/parser.cc`, `common/util.hpp` | Enumerates the `.html` files below `data/input/`, takes title, URL and tag-free content of each, writes one record `title \3 url \3 content \n` per file to `data/tmp/raw_input.txt`. |
| Index | `searcher/searcher.{h,cc}` | `Build` reads that file by lines; `BuildForward` appends a document to `forward_index`, `BuildInverted` counts its words (title words tenfold) and appends one weighted posting per word to `inverted_index`. |
| Searcher | `searcher/searcher.{h,cc}` | `Search` cuts the query, concatenates the postings of its words, sorts by weight, wraps each posting as title, URL and excerpt (`GenerateDesc`), writes JSON. |
| HTTP server | `http_server/http_server.cc` | Builds the index, then answers `/searcher?query=` on one thread per connection. |
| Page | `http_server/wwwroot/index.html` | Sends the query with ajax and shows the answer. |
| Console clients | `searcher/searcher_test.cc`, `searcher/index_test.cc` | Manual drivers of `Searcher` and `Index`. |

Parser and server are separate programs that share nothing but `raw_input.txt`.
The server's handlers share the index, without a lock; after `Build` nobody
writes it.

### The modules

Texts are sequences of atoms: a character, or a run of characters no operation
looks into. `'\n'` (`NL`) and `'\3'` (`ETX`) are atoms of their own, as are the
two title tags and the angle brackets.

| Module | Models | Correspondence |
|---|---|---|
| `Util` | `Util::Split` | n separators make n+1 fields. |
| `Index` | class `Index` | `pc` is the position in `Build`/`BuildForward`/`BuildInverted`; the containers are variables of the same name; each loop turn is an action (`GetLine`, `CountTitle`, `CountContent`, `InsertWord`). The hash map is walked in any order. `doc_info` is the pointer `BuildForward` returned, as a position of `forward_index`. |
| `Snippet`, `SnippetCall` | `GenerateDesc` | An operator with the sizes 160 and 60 as constants, and one call of it. |
| `Searcher` | `Search` | Per-thread program counter and locals; `Sort` picks any of the orders `std::sort` may produce; `Wrap` dereferences what `GetDocInfo` returned. |
| `HttpServer` | `main` and the handler | Composes `Index` (during `Init`) and `Searcher` (in the handlers). httplib itself is external: `Accept` and `Respond`. |
| `SearchService` | nothing: an abstract specification | A service that knows documents only, no inverted index, no threads. An answer lists one result per query word and document that holds it, by falling weight, ties in any order, or null if there is none. |
| `Html` | `ParseTitle`, `ParseContent` | The tag loop as a fold with the flag `is_content`. |
| `Parser` | `parser.cc` `main` and `WriteOutput` | One action per step of `main`; parts of a record may reach the disk before the flush; the stream may fail; the process may be killed anywhere. A read error ends `Util::Read` like the end of the file: what the model's disk holds of a file is what can be read of it. |
| `Pipeline` | Parser and `Build` on one file | Refines `Index`: the lines `GetLine` delivers are those of the growing `raw_input`, whole or torn by the end of the file. |
| `SearchClients` | the script of `index.html`, the loop of `searcher_test.cc` | Page: the field, the calls under way, and what is shown; an answer is a list or null, answers come in any order, a failed call has no handler. Console: an input of words and blanks; `good()` is false once the end was met. |

`MC*` modules only give constants their values; `MCTexts` also puts the two
modules about functions on texts, `Snippet` and `Html`, into one run. `*Proofs` modules hold the
theorems. An operator commented as a mutant, or mutation, of a definition is a
plausible bug in it; no specification uses it. It shows that a property would
notice the bug.

The tokenizer (cppjieba) and `boost::to_lower` are constants: any function from
texts to word sequences, any idempotent function on words. JSON is modelled by
what the page can tell apart: a list of results, or null when nothing was ever
appended.

### The runs

| Run | Instance | What it shows |
|---|---|---|
| `index` | up to 3 lines, some malformed, words in two cases | Both indexes agree with the lines and with each other at every step of `Build` (`PostingsSound`, `PostingsComplete`, `PostingsAscend`, `DocIdIsPosition`, `NoDanglingPosting`, `ForwardIsInput`), nothing indexed is changed later (`AppendOnly`), `Build` returns. |
| `texts` | contents up to 9, keywords up to 3 characters, excerpt 6, lead 1; every HTML text of up to 6 atoms | The excerpt fits, is a piece of the content, and shows the keyword when `find` can find it. `ParseTitle` and `ParseContent` agree with a declarative definition of title and of text outside tags. A behaviour is a call of one of the functions. |
| `snippet_case` | adds a capital letter | Expected violation, see Findings. |
| `server` | 2 threads, any 2 lines, queries with hits, without hits, without parameter | The server implements `SearchService` under all interleavings; no null dereference; start-up ends; every accepted request is answered. |
| `parser` | 2 `.html` files (plain, two-line title, no title, empty title, empty, unreadable) and one other file | Wherever the parser stops, the file holds a beginning of the intended records; a run that ends without a stream failure has written them all; `main` returns. |
| `pipeline` | 2 files, parser and `Build` interleaved freely, both fair | The index holds the parsed documents in order and without gaps; only the last may have lost the end of its content (`PrefixServed`). If the parser had finished first, it holds all of them (`CompleteServed`). `Build` returns although its file grows (`BuildReturns`). |
| `title_lines` | a title of two lines | Expected violation, see Findings. |

The page and the console client are checked in the runs `conversations` and
`conversations_end` of Part 2, as two more programs that talk to a peer: what the
page shows is one whole answer to a query that was asked, and an answer to an
earlier query than the last one answered only if the two searches were under way
at the same time (`StaleOnlyIfOverlapping`; that the last query wins even then is
not so, and nothing in the page promises it), and the console
client searches for exactly the words of its input that something follows, each
once (in `NothingLost`), and ends with its input (in `NobodyWaitsForever`).

Bounds. Two documents are enough for an id to be off by one, a list to be out of
order and a torn record to have a neighbour; three lines put a malformed one
between two good ones. Two threads are enough for two handlers to interfere, as
they share only the index. Six atoms hold a title element together with a
bracket or break before, in or after it. An excerpt of six with a lead of one
meets all the cuts of `GenerateDesc`, with contents on both sides of each. The
index and excerpt results are also proved for all sizes.

## Part 2: the Asio programs

### How Asio is modelled

Asio itself is not in the repository; the modules take from it what its callers
rely on.

* An operation is idle, pending, or complete with a result. It completes by
  itself, at any time and with any result the caller distinguishes; its handler
  is called later, as a step of its own, by a thread that is in `run`. Between
  the two other handlers run: that is where most of the hazards are.
* With one thread in `run` a handler is one step. With several threads
  (`HttpThreads`, `HttpPool`, `ChatClient`, `LoggedSocket`, connect_pair in
  `EchoServers`) the threads interleave, and a handler that touches shared state
  is cut into steps.
* Closing a socket or cancelling makes a pending operation complete with an
  error; one that has completed keeps its result.
* A timer's wait is over when its time has come, when the expiry is changed and
  when it is cancelled. Where only the order matters, a running deadline may
  pass at any moment (`AsyncTcpClient`, `BlockingClients`); where amounts matter,
  time is counted in ticks (`TimeoutServer`, `Ping`).
* An object held by `shared_ptr` is alive while an operation, a container or a
  variable names it.

### The families

The programs share no state, so a run for several of them is a sum, not a
product: a variable `program` is chosen at the start, that program runs, and the
variables of the others stay as they are. `HttpPrograms`, `Conversations` and
`StreamPrograms` are such sums. A property of a family is the conjunction of what
it says about each program, under one theme; the conjuncts are defined, with
their own comments, in the program's module.

| Module | Models | Family |
|---|---|---|
| `RequestParser` | `http/server/request_parser.cpp` and `http/server4/request_parser.cpp`, side by side on the same characters | Http |
| `ConnectionManager` | `http/server`: `server`, `connection`, `connection_manager` | Http |
| `HttpReply` | `request_handler`, `reply`, `mime_types` | Http |
| `HttpPool` | `http/server2`: one `io_service` per thread | Http |
| `HttpThreads` | `http/server3`: one `io_service`, several threads, strands | Http |
| `HttpCoroutine` | `http/server4`: `server` with `coroutine.hpp` | Http |
| `HttpClient` | `http/client/async_client.cpp` | Http |
| `ChatServer`, `ChatClient`, `PosixChatClient` | `chat/` | Conversations |
| `TimeoutServer`, `AsyncTcpClient`, `BlockingClients` | `timeouts/` | Conversations |
| `SearchClients` | page and console client of Part 1 | Conversations |
| `Ping` | `icmp/ping.cpp` | Stream |
| `LoggedSocket` | `services/`, with the bare socket service as abstract specification | Stream |
| `Porthopper` | `porthopper/client.cpp`, `server.cpp` | Stream |
| `Serialization` | `serialization/` | Stream |
| `SslEcho` | `ssl/` | Stream |
| `EchoServers` | `nonblocking/third_party_lib.cpp`, `echo/async_tcp_echo_server.cpp`, `echo/async_udp_echo_server.cpp`, `allocation/server.cpp`, `local/connect_pair.cpp`, and an abstract echo server | Stream |
| `ForkPrograms` | `fork/process_per_connection.cpp`, `fork/daemon.cpp` | Stream |
| `Encodings` | `chat/chat_message.hpp`, `porthopper/protocol.hpp`, `icmp/icmp_header.hpp` | Stream |

### The runs

`http_programs` (module `HttpPrograms`):

* `RequestInv`: the two parsers have the same effect on the request as long as
  both go on; the coroutine accepts nothing the switch refuses, and refuses more
  only in known cases; `headers.back()` exists whenever it is used; an accepted
  request is complete.
* `ManagerInv`: live connections are exactly the managed ones, each with one
  operation, and one connection is waiting to be accepted while the acceptor is
  open; once it is closed nobody is managed.
* `ConnectionsApart`: the round robin of `http/server2` is balanced; in
  `http/server3` handlers of one connection exclude each other and
  `new_connection_` is handed over without a race; in `http/server4` one copy of
  the coroutine accepts and no two use one socket.
* `AnswersWhole`: which file is opened, that decoding inverts encoding, which
  extension counts, that a reply holds the beginning of the file and its length,
  the whole file unless a read failed (which `handle_request` cannot tell from
  the end), and that the client writes the content, all of it and nothing else.
  For a response without a header line the client's search for the blank line
  starts behind it: it ends with an error and writes nothing, unless the content
  itself holds what it looks for, and that is what is stated.
* `NothingTwice` (action property): a connection of `http/server4` is answered
  once; after the signal nothing enters the manager of `http/server`.
* `ProgramsEnd` (liveness): after a signal every server returns from `run`,
  whatever was in flight; the client exits.

`conversations` (module `Conversations`):

* `OneOperationEach`: one operation of a kind on a socket at a time, and one when
  there is something to send. The timer that `timeouts/server` uses as a
  condition variable loses no wake-up.
* `NothingLost`: every chat client gets one stretch of one history, without gap
  or repetition; lines go out in order; no character typed and no datagram is
  lost around a timeout.
* `StaleOnlyIfOverlapping`: see Part 1.
* `NothingEndsEarly` (action property): sockets are closed and operations
  cancelled only for an error or when a deadline set for them has passed, and a
  connect that timed out is not taken for a connection. The output deadline of
  `timeouts/server` may be that of a write that is done, see `sent_session`.

`conversations_end`, the same programs, fair and with one peer each:

* `NobodyWaitsForever`: the clients return, calls with a deadline end, silent
  clients are dropped, what is stopped comes to its end.

`sent_session`, `timeouts/server` with one client and fair:

* `SentSessionStays` (liveness): expected violation, see Findings.

`stream_programs` (module `StreamPrograms`):

* `PingInv`: one chain of requests, until one cannot be sent and the program
  ends; only the answer to the request counts; a timeout is not reported early.
* `OwnedWhileUsed`: porthopper operations have their buffers and sockets; ssl and
  echo sessions are deleted once, with no operation left, and accepting goes on;
  the handler memory of allocation is never shared and always reused; a forked
  connection has one owner; the daemon is detached, and if it was started with its
  three streams it keeps its socket and its new streams. Otherwise descriptors of
  the `io_service` are among those it closes as streams, and `notify_fork` closes
  the new streams by their numbers.
* `DeliveredAsSent`: the log is complete, in order and drained at exit, empty if
  the file did not open; what serialization receives was written, sizes too long
  for the header are refused; an ssl reply is the whole line; a datagram goes back to its sender only;
  connect_pair returns the line in upper case, and its two threads wait for each
  other only over a line that is too long for the sockets.
* `EncodingsInverse`: no header leads beyond the buffer; ports, frame numbers and
  header fields come back as they were; the ICMP checksum verifies. Frame numbers
  are those the eight digits of the field hold, below 2^32; the code's `unsigned
  long` may be wider, and a greater number would run over its field.
* `StepsAsPromised` (refinements and action properties): the logging service
  implements the service it wraps; nonblocking, async_tcp_echo_server and
  allocation implement an echo server; pings are a second apart; a body length
  that is encoded is the one decoded.
* `NoProgramStuck` (liveness): ping goes on until a request cannot be sent, the
  log service's destructor returns, reads of serialization complete unless the
  header is a negative number, ssl clients end, bytes are echoed, lines answered,
  children end and are reaped, the daemon's parents exit.

Bounds. Three connections, sessions or children are one being made, one at work
and one ending at the same time, which is as many as the handlers of these
programs relate. Objects are reused in `ConnectionManager`, `HttpThreads` and
`HttpCoroutine`, so there the run has no limit on the connections served. Queues
hold one message more than the code's decisions distinguish (empty, one, more
than one). Sizes of the code (512, 1024, 100, 30 seconds, 50 frames, 2^16) are
constants, replaced by the smallest values for which everything below, at and
above the limit happens. `RequestParser` keeps no text, so its run covers
requests of every length. Base 3 with a two digit sum has the double carry that
base 2^8 has. Sockets of two characters and lines of six let both threads of
connect_pair wait. A bound on an input (`MaxSent`, `MaxTyped`, `MaxFrame`) is in
the guard of the environment's action, not of the program's; the bound on objects
that can be made (`EchoSession`, `MaxSessions`, `MaxMade`) is the only one that
holds a program's step back. `conversations_end` has one peer because each
session waits for its own peer only; two ticks and a queue of two leave room for
a deadline that is moved on.

Symmetry is used in `conversations` only, which checks no liveness: the
participants of the chat are alike, and so are the sessions of `timeouts/server`.

Assumptions about what is outside the code:

* `Porthopper`: a data socket gets a port that was not used before.
* `Ping`: no packet stays in the network while the sequence number wraps
  (`LifeAssumption`).
* `ForkPrograms`: `notify_fork` keeps its promise, and closes and opens the
  descriptors of the `io_service`, up to three for the reactor and one for signals.
* `EchoServers`: Asio frees an operation's memory before it calls the handler.

## Fairness and deadlock

Search engine: each program, and each handler thread, runs on while it can (weak
fairness of its steps), as operating system threads without locks do. Clients are
not fair: nothing makes them ask. Kills and failures are in no fairness condition
except where failing is what the program's own step does.

Asio programs: a handler that is due is called, a timer that has expired fires,
and time passes (weak fairness, one condition per handler, as `run` keeps calling
what is ready). Peers need not send, accept or answer. Three assumptions are about
peers and the network: in `Serialization` a connection that is waited on breaks at
last if nothing comes; the HTTP client's connecting and sending ends, well or not,
and bytes of a response that are under way arrive; and the clients of the three
TCP echo servers (nonblocking, async_tcp_echo_server, allocation) take what is
echoed to them, without which no server could echo all. In `SslEcho` both ends are
programs of the repository. Strong fairness is assumed where a step waits in the
queue of an `io_service` that threads or handlers keep taking from: the stop handler of
`http/server3` and the posted `do_write` and `do_close` of the chat client. The
queue is first in, first out, which the models do not keep; strong fairness is
what is left of it. A condition of a family is about the program that runs only.

Deadlock checking is off because every program modelled may end or wait for a
peer that says nothing. That nothing gets stuck otherwise is what the liveness
properties say.

## What is proved

All theorems hold for every value of the constants that satisfies the named
assumptions: fields of well-formed lines are texts, `Lower` is idempotent, the
tokenizer is total, the excerpt has room for three dots, `LifeAssumption`.

* `IndexProofs`: `TypeCorrect`, `IndexInvariant`, `PostingsAreSound`,
  `PostingsAreComplete`, `PostingsAreAscending`, `DocIdsArePositions`,
  `NoPostingDangles`, `IndexIsAppendOnly`. While a document is inside
  `BuildInverted` the inverted index knows it only in part, so none of these
  is inductive alone. `IndexInv` adds where the pointer leads
  (`PointsToBack`), that the map holds exactly the counts of the tokens seen so
  far (`CountsSoFar`), and that the current document has a posting under exactly
  the words the last loop has visited (`PostedSoFar`). The `index` run checks
  `IndexInv` as well.
* `SnippetProofs`: `DescAlwaysFits`, `DescAlwaysExcerpt`, `KeywordAlwaysShown`,
  from the fact that `find` returns a first position and a case split on the
  three exits of `GenerateDesc`.
* `ServerProofs`: `ServerImplementsIndex` (no handler touches the index, so
  every index theorem carries over), `ServerInvariant` and from it
  `ServerNeverCrashes`: the dereference in `Search` that nothing guards is safe.
  The invariant says that no handler runs during `Init` and that every posting a
  call has collected is of a document in `forward_index`, which only grows.
* `PipelineProofs`: `PipelineImplementsIndex`, so torn records leave a correct
  index too (`TornRecordsAreSound`, `TornRecordsAreComplete`).
* `RequestParserProofs`: `ParsersCorrespond`, and from it `ParsersSameRequest`,
  `ParsersDiffer` and `ParsersSafe`, for any limit on the content. The two parsers
  are at unrelated places of unrelated control (a switch over `state_`, a resumed
  coroutine), so `RequestInv` pairs them: each state of the switch with the point
  of the coroutine it stands beside (`Together`), the coroutine reading the
  content after the switch is through (`InContent`), and the switch going on after
  the coroutine has refused (`RefusedBefore`).
* `ConnectionManagerProofs`: `ManagerInvariant`, and from it `ManagerSafe` and
  `ManagerStopped`, for any set of connections. `ManagerInv` adds to the safety
  properties that the connection to be accepted next is idle and unmanaged, that
  no managed connection has an aborted operation (only `stop` aborts, and it
  removes the connection in the same step), and that a closed acceptor means an
  empty manager.
* `Ping`: `PingInvariant`, and from it `PingSafe` and `PingApart`, for any wrap of
  the sequence number and any packet lifetime below it. `PingInv` adds how the
  time since the last request and the time left on the timer add up in each
  phase, and that a fresh reply in the network means the request was answered.
  `send_to` may throw, which ends the program; the invariant covers that state.

Only model-checked: liveness (`BuildReturns`, `StartsUp`, `EveryRequestAnswered`,
`ParserReturns`, `ProgramsEnd`, `NobodyWaitsForever`, `NoProgramStuck`), the
refinements `ImplementsService` and those in `StepsAsPromised`, the other
invariants of the families, and what folds and `SelectSeq` compute for every input
(`ForwardIsInput`, `ParsedAsDefined`, `OutputIsPrefix`, `PrefixServed`,
`CompleteServed`), which need an induction over data that the prover cannot do.

## Findings

* `snippet_case`: postings hold the word in lower case, and `GenerateDesc`
  searches the content for it case sensitively (`searcher.cc:218`). On a long
  page that spells the word with a capital the excerpt is the head of the page,
  not the text around the keyword that the comment at `searcher.cc:215` speaks
  of.
* `title_lines`: `ParseContent` replaces line breaks, `ParseTitle` keeps them. A
  title of two lines breaks the record, against "a file of text lines"
  (`parser.cc:17`): the document is indexed under the last line of its title.
  None of the documents in `data/input/` has such a title.
* `sent_session`: `output_deadline_` is not reset when a write completes
  (`timeouts/server.cpp:272`), so that `check_deadline` closes a session whose
  last message was sent in time and whose time to receive has not passed, while
  the class comment (lines 127 to 129) gives the time to sending a message.

Also seen while modelling, and left as the code has it:

* search engine: a word of the title counts eleven, not ten, because the content
  that `ParseContent` returns includes the text of the title element; `main` of
  the server ignores that `listen` failed; `main` of the parser returns 0 after a
  failed write; the console client reads a last word that ends with its input and
  does not search for it;
* `http/server/request_handler.cpp:94`: `url_decode` accepts an escape like `%2g`,
  of which the stream reads one digit, while `request_handler.hpp:38` says that an
  invalid encoding is refused;
* `http/client/async_client.cpp`: the `getline` of the status line of a response
  without any header line leaves no empty line to find, and `read_until` goes on
  into the content;
* `serialization/connection.hpp:114`: the comment says that the caller is informed
  of an invalid header, but a negative number is read as a size, and `resize`
  throws out of `io_service::run` (line 121);
* `porthopper/client.cpp:124`: after a failed control write or a failed receive on
  the new socket the loop goes on receiving on the old one, while the comment at
  line 121 says that it ends on an unrecoverable error.

## Not modelled

* `index_test.cc`: three calls in a row, of operations that are modelled.
* A second run of the parser that truncates the file under a running `Build`; this
  needs the buffer of the reader in `Pipeline`.
* The whole chain from files to answers as one refinement of `SearchService`; it
  is covered in two pieces, `Pipeline` (files to index) and `HttpServer` (index to
  answers), which meet in `Index`.
* cppjieba and its dictionaries (any tokenizer is allowed), the demo under
  `src/cppjieba_test/`, static files served by httplib, the width of the `int`
  weights (a page would need some hundred million words to overflow one), memory
  exhaustion (also by a header of `serialization` with a huge size).
* Writes to the file of the log service that fail after it was opened.
* `http/server2`, `server3`, `server4`: the files that are the same text as in
  `http/server` up to the namespace. The main functions of the HTTP servers, which
  read arguments and call `run`. The synchronous HTTP client: the steps of the
  asynchronous one in the same order, in one thread.
* `allocation/server.cpp`: the accept loop, which is that of
  `async_tcp_echo_server`.
* `echo/` blocking programs and `local/` stream server and clients: a read and a
  write by turns, with nothing shared between threads.
* `timers/`: arithmetic on time values, without state. `invocation/`: a
  `std::priority_queue` emptied between polls, in one thread.
* `icmp/ipv4_header.hpp`: accessors of fixed fields, two of which are printed.
* `buffers/`, `iostreams/`, `multicast/`, `socks4/`: one operation at a time and no
  state that outlives it.
* `windows/`: rests on the semantics of overlapped Windows handles, which the
  source does not show.
