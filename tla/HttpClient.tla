----------------------------- MODULE HttpClient -----------------------------
(***************************************************************************)
(* The Boost.Asio example http/client/async_client: resolve, connect, send *)
(* the request, read the status line, the headers, and the content up to   *)
(* the end of the stream.  The response arrives in pieces of any size, and *)
(* each read may take more than it asks for into response_.                *)
(*                                                                         *)
(* A response is a sequence of pieces of text: the status line, header     *)
(* lines, content, and "\r\n" for the two characters.                      *)
(***************************************************************************)
EXTENDS Naturals, Sequences
LOCAL INSTANCE SequencesExt

CONSTANTS
  HeaderCounts,    \* how many header lines a response has
  MaxContent       \* bound: pieces of content

VARIABLES
  phase,       \* the operation the client has started
  status,      \* what the status line says: "ok", "other" or "invalid"
  headers, content,     \* of the response the server sends
  incoming,    \* what has not arrived
  failed,      \* the connection: "no", it failed: "error", or the server closed it early: "cut"
  response_,   \* what has arrived and is not consumed
  output       \* what was written after the headers

httpVars == <<phase, status, headers, content, incoming, failed, response_, output>>
serverVars == <<status, headers, content>>

CRLF == "\r\n"

Response(h, c) ==
  <<"status", CRLF>> \o FlattenSeq([i \in 1..h |-> <<"header", CRLF>>]) \o <<CRLF>> \o c

-----------------------------------------------------------------------------
(* The network.                                                            *)

Arrives ==
  /\ phase \in {"status", "headers", "content"} /\ failed /= "error"
  /\ \E n \in 1..Len(incoming) :
       /\ response_' = response_ \o SubSeq(incoming, 1, n)
       /\ incoming' = SubSeq(incoming, n + 1, Len(incoming))
  /\ UNCHANGED <<phase, serverVars, failed, output>>

Fail ==
  /\ failed = "no" /\ failed' = "error"
  /\ UNCHANGED <<phase, serverVars, incoming, response_, output>>

Cut ==
  /\ failed = "no" /\ incoming /= <<>> /\ failed' = "cut" /\ incoming' = <<>>
  /\ UNCHANGED <<phase, serverVars, response_, output>>

\* read_until can still be satisfied by what has arrived.
Found(delimiter) == \E i \in 1..Len(response_) : IsPrefix(delimiter, SubSeq(response_, i, Len(response_)))

Eof == incoming = <<>>

\* Mutant: the end of the stream is no error.
IgnoresEof(delimiter) == ~Found(delimiter) /\ failed = "error"

\* An error, or the end of the stream, before the delimiter came.
GivesUp(delimiter) == ~Found(delimiter) /\ (failed = "error" \/ Eof)

-----------------------------------------------------------------------------
(* The handlers.  An error is printed and nothing more is started.         *)

Step(from, to) ==
  /\ phase = from /\ phase' = (IF failed = "error" THEN "error" ELSE to)
  /\ UNCHANGED <<serverVars, incoming, failed, response_, output>>

handle_resolve == Step("resolve", "connect")
handle_connect == Step("connect", "write")
handle_write_request == Step("write", "status")

\* The line is consumed up to and with its end.
handle_read_status_line ==
  /\ phase = "status"
  /\ \/ /\ GivesUp(<<CRLF>>) /\ phase' = "error" /\ UNCHANGED response_
     \/ /\ Found(<<CRLF>>)
        /\ response_' = SubSeq(response_, 3, Len(response_))
        /\ phase' = IF status = "ok" THEN "headers" ELSE "refused"
  /\ UNCHANGED <<serverVars, incoming, failed, output>>

\* The loop of getline: everything up to the first line that is empty.
HeaderLines ==
  CHOOSE n \in 0..Len(response_) :
    /\ n < Len(response_) /\ response_[n + 1] = CRLF
    /\ n = 0 \/ response_[n] = CRLF
    /\ \A k \in 0..(n - 1) : ~(response_[k + 1] = CRLF /\ (k = 0 \/ response_[k] = CRLF))

\* Mutant: what came with the headers is not written.
DropRest(rest) == <<>>

\* "Write whatever content we already have to output."
Rest(rest) == rest

handle_read_headers ==
  /\ phase = "headers"
  /\ \/ /\ GivesUp(<<CRLF, CRLF>>) /\ phase' = "error" /\ UNCHANGED <<response_, output>>
     \/ /\ Found(<<CRLF, CRLF>>)
        /\ output' = Rest(SubSeq(response_, HeaderLines + 2, Len(response_)))
        /\ response_' = <<>>
        /\ phase' = "content"
  /\ UNCHANGED <<serverVars, incoming, failed>>

\* Mutant: reading stops after one read of content.
ReadOnce == "done"

ReadOn == "content"

handle_read_content ==
  /\ phase = "content"
  /\ IF response_ /= <<>>
     THEN /\ output' = output \o response_ /\ response_' = <<>> /\ phase' = ReadOn
     ELSE /\ failed = "error" \/ Eof
          /\ phase' = (IF failed = "error" THEN "error" ELSE "done")
          /\ UNCHANGED <<output, response_>>
  /\ UNCHANGED <<serverVars, incoming, failed>>

Contents == UNION {[1..n -> {"content", CRLF}] : n \in 0..MaxContent}

\* The client has started to resolve the name of the server, whose response
\* will be one of the given ones.
HttpInit(statuses, counts, contents) ==
  /\ phase = "resolve" /\ failed = "no" /\ response_ = <<>> /\ output = <<>>
  /\ status \in statuses /\ headers \in counts /\ content \in contents
  /\ incoming = Response(headers, content)

Handler ==
  \/ handle_resolve \/ handle_connect \/ handle_write_request
  \/ handle_read_status_line \/ handle_read_headers \/ handle_read_content

HttpNext == Handler \/ Arrives \/ Fail \/ Cut

HttpSpec ==
  /\ HttpInit({"ok", "other", "invalid"}, HeaderCounts, Contents)
  /\ [][HttpNext]_httpVars
  /\ WF_httpVars(Arrives) /\ WF_httpVars(Handler)

-----------------------------------------------------------------------------
\* What is written after the headers is the content from its beginning, never
\* a header and never a gap, wherever the pieces of the response end.
OutputIsContent == IsPrefix(output, content)

\* read_until looks for two "\r\n" in a row.  Without header lines the first
\* of them ends the status line and is consumed with it: then two are found
\* only if the content begins with a "\r\n" or holds two in a row.
BlankLineLeft ==
  headers > 0 \/ \E i \in 1..Len(content) :
                    content[i] = CRLF /\ (i = 1 \/ content[i - 1] = CRLF)

\* When the server has sent a whole response and no error of the connection
\* occurred, all its content is written, except that of a response without
\* header lines and without another blank line: of that one nothing is
\* written, and the client reports an error.
WholeContent ==
  (phase \in {"done", "error"} /\ failed = "no" /\ status = "ok") =>
    IF BlankLineLeft THEN phase = "done" /\ output = content
    ELSE phase = "error" /\ output = <<>>

\* The client exits.
ClientEnds == <>(phase \in {"done", "error", "refused"})

=============================================================================
