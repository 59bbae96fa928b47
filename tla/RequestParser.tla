---------------------------- MODULE RequestParser ----------------------------
(***************************************************************************)
(* The two request parsers of the Boost.Asio HTTP examples, fed with the   *)
(* same characters: the one of http/server, a switch over state_, and the  *)
(* one of http/server4, a stackless coroutine resumed at its last yield.   *)
(*                                                                         *)
(* A character is the class the code tells apart.  Of the request, a step  *)
(* is known by the field it appends to (its effect); what the parsers read *)
(* back is kept: whether uri and headers are empty.                        *)
(***************************************************************************)
EXTENDS Naturals

CONSTANT MaxContent    \* bound: the longest content a Content-Length names

ASSUME MaxContentIsNat == MaxContent \in Nat

VARIABLES
  state_, result, effect, uri, headers,        \* http/server
  coro, result4, effect4, uri4, headers4,      \* http/server4
  content,   \* http/server4: characters of the content still to come
  seen       \* what the characters so far held that the parsers treat apart

server == <<state_, result, effect, uri, headers>>
server4 == <<coro, result4, effect4, uri4, headers4, content>>
parserVars == <<server, server4, seen>>

Char == {"SP", "HT", "CR", "LF", ":", "/", ".", "H", "T", "P", "digit",
         "letter", "tspecial", "ctl", "non-ASCII"}

is_char(c) == c /= "non-ASCII"
is_ctl(c) == c \in {"HT", "CR", "LF", "ctl"}
is_tspecial(c) == c \in {"SP", "HT", ":", "/", "tspecial"}
is_digit(c) == c = "digit"
is_token(c) == is_char(c) /\ ~is_ctl(c) /\ ~is_tspecial(c)

-----------------------------------------------------------------------------
(* http/server: consume, one action per case of the switch.                *)

Push(next, field) ==
  /\ state_' = next
  /\ effect' = field
  /\ result' = "indeterminate"

Go(next) ==
  /\ Push(next, "none")
  /\ UNCHANGED <<uri, headers>>

\* return false, or true at the end of the header block
Answer(value) ==
  /\ result' = value
  /\ effect' = "none"
  /\ UNCHANGED <<state_, uri, headers>>

Expect(c, char, next) == IF c = char THEN Go(next) ELSE Answer("false")

MethodStart(c) ==
  /\ state_ = "method_start"
  /\ IF is_token(c)
     THEN Push("method", "method") /\ UNCHANGED <<uri, headers>>
     ELSE Answer("false")

Method(c) ==
  /\ state_ = "method"
  /\ IF c = "SP" THEN Go("uri")
     ELSE IF is_token(c)
     THEN Push("method", "method") /\ UNCHANGED <<uri, headers>>
     ELSE Answer("false")

Uri(c) ==
  /\ state_ = "uri"
  /\ IF c = "SP" THEN Go("http_version_h")
     ELSE IF is_ctl(c) THEN Answer("false")
     ELSE /\ Push("uri", "uri")
          /\ uri' = TRUE
          /\ UNCHANGED headers

HttpVersion(c) ==
  \/ state_ = "http_version_h" /\ Expect(c, "H", "http_version_t_1")
  \/ state_ = "http_version_t_1" /\ Expect(c, "T", "http_version_t_2")
  \/ state_ = "http_version_t_2" /\ Expect(c, "T", "http_version_p")
  \/ state_ = "http_version_p" /\ Expect(c, "P", "http_version_slash")
  \/ state_ = "http_version_slash" /\ Expect(c, "/", "http_version_major_start")

\* A number needs a first digit; "end" leads from its later digits to "next".
Number(c, start, number, end, next) ==
  /\ state_ \in {start, number}
  /\ IF state_ = number /\ c = end THEN Go(next)
     ELSE IF is_digit(c)
     THEN Push(number, number) /\ UNCHANGED <<uri, headers>>
     ELSE Answer("false")

Major(c) ==
  Number(c, "http_version_major_start", "http_version_major", ".",
         "http_version_minor_start")

Minor(c) ==
  Number(c, "http_version_minor_start", "http_version_minor", "CR",
         "expecting_newline_1")

\* Mutant: white space may start the first header line.
HeaderLineStartAnyLws(c) ==
  /\ state_ = "header_line_start"
  /\ IF c = "CR" THEN Go("expecting_newline_3")
     ELSE IF c \in {"SP", "HT"} THEN Go("header_lws")
     ELSE IF ~is_token(c) THEN Answer("false")
     ELSE /\ Push("header_name", "header and name")
          /\ headers' = TRUE
          /\ UNCHANGED uri

HeaderLineStart(c) ==
  /\ state_ = "header_line_start"
  /\ IF c = "CR" THEN Go("expecting_newline_3")
     ELSE IF headers /\ c \in {"SP", "HT"} THEN Go("header_lws")
     ELSE IF ~is_token(c) THEN Answer("false")
     ELSE /\ Push("header_name", "header and name")
          /\ headers' = TRUE
          /\ UNCHANGED uri

\* Mutant: the white space that starts a folded line is kept in the value.
HeaderLwsKept(c) ==
  /\ state_ = "header_lws"
  /\ IF c = "CR" THEN Go("expecting_newline_2")
     ELSE IF is_ctl(c) /\ c /= "HT" THEN Answer("false")
     ELSE Push("header_value", "value") /\ UNCHANGED <<uri, headers>>

\* Mutant: a folded line must hold more than white space.
HeaderLwsStrict(c) ==
  /\ state_ = "header_lws"
  /\ IF c \in {"SP", "HT"} THEN Go("header_lws")
     ELSE IF is_ctl(c) THEN Answer("false")
     ELSE Push("header_value", "value") /\ UNCHANGED <<uri, headers>>

HeaderLws(c) ==
  /\ state_ = "header_lws"
  /\ IF c = "CR" THEN Go("expecting_newline_2")
     ELSE IF c \in {"SP", "HT"} THEN Go("header_lws")
     ELSE IF is_ctl(c) THEN Answer("false")
     ELSE Push("header_value", "value") /\ UNCHANGED <<uri, headers>>

HeaderName(c) ==
  /\ state_ = "header_name"
  /\ IF c = ":" THEN Go("space_before_header_value")
     ELSE IF is_token(c)
     THEN Push("header_name", "name") /\ UNCHANGED <<uri, headers>>
     ELSE Answer("false")

SpaceBeforeHeaderValue(c) ==
  state_ = "space_before_header_value" /\ Expect(c, "SP", "header_value")

HeaderValue(c) ==
  /\ state_ = "header_value"
  /\ IF c = "CR" THEN Go("expecting_newline_2")
     ELSE IF is_ctl(c) THEN Answer("false")
     ELSE Push("header_value", "value") /\ UNCHANGED <<uri, headers>>

ExpectingNewline(c) ==
  \/ state_ = "expecting_newline_1" /\ Expect(c, "LF", "header_line_start")
  \/ state_ = "expecting_newline_2" /\ Expect(c, "LF", "header_line_start")

\* Mutant: the last character is not looked at.
AnyLastNewline(c) ==
  state_ = "expecting_newline_3" /\ Answer("true")

LastNewline(c) ==
  /\ state_ = "expecting_newline_3"
  /\ Answer(IF c = "LF" THEN "true" ELSE "false")

consume(c) ==
  \/ MethodStart(c) \/ Method(c) \/ Uri(c) \/ HttpVersion(c)
  \/ Major(c) \/ Minor(c) \/ HeaderLineStart(c) \/ HeaderLws(c)
  \/ HeaderName(c) \/ SpaceBeforeHeaderValue(c) \/ HeaderValue(c)
  \/ ExpectingNewline(c) \/ LastNewline(c)

-----------------------------------------------------------------------------
(* http/server4: consume, one action per group of resumption points.       *)

Yield(point, field) ==
  /\ coro' = point
  /\ effect4' = field
  /\ result4' = "indeterminate"

Resume(point) ==
  /\ Yield(point, "none")
  /\ UNCHANGED <<uri4, headers4, content>>

Append4(point, field) ==
  /\ Yield(point, field)
  /\ UNCHANGED <<uri4, headers4, content>>

\* A return other than yield: the coroutine_ref marks the coroutine complete.
Return4(value, reason) ==
  /\ result4' = value
  /\ coro' = "complete"
  /\ effect4' = reason
  /\ UNCHANGED <<uri4, headers4>>

Fail4 == Return4("false", "none") /\ UNCHANGED content

Expect4(c, char, point) == IF c = char THEN Resume(point) ELSE Fail4

Method4(c) ==
  /\ coro \in {"start", "method"}
  /\ IF is_token(c) THEN Append4("method", "method")
     ELSE IF coro = "method" THEN Expect4(c, "SP", "uri")
     ELSE Fail4

Uri4(c) ==
  /\ coro = "uri"
  /\ IF ~is_ctl(c) /\ c /= "SP"
     THEN /\ Yield("uri", "uri")
          /\ uri4' = TRUE
          /\ UNCHANGED <<headers4, content>>
     ELSE IF uri4 THEN Expect4(c, "SP", "h")
     ELSE Fail4

Identifier4(c) ==
  \/ coro = "h" /\ Expect4(c, "H", "t_1")
  \/ coro = "t_1" /\ Expect4(c, "T", "t_2")
  \/ coro = "t_2" /\ Expect4(c, "T", "p")
  \/ coro = "p" /\ Expect4(c, "P", "slash")
  \/ coro = "slash" /\ Expect4(c, "/", "major_start")

Major4(c) ==
  /\ coro \in {"major_start", "major"}
  /\ IF is_digit(c) THEN Append4("major", "http_version_major")
     ELSE IF coro = "major" THEN Expect4(c, ".", "minor_start")
     ELSE Fail4

Minor4(c) ==
  /\ coro \in {"minor_start", "minor"}
  /\ IF is_digit(c) THEN Append4("minor", "http_version_minor")
     ELSE IF coro = "minor" THEN Expect4(c, "CR", "newline_1")
     ELSE Fail4

\* The condition of the header loop and, when it ends, the last CR.
Headers4(c) ==
  /\ coro = "headers"
  /\ IF c \in {"SP", "HT"}
     THEN IF headers4 THEN Resume("lws") ELSE Fail4
     ELSE IF is_token(c)
     THEN /\ Yield("name", "header and name")
          /\ headers4' = TRUE
          /\ UNCHANGED <<uri4, content>>
     ELSE Expect4(c, "CR", "newline_3")

Name4(c) ==
  /\ coro = "name"
  /\ IF is_token(c) THEN Append4("name", "name")
     ELSE Expect4(c, ":", "space")

Space4(c) == coro = "space" /\ Expect4(c, "SP", "value")

Value4(c) ==
  /\ coro \in {"lws", "value"}
  /\ IF coro = "lws" /\ c \in {"SP", "HT"} THEN Resume("lws")
     ELSE IF is_char(c) /\ ~is_ctl(c) THEN Append4("value", "value")
     ELSE Expect4(c, "CR", "newline_2")

Newline4(c) ==
  coro \in {"newline_1", "newline_2"} /\ Expect4(c, "LF", "headers")

\* The last LF, the search for a Content-Length header and the first look at
\* the content loop: the value may be no number.
ContentLength4(c) ==
  /\ coro = "newline_3"
  /\ IF c /= "LF" THEN Fail4
     ELSE \/ headers4 /\ Return4("false", "bad Content-Length") /\ UNCHANGED content
          \/ /\ content' = 0
             /\ Return4("true", "none")
          \/ /\ headers4
             /\ content' \in 1..MaxContent
             /\ Yield("content", "none")
             /\ UNCHANGED <<uri4, headers4>>

\* Mutant: the character is counted before it is waited for.
Content4Early(c) ==
  /\ coro = "content"
  /\ content' = content - 1
  /\ IF content <= 2 THEN Return4("true", "content")
     ELSE Yield("content", "content") /\ UNCHANGED <<uri4, headers4>>

Content4(c) ==
  /\ coro = "content"
  /\ content' = content - 1
  /\ IF content = 1 THEN Return4("true", "content")
     ELSE Yield("content", "content") /\ UNCHANGED <<uri4, headers4>>

consume4(c) ==
  \/ Method4(c) \/ Uri4(c) \/ Identifier4(c) \/ Major4(c) \/ Minor4(c)
  \/ Headers4(c) \/ Name4(c) \/ Space4(c) \/ Value4(c) \/ Newline4(c)
  \/ ContentLength4(c) \/ Content4(c)

-----------------------------------------------------------------------------
RequestInit ==
  /\ state_ = "method_start"
  /\ coro = "start"
  /\ result = "indeterminate"
  /\ result4 = "indeterminate"
  /\ effect = "none"
  /\ effect4 = "none"
  /\ uri = FALSE /\ uri4 = FALSE
  /\ headers = FALSE /\ headers4 = FALSE
  /\ content = 0
  /\ seen = FALSE

\* parse hands the characters to consume until it answers true or false.
parse(c) ==
  IF result = "indeterminate" THEN consume(c) ELSE UNCHANGED server

parse4(c) ==
  IF result4 = "indeterminate" THEN consume4(c) ELSE UNCHANGED server4

Feed(c) ==
  /\ "indeterminate" \in {result, result4}
  /\ parse(c)
  /\ parse4(c)
  /\ seen' = (seen \/ (c = "non-ASCII" /\ effect' = "value"))

RequestNext == \E c \in Char : Feed(c)

RequestSpec == RequestInit /\ [][RequestNext]_parserVars

-----------------------------------------------------------------------------
\* As long as both parsers ask for more, each character has been appended to
\* the same field of the two requests, or to none: the switch over state_ and
\* the loops of the coroutine are one automaton.
SameRequest ==
  (result = "indeterminate" /\ result4 = "indeterminate")
    => effect = effect4 /\ uri = uri4 /\ headers = headers4

\* Every request that http/server4 accepts, http/server has accepted at the
\* end of its headers, and what http/server refuses http/server4 has refused
\* by the same character.
ServerAcceptsMore ==
  /\ result4 = "true" => result = "true"
  /\ result = "false" => result4 = "false"

\* The only requests that http/server accepts and http/server4 refuses are the
\* ones without a URI, with a character outside ASCII in a header value, or
\* whose Content-Length is no number.
OnlyKnownDifferences ==
  (result = "true" /\ result4 = "false")
    => ~uri \/ seen \/ effect4 = "bad Content-Length"

\* headers.back() is never called on an empty vector, by either parser: a name
\* or value is appended only after push_back(header()).
HeaderBeforeText ==
  /\ effect \in {"name", "value"} => headers
  /\ effect4 \in {"name", "value"} => headers4

\* A request that http/server4 hands on has a URI and its whole content.
AcceptedIsComplete == result4 = "true" => uri4 /\ content = 0

-----------------------------------------------------------------------------
(* The invariant the theorems of RequestParserProofs rest on.              *)

\* Where the coroutine is resumed when the switch is in each state.
SamePlace ==
  \/ coro = "start" /\ state_ = "method_start"
  \/ coro = "method" /\ state_ = "method"
  \/ coro = "uri" /\ state_ = "uri"
  \/ coro = "h" /\ state_ = "http_version_h"
  \/ coro = "t_1" /\ state_ = "http_version_t_1"
  \/ coro = "t_2" /\ state_ = "http_version_t_2"
  \/ coro = "p" /\ state_ = "http_version_p"
  \/ coro = "slash" /\ state_ = "http_version_slash"
  \/ coro = "major_start" /\ state_ = "http_version_major_start"
  \/ coro = "major" /\ state_ = "http_version_major"
  \/ coro = "minor_start" /\ state_ = "http_version_minor_start"
  \/ coro = "minor" /\ state_ = "http_version_minor"
  \/ coro = "newline_1" /\ state_ = "expecting_newline_1"
  \/ coro = "headers" /\ state_ = "header_line_start"
  \/ coro = "name" /\ state_ = "header_name"
  \/ coro = "space" /\ state_ = "space_before_header_value"
  \/ coro = "lws" /\ state_ = "header_lws"
  \/ coro = "value" /\ state_ = "header_value"
  \/ coro = "newline_2" /\ state_ = "expecting_newline_2"
  \/ coro = "newline_3" /\ state_ = "expecting_newline_3"

HeaderState == {"header_name", "space_before_header_value", "header_lws",
                "header_value", "expecting_newline_2"}

HeaderPoint == {"name", "space", "lws", "value", "newline_2"}

\* Together: both parsers are at the same place of the same request.
Together ==
  /\ SamePlace
  /\ effect = effect4 /\ uri = uri4 /\ headers = headers4
  /\ coro \notin {"start", "method", "uri"} => uri4

\* http/server has accepted, http/server4 still reads the content.
InContent ==
  result = "true" /\ coro = "content" /\ uri4 /\ content \in 1..MaxContent

\* http/server4 has refused what http/server still reads.
RefusedBefore ==
  /\ result4 = "false"
  /\ seen \/ (~uri /\ state_ \notin {"method_start", "method", "uri"})

\* Where the two parsers stand to each other after every character, and that
\* each has a header when it is inside one.
RequestInv ==
  /\ result \in {"indeterminate", "true", "false"}
  /\ result4 \in {"indeterminate", "true", "false"}
  /\ content \in Nat
  /\ uri \in BOOLEAN /\ headers \in BOOLEAN /\ uri4 \in BOOLEAN /\ headers4 \in BOOLEAN
  /\ seen \in BOOLEAN
  /\ state_ \in HeaderState => headers
  /\ coro \in HeaderPoint => headers4
  /\ (result = "indeterminate" /\ result4 = "indeterminate") => Together
  /\ (result /= "indeterminate" /\ result4 = "indeterminate") => InContent
  /\ (result = "indeterminate" /\ result4 /= "indeterminate") => RefusedBefore
  /\ ServerAcceptsMore /\ OnlyKnownDifferences
  /\ HeaderBeforeText /\ AcceptedIsComplete

=============================================================================
