------------------------- MODULE RequestParserProofs -------------------------
(***************************************************************************)
(* The two request parsers keep to the same place of the same request, for *)
(* every sequence of characters and every length of content.               *)
(***************************************************************************)
EXTENDS RequestParser, TLAPS

\* Before the first character both parsers are at the start.
LEMMA RequestStart == RequestInit => RequestInv
<1> SUFFICES ASSUME RequestInit PROVE RequestInv
  OBVIOUS
<1>1. /\ uri \in BOOLEAN /\ headers \in BOOLEAN /\ uri4 \in BOOLEAN /\ headers4 \in BOOLEAN
      /\ seen \in BOOLEAN /\ uri = uri4 /\ headers = headers4
  BY Zenon DEF RequestInit
<1>2. /\ result = "indeterminate" /\ result4 = "indeterminate" /\ effect = "none" /\ effect4 = "none"
      /\ content = 0 /\ state_ = "method_start" /\ coro = "start"
  BY DEF RequestInit
<1>3. Together
  BY <1>1, <1>2 DEF Together, SamePlace
<1> QED
  BY <1>1, <1>2, <1>3 DEF RequestInv, HeaderState, HeaderPoint, ServerAcceptsMore,
     OnlyKnownDifferences, HeaderBeforeText, AcceptedIsComplete

\* A step of both parsers, from each place they can be at together.
LEMMA BothStep ==
  ASSUME RequestInv, NEW c \in Char, Feed(c),
         result = "indeterminate", result4 = "indeterminate"
  PROVE  RequestInv'
<1> USE MaxContentIsNat
<1>0. /\ Together /\ consume(c) /\ consume4(c)
      /\ seen' = (seen \/ (c = "non-ASCII" /\ effect' = "value"))
  BY DEF RequestInv, Feed, parse, parse4
<1>1. CASE coro = "start" /\ state_ = "method_start"
  <2>1. MethodStart(c)
    BY <1>0, <1>1 DEF consume, MethodStart, Method, Uri, HttpVersion, Major, Minor,
       HeaderLineStart, HeaderLws, HeaderName, SpaceBeforeHeaderValue, HeaderValue,
       ExpectingNewline, LastNewline, Number
  <2>2. Method4(c)
    BY <1>0, <1>1 DEF consume4, Method4, Uri4, Identifier4, Major4, Minor4, Headers4, Name4,
       Space4, Value4, Newline4, ContentLength4, Content4
  <2> QED
    BY <1>0, <1>1, <2>1, <2>2 DEF MethodStart, Method4, Push, Go, Answer, Expect, Number,
       Yield, Resume, Append4, Return4, Fail4, Expect4, is_char, is_ctl, is_tspecial, is_digit,
       is_token, Char,
       RequestInv, Together, InContent, RefusedBefore, SamePlace, HeaderState, HeaderPoint,
       ServerAcceptsMore, OnlyKnownDifferences, HeaderBeforeText, AcceptedIsComplete
<1>2. CASE coro = "method" /\ state_ = "method"
  <2>1. Method(c)
    BY <1>0, <1>2 DEF consume, MethodStart, Method, Uri, HttpVersion, Major, Minor,
       HeaderLineStart, HeaderLws, HeaderName, SpaceBeforeHeaderValue, HeaderValue,
       ExpectingNewline, LastNewline, Number
  <2>2. Method4(c)
    BY <1>0, <1>2 DEF consume4, Method4, Uri4, Identifier4, Major4, Minor4, Headers4, Name4,
       Space4, Value4, Newline4, ContentLength4, Content4
  <2> QED
    BY <1>0, <1>2, <2>1, <2>2 DEF Method, Method4, Push, Go, Answer, Expect, Number, Yield,
       Resume, Append4, Return4, Fail4, Expect4, is_char, is_ctl, is_tspecial, is_digit,
       is_token, Char,
       RequestInv, Together, InContent, RefusedBefore, SamePlace, HeaderState, HeaderPoint,
       ServerAcceptsMore, OnlyKnownDifferences, HeaderBeforeText, AcceptedIsComplete
<1>3. CASE coro = "uri" /\ state_ = "uri"
  <2>1. Uri(c)
    BY <1>0, <1>3 DEF consume, MethodStart, Method, Uri, HttpVersion, Major, Minor,
       HeaderLineStart, HeaderLws, HeaderName, SpaceBeforeHeaderValue, HeaderValue,
       ExpectingNewline, LastNewline, Number
  <2>2. Uri4(c)
    BY <1>0, <1>3 DEF consume4, Method4, Uri4, Identifier4, Major4, Minor4, Headers4, Name4,
       Space4, Value4, Newline4, ContentLength4, Content4
  <2> QED
    BY <1>0, <1>3, <2>1, <2>2 DEF Uri, Uri4, Push, Go, Answer, Expect, Number, Yield, Resume,
       Append4, Return4, Fail4, Expect4, is_char, is_ctl, is_tspecial, is_digit, is_token,
       Char,
       RequestInv, Together, InContent, RefusedBefore, SamePlace, HeaderState, HeaderPoint,
       ServerAcceptsMore, OnlyKnownDifferences, HeaderBeforeText, AcceptedIsComplete
<1>4. CASE coro = "h" /\ state_ = "http_version_h"
  <2>1. HttpVersion(c)
    BY <1>0, <1>4 DEF consume, MethodStart, Method, Uri, HttpVersion, Major, Minor,
       HeaderLineStart, HeaderLws, HeaderName, SpaceBeforeHeaderValue, HeaderValue,
       ExpectingNewline, LastNewline, Number
  <2>2. Identifier4(c)
    BY <1>0, <1>4 DEF consume4, Method4, Uri4, Identifier4, Major4, Minor4, Headers4, Name4,
       Space4, Value4, Newline4, ContentLength4, Content4
  <2> QED
    BY <1>0, <1>4, <2>1, <2>2 DEF HttpVersion, Identifier4, Push, Go, Answer, Expect, Number,
       Yield, Resume, Append4, Return4, Fail4, Expect4, is_char, is_ctl, is_tspecial, is_digit,
       is_token, Char,
       RequestInv, Together, InContent, RefusedBefore, SamePlace, HeaderState, HeaderPoint,
       ServerAcceptsMore, OnlyKnownDifferences, HeaderBeforeText, AcceptedIsComplete
<1>5. CASE coro = "t_1" /\ state_ = "http_version_t_1"
  <2>1. HttpVersion(c)
    BY <1>0, <1>5 DEF consume, MethodStart, Method, Uri, HttpVersion, Major, Minor,
       HeaderLineStart, HeaderLws, HeaderName, SpaceBeforeHeaderValue, HeaderValue,
       ExpectingNewline, LastNewline, Number
  <2>2. Identifier4(c)
    BY <1>0, <1>5 DEF consume4, Method4, Uri4, Identifier4, Major4, Minor4, Headers4, Name4,
       Space4, Value4, Newline4, ContentLength4, Content4
  <2> QED
    BY <1>0, <1>5, <2>1, <2>2 DEF HttpVersion, Identifier4, Push, Go, Answer, Expect, Number,
       Yield, Resume, Append4, Return4, Fail4, Expect4, is_char, is_ctl, is_tspecial, is_digit,
       is_token, Char,
       RequestInv, Together, InContent, RefusedBefore, SamePlace, HeaderState, HeaderPoint,
       ServerAcceptsMore, OnlyKnownDifferences, HeaderBeforeText, AcceptedIsComplete
<1>6. CASE coro = "t_2" /\ state_ = "http_version_t_2"
  <2>1. HttpVersion(c)
    BY <1>0, <1>6 DEF consume, MethodStart, Method, Uri, HttpVersion, Major, Minor,
       HeaderLineStart, HeaderLws, HeaderName, SpaceBeforeHeaderValue, HeaderValue,
       ExpectingNewline, LastNewline, Number
  <2>2. Identifier4(c)
    BY <1>0, <1>6 DEF consume4, Method4, Uri4, Identifier4, Major4, Minor4, Headers4, Name4,
       Space4, Value4, Newline4, ContentLength4, Content4
  <2> QED
    BY <1>0, <1>6, <2>1, <2>2 DEF HttpVersion, Identifier4, Push, Go, Answer, Expect, Number,
       Yield, Resume, Append4, Return4, Fail4, Expect4, is_char, is_ctl, is_tspecial, is_digit,
       is_token, Char,
       RequestInv, Together, InContent, RefusedBefore, SamePlace, HeaderState, HeaderPoint,
       ServerAcceptsMore, OnlyKnownDifferences, HeaderBeforeText, AcceptedIsComplete
<1>7. CASE coro = "p" /\ state_ = "http_version_p"
  <2>1. HttpVersion(c)
    BY <1>0, <1>7 DEF consume, MethodStart, Method, Uri, HttpVersion, Major, Minor,
       HeaderLineStart, HeaderLws, HeaderName, SpaceBeforeHeaderValue, HeaderValue,
       ExpectingNewline, LastNewline, Number
  <2>2. Identifier4(c)
    BY <1>0, <1>7 DEF consume4, Method4, Uri4, Identifier4, Major4, Minor4, Headers4, Name4,
       Space4, Value4, Newline4, ContentLength4, Content4
  <2> QED
    BY <1>0, <1>7, <2>1, <2>2 DEF HttpVersion, Identifier4, Push, Go, Answer, Expect, Number,
       Yield, Resume, Append4, Return4, Fail4, Expect4, is_char, is_ctl, is_tspecial, is_digit,
       is_token, Char,
       RequestInv, Together, InContent, RefusedBefore, SamePlace, HeaderState, HeaderPoint,
       ServerAcceptsMore, OnlyKnownDifferences, HeaderBeforeText, AcceptedIsComplete
<1>8. CASE coro = "slash" /\ state_ = "http_version_slash"
  <2>1. HttpVersion(c)
    BY <1>0, <1>8 DEF consume, MethodStart, Method, Uri, HttpVersion, Major, Minor,
       HeaderLineStart, HeaderLws, HeaderName, SpaceBeforeHeaderValue, HeaderValue,
       ExpectingNewline, LastNewline, Number
  <2>2. Identifier4(c)
    BY <1>0, <1>8 DEF consume4, Method4, Uri4, Identifier4, Major4, Minor4, Headers4, Name4,
       Space4, Value4, Newline4, ContentLength4, Content4
  <2> QED
    BY <1>0, <1>8, <2>1, <2>2 DEF HttpVersion, Identifier4, Push, Go, Answer, Expect, Number,
       Yield, Resume, Append4, Return4, Fail4, Expect4, is_char, is_ctl, is_tspecial, is_digit,
       is_token, Char,
       RequestInv, Together, InContent, RefusedBefore, SamePlace, HeaderState, HeaderPoint,
       ServerAcceptsMore, OnlyKnownDifferences, HeaderBeforeText, AcceptedIsComplete
<1>9. CASE coro = "major_start" /\ state_ = "http_version_major_start"
  <2>1. Major(c)
    BY <1>0, <1>9 DEF consume, MethodStart, Method, Uri, HttpVersion, Major, Minor,
       HeaderLineStart, HeaderLws, HeaderName, SpaceBeforeHeaderValue, HeaderValue,
       ExpectingNewline, LastNewline, Number
  <2>2. Major4(c)
    BY <1>0, <1>9 DEF consume4, Method4, Uri4, Identifier4, Major4, Minor4, Headers4, Name4,
       Space4, Value4, Newline4, ContentLength4, Content4
  <2> QED
    BY <1>0, <1>9, <2>1, <2>2 DEF Major, Major4, Push, Go, Answer, Expect, Number, Yield,
       Resume, Append4, Return4, Fail4, Expect4, is_char, is_ctl, is_tspecial, is_digit,
       is_token, Char,
       RequestInv, Together, InContent, RefusedBefore, SamePlace, HeaderState, HeaderPoint,
       ServerAcceptsMore, OnlyKnownDifferences, HeaderBeforeText, AcceptedIsComplete
<1>10. CASE coro = "major" /\ state_ = "http_version_major"
  <2>1. Major(c)
    BY <1>0, <1>10 DEF consume, MethodStart, Method, Uri, HttpVersion, Major, Minor,
       HeaderLineStart, HeaderLws, HeaderName, SpaceBeforeHeaderValue, HeaderValue,
       ExpectingNewline, LastNewline, Number
  <2>2. Major4(c)
    BY <1>0, <1>10 DEF consume4, Method4, Uri4, Identifier4, Major4, Minor4, Headers4,
       Name4, Space4, Value4, Newline4, ContentLength4, Content4
  <2> QED
    BY <1>0, <1>10, <2>1, <2>2 DEF Major, Major4, Push, Go, Answer, Expect, Number, Yield,
       Resume, Append4, Return4, Fail4, Expect4, is_char, is_ctl, is_tspecial, is_digit,
       is_token, Char,
       RequestInv, Together, InContent, RefusedBefore, SamePlace, HeaderState, HeaderPoint,
       ServerAcceptsMore, OnlyKnownDifferences, HeaderBeforeText, AcceptedIsComplete
<1>11. CASE coro = "minor_start" /\ state_ = "http_version_minor_start"
  <2>1. Minor(c)
    BY <1>0, <1>11 DEF consume, MethodStart, Method, Uri, HttpVersion, Major, Minor,
       HeaderLineStart, HeaderLws, HeaderName, SpaceBeforeHeaderValue, HeaderValue,
       ExpectingNewline, LastNewline, Number
  <2>2. Minor4(c)
    BY <1>0, <1>11 DEF consume4, Method4, Uri4, Identifier4, Major4, Minor4, Headers4,
       Name4, Space4, Value4, Newline4, ContentLength4, Content4
  <2> QED
    BY <1>0, <1>11, <2>1, <2>2 DEF Minor, Minor4, Push, Go, Answer, Expect, Number, Yield,
       Resume, Append4, Return4, Fail4, Expect4, is_char, is_ctl, is_tspecial, is_digit,
       is_token, Char,
       RequestInv, Together, InContent, RefusedBefore, SamePlace, HeaderState, HeaderPoint,
       ServerAcceptsMore, OnlyKnownDifferences, HeaderBeforeText, AcceptedIsComplete
<1>12. CASE coro = "minor" /\ state_ = "http_version_minor"
  <2>1. Minor(c)
    BY <1>0, <1>12 DEF consume, MethodStart, Method, Uri, HttpVersion, Major, Minor,
       HeaderLineStart, HeaderLws, HeaderName, SpaceBeforeHeaderValue, HeaderValue,
       ExpectingNewline, LastNewline, Number
  <2>2. Minor4(c)
    BY <1>0, <1>12 DEF consume4, Method4, Uri4, Identifier4, Major4, Minor4, Headers4,
       Name4, Space4, Value4, Newline4, ContentLength4, Content4
  <2> QED
    BY <1>0, <1>12, <2>1, <2>2 DEF Minor, Minor4, Push, Go, Answer, Expect, Number, Yield,
       Resume, Append4, Return4, Fail4, Expect4, is_char, is_ctl, is_tspecial, is_digit,
       is_token, Char,
       RequestInv, Together, InContent, RefusedBefore, SamePlace, HeaderState, HeaderPoint,
       ServerAcceptsMore, OnlyKnownDifferences, HeaderBeforeText, AcceptedIsComplete
<1>13. CASE coro = "newline_1" /\ state_ = "expecting_newline_1"
  <2>1. ExpectingNewline(c)
    BY <1>0, <1>13 DEF consume, MethodStart, Method, Uri, HttpVersion, Major, Minor,
       HeaderLineStart, HeaderLws, HeaderName, SpaceBeforeHeaderValue, HeaderValue,
       ExpectingNewline, LastNewline, Number
  <2>2. Newline4(c)
    BY <1>0, <1>13 DEF consume4, Method4, Uri4, Identifier4, Major4, Minor4, Headers4,
       Name4, Space4, Value4, Newline4, ContentLength4, Content4
  <2> QED
    BY <1>0, <1>13, <2>1, <2>2 DEF ExpectingNewline, Newline4, Push, Go, Answer, Expect,
       Number, Yield, Resume, Append4, Return4, Fail4, Expect4, is_char, is_ctl, is_tspecial,
       is_digit, is_token, Char,
       RequestInv, Together, InContent, RefusedBefore, SamePlace, HeaderState, HeaderPoint,
       ServerAcceptsMore, OnlyKnownDifferences, HeaderBeforeText, AcceptedIsComplete
<1>14. CASE coro = "headers" /\ state_ = "header_line_start"
  <2>1. HeaderLineStart(c)
    BY <1>0, <1>14 DEF consume, MethodStart, Method, Uri, HttpVersion, Major, Minor,
       HeaderLineStart, HeaderLws, HeaderName, SpaceBeforeHeaderValue, HeaderValue,
       ExpectingNewline, LastNewline, Number
  <2>2. Headers4(c)
    BY <1>0, <1>14 DEF consume4, Method4, Uri4, Identifier4, Major4, Minor4, Headers4,
       Name4, Space4, Value4, Newline4, ContentLength4, Content4
  <2> QED
    BY <1>0, <1>14, <2>1, <2>2 DEF HeaderLineStart, Headers4, Push, Go, Answer, Expect,
       Number, Yield, Resume, Append4, Return4, Fail4, Expect4, is_char, is_ctl, is_tspecial,
       is_digit, is_token, Char,
       RequestInv, Together, InContent, RefusedBefore, SamePlace, HeaderState, HeaderPoint,
       ServerAcceptsMore, OnlyKnownDifferences, HeaderBeforeText, AcceptedIsComplete
<1>15. CASE coro = "name" /\ state_ = "header_name"
  <2>1. HeaderName(c)
    BY <1>0, <1>15 DEF consume, MethodStart, Method, Uri, HttpVersion, Major, Minor,
       HeaderLineStart, HeaderLws, HeaderName, SpaceBeforeHeaderValue, HeaderValue,
       ExpectingNewline, LastNewline, Number
  <2>2. Name4(c)
    BY <1>0, <1>15 DEF consume4, Method4, Uri4, Identifier4, Major4, Minor4, Headers4,
       Name4, Space4, Value4, Newline4, ContentLength4, Content4
  <2> QED
    BY <1>0, <1>15, <2>1, <2>2 DEF HeaderName, Name4, Push, Go, Answer, Expect, Number, Yield,
       Resume, Append4, Return4, Fail4, Expect4, is_char, is_ctl, is_tspecial, is_digit,
       is_token, Char,
       RequestInv, Together, InContent, RefusedBefore, SamePlace, HeaderState, HeaderPoint,
       ServerAcceptsMore, OnlyKnownDifferences, HeaderBeforeText, AcceptedIsComplete
<1>16. CASE coro = "space" /\ state_ = "space_before_header_value"
  <2>1. SpaceBeforeHeaderValue(c)
    BY <1>0, <1>16 DEF consume, MethodStart, Method, Uri, HttpVersion, Major, Minor,
       HeaderLineStart, HeaderLws, HeaderName, SpaceBeforeHeaderValue, HeaderValue,
       ExpectingNewline, LastNewline, Number
  <2>2. Space4(c)
    BY <1>0, <1>16 DEF consume4, Method4, Uri4, Identifier4, Major4, Minor4, Headers4,
       Name4, Space4, Value4, Newline4, ContentLength4, Content4
  <2> QED
    BY <1>0, <1>16, <2>1, <2>2 DEF SpaceBeforeHeaderValue, Space4, Push, Go, Answer, Expect,
       Number, Yield, Resume, Append4, Return4, Fail4, Expect4, is_char, is_ctl, is_tspecial,
       is_digit, is_token, Char,
       RequestInv, Together, InContent, RefusedBefore, SamePlace, HeaderState, HeaderPoint,
       ServerAcceptsMore, OnlyKnownDifferences, HeaderBeforeText, AcceptedIsComplete
<1>17. CASE coro = "lws" /\ state_ = "header_lws"
  <2>1. HeaderLws(c)
    BY <1>0, <1>17 DEF consume, MethodStart, Method, Uri, HttpVersion, Major, Minor,
       HeaderLineStart, HeaderLws, HeaderName, SpaceBeforeHeaderValue, HeaderValue,
       ExpectingNewline, LastNewline, Number
  <2>2. Value4(c)
    BY <1>0, <1>17 DEF consume4, Method4, Uri4, Identifier4, Major4, Minor4, Headers4,
       Name4, Space4, Value4, Newline4, ContentLength4, Content4
  <2> QED
    BY <1>0, <1>17, <2>1, <2>2 DEF HeaderLws, Value4, Push, Go, Answer, Expect, Number, Yield,
       Resume, Append4, Return4, Fail4, Expect4, is_char, is_ctl, is_tspecial, is_digit,
       is_token, Char,
       RequestInv, Together, InContent, RefusedBefore, SamePlace, HeaderState, HeaderPoint,
       ServerAcceptsMore, OnlyKnownDifferences, HeaderBeforeText, AcceptedIsComplete
<1>18. CASE coro = "value" /\ state_ = "header_value"
  <2>1. HeaderValue(c)
    BY <1>0, <1>18 DEF consume, MethodStart, Method, Uri, HttpVersion, Major, Minor,
       HeaderLineStart, HeaderLws, HeaderName, SpaceBeforeHeaderValue, HeaderValue,
       ExpectingNewline, LastNewline, Number
  <2>2. Value4(c)
    BY <1>0, <1>18 DEF consume4, Method4, Uri4, Identifier4, Major4, Minor4, Headers4,
       Name4, Space4, Value4, Newline4, ContentLength4, Content4
  <2> QED
    BY <1>0, <1>18, <2>1, <2>2 DEF HeaderValue, Value4, Push, Go, Answer, Expect, Number,
       Yield, Resume, Append4, Return4, Fail4, Expect4, is_char, is_ctl, is_tspecial, is_digit,
       is_token, Char,
       RequestInv, Together, InContent, RefusedBefore, SamePlace, HeaderState, HeaderPoint,
       ServerAcceptsMore, OnlyKnownDifferences, HeaderBeforeText, AcceptedIsComplete
<1>19. CASE coro = "newline_2" /\ state_ = "expecting_newline_2"
  <2>1. ExpectingNewline(c)
    BY <1>0, <1>19 DEF consume, MethodStart, Method, Uri, HttpVersion, Major, Minor,
       HeaderLineStart, HeaderLws, HeaderName, SpaceBeforeHeaderValue, HeaderValue,
       ExpectingNewline, LastNewline, Number
  <2>2. Newline4(c)
    BY <1>0, <1>19 DEF consume4, Method4, Uri4, Identifier4, Major4, Minor4, Headers4,
       Name4, Space4, Value4, Newline4, ContentLength4, Content4
  <2> QED
    BY <1>0, <1>19, <2>1, <2>2 DEF ExpectingNewline, Newline4, Push, Go, Answer, Expect,
       Number, Yield, Resume, Append4, Return4, Fail4, Expect4, is_char, is_ctl, is_tspecial,
       is_digit, is_token, Char,
       RequestInv, Together, InContent, RefusedBefore, SamePlace, HeaderState, HeaderPoint,
       ServerAcceptsMore, OnlyKnownDifferences, HeaderBeforeText, AcceptedIsComplete
<1>20. CASE coro = "newline_3" /\ state_ = "expecting_newline_3"
  <2>1. LastNewline(c)
    BY <1>0, <1>20 DEF consume, MethodStart, Method, Uri, HttpVersion, Major, Minor,
       HeaderLineStart, HeaderLws, HeaderName, SpaceBeforeHeaderValue, HeaderValue,
       ExpectingNewline, LastNewline, Number
  <2>2. ContentLength4(c)
    BY <1>0, <1>20 DEF consume4, Method4, Uri4, Identifier4, Major4, Minor4, Headers4,
       Name4, Space4, Value4, Newline4, ContentLength4, Content4
  <2>3. CASE result' = "false"
    BY <1>0, <1>20, <2>1, <2>2, <2>3 DEF LastNewline, ContentLength4, Push, Go, Answer,
       Expect, Number, Yield, Resume, Append4, Return4, Fail4, Expect4,
       RequestInv, Together, InContent, RefusedBefore, SamePlace, HeaderState, HeaderPoint,
       ServerAcceptsMore, OnlyKnownDifferences, HeaderBeforeText, AcceptedIsComplete
  <2>4. CASE result' = "true"
    <3>1. c = "LF" /\ effect' = "none" /\ UNCHANGED <<state_, uri, headers>>
      BY <2>1, <2>4 DEF LastNewline, Answer
    <3>2. seen' = seen
      BY <1>0, <3>1 DEF RequestInv
    <3>3. CASE Return4("false", "bad Content-Length") /\ UNCHANGED content
      BY <1>0, <1>20, <2>4, <3>1, <3>2, <3>3 DEF Return4, RequestInv, Together, InContent,
         RefusedBefore, SamePlace, HeaderState, HeaderPoint, ServerAcceptsMore,
         OnlyKnownDifferences, HeaderBeforeText, AcceptedIsComplete
    <3>4. CASE content' = 0 /\ Return4("true", "none")
      BY <1>0, <1>20, <2>4, <3>1, <3>2, <3>4 DEF Return4, RequestInv, Together, InContent,
         RefusedBefore, SamePlace, HeaderState, HeaderPoint, ServerAcceptsMore,
         OnlyKnownDifferences, HeaderBeforeText, AcceptedIsComplete
    <3>5. CASE content' \in 1..MaxContent /\ Yield("content", "none") /\ UNCHANGED <<uri4, headers4>>
      BY <1>0, <1>20, <2>4, <3>1, <3>2, <3>5 DEF Yield, RequestInv, Together, InContent,
         RefusedBefore, SamePlace, HeaderState, HeaderPoint, ServerAcceptsMore,
         OnlyKnownDifferences, HeaderBeforeText, AcceptedIsComplete
    <3> QED
      BY <2>2, <3>1, <3>3, <3>4, <3>5 DEF ContentLength4
  <2> QED
    BY <2>1, <2>3, <2>4 DEF LastNewline, Answer
<1> QED
  BY <1>0, <1>1, <1>2, <1>3, <1>4, <1>5, <1>6, <1>7, <1>8, <1>9, <1>10, <1>11, <1>12, <1>13,
     <1>14, <1>15, <1>16, <1>17, <1>18, <1>19, <1>20 DEF Together, SamePlace

\* http/server4 reads a character of the content.
LEMMA ContentStep ==
  ASSUME RequestInv, NEW c \in Char, Feed(c),
         result /= "indeterminate", result4 = "indeterminate"
  PROVE  RequestInv'
<1>1. /\ InContent /\ UNCHANGED server /\ consume4(c)
      /\ seen' = (seen \/ (c = "non-ASCII" /\ effect' = "value"))
  BY DEF RequestInv, Feed, parse, parse4
<1>2. Content4(c)
  BY <1>1 DEF consume4, InContent, Method4, Uri4, Identifier4, Major4, Minor4, Headers4,
     Name4, Space4, Value4, Newline4, ContentLength4, Content4
<1>3. /\ UNCHANGED <<state_, result, effect, uri, headers>> /\ result = "true" /\ uri4
      /\ content \in 1..MaxContent /\ content' = content - 1
  BY <1>1, <1>2 DEF server, InContent, Content4
<1>4. seen' \in BOOLEAN /\ UNCHANGED <<uri4, headers4>>
  BY <1>1, <1>2 DEF RequestInv, Content4, Return4
<1>5. content' \in Nat /\ (content = 1 => content' = 0) /\ (content /= 1 => content' \in 1..MaxContent)
  BY <1>3, MaxContentIsNat
<1>6. CASE content = 1
  BY <1>2, <1>3, <1>4, <1>5, <1>6 DEF Content4, Return4,
     RequestInv, Together, InContent, RefusedBefore, SamePlace, HeaderState, HeaderPoint,
     ServerAcceptsMore, OnlyKnownDifferences, HeaderBeforeText, AcceptedIsComplete
<1>7. CASE content /= 1
  BY <1>2, <1>3, <1>4, <1>5, <1>7 DEF Content4, Yield,
     RequestInv, Together, InContent, RefusedBefore, SamePlace, HeaderState, HeaderPoint,
     ServerAcceptsMore, OnlyKnownDifferences, HeaderBeforeText, AcceptedIsComplete
<1> QED
  BY <1>6, <1>7

\* http/server goes on alone after http/server4 has refused the request: it
\* never comes back to the URI.
LEMMA AloneStep ==
  ASSUME RequestInv, NEW c \in Char, Feed(c),
         result = "indeterminate", result4 /= "indeterminate"
  PROVE  RequestInv'
<1>1. /\ RefusedBefore /\ UNCHANGED server4 /\ consume(c)
      /\ seen' = (seen \/ (c = "non-ASCII" /\ effect' = "value"))
  BY DEF RequestInv, Feed, parse, parse4
<1>2. CASE MethodStart(c)
  BY <1>1, <1>2 DEF MethodStart, Push, Go, Answer, Expect, Number, server4,
     RequestInv, Together, InContent, RefusedBefore, SamePlace, HeaderState, HeaderPoint,
     ServerAcceptsMore, OnlyKnownDifferences, HeaderBeforeText, AcceptedIsComplete
<1>3. CASE Method(c)
  BY <1>1, <1>3 DEF Method, Push, Go, Answer, Expect, Number, server4,
     RequestInv, Together, InContent, RefusedBefore, SamePlace, HeaderState, HeaderPoint,
     ServerAcceptsMore, OnlyKnownDifferences, HeaderBeforeText, AcceptedIsComplete
<1>4. CASE Uri(c)
  BY <1>1, <1>4 DEF Uri, Push, Go, Answer, Expect, Number, server4,
     RequestInv, Together, InContent, RefusedBefore, SamePlace, HeaderState, HeaderPoint,
     ServerAcceptsMore, OnlyKnownDifferences, HeaderBeforeText, AcceptedIsComplete
<1>5. CASE HttpVersion(c)
  BY <1>1, <1>5 DEF HttpVersion, Push, Go, Answer, Expect, Number, server4,
     RequestInv, Together, InContent, RefusedBefore, SamePlace, HeaderState, HeaderPoint,
     ServerAcceptsMore, OnlyKnownDifferences, HeaderBeforeText, AcceptedIsComplete
<1>6. CASE Major(c)
  BY <1>1, <1>6 DEF Major, Push, Go, Answer, Expect, Number, server4,
     RequestInv, Together, InContent, RefusedBefore, SamePlace, HeaderState, HeaderPoint,
     ServerAcceptsMore, OnlyKnownDifferences, HeaderBeforeText, AcceptedIsComplete
<1>7. CASE Minor(c)
  BY <1>1, <1>7 DEF Minor, Push, Go, Answer, Expect, Number, server4,
     RequestInv, Together, InContent, RefusedBefore, SamePlace, HeaderState, HeaderPoint,
     ServerAcceptsMore, OnlyKnownDifferences, HeaderBeforeText, AcceptedIsComplete
<1>8. CASE HeaderLineStart(c)
  BY <1>1, <1>8 DEF HeaderLineStart, Push, Go, Answer, Expect, Number, server4,
     RequestInv, Together, InContent, RefusedBefore, SamePlace, HeaderState, HeaderPoint,
     ServerAcceptsMore, OnlyKnownDifferences, HeaderBeforeText, AcceptedIsComplete
<1>9. CASE HeaderLws(c)
  BY <1>1, <1>9 DEF HeaderLws, Push, Go, Answer, Expect, Number, server4,
     RequestInv, Together, InContent, RefusedBefore, SamePlace, HeaderState, HeaderPoint,
     ServerAcceptsMore, OnlyKnownDifferences, HeaderBeforeText, AcceptedIsComplete
<1>10. CASE HeaderName(c)
  BY <1>1, <1>10 DEF HeaderName, Push, Go, Answer, Expect, Number, server4,
     RequestInv, Together, InContent, RefusedBefore, SamePlace, HeaderState, HeaderPoint,
     ServerAcceptsMore, OnlyKnownDifferences, HeaderBeforeText, AcceptedIsComplete
<1>11. CASE SpaceBeforeHeaderValue(c)
  BY <1>1, <1>11 DEF SpaceBeforeHeaderValue, Push, Go, Answer, Expect, Number, server4,
     RequestInv, Together, InContent, RefusedBefore, SamePlace, HeaderState, HeaderPoint,
     ServerAcceptsMore, OnlyKnownDifferences, HeaderBeforeText, AcceptedIsComplete
<1>12. CASE HeaderValue(c)
  BY <1>1, <1>12 DEF HeaderValue, Push, Go, Answer, Expect, Number, server4,
     RequestInv, Together, InContent, RefusedBefore, SamePlace, HeaderState, HeaderPoint,
     ServerAcceptsMore, OnlyKnownDifferences, HeaderBeforeText, AcceptedIsComplete
<1>13. CASE ExpectingNewline(c)
  BY <1>1, <1>13 DEF ExpectingNewline, Push, Go, Answer, Expect, Number, server4,
     RequestInv, Together, InContent, RefusedBefore, SamePlace, HeaderState, HeaderPoint,
     ServerAcceptsMore, OnlyKnownDifferences, HeaderBeforeText, AcceptedIsComplete
<1>14. CASE LastNewline(c)
  BY <1>1, <1>14 DEF LastNewline, Push, Go, Answer, Expect, Number, server4,
     RequestInv, Together, InContent, RefusedBefore, SamePlace, HeaderState, HeaderPoint,
     ServerAcceptsMore, OnlyKnownDifferences, HeaderBeforeText, AcceptedIsComplete
<1> QED
  BY <1>1, <1>2, <1>3, <1>4, <1>5, <1>6, <1>7, <1>8, <1>9, <1>10, <1>11, <1>12, <1>13, <1>14
     DEF consume

\* The two parsers stand to each other as RequestInv says after every character.
THEOREM ParsersCorrespond == RequestSpec => []RequestInv
<1>1. RequestInv /\ [RequestNext]_parserVars => RequestInv'
  <2>1. ASSUME RequestInv, NEW c \in Char, Feed(c)
        PROVE  RequestInv'
    <3>1. result = "indeterminate" \/ result4 = "indeterminate"
      BY <2>1 DEF Feed
    <3> QED
      BY <2>1, <3>1, BothStep, ContentStep, AloneStep
  <2>2. ASSUME RequestInv, UNCHANGED parserVars
        PROVE  RequestInv'
    <3>1. /\ UNCHANGED <<state_, result, effect, uri, headers>>
          /\ UNCHANGED <<coro, result4, effect4, uri4, headers4, content, seen>>
      BY <2>2 DEF parserVars, server, server4
    <3>2. Together' <=> Together
      BY <3>1 DEF Together, SamePlace
    <3>3. (InContent' <=> InContent) /\ (RefusedBefore' <=> RefusedBefore)
      BY <3>1 DEF InContent, RefusedBefore
    <3> QED
      BY <2>2, <3>1, <3>2, <3>3 DEF RequestInv, HeaderState, HeaderPoint, ServerAcceptsMore,
         OnlyKnownDifferences, HeaderBeforeText, AcceptedIsComplete
  <2> QED
    BY <2>1, <2>2 DEF RequestNext
<1> QED
  BY <1>1, RequestStart, PTL DEF RequestSpec

\* As long as both parsers ask for more, they have appended every character to
\* the same field.
THEOREM ParsersSameRequest == RequestSpec => []SameRequest
<1>1. RequestInv => SameRequest
  BY DEF RequestInv, Together, SameRequest
<1> QED
  BY <1>1, ParsersCorrespond, PTL

\* What http/server4 accepts, http/server accepts; the only requests they judge
\* otherwise are the known ones.
THEOREM ParsersDiffer == RequestSpec => [](ServerAcceptsMore /\ OnlyKnownDifferences)
<1>1. RequestInv => ServerAcceptsMore /\ OnlyKnownDifferences
  BY DEF RequestInv
<1> QED
  BY <1>1, ParsersCorrespond, PTL

\* Neither parser calls headers.back() on an empty vector, and a request that
\* http/server4 hands on has a URI and its whole content.
THEOREM ParsersSafe == RequestSpec => [](HeaderBeforeText /\ AcceptedIsComplete)
<1>1. RequestInv => HeaderBeforeText /\ AcceptedIsComplete
  BY DEF RequestInv
<1> QED
  BY <1>1, ParsersCorrespond, PTL

=============================================================================
