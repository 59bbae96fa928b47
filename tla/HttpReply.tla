------------------------------ MODULE HttpReply ------------------------------
(***************************************************************************)
(* How the Boost.Asio HTTP examples answer a request: url_decode,          *)
(* handle_request, the reading of the file and the reply.  A character is  *)
(* the class the code tells apart; the hexadecimal digits are 2, e and f,  *)
(* so that %2e is "." and %2f is "/".                                      *)
(***************************************************************************)
EXTENDS Integers, Sequences, SequencesExt

CONSTANTS
  MaxUri,     \* bound: characters of an arbitrary URI
  MaxPath,    \* bound: characters of a path that is encoded
  MaxFile,    \* bound: characters of the file
  Buf         \* sizeof(buf), 512 in the code

VARIABLES
  pc,
  uri, i,         \* the string being decoded and the index of the loop
  request_path,   \* its decoded part, later the path
  extension,
  file, pos,      \* the file (or Missing) and the position in it
  failed,         \* a read of the file has failed
  rep,
  encoded         \* the path the URI was made from, or <<"no">>

replyVars == <<pc, uri, i, request_path, extension, file, pos, failed,
               rep, encoded>>

Hex == {"2", "e", "f"}
PathChar == {"/", ".", "a", "2", " "}
UriChar == (PathChar \ {" "}) \cup {"%", "+", "-", "e", "f"}

Missing == <<0>>

BoundedSeqs(S, n) == UNION {[1..k -> S] : k \in 0..n}

Status == {200, 201, 202, 204, 300, 301, 302, 304, 400, 401, 403, 404, 500,
           501, 502, 503}

\* The status line and the stock page of a status, by the status they name
to_buffer(status) == IF status \in Status THEN status ELSE 500
to_string(status) ==
  IF status = 200 THEN <<>>
  ELSE <<IF status \in Status THEN status ELSE 500>>

stock_reply(status) ==
  [status |-> status, content |-> to_string(status),
   length |-> Len(to_string(status)), type |-> "html"]

mapped == {"gif", "htm", "html", "jpg", "png"}
extension_to_type(ext) ==
  IF \E x \in mapped : ext = <<x>> THEN Head(ext) ELSE "plain"

-----------------------------------------------------------------------------
\* What is >> std::hex >> value makes of two characters: an optional sign and
\* the hexadecimal digits up to the first other character.  No digit fails.
Extracts(a, b) == a \in Hex \/ (a \in {"+", "-"} /\ b \in Hex)

Value(a, b) ==
  CASE a = "2" /\ b = "e" -> "."
    [] a = "2" /\ b = "f" -> "/"
    [] OTHER -> "other"

Reject(status) == rep' = stock_reply(status) /\ pc' = "done"

\* Mutant: a plus is left as it is.
PlainKept(c) == c

Plain(c) == IF c = "+" THEN " " ELSE c

\* One turn of the loop of url_decode
url_decode ==
  /\ pc = "decode" /\ i <= Len(uri)
  /\ IF uri[i] /= "%"
     THEN /\ request_path' = Append(request_path, Plain(uri[i]))
          /\ i' = i + 1
          /\ UNCHANGED <<pc, rep>>
     ELSE IF i + 2 <= Len(uri) /\ Extracts(uri[i + 1], uri[i + 2])
     THEN /\ request_path' = Append(request_path, Value(uri[i + 1], uri[i + 2]))
          /\ i' = i + 3
          /\ UNCHANGED <<pc, rep>>
     ELSE Reject(400) /\ UNCHANGED <<request_path, i>>
  /\ UNCHANGED <<uri, extension, file, pos, failed, encoded>>

\* Mutant: the path is looked at as it was sent.
TwoDotsSent == \E k \in 1..(Len(uri) - 1) : uri[k] = "." /\ uri[k + 1] = "."

TwoDots ==
  \E k \in 1..(Len(request_path) - 1) :
    request_path[k] = "." /\ request_path[k + 1] = "."

\* Mutant: the extension starts after the last dot, wherever that is.
ExtensionAfterDot(path) ==
  LET dot == SelectLastInSubSeq(path, 1, Len(path), LAMBDA c : c = ".")
  IN IF dot = 0 THEN <<>> ELSE SubSeq(path, dot + 1, Len(path))

Extension(path) ==
  LET slash == SelectLastInSubSeq(path, 1, Len(path), LAMBDA c : c = "/")
      dot == SelectLastInSubSeq(path, 1, Len(path), LAMBDA c : c = ".")
  IN IF dot > slash THEN SubSeq(path, dot + 1, Len(path)) ELSE <<>>

\* handle_request from the check of the path to the opening of the file
handle_request ==
  /\ pc = "decode" /\ i > Len(uri)
  /\ IF request_path = <<>> \/ Head(request_path) /= "/" \/ TwoDots
     THEN Reject(400) /\ UNCHANGED <<request_path, extension>>
     ELSE /\ request_path' = IF Last(request_path) = "/"
                             THEN request_path \o <<"index", ".", "html">>
                             ELSE request_path
          /\ extension' = Extension(request_path')
          /\ IF file = Missing THEN Reject(404)
             ELSE pc' = "read" /\ rep' = [status |-> 200, content |-> <<>>]
  /\ UNCHANGED <<uri, i, file, pos, failed, encoded>>

\* Mutant: the loop ends at the first read that is not filled.
ReadsWhole(n) == n = Buf

ReadsSome(n) == n > 0

\* What is.read(buf, sizeof(buf)) may give: all it asks for or the rest of the
\* file, or less when reading fails (an error of the disk, a directory that
\* could be opened), and nothing after that.
Reads ==
  LET most == IF Len(file) - pos < Buf THEN Len(file) - pos ELSE Buf
  IN IF failed THEN {[n |-> 0, failed |-> TRUE]}
     ELSE {[n |-> most, failed |-> FALSE]} \cup [n : 0..(most - 1), failed : {TRUE}]

\* One is.read and, when it gave nothing, the headers
ReadChunk ==
  /\ pc = "read"
  /\ \E r \in Reads :
     /\ failed' = r.failed
     /\ IF ReadsSome(r.n)
        THEN /\ rep' = [rep EXCEPT !.content = @ \o SubSeq(file, pos + 1, pos + r.n)]
             /\ pos' = pos + r.n
             /\ UNCHANGED pc
        ELSE /\ rep' = [status |-> 200, content |-> rep.content,
                        length |-> Len(rep.content),
                        type |-> extension_to_type(extension)]
             /\ pc' = "done"
             /\ UNCHANGED pos
  /\ UNCHANGED <<uri, i, request_path, extension, file, encoded>>

\* The escapes a client writes for a path
Encode(path) ==
  FlattenSeq([k \in 1..Len(path) |->
    CASE path[k] = "." -> <<"%", "2", "e">>
      [] path[k] = "/" /\ k > 1 -> <<"%", "2", "f">>
      [] path[k] = " " -> <<"+">>
      [] OTHER -> <<path[k]>>])

Requests ==
  [uri : BoundedSeqs(UriChar, MaxUri), encoded : {<<"no">>}]
    \cup {[uri |-> Encode(path), encoded |-> path] : path \in BoundedSeqs(PathChar, MaxPath)}

Files == {Missing} \cup {[k \in 1..n |-> k] : n \in 0..MaxFile}

\* A request of the given ones arrives, for a file of the given ones.
ReplyInit(requests, files) ==
  /\ pc = "decode" /\ i = 1 /\ request_path = <<>> /\ extension = <<>>
  /\ pos = 0 /\ failed = FALSE
  /\ \E r \in requests : uri = r.uri /\ encoded = r.encoded
  /\ file \in files
  /\ rep = stock_reply(500)

ReplyNext == url_decode \/ handle_request \/ ReadChunk

ReplySpec == ReplyInit(Requests, Files) /\ [][ReplyNext]_replyVars

-----------------------------------------------------------------------------
\* "Request path must be absolute and not contain "..".": of the path whose
\* file is opened, however its dots and slashes were written.
OpenedPath ==
  pc = "read" =>
    /\ Head(request_path) = "/" /\ Last(request_path) /= "/"
    /\ \A k \in 1..(Len(request_path) - 1) :
         <<request_path[k], request_path[k + 1]>> /= <<".", ".">>

\* url_decode gives back the path that was encoded.
DecodesEncoded ==
  (pc = "decode" /\ i > Len(uri) /\ encoded /= <<"no">>) => request_path = encoded

\* The extension that chooses the type is what follows the last dot of the
\* last component of the path.
ExtensionOfName ==
  pc = "read" =>
    /\ ~Contains(extension, "/") /\ ~Contains(extension, ".")
    /\ extension /= <<>> => IsSuffix(<<".">> \o extension, request_path)

\* A reply says how long its content is.  When the file could be opened the
\* content is a beginning of the file, whole and to its last byte unless a
\* read failed (which nothing in the reply tells); otherwise it is the stock
\* page of the status.
ReplyConsistent ==
  pc = "done" =>
    /\ rep.length = Len(rep.content)
    /\ rep.status \in {200, 400, 404}
    /\ IF rep.status = 200
       THEN IsPrefix(rep.content, file) /\ (failed \/ rep.content = file)
       ELSE rep.content = <<to_buffer(rep.status)>>

=============================================================================
