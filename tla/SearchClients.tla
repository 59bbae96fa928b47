--------------------------- MODULE SearchClients ---------------------------
(***************************************************************************)
(* The two clients of the search: the page in the browser and the console  *)
(* program searcher_test.  They share no state; each has its Init and its  *)
(* Next.                                                                   *)
(***************************************************************************)
EXTENDS Naturals, Sequences
LOCAL INSTANCE SequencesExt

CONSTANTS
  Queries,     \* what may be typed
  Hits,        \* results an answer may hold
  MaxCalls,    \* bound: presses of the button
  MaxInput     \* bound: characters of the console's input

VARIABLES
  answer,      \* what the server answers to each query: a sequence, or null
  field,       \* the text in the input field
  asked,       \* the calls in the order they were started: the query of each,
               \* and which others were pending when it was started
  pending,     \* the calls without an answer
  delivered,   \* the calls whose answer came
  infos,       \* the data of the page
  content      \* the elements of .content

pageVars == <<answer, field, asked, pending, delivered, infos, content>>

VARIABLES
  input,       \* letters and blanks; letters are numbered, so that each word
               \* is told from every other
  at,          \* the next character to read
  answered,    \* the words searched for
  phase        \* "start", "prompt", "goodbye", "failed"

consoleVars == <<input, at, answered, phase>>

-----------------------------------------------------------------------------
(* The page: each press of the button starts an ajax call for what is in   *)
(* the field at that moment; the browser delivers the answers in any       *)
(* order, and a call that fails has no handler.                            *)

null == <<"null">>

Type ==
  /\ \E q \in Queries : field' = q
  /\ UNCHANGED <<answer, asked, pending, delivered, infos, content>>

\* Mutant: the items are added to the ones that are there.
BuildMore(data) == content \o (IF data = null THEN <<"404 Not Found">> ELSE data)

\* Mutant: without result.empty() on the way to the early return.
BuildBelow(data) == IF data = null THEN Append(content, "404 Not Found") ELSE data

\* result.empty(), then a heading or one element for each result.
buildContent(data) == IF data = null THEN <<"404 Not Found">> ELSE data

\* Mutant: the query is that of the latest call.
LatestQuery(c) == Last(asked).query

\* The query in the url of the call, read when the button was pressed.
QueryOf(c) == asked[c].query

search ==
  /\ Len(asked) < MaxCalls
  /\ asked' = Append(asked, [query |-> field, beside |-> pending])
  /\ pending' = pending \union {Len(asked) + 1}
  /\ UNCHANGED <<answer, field, delivered, infos, content>>

success ==
  \E c \in pending :
    /\ infos' = answer[QueryOf(c)]
    /\ content' = buildContent(answer[QueryOf(c)])
    /\ delivered' = delivered \union {c}
    /\ pending' = pending \ {c}
    /\ UNCHANGED <<answer, field, asked>>

CallFails ==
  \E c \in pending :
    pending' = pending \ {c}
    /\ UNCHANGED <<answer, field, asked, delivered, infos, content>>

Answers == {null} \union UNION {[1..n -> Hits] : n \in 1..2}

\* The page as it is loaded, before a server with any of the given answers.
PageInit(answers, fields) ==
  /\ answer \in [Queries -> answers] /\ field \in fields
  /\ asked = <<>> /\ pending = {} /\ delivered = {} /\ infos = <<>> /\ content = <<>>

PageNext == Type \/ search \/ success \/ CallFails

\* The elements a result page for the query of call c has.
PageOf(c) ==
  LET data == answer[asked[c].query]
  IN IF data = null THEN <<"404 Not Found">> ELSE data

\* A stale answer is shown only when calls overlapped.  Of the calls answered so
\* far the page shows the newest, or one that was still pending when the newest
\* was started and was overtaken by it; so a user who waits for each answer
\* sees the one to what was asked last, whatever was typed, asked in vain or
\* not found meanwhile.
StaleOnlyIfOverlapping ==
  \A c \in delivered :
    (\A d \in delivered : d <= c) =>
      \E shown \in ({c} \union asked[c].beside) \intersect delivered : content = PageOf(shown)

-----------------------------------------------------------------------------
(* searcher_test reads queries from the standard input, word by word, and  *)
(* searches for each.  The input ends somewhere.                           *)

Blank == 0

\* The characters i to j are one word, with no letter on either side.
WordAt(i, j) ==
  /\ \A k \in i..j : input[k] /= Blank
  /\ i > 1 => input[i - 1] = Blank
  /\ j < Len(input) => input[j + 1] = Blank

\* Init failed: the program ends with 1 before the first prompt.
StartUp ==
  /\ phase = "start" /\ phase' \in {"prompt", "failed"}
  /\ UNCHANGED <<input, at, answered>>

\* Mutant: end of file is met only when no word was read.
GoodIfRead(j) == TRUE

\* cin.good() after the extraction of a word that ends at j: the extraction has
\* to read a character past the word to see its end.
Good(j) == j < Len(input)

\* Mutant: the state of cin is not looked at when nothing was read.
PromptAgain == "prompt"

AtEnd == "goodbye"

\* One turn of the loop: a word is read and searched for, or "goodbye".
Turn ==
  /\ phase = "prompt"
  /\ \/ \E i, j \in at..Len(input) :
          /\ i <= j /\ WordAt(i, j) /\ \A k \in at..(i - 1) : input[k] = Blank
          /\ IF Good(j)
             THEN answered' = Append(answered, SubSeq(input, i, j)) /\ UNCHANGED phase
             ELSE phase' = "goodbye" /\ UNCHANGED answered
          /\ at' = j + 1
     \/ /\ \A k \in at..Len(input) : input[k] = Blank
        /\ phase' = AtEnd /\ UNCHANGED <<at, answered>>
  /\ UNCHANGED input

Numbered(s) == [i \in DOMAIN s |-> IF s[i] THEN i ELSE Blank]

Texts == {Numbered(s) : s \in UNION {[1..n -> BOOLEAN] : n \in 0..MaxInput}}

ConsoleInit(inputs) ==
  /\ input \in inputs
  /\ at = 1 /\ answered = <<>> /\ phase = "start"

ConsoleNext == StartUp \/ Turn

\* The words of the input that a blank or a line end follows.
Finished == {w \in (1..Len(input)) \X (1..Len(input)) :
               w[1] <= w[2] /\ w[2] < Len(input) /\ WordAt(w[1], w[2])}

\* When the client says goodbye it has answered exactly the words of the input
\* that something follows, each once: a last word that ends with the input is
\* read and not searched for.
AnsweredFinished ==
  phase = "goodbye" =>
    /\ ToSet(answered) = {SubSeq(input, w[1], w[2]) : w \in Finished}
    /\ IsInjective(answered)

\* The client comes to its end with its input.
ConsoleEnds == <>(phase \in {"goodbye", "failed"})

=============================================================================
