--------------------------- MODULE SearchService ---------------------------
(***************************************************************************)
(* What the search server promises to its clients, without an inverted     *)
(* index: a fixed list of documents, and for each query an answer that is  *)
(* determined by the documents up to the order of equally good results.    *)
(***************************************************************************)
EXTENDS Naturals, Sequences, FiniteSets

CONSTANTS
  Client,            \* those who may ask
  Doc,               \* the documents there may be
  Request,           \* what may be asked: queries, and NoParam
  Tokens(_),         \* the words of a query
  WeightOf(_, _),    \* the weight of a word in a document
  ResultOf(_, _),    \* what is shown of a document found by a word
  NoParam,           \* a request without a query
  BadRequest,        \* the answer to it
  NotFound           \* the answer when no document has a word of the query

VARIABLES
  up,       \* the server answers
  docs,     \* the documents it serves
  asked     \* what each client has asked and been answered

vars == <<up, docs, asked>>

Idle == [phase |-> "idle", request |-> NoParam, answer |-> NotFound]

-----------------------------------------------------------------------------
\* Every pair of a word of the query, by its place, and a document that has
\* the word is a hit.
Hits(query) ==
  {h \in (1..Len(Tokens(query))) \X (1..Len(docs)) :
     WeightOf(docs[h[2]], Tokens(query)[h[1]]) > 0}

HitWeight(query, h) == WeightOf(docs[h[2]], Tokens(query)[h[1]])

HitResult(query, h) == ResultOf(docs[h[2]], Tokens(query)[h[1]])

\* The places of an answer that belong to the hits of weight w, when better
\* hits come first.
Places(query, w) ==
  {k \in 1..Cardinality(Hits(query)) :
     /\ k > Cardinality({h \in Hits(query) : HitWeight(query, h) > w})
     /\ k <= Cardinality({h \in Hits(query) : HitWeight(query, h) >= w})}

\* An answer has one result for each hit, better hits first.
Answers(query, answer) ==
  IF Hits(query) = {}
    THEN answer = NotFound
    ELSE /\ answer # NotFound
         /\ Len(answer) = Cardinality(Hits(query))
         /\ \A h \in Hits(query) :
              LET w == HitWeight(query, h)
                  r == HitResult(query, h)
              IN  Cardinality({k \in Places(query, w) : answer[k] = r})
                    = Cardinality({g \in Hits(query) : /\ HitWeight(query, g) = w
                                                       /\ HitResult(query, g) = r})

-----------------------------------------------------------------------------
Init ==
  /\ up = FALSE
  /\ docs = <<>>
  /\ asked = [c \in Client |-> Idle]

\* The server comes up, once, with the documents it has found.
Start ==
  /\ ~up /\ docs = <<>>
  /\ up' = TRUE
  /\ docs' \in Seq(Doc)
  /\ UNCHANGED asked

Ask(c) ==
  /\ up
  /\ asked[c].phase = "idle"
  /\ \E request \in Request :
       asked' = [asked EXCEPT ![c] = [phase |-> "asked", request |-> request,
                                      answer |-> NotFound]]
  /\ UNCHANGED <<up, docs>>

Answer(c) ==
  LET request == asked[c].request
      answer  == asked'[c].answer
  IN  /\ asked[c].phase = "asked"
      /\ IF request = NoParam THEN answer = BadRequest
                              ELSE Answers(request, answer)
      /\ asked' = [asked EXCEPT ![c] = [phase |-> "answered", request |-> request,
                                        answer |-> answer]]
      /\ UNCHANGED <<up, docs>>

Leave(c) ==
  /\ asked[c].phase = "answered"
  /\ asked' = [asked EXCEPT ![c] = Idle]
  /\ UNCHANGED <<up, docs>>

Next ==
  \/ Start
  \/ \E c \in Client : Ask(c) \/ Answer(c) \/ Leave(c)

Spec == Init /\ [][Next]_vars

=============================================================================
