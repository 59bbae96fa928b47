---------------------------- MODULE SnippetCall ----------------------------
(***************************************************************************)
(* One call of Searcher::GenerateDesc and what its result promises to the  *)
(* page.                                                                   *)
(***************************************************************************)
EXTENDS Snippet

CONSTANTS
  Char,     \* the characters of a page
  Content,  \* the contents GenerateDesc may be given
  Keyword,  \* the words it may be given: keys of the inverted index, which
            \* BuildInverted has put in lower case
  ToLower   \* boost::to_lower on one character

ASSUME TextAssumption ==
  /\ \A c \in Content : c \in Seq(Char)
  /\ \A w \in Keyword : w \in Seq(Char)
  /\ ToLower \in [Char -> Char]
  /\ Dot \in Char

VARIABLES
  pc,             \* "call" or "return"
  content, word,  \* the arguments of the call
  desc            \* what it returns

vars == <<pc, content, word, desc>>

\* Search wraps a result: it calls with the content of a document and the
\* word of a Weight.
Init ==
  /\ pc = "call"
  /\ content \in Content
  /\ word \in Keyword
  /\ desc = <<>>

Return ==
  /\ pc = "call"
  /\ desc' = GenerateDesc(content, word)
  /\ pc' = "return"
  /\ UNCHANGED <<content, word>>

Next == Return

Spec == Init /\ [][Next]_vars

-----------------------------------------------------------------------------
(* What the excerpt promises.                                              *)

\* The excerpt never exceeds the room the page has for it.
DescFits == Len(desc) <= DescLen

\* The excerpt is a contiguous piece of the content: either up to its end, or
\* a full excerpt whose last three characters are dots.
DescIsExcerpt ==
  \E beg \in 0..Len(content) :
    \/ desc = SubSeq(content, beg + 1, Len(content))
    \/ /\ Len(desc) = DescLen
       /\ beg + DescLen <= Len(content)
       /\ \A k \in 1..DescLen :
            desc[k] = IF k > DescLen - 3 THEN Dot ELSE content[beg + k]

\* A keyword that find can find is readable in the excerpt, all of it, when
\* it is not longer than the excerpt less its lead and the dots (97
\* characters in the code): neither the cut nor the dots reach it.
KeywordShown ==
  /\ pc = "return"
  /\ \E p \in 0..Len(content) : OccursAt(content, word, p)
  /\ Lead + Len(word) + 3 <= DescLen
  => \E p \in 0..Len(desc) : OccursAt(desc, word, p)

LowerCase(text) == [k \in 1..Len(text) |-> ToLower[text[k]]]

\* "Get the data before and after the keyword" (the comment on GenerateDesc):
\* the excerpt of a page on which the keyword occurs, in whatever case, as
\* the index counts it, shows the keyword.
KeywordShownInAnyCase ==
  /\ pc = "return"
  /\ \E p \in 0..Len(content) : OccursAt(LowerCase(content), word, p)
  /\ Lead + Len(word) + 3 <= DescLen
  => \E p \in 0..Len(desc) : OccursAt(LowerCase(desc), word, p)

=============================================================================
