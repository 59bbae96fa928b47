------------------------------- MODULE Index -------------------------------
(***************************************************************************)
(* searcher::Index of searcher/searcher.{h,cc}: the forward index (doc_id  *)
(* to document), the inverted index (word to list of weighted documents)   *)
(* and Build, which fills both from the lines of raw_input.txt.            *)
(*                                                                         *)
(* The module is open at the file: GetLine(line) may deliver any line of   *)
(* Line, well formed or not, and EndOfFile may come after any line, so     *)
(* what holds here holds whatever the parser left on the disk.             *)
(***************************************************************************)
EXTENDS Util

CONSTANTS
  Line,          \* the lines a raw_input file may hold: sequences of atoms
  Text,          \* the texts a field of a line may hold
  Word,          \* the words the tokenizer produces, in any letter case
  Lower,         \* boost::to_lower on words, a function on Word
  CutForSearch,  \* cppjieba's tokenizer, a function from Text to Seq(Word)
  MaxLines,      \* bound: lines one Build reads
  nullptr        \* the null pointer

ASSUME LineAssumption ==
  \A l \in Line : Len(Split(l, {ETX})) = 3 =>
                    \A k \in 1..3 : Split(l, {ETX})[k] \in Text

ASSUME LowerAssumption ==
  /\ Lower \in [Word -> Word]
  /\ \A w \in Word : Lower[Lower[w]] = Lower[w]

ASSUME CutAssumption == CutForSearch \in [Text -> Seq(Word)]

ASSUME MaxLinesAssumption == MaxLines \in Nat

ASSUME NullAssumption ==
  nullptr \notin [doc_id : Nat, title : Text, url : Text, content : Text]

VARIABLES
  pc,              \* where Build is
  consumed,        \* the lines std::getline has delivered so far
  forward_index,   \* vector<DocInfo>; position i holds doc_id i - 1
  inverted_index,  \* unordered_map<string, InvertedList>
  doc_info,        \* what BuildForward returned: 0 is nullptr, i points to
                   \* position i of forward_index
  word_cnt_map,    \* BuildInverted's unordered_map<string, WordCnt>
  counted,         \* tokens of the current field already counted
  todo             \* entries of word_cnt_map the last loop has yet to visit

vars == <<pc, consumed, forward_index, inverted_index, doc_info,
          word_cnt_map, counted, todo>>

indexVars == <<forward_index, inverted_index>>

-----------------------------------------------------------------------------
DocInfo == [doc_id : Nat, title : Text, url : Text, content : Text]

Weight == [doc_id : Nat, weight : Nat, word : Word]

InvertedList == Seq(Weight)

WordCnt == [title_cnt : Nat, content_cnt : Nat]

\* A map from a subset of S to T: keys appear when they are first written.
IsPartialMap(m, S, T) == DOMAIN m \subseteq S /\ m \in [DOMAIN m -> T]

Tokes(line) == Split(line, {ETX})

\* Mutation of WellFormed: fields beyond the third are ignored.
AtLeastThreeFields(tokes) == Len(tokes) >= 3

\* BuildForward takes a line of exactly three fields.
WellFormed(tokes) == Len(tokes) = 3

\* Mutation of NewDocInfo: the id is taken after the push.
NewDocInfoAfterPush(tokes) ==
  [doc_id |-> Len(forward_index) + 1, title |-> tokes[1], url |-> tokes[2],
   content |-> tokes[3]]

\* The document that BuildForward makes of the three fields.
NewDocInfo(tokes) ==
  [doc_id |-> Len(forward_index), title |-> tokes[1], url |-> tokes[2],
   content |-> tokes[3]]

CutWord(input) == CutForSearch[input]

\* The pointer BuildForward returned, dereferenced.
CurrentDoc == forward_index[doc_info]

\* word_cnt_map[word]: operator[] makes a zero entry for a new word.
CntAt(map, word) ==
  IF word \in DOMAIN map THEN map[word]
                         ELSE [title_cnt |-> 0, content_cnt |-> 0]

SetCnt(map, word, cnt) ==
  [w \in DOMAIN map \cup {word} |-> IF w = word THEN cnt ELSE map[w]]

\* inverted_index[word]: operator[] makes an empty list for a new word.
ListAt(word) ==
  IF word \in DOMAIN inverted_index THEN inverted_index[word] ELSE <<>>

WeightOfCnt(cnt) == 10 * cnt.title_cnt + cnt.content_cnt

-----------------------------------------------------------------------------
(* The two lookups that Index offers to its clients.                       *)

\* Mutation of GetDocInfo: the bound is off by one.
GetDocInfoMissesLast(doc_id) ==
  IF doc_id < 0 \/ doc_id >= Len(forward_index) - 1
    THEN nullptr
    ELSE forward_index[doc_id + 1]

GetDocInfo(doc_id) ==
  IF doc_id < 0 \/ doc_id >= Len(forward_index)
    THEN nullptr
    ELSE forward_index[doc_id + 1]

GetInvertedList(key) ==
  IF key \notin DOMAIN inverted_index THEN nullptr ELSE inverted_index[key]

-----------------------------------------------------------------------------
Init ==
  /\ pc = "open"
  /\ consumed = <<>>
  /\ forward_index = <<>>
  /\ inverted_index = [w \in {} |-> <<>>]
  /\ doc_info = 0
  /\ word_cnt_map = [w \in {} |-> 0]
  /\ counted = 0
  /\ todo = {}

OpenFails ==
  /\ pc = "open"
  /\ pc' = "failed"
  /\ UNCHANGED <<consumed, forward_index, inverted_index, doc_info,
                 word_cnt_map, counted, todo>>

OpenSucceeds ==
  /\ pc = "open"
  /\ pc' = "getline"
  /\ UNCHANGED <<consumed, forward_index, inverted_index, doc_info,
                 word_cnt_map, counted, todo>>

GetLine(line) ==
  /\ pc = "getline"
  /\ Len(consumed) < MaxLines
  /\ consumed' = Append(consumed, line)
  /\ pc' = "forward"
  /\ UNCHANGED <<forward_index, inverted_index, doc_info,
                 word_cnt_map, counted, todo>>

\* getline fails: Build closes the file and returns true.
EndOfFile ==
  /\ pc = "getline"
  /\ pc' = "built"
  /\ UNCHANGED <<consumed, forward_index, inverted_index, doc_info,
                 word_cnt_map, counted, todo>>

\* Mutations of BuildForward.  word_cnt_map is a member that nobody
\* clears between two documents.
BuildForwardKeepsCounts ==
  LET tokes == Tokes(consumed[Len(consumed)])
  IN  /\ pc = "forward"
      /\ WellFormed(tokes)
      /\ forward_index' = Append(forward_index, NewDocInfo(tokes))
      /\ doc_info' = Len(forward_index) + 1
      /\ counted' = 0
      /\ pc' = "title"
      /\ UNCHANGED <<consumed, inverted_index, word_cnt_map, todo>>

\* doc_info points behind the last document, to end() instead of back().
BuildForwardReturnsEnd ==
  LET tokes == Tokes(consumed[Len(consumed)])
  IN  /\ pc = "forward"
      /\ WellFormed(tokes)
      /\ forward_index' = Append(forward_index, NewDocInfo(tokes))
      /\ doc_info' = Len(forward_index) + 2
      /\ word_cnt_map' = [w \in {} |-> 0]
      /\ counted' = 0
      /\ pc' = "title"
      /\ UNCHANGED <<consumed, inverted_index, todo>>

\* Mutation of RejectLine: the malformed line is tried again.
RejectLineRetries ==
  /\ pc = "forward"
  /\ ~WellFormed(Tokes(consumed[Len(consumed)]))
  /\ doc_info' = 0
  /\ UNCHANGED <<pc, consumed, forward_index, inverted_index,
                 word_cnt_map, counted, todo>>

\* BuildForward returns nullptr and Build goes on with the next line.
RejectLine ==
  /\ pc = "forward"
  /\ ~WellFormed(Tokes(consumed[Len(consumed)]))
  /\ doc_info' = 0
  /\ pc' = "getline"
  /\ UNCHANGED <<consumed, forward_index, inverted_index,
                 word_cnt_map, counted, todo>>

\* BuildForward pushes the document and BuildInverted starts on its title.
BuildForward ==
  LET tokes == Tokes(consumed[Len(consumed)])
  IN  /\ pc = "forward"
      /\ WellFormed(tokes)
      /\ forward_index' = Append(forward_index, NewDocInfo(tokes))
      /\ doc_info' = Len(forward_index) + 1
      /\ word_cnt_map' = [w \in {} |-> 0]
      /\ counted' = 0
      /\ pc' = "title"
      /\ UNCHANGED <<consumed, inverted_index, todo>>

\* Mutation of CountTitle: boost::to_lower is forgotten.
CountTitleAnyCase ==
  LET title_token == CutWord(CurrentDoc.title)
      word        == title_token[counted + 1]
      cnt         == CntAt(word_cnt_map, word)
  IN  /\ pc = "title"
      /\ counted < Len(title_token)
      /\ word_cnt_map' = SetCnt(word_cnt_map, word,
                           [title_cnt   |-> cnt.title_cnt + 1,
                            content_cnt |-> cnt.content_cnt])
      /\ counted' = counted + 1
      /\ UNCHANGED <<pc, consumed, forward_index, inverted_index,
                     doc_info, todo>>

\* One turn of the loop over title_token: ++word_cnt_map[word].title_cnt.
CountTitle ==
  LET title_token == CutWord(CurrentDoc.title)
      word        == Lower[title_token[counted + 1]]
      cnt         == CntAt(word_cnt_map, word)
  IN  /\ pc = "title"
      /\ counted < Len(title_token)
      /\ word_cnt_map' = SetCnt(word_cnt_map, word,
                           [title_cnt   |-> cnt.title_cnt + 1,
                            content_cnt |-> cnt.content_cnt])
      /\ counted' = counted + 1
      /\ UNCHANGED <<pc, consumed, forward_index, inverted_index,
                     doc_info, todo>>

TitleCounted ==
  /\ pc = "title"
  /\ counted = Len(CutWord(CurrentDoc.title))
  /\ counted' = 0
  /\ pc' = "content"
  /\ UNCHANGED <<consumed, forward_index, inverted_index, doc_info,
                 word_cnt_map, todo>>

\* One turn of the loop over content_token: ++word_cnt_map[word].content_cnt.
CountContent ==
  LET content_token == CutWord(CurrentDoc.content)
      word          == Lower[content_token[counted + 1]]
      cnt           == CntAt(word_cnt_map, word)
  IN  /\ pc = "content"
      /\ counted < Len(content_token)
      /\ word_cnt_map' = SetCnt(word_cnt_map, word,
                           [title_cnt   |-> cnt.title_cnt,
                            content_cnt |-> cnt.content_cnt + 1])
      /\ counted' = counted + 1
      /\ UNCHANGED <<pc, consumed, forward_index, inverted_index,
                     doc_info, todo>>

ContentCounted ==
  /\ pc = "content"
  /\ counted = Len(CutWord(CurrentDoc.content))
  /\ todo' = DOMAIN word_cnt_map
  /\ pc' = "insert"
  /\ UNCHANGED <<consumed, forward_index, inverted_index, doc_info,
                 word_cnt_map, counted>>

\* The Weight that BuildInverted makes of an entry of word_cnt_map.
NewWeight(word) == [doc_id |-> CurrentDoc.doc_id,
                    weight |-> WeightOfCnt(word_cnt_map[word]),
                    word   |-> word]

\* Mutation of InsertWord: the Weight goes to the front of the list.
InsertWordInFront(word) ==
  /\ pc = "insert"
  /\ inverted_index' = [w \in DOMAIN inverted_index \cup {word} |->
                          IF w = word
                            THEN <<NewWeight(word)>> \o ListAt(word)
                            ELSE inverted_index[w]]
  /\ todo' = todo \ {word}
  /\ UNCHANGED <<pc, consumed, forward_index, doc_info,
                 word_cnt_map, counted>>

\* One turn of the last loop of BuildInverted.  The order in which a hash map
\* is traversed is unspecified: the loop may visit any entry next.
InsertWord(word) ==
  /\ pc = "insert"
  /\ inverted_index' = [w \in DOMAIN inverted_index \cup {word} |->
                          IF w = word
                            THEN Append(ListAt(word), NewWeight(word))
                            ELSE inverted_index[w]]
  /\ todo' = todo \ {word}
  /\ UNCHANGED <<pc, consumed, forward_index, doc_info,
                 word_cnt_map, counted>>

LineIndexed ==
  /\ pc = "insert"
  /\ todo = {}
  /\ pc' = "getline"
  /\ UNCHANGED <<consumed, forward_index, inverted_index, doc_info,
                 word_cnt_map, counted, todo>>

\* A step of Build on the line it has read; the file is not involved.
BuildLine ==
  \/ RejectLine
  \/ BuildForward
  \/ CountTitle
  \/ TitleCounted
  \/ CountContent
  \/ ContentCounted
  \/ \E word \in todo : InsertWord(word)
  \/ LineIndexed

Next ==
  \/ OpenFails
  \/ OpenSucceeds
  \/ \E line \in Line : GetLine(line)
  \/ EndOfFile
  \/ BuildLine

Spec == Init /\ [][Next]_vars

(***************************************************************************)
(* Build is one thread of straight-line code and loops: it takes its next  *)
(* step whenever it has one.                                               *)
(***************************************************************************)
FairSpec == Spec /\ WF_vars(Next)

-----------------------------------------------------------------------------
(* What makes the index correct.                                           *)

\* The type of every variable.
TypeOK ==
  /\ pc \in {"open", "failed", "getline", "forward", "title", "content",
             "insert", "built"}
  /\ consumed \in Seq(Line)
  /\ forward_index \in Seq(DocInfo)
  /\ IsPartialMap(inverted_index, Word, InvertedList)
  /\ doc_info \in 0..Len(forward_index)
  /\ IsPartialMap(word_cnt_map, Word, WordCnt)
  /\ counted \in Nat
  /\ todo \in SUBSET Word

\* How often a word occurs among the first n tokens of a text, in any letter
\* case.
OccursUpTo(text, word, n) ==
  Cardinality({k \in 1..n : Lower[CutForSearch[text][k]] = word})

Occurs(text, word) == OccursUpTo(text, word, Len(CutForSearch[text]))

\* The weight of a word in a document, as the comment on BuildInverted gives
\* it: ten times its occurrences in the title plus those in the content.
WeightIn(doc, word) == 10 * Occurs(doc.title, word) + Occurs(doc.content, word)

InBuildInverted == pc \in {"title", "content", "insert"}

\* Position i of forward_index has been through BuildInverted.
Indexed(i) == i < Len(forward_index) \/ ~InBuildInverted

\* "The array subscript is the doc_id" (searcher.h): document i is found by
\* GetDocInfo under the id it carries.
DocIdIsPosition ==
  \A i \in 1..Len(forward_index) :
    GetDocInfo(forward_index[i].doc_id) = forward_index[i]

\* Search dereferences GetDocInfo of a posting without a null check: no
\* posting, at any moment of Build, names a document that is not there.
NoDanglingPosting ==
  \A w \in DOMAIN inverted_index :
    \A k \in 1..Len(inverted_index[w]) :
      GetDocInfo(inverted_index[w][k].doc_id) # nullptr

\* Every posting is true of the document it names: the document contains the
\* word and the weight is the weight of exactly that word in that document,
\* title and content together, although the two were counted in two loops
\* over a map shared by all the words.
PostingsSound ==
  \A w \in DOMAIN inverted_index :
    \A k \in 1..Len(inverted_index[w]) :
      LET p == inverted_index[w][k]
      IN  /\ p.word = w
          /\ p.weight > 0
          /\ p.weight = WeightIn(forward_index[p.doc_id + 1], w)

\* No word of an indexed document is missing from the inverted index, and the
\* words are kept in lower case, so that a lookup in lower case finds them.
PostingsComplete ==
  \A i \in 1..Len(forward_index) : Indexed(i) =>
    \A w \in Word : WeightIn(forward_index[i], w) > 0 =>
      /\ w \in DOMAIN inverted_index
      /\ \E k \in 1..Len(inverted_index[w]) :
           inverted_index[w][k].doc_id = forward_index[i].doc_id

\* An inverted list names a document at most once, in the order of the file:
\* a word found in title and content makes one posting, not two.
PostingsAscend ==
  \A w \in DOMAIN inverted_index :
    \A j, k \in 1..Len(inverted_index[w]) :
      j < k => inverted_index[w][j].doc_id < inverted_index[w][k].doc_id

\* The forward index is the well formed lines of the file, all of them, in
\* their order: a malformed line costs neither its neighbours nor an id.
ForwardIsInput ==
  LET ThreeFields(l) == Len(Tokes(l)) = 3
      read == IF pc = "forward" THEN SubSeq(consumed, 1, Len(consumed) - 1)
                                ELSE consumed
      good == SelectSeq(read, ThreeFields)
  IN  /\ Len(forward_index) = Len(good)
      /\ \A i \in 1..Len(good) :
           LET d == forward_index[i]
           IN  good[i] = d.title \o <<ETX>> \o d.url \o <<ETX>> \o d.content

\* Nothing that has been indexed is changed, reordered or dropped later: the
\* documents, and every inverted list, only grow at their end.
AppendOnly ==
  [][/\ SubSeq(forward_index', 1, Len(forward_index)) = forward_index
     /\ \A w \in DOMAIN inverted_index :
          /\ w \in DOMAIN inverted_index'
          /\ SubSeq(inverted_index'[w], 1, Len(inverted_index[w]))
               = inverted_index[w]]_indexVars

\* Build returns, whatever the lines are.
BuildReturns == <>(pc \in {"failed", "built"})

-----------------------------------------------------------------------------
(* The inductive invariant behind the properties above.  While a document  *)
(* is in BuildInverted the inverted index knows it only in part, so what   *)
(* the loops have done so far has to be spelled out: how far the counters  *)
(* have come, and which words have got their posting.                      *)

\* doc_info points to the document that BuildForward pushed last.
PointsToBack ==
  /\ pc = "forward" => Len(consumed) > 0
  /\ InBuildInverted => doc_info = Len(forward_index) /\ doc_info > 0

\* The last loop of BuildInverted walks over entries of word_cnt_map.
TodoCounted == pc = "insert" => todo \subseteq DOMAIN word_cnt_map

DocIdsInOrder ==
  \A i \in 1..Len(forward_index) : forward_index[i].doc_id = i - 1

\* word_cnt_map holds the counts of the tokens seen so far, and no word that
\* was not seen.
CountsSoFar ==
  /\ pc = "title" =>
       /\ counted <= Len(CutForSearch[CurrentDoc.title])
       /\ \A w \in Word : CntAt(word_cnt_map, w) =
            [title_cnt   |-> OccursUpTo(CurrentDoc.title, w, counted),
             content_cnt |-> 0]
  /\ pc = "content" =>
       /\ counted <= Len(CutForSearch[CurrentDoc.content])
       /\ \A w \in Word : CntAt(word_cnt_map, w) =
            [title_cnt   |-> Occurs(CurrentDoc.title, w),
             content_cnt |-> OccursUpTo(CurrentDoc.content, w, counted)]
  /\ pc = "insert" =>
       \A w \in Word : CntAt(word_cnt_map, w) =
         [title_cnt   |-> Occurs(CurrentDoc.title, w),
          content_cnt |-> Occurs(CurrentDoc.content, w)]
  /\ InBuildInverted =>
       \A w \in DOMAIN word_cnt_map : WeightOfCnt(word_cnt_map[w]) > 0

PostingsInRange ==
  \A w \in DOMAIN inverted_index :
    \A k \in 1..Len(inverted_index[w]) :
      inverted_index[w][k].doc_id < Len(forward_index)

\* The document in BuildInverted has a posting under exactly the words the
\* last loop has visited.
PostedSoFar ==
  /\ pc \in {"title", "content"} =>
       \A w \in DOMAIN inverted_index :
         \A k \in 1..Len(inverted_index[w]) :
           inverted_index[w][k].doc_id < Len(forward_index) - 1
  /\ pc = "insert" =>
       /\ \A w \in DOMAIN inverted_index \cap todo :
            \A k \in 1..Len(inverted_index[w]) :
              inverted_index[w][k].doc_id < Len(forward_index) - 1
       /\ \A w \in DOMAIN word_cnt_map \ todo :
            /\ w \in DOMAIN inverted_index
            /\ \E k \in 1..Len(inverted_index[w]) :
                 inverted_index[w][k].doc_id = Len(forward_index) - 1

\* The conjunction that every step of Build preserves, from which the
\* properties of the index follow.
IndexInv ==
  /\ TypeOK
  /\ PointsToBack
  /\ TodoCounted
  /\ DocIdsInOrder
  /\ CountsSoFar
  /\ PostingsInRange
  /\ PostedSoFar
  /\ PostingsSound
  /\ PostingsComplete
  /\ PostingsAscend

=============================================================================
