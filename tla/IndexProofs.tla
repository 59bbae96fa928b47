---------------------------- MODULE IndexProofs ----------------------------
(***************************************************************************)
(* Proofs about Index, for every set of lines, texts and words and every   *)
(* tokenizer: type correctness first, then the inductive invariant         *)
(* IndexInv and the properties that follow from it.                        *)
(***************************************************************************)
EXTENDS Index, TLAPS, FiniteSetTheorems, SequenceTheorems

-----------------------------------------------------------------------------
(* Counting occurrences.                                                   *)

LEMMA OccursFinite ==
  ASSUME NEW t, NEW w, NEW n \in Nat
  PROVE  /\ IsFiniteSet({k \in 1..n : Lower[CutForSearch[t][k]] = w})
         /\ OccursUpTo(t, w, n) \in Nat
<1>1. IsFiniteSet({k \in 1..n : Lower[CutForSearch[t][k]] = w})
  <2>1. IsFiniteSet(1..n)
    BY FS_Interval
  <2>2. {k \in 1..n : Lower[CutForSearch[t][k]] = w} \in SUBSET (1..n)
    OBVIOUS
  <2> QED
    BY <2>1, <2>2, FS_Subset
<1> QED
  BY <1>1, FS_CardinalityType DEF OccursUpTo

\* Before the first token nothing has been counted.
LEMMA OccursZero ==
  ASSUME NEW t, NEW w
  PROVE  OccursUpTo(t, w, 0) = 0
<1>1. {k \in 1..0 : Lower[CutForSearch[t][k]] = w} = {}
  OBVIOUS
<1> QED
  BY <1>1, FS_EmptySet DEF OccursUpTo

\* One more token adds one to the count of its own word and nothing to the
\* others: the effect of one turn of a counting loop.
LEMMA OccursStep ==
  ASSUME NEW t, NEW w, NEW n \in Nat
  PROVE  OccursUpTo(t, w, n + 1) =
           IF Lower[CutForSearch[t][n + 1]] = w
             THEN OccursUpTo(t, w, n) + 1
             ELSE OccursUpTo(t, w, n)
<1> DEFINE S(m) == {k \in 1..m : Lower[CutForSearch[t][k]] = w}
<1>1. IsFiniteSet(S(n))
  BY OccursFinite
<1>2. CASE Lower[CutForSearch[t][n + 1]] = w
  <2>1. S(n + 1) = S(n) \cup {n + 1}
    BY <1>2
  <2>2. (n + 1) \notin S(n)
    OBVIOUS
  <2>3. Cardinality(S(n) \cup {n + 1}) = Cardinality(S(n)) + 1
    BY <1>1, <2>2, FS_AddElement
  <2> QED
    BY <1>2, <2>1, <2>3 DEF OccursUpTo
<1>3. CASE Lower[CutForSearch[t][n + 1]] # w
  <2>1. S(n + 1) = S(n)
    BY <1>3
  <2> QED
    BY <1>3, <2>1 DEF OccursUpTo
<1> QED
  BY <1>2, <1>3

-----------------------------------------------------------------------------
(* Type correctness.                                                       *)

\* The three fields of an accepted line are texts, so BuildForward pushes a
\* well-typed document.
LEMMA LineType ==
  ASSUME TypeOK, pc = "forward", PointsToBack,
         WellFormed(Tokes(consumed[Len(consumed)]))
  PROVE  \A k \in 1..3 : Tokes(consumed[Len(consumed)])[k] \in Text
<1>1. consumed[Len(consumed)] \in Line
  BY DEF TypeOK, PointsToBack
<1> QED
  BY <1>1, LineAssumption DEF Tokes, WellFormed

\* What BuildForward does to the forward index: one document more at its end,
\* under the next free id.
LEMMA PushEffect ==
  ASSUME TypeOK, PointsToBack, BuildForward
  PROVE  /\ forward_index' \in Seq(DocInfo)
         /\ Len(forward_index) \in Nat
         /\ Len(forward_index') = Len(forward_index) + 1
         /\ \A i \in 1..Len(forward_index) :
              forward_index'[i] = forward_index[i]
         /\ forward_index'[Len(forward_index) + 1].doc_id = Len(forward_index)
<1> DEFINE tokes == Tokes(consumed[Len(consumed)])
           doc   == NewDocInfo(tokes)
<1>1. \A k \in 1..3 : tokes[k] \in Text
  BY LineType DEF BuildForward
<1>2. doc \in DocInfo /\ doc.doc_id = Len(forward_index)
  BY <1>1 DEF NewDocInfo, DocInfo, TypeOK
<1>3. forward_index' = Append(forward_index, doc)
  BY DEF BuildForward
<1> HIDE DEF doc
<1> QED
  BY <1>2, <1>3 DEF TypeOK

\* operator[] on word_cnt_map yields a counter pair, new or old.
LEMMA CntAtType ==
  ASSUME NEW map, IsPartialMap(map, Word, WordCnt), NEW w
  PROVE  CntAt(map, w) \in WordCnt
BY DEF IsPartialMap, CntAt, WordCnt

LEMMA SetCntType ==
  ASSUME NEW map, IsPartialMap(map, Word, WordCnt),
         NEW w \in Word, NEW cnt \in WordCnt
  PROVE  IsPartialMap(SetCnt(map, w, cnt), Word, WordCnt)
BY DEF IsPartialMap, SetCnt

\* While BuildInverted runs, the reference it was given is a document.
LEMMA CurrentDocType ==
  ASSUME TypeOK, PointsToBack, InBuildInverted
  PROVE  /\ CurrentDoc \in DocInfo
         /\ CurrentDoc.title \in Text
         /\ CurrentDoc.content \in Text
<1>1. CurrentDoc \in DocInfo
  BY DEF TypeOK, PointsToBack, CurrentDoc
<1> QED
  BY <1>1 DEF DocInfo

\* What the two counting loops read: the next token, a word.
LEMMA TokenType ==
  ASSUME NEW t \in Text, NEW n \in Nat, n < Len(CutWord(t))
  PROVE  Lower[CutWord(t)[n + 1]] \in Word
<1>1. CutWord(t) \in Seq(Word)
  BY CutAssumption DEF CutWord
<1>2. CutWord(t)[n + 1] \in Word
  BY <1>1
<1> QED
  BY <1>2, LowerAssumption

LEMMA PostingType ==
  ASSUME TypeOK, NEW w \in DOMAIN inverted_index,
         NEW k \in 1..Len(inverted_index[w])
  PROVE  inverted_index[w][k] \in Weight /\ inverted_index[w][k].doc_id \in Nat
<1>1. inverted_index[w] \in Seq(Weight)
  BY DEF TypeOK, IsPartialMap, InvertedList
<1>2. inverted_index[w][k] \in Weight
  BY <1>1, ElementOfSeq
<1> QED
  BY <1>2 DEF Weight

\* What one turn of the last loop of BuildInverted does to the index: one
\* posting more at the end of the list of one word.
LEMMA InsertEffect ==
  ASSUME TypeOK, NEW word \in todo, InsertWord(word)
  PROVE  /\ DOMAIN inverted_index' = DOMAIN inverted_index \cup {word}
         /\ \A w \in DOMAIN inverted_index :
              w # word => inverted_index'[w] = inverted_index[w]
         /\ inverted_index'[word] = Append(ListAt(word), NewWeight(word))
         /\ inverted_index' = [w \in DOMAIN inverted_index' |->
                                 inverted_index'[w]]
         /\ ListAt(word) \in Seq(Weight)
         /\ Len(ListAt(word)) \in Nat
         /\ Len(inverted_index'[word]) = Len(ListAt(word)) + 1
         /\ \A k \in 1..Len(ListAt(word)) :
              inverted_index'[word][k] = ListAt(word)[k]
         /\ inverted_index'[word][Len(ListAt(word)) + 1] = NewWeight(word)
<1>1. ListAt(word) \in Seq(Weight)
  BY DEF TypeOK, IsPartialMap, ListAt, InvertedList
<1>2. inverted_index' = [w \in DOMAIN inverted_index \cup {word} |->
                           IF w = word
                             THEN Append(ListAt(word), NewWeight(word))
                             ELSE inverted_index[w]]
  BY DEF InsertWord
<1>3. inverted_index'[word] = Append(ListAt(word), NewWeight(word))
  BY <1>2
<1>4. /\ Len(ListAt(word)) \in Nat
      /\ Len(Append(ListAt(word), NewWeight(word))) = Len(ListAt(word)) + 1
      /\ \A k \in 1..Len(ListAt(word)) :
           Append(ListAt(word), NewWeight(word))[k] = ListAt(word)[k]
      /\ Append(ListAt(word), NewWeight(word))[Len(ListAt(word)) + 1]
           = NewWeight(word)
  BY <1>1
<1> QED
  BY <1>1, <1>2, <1>3, <1>4

\* The part of IndexInv that type correctness needs beside itself.
TypeInv == TypeOK /\ PointsToBack /\ TodoCounted

LEMMA InitTypeInv == Init => TypeInv
BY DEF Init, TypeInv, TypeOK, PointsToBack, TodoCounted,
       InBuildInverted, IsPartialMap

LEMMA NextTypeInv == TypeInv /\ [Next]_vars => TypeInv'
<1> SUFFICES ASSUME TypeOK, PointsToBack, TodoCounted, [Next]_vars
             PROVE  TypeInv'
  BY DEF TypeInv
<1> USE DEF InBuildInverted, TypeInv, TodoCounted
<1>1. CASE OpenFails
  BY <1>1 DEF OpenFails, TypeOK, PointsToBack
<1>2. CASE OpenSucceeds
  BY <1>2 DEF OpenSucceeds, TypeOK, PointsToBack
<1>3. ASSUME NEW line \in Line, GetLine(line)
      PROVE  TypeInv'
  BY <1>3 DEF GetLine, TypeOK, PointsToBack
<1>4. CASE EndOfFile
  BY <1>4 DEF EndOfFile, TypeOK, PointsToBack
<1>5. CASE RejectLine
  BY <1>5 DEF RejectLine, TypeOK, PointsToBack
<1>6. CASE BuildForward
  <2>1. /\ forward_index' \in Seq(DocInfo)
        /\ Len(forward_index') = Len(forward_index) + 1
    BY <1>6, PushEffect
  <2>2. IsPartialMap(word_cnt_map', Word, WordCnt)
    BY <1>6 DEF BuildForward, IsPartialMap
  <2> QED
    BY <1>6, <2>1, <2>2 DEF BuildForward, TypeOK, PointsToBack
<1>7. CASE CountTitle
  <2>1. CurrentDoc \in DocInfo
    BY <1>7 DEF CountTitle, CurrentDoc, TypeOK, PointsToBack
  <2>2. Lower[CutWord(CurrentDoc.title)[counted + 1]] \in Word
    BY <1>7, <2>1, TokenType DEF CountTitle, TypeOK, DocInfo
  <2>3. IsPartialMap(word_cnt_map', Word, WordCnt)
    BY <1>7, <2>2, CntAtType, SetCntType DEF CountTitle, TypeOK, WordCnt
  <2> QED
    BY <1>7, <2>3 DEF CountTitle, TypeOK, PointsToBack
<1>8. CASE TitleCounted
  BY <1>8 DEF TitleCounted, TypeOK, PointsToBack
<1>9. CASE CountContent
  <2>1. CurrentDoc \in DocInfo
    BY <1>9 DEF CountContent, CurrentDoc, TypeOK, PointsToBack
  <2>2. Lower[CutWord(CurrentDoc.content)[counted + 1]] \in Word
    BY <1>9, <2>1, TokenType DEF CountContent, TypeOK, DocInfo
  <2>3. IsPartialMap(word_cnt_map', Word, WordCnt)
    BY <1>9, <2>2, CntAtType, SetCntType DEF CountContent, TypeOK, WordCnt
  <2> QED
    BY <1>9, <2>3 DEF CountContent, TypeOK, PointsToBack
<1>10. CASE ContentCounted
  BY <1>10 DEF ContentCounted, TypeOK, PointsToBack, IsPartialMap
<1>11. ASSUME NEW word \in todo, InsertWord(word)
       PROVE  TypeInv'
  <2>1. CurrentDoc \in DocInfo /\ word \in Word
    BY <1>11 DEF InsertWord, CurrentDoc, TypeOK, PointsToBack
  <2>2. word_cnt_map[word] \in WordCnt
    BY <1>11 DEF InsertWord, TypeOK, IsPartialMap
  <2>3. NewWeight(word) \in Weight
    BY <2>1, <2>2 DEF NewWeight, Weight, WeightOfCnt, WordCnt, DocInfo
  <2>4. inverted_index'[word] \in InvertedList
    <3>1. /\ inverted_index'[word] = Append(ListAt(word), NewWeight(word))
          /\ ListAt(word) \in Seq(Weight)
      BY <1>11, InsertEffect
    <3> QED
      BY <2>3, <3>1 DEF InvertedList
  <2>5. \A w \in DOMAIN inverted_index' : inverted_index'[w] \in InvertedList
    BY <1>11, <2>4, InsertEffect DEF TypeOK, IsPartialMap
  <2>6. IsPartialMap(inverted_index', Word, InvertedList)
    <3>1. DOMAIN inverted_index' \subseteq Word
      BY <1>11, <2>1, InsertEffect DEF TypeOK, IsPartialMap
    <3> QED
      BY <1>11, <2>5, <3>1, InsertEffect DEF IsPartialMap
  <2> QED
    BY <1>11, <2>6 DEF InsertWord, TypeOK, PointsToBack
<1>12. CASE LineIndexed
  BY <1>12 DEF LineIndexed, TypeOK, PointsToBack
<1>13. CASE UNCHANGED vars
  BY <1>13 DEF vars, TypeOK, PointsToBack, IsPartialMap
<1> QED
  BY <1>1, <1>2, <1>3, <1>4, <1>5, <1>6, <1>7, <1>8, <1>9, <1>10, <1>11,
     <1>12, <1>13 DEF Next, BuildLine

\* Every variable of Build keeps its type: in particular doc_info never
\* points outside forward_index, so CurrentDoc is never read out of bounds.
THEOREM TypeCorrect == Spec => []TypeOK
<1>1. Init => TypeInv
  BY InitTypeInv
<1>2. TypeInv /\ [Next]_vars => TypeInv'
  BY NextTypeInv
<1>3. TypeInv => TypeOK
  BY DEF TypeInv
<1> QED
  BY <1>1, <1>2, <1>3, PTL DEF Spec

-----------------------------------------------------------------------------
(* The inductive invariant.                                                *)

LEMMA InitIndexInv == Init => IndexInv
<1> SUFFICES ASSUME Init PROVE IndexInv
  OBVIOUS
<1>1. TypeInv
  BY InitTypeInv
<1> QED
  BY <1>1 DEF Init, IndexInv, TypeInv, DocIdsInOrder, CountsSoFar,
              PostingsInRange, PostedSoFar, PostingsSound, PostingsComplete,
              PostingsAscend, InBuildInverted

\* The facts about the two indexes that refer to nothing else hold as long as
\* the two indexes do not change.
IndexFacts ==
  DocIdsInOrder /\ PostingsInRange /\ PostingsSound /\ PostingsAscend

LEMMA IndexFactsKept ==
  ASSUME IndexFacts, UNCHANGED <<forward_index, inverted_index>>
  PROVE  IndexFacts'
BY DEF IndexFacts, DocIdsInOrder, PostingsInRange, PostingsSound,
       PostingsAscend

\* What InsertWord appends.
LEMMA NewWeightType ==
  ASSUME TypeInv, NEW word \in todo, InsertWord(word)
  PROVE  NewWeight(word) \in Weight
<1>1. CurrentDoc \in DocInfo /\ word \in DOMAIN word_cnt_map /\ word \in Word
  BY CurrentDocType
     DEF InsertWord, TypeInv, TypeOK, TodoCounted, InBuildInverted
<1>2. word_cnt_map[word] \in WordCnt
  BY <1>1 DEF TypeInv, TypeOK, IsPartialMap
<1> QED
  BY <1>1, <1>2 DEF NewWeight, Weight, WeightOfCnt, WordCnt, DocInfo

\* BuildForward: the new document is the only one without postings.
LEMMA PushKeepsIndexFacts ==
  ASSUME TypeOK, PointsToBack, IndexFacts, BuildForward
  PROVE  IndexFacts'
<1>1. inverted_index' = inverted_index
  BY DEF BuildForward
<1>2. DocIdsInOrder'
  BY PushEffect DEF IndexFacts, DocIdsInOrder
<1>3. PostingsInRange'
  <2> SUFFICES ASSUME NEW w \in DOMAIN inverted_index,
                      NEW k \in 1..Len(inverted_index[w])
               PROVE  inverted_index[w][k].doc_id < Len(forward_index')
    BY <1>1 DEF PostingsInRange
  <2>1. inverted_index[w][k].doc_id \in Nat
    BY PostingType
  <2>2. inverted_index[w][k].doc_id < Len(forward_index)
    BY DEF IndexFacts, PostingsInRange
  <2> QED
    BY <2>1, <2>2, PushEffect
<1>4. PostingsSound'
  <2> SUFFICES ASSUME NEW w \in DOMAIN inverted_index,
                      NEW k \in 1..Len(inverted_index[w])
               PROVE  LET p == inverted_index[w][k]
                      IN  /\ p.word = w
                          /\ p.weight > 0
                          /\ p.weight = WeightIn(forward_index'[p.doc_id + 1], w)
    BY <1>1 DEF PostingsSound
  <2>1. inverted_index[w][k].doc_id \in Nat
    BY PostingType
  <2>2. inverted_index[w][k].doc_id + 1 \in 1..Len(forward_index)
    BY <2>1, PushEffect DEF IndexFacts, PostingsInRange
  <2>3. forward_index'[inverted_index[w][k].doc_id + 1]
          = forward_index[inverted_index[w][k].doc_id + 1]
    BY <2>2, PushEffect
  <2> QED
    BY <2>3 DEF IndexFacts, PostingsSound
<1>5. PostingsAscend'
  BY <1>1 DEF IndexFacts, PostingsAscend
<1> QED
  BY <1>2, <1>3, <1>4, <1>5 DEF IndexFacts

\* InsertWord: the posting is that of the last document, which was not in the
\* list before.
LEMMA InsertKeepsIndexFacts ==
  ASSUME TypeInv, IndexFacts, CountsSoFar, PostedSoFar,
         NEW word \in todo, InsertWord(word)
  PROVE  IndexFacts'
<1> DEFINE n == Len(ListAt(word))
<1>1. /\ forward_index' = forward_index /\ pc = "insert"
      /\ doc_info = Len(forward_index) /\ doc_info > 0
      /\ word \in DOMAIN word_cnt_map /\ word \in Word
      /\ Len(forward_index) \in Nat
  BY DEF InsertWord, TypeInv, TypeOK, PointsToBack, InBuildInverted, TodoCounted
<1>2. CurrentDoc.doc_id = Len(forward_index) - 1
  BY <1>1 DEF IndexFacts, DocIdsInOrder, CurrentDoc
<1>3. /\ NewWeight(word).doc_id = Len(forward_index) - 1
      /\ NewWeight(word).word = word
      /\ NewWeight(word).weight = WeightOfCnt(word_cnt_map[word])
  BY <1>2 DEF NewWeight
<1>4. NewWeight(word).weight > 0
  BY <1>1, <1>3 DEF CountsSoFar, InBuildInverted
<1>5. NewWeight(word).weight = WeightIn(CurrentDoc, word)
  <2>1. word_cnt_map[word] =
          [title_cnt   |-> Occurs(CurrentDoc.title, word),
           content_cnt |-> Occurs(CurrentDoc.content, word)]
    BY <1>1 DEF CountsSoFar, CntAt
  <2> QED
    BY <1>3, <2>1 DEF WeightOfCnt, WeightIn
<1>6. CurrentDoc = forward_index[NewWeight(word).doc_id + 1]
  BY <1>1, <1>3 DEF CurrentDoc
<1>7. \A k \in 1..n : /\ word \in DOMAIN inverted_index
                      /\ ListAt(word) = inverted_index[word]
                      /\ k \in 1..Len(inverted_index[word])
  BY DEF ListAt
<1>8. DocIdsInOrder'
  BY <1>1 DEF IndexFacts, DocIdsInOrder
<1>9. ASSUME NEW w \in DOMAIN inverted_index', w # word
      PROVE  w \in DOMAIN inverted_index /\ inverted_index'[w] = inverted_index[w]
  BY <1>9, InsertEffect DEF TypeInv
<1>10. ASSUME NEW k \in 1..Len(inverted_index'[word])
       PROVE  \/ /\ k \in 1..n
                 /\ word \in DOMAIN inverted_index
                 /\ k \in 1..Len(inverted_index[word])
                 /\ inverted_index'[word][k] = inverted_index[word][k]
              \/ /\ k = n + 1
                 /\ inverted_index'[word][k] = NewWeight(word)
  <2>1. n \in Nat /\ Len(inverted_index'[word]) = n + 1
    BY InsertEffect DEF TypeInv
  <2>2. CASE k \in 1..n
    BY <1>7, <2>2, InsertEffect DEF TypeInv
  <2>3. CASE k = n + 1
    BY <2>3, InsertEffect DEF TypeInv
  <2> QED
    BY <2>1, <2>2, <2>3
<1>11. PostingsInRange'
  BY <1>1, <1>3, <1>9, <1>10 DEF IndexFacts, PostingsInRange
<1>12. PostingsSound'
  BY <1>1, <1>3, <1>4, <1>5, <1>6, <1>9, <1>10 DEF IndexFacts, PostingsSound
<1>13. PostingsAscend'
  <2> SUFFICES ASSUME NEW w \in DOMAIN inverted_index',
                      NEW j \in 1..Len(inverted_index'[w]),
                      NEW k \in 1..Len(inverted_index'[w]), j < k
               PROVE  inverted_index'[w][j].doc_id < inverted_index'[w][k].doc_id
    BY DEF PostingsAscend
  <2>1. CASE w # word
    BY <1>9, <2>1 DEF IndexFacts, PostingsAscend
  <2>2. CASE w = word
    <3>1. n \in Nat /\ Len(inverted_index'[word]) = n + 1
      BY InsertEffect DEF TypeInv
    <3>2. j \in 1..n
      BY <2>2, <3>1
    <3>3. /\ word \in DOMAIN inverted_index
          /\ j \in 1..Len(inverted_index[word])
          /\ inverted_index'[word][j] = inverted_index[word][j]
      BY <1>10, <2>2, <3>1, <3>2
    <3>4. CASE k = n + 1
      <4>1. inverted_index'[word][k] = NewWeight(word)
        BY <3>1, <3>4, InsertEffect DEF TypeInv
      <4>2. inverted_index[word][j].doc_id < Len(forward_index) - 1
        BY <1>1, <3>3 DEF PostedSoFar
      <4> QED
        BY <1>3, <2>2, <3>3, <4>1, <4>2
    <3>5. CASE k # n + 1
      <4>1. /\ k \in 1..Len(inverted_index[word])
            /\ inverted_index'[word][k] = inverted_index[word][k]
        BY <1>10, <2>2, <3>5
      <4> QED
        BY <2>2, <3>3, <4>1 DEF IndexFacts, PostingsAscend
    <3> QED
      BY <3>4, <3>5
  <2> QED
    BY <2>1, <2>2
<1> QED
  BY <1>8, <1>11, <1>12, <1>13 DEF IndexFacts

\* The counting loops.
LEMMA CountTitleKeepsCounts ==
  ASSUME TypeInv, CountsSoFar, CountTitle
  PROVE  CountsSoFar'
<1> DEFINE title == CurrentDoc.title
           word  == Lower[CutWord(title)[counted + 1]]
           cnt   == CntAt(word_cnt_map, word)
<1>1. /\ pc = "title" /\ pc' = "title"
      /\ counted' = counted + 1 /\ counted < Len(CutWord(title))
      /\ CurrentDoc' = CurrentDoc
      /\ word_cnt_map' = SetCnt(word_cnt_map, word,
                           [title_cnt   |-> cnt.title_cnt + 1,
                            content_cnt |-> cnt.content_cnt])
  BY DEF CountTitle, CurrentDoc
<1>2. title \in Text /\ counted \in Nat
  BY <1>1, CurrentDocType DEF TypeInv, TypeOK, InBuildInverted
<1>3. word \in Word
  BY <1>1, <1>2, TokenType
<1>4. Len(CutWord(title)) \in Nat
  BY <1>2, CutAssumption DEF CutWord
<1>5. \A w \in Word : CntAt(word_cnt_map, w) =
        [title_cnt |-> OccursUpTo(title, w, counted), content_cnt |-> 0]
  BY <1>1 DEF CountsSoFar
<1>6. \A w \in Word : OccursUpTo(title, w, counted) \in Nat
  BY <1>2, OccursFinite
<1>7. \A w \in Word : OccursUpTo(title, w, counted + 1) =
        IF w = word THEN OccursUpTo(title, w, counted) + 1
                    ELSE OccursUpTo(title, w, counted)
  BY <1>2, OccursStep DEF CutWord
<1>8. \A w \in Word : CntAt(word_cnt_map', w) =
        IF w = word THEN [title_cnt   |-> cnt.title_cnt + 1,
                          content_cnt |-> cnt.content_cnt]
                    ELSE CntAt(word_cnt_map, w)
  BY <1>1 DEF CntAt, SetCnt
<1>9. \A w \in Word : CntAt(word_cnt_map', w) =
        [title_cnt |-> OccursUpTo(title, w, counted + 1), content_cnt |-> 0]
  BY <1>3, <1>5, <1>7, <1>8
<1>10. \A w \in DOMAIN word_cnt_map' : WeightOfCnt(word_cnt_map'[w]) > 0
  <2> SUFFICES ASSUME NEW w \in DOMAIN word_cnt_map'
               PROVE  WeightOfCnt(word_cnt_map'[w]) > 0
    OBVIOUS
  <2>1. CASE w = word
    <3>1. word_cnt_map'[w] = [title_cnt   |-> OccursUpTo(title, word, counted) + 1,
                              content_cnt |-> 0]
      BY <1>1, <1>3, <1>5, <2>1 DEF SetCnt
    <3> QED
      BY <1>3, <1>6, <3>1 DEF WeightOfCnt
  <2>2. CASE w # word
    BY <1>1, <2>2 DEF SetCnt, CountsSoFar, InBuildInverted
  <2> QED
    BY <2>1, <2>2
<1>11. counted' <= Len(CutForSearch[title])
  BY <1>1, <1>2, <1>4 DEF CutWord
<1> QED
  BY <1>1, <1>9, <1>10, <1>11 DEF CountsSoFar

LEMMA CountContentKeepsCounts ==
  ASSUME TypeInv, CountsSoFar, CountContent
  PROVE  CountsSoFar'
<1> DEFINE title   == CurrentDoc.title
           content == CurrentDoc.content
           word    == Lower[CutWord(content)[counted + 1]]
           cnt     == CntAt(word_cnt_map, word)
<1>1. /\ pc = "content" /\ pc' = "content"
      /\ counted' = counted + 1 /\ counted < Len(CutWord(content))
      /\ CurrentDoc' = CurrentDoc
      /\ word_cnt_map' = SetCnt(word_cnt_map, word,
                           [title_cnt   |-> cnt.title_cnt,
                            content_cnt |-> cnt.content_cnt + 1])
  BY DEF CountContent, CurrentDoc
<1>2. title \in Text /\ content \in Text /\ counted \in Nat
  BY <1>1, CurrentDocType DEF TypeInv, TypeOK, InBuildInverted
<1>3. word \in Word
  BY <1>1, <1>2, TokenType
<1>4. Len(CutWord(content)) \in Nat
  BY <1>2, CutAssumption DEF CutWord
<1>5. \A w \in Word : CntAt(word_cnt_map, w) =
        [title_cnt   |-> Occurs(title, w),
         content_cnt |-> OccursUpTo(content, w, counted)]
  BY <1>1 DEF CountsSoFar
<1>6. \A w \in Word : /\ OccursUpTo(content, w, counted) \in Nat
                      /\ Occurs(title, w) \in Nat
  <2>1. Len(CutForSearch[title]) \in Nat
    BY <1>2, CutAssumption
  <2> QED
    BY <1>2, <2>1, OccursFinite DEF Occurs
<1>7. \A w \in Word : OccursUpTo(content, w, counted + 1) =
        IF w = word THEN OccursUpTo(content, w, counted) + 1
                    ELSE OccursUpTo(content, w, counted)
  BY <1>2, OccursStep DEF CutWord
<1>8. \A w \in Word : CntAt(word_cnt_map', w) =
        IF w = word THEN [title_cnt   |-> cnt.title_cnt,
                          content_cnt |-> cnt.content_cnt + 1]
                    ELSE CntAt(word_cnt_map, w)
  BY <1>1 DEF CntAt, SetCnt
<1>9. \A w \in Word : CntAt(word_cnt_map', w) =
        [title_cnt   |-> Occurs(title, w),
         content_cnt |-> OccursUpTo(content, w, counted + 1)]
  BY <1>3, <1>5, <1>7, <1>8
<1>10. \A w \in DOMAIN word_cnt_map' : WeightOfCnt(word_cnt_map'[w]) > 0
  <2> SUFFICES ASSUME NEW w \in DOMAIN word_cnt_map'
               PROVE  WeightOfCnt(word_cnt_map'[w]) > 0
    OBVIOUS
  <2>1. CASE w = word
    <3>1. word_cnt_map'[w] =
            [title_cnt   |-> Occurs(title, word),
             content_cnt |-> OccursUpTo(content, word, counted) + 1]
      BY <1>1, <1>3, <1>5, <2>1 DEF SetCnt
    <3> QED
      BY <1>3, <1>6, <3>1 DEF WeightOfCnt
  <2>2. CASE w # word
    BY <1>1, <2>2 DEF SetCnt, CountsSoFar, InBuildInverted
  <2> QED
    BY <2>1, <2>2
<1>11. counted' <= Len(CutForSearch[content])
  BY <1>1, <1>2, <1>4 DEF CutWord
<1> QED
  BY <1>1, <1>9, <1>10, <1>11 DEF CountsSoFar

\* CountsSoFar in every step: the loops start from an empty map and hand over
\* to each other when a field is exhausted.
LEMMA NextKeepsCounts ==
  ASSUME TypeInv, TypeInv', CountsSoFar, [Next]_vars
  PROVE  CountsSoFar'
<1>1. CASE \/ OpenFails \/ OpenSucceeds \/ EndOfFile \/ RejectLine \/ LineIndexed
           \/ \E line \in Line : GetLine(line)
  BY <1>1 DEF OpenFails, OpenSucceeds, EndOfFile, RejectLine, LineIndexed,
              GetLine, CountsSoFar, InBuildInverted
<1>2. CASE BuildForward
  <2>1. pc' = "title" /\ counted' = 0 /\ word_cnt_map' = [w \in {} |-> 0]
    BY <1>2 DEF BuildForward
  <2>a. CurrentDoc' \in DocInfo
    BY <2>1 DEF TypeInv, TypeOK, PointsToBack, InBuildInverted, CurrentDoc
  <2>2. CurrentDoc'.title \in Text
    BY <2>a DEF DocInfo
  <2>3. Len(CutForSearch[CurrentDoc'.title]) \in Nat
    BY <2>2, CutAssumption
  <2>4. \A w \in Word : CntAt(word_cnt_map', w) =
          [title_cnt   |-> OccursUpTo(CurrentDoc'.title, w, 0),
           content_cnt |-> 0]
    BY <2>1, OccursZero DEF CntAt
  <2> QED
    BY <2>1, <2>3, <2>4 DEF CountsSoFar
<1>3. CASE CountTitle
  BY <1>3, CountTitleKeepsCounts
<1>4. CASE TitleCounted
  <2>1. /\ pc = "title" /\ pc' = "content" /\ counted' = 0
        /\ counted = Len(CutForSearch[CurrentDoc.title])
        /\ word_cnt_map' = word_cnt_map /\ CurrentDoc' = CurrentDoc
    BY <1>4 DEF TitleCounted, CurrentDoc, CutWord
  <2>2. Len(CutForSearch[CurrentDoc.content]) \in Nat
    BY <2>1, CurrentDocType, CutAssumption DEF TypeInv, InBuildInverted
  <2>3. \A w \in Word : CntAt(word_cnt_map, w) =
          [title_cnt   |-> Occurs(CurrentDoc.title, w),
           content_cnt |-> OccursUpTo(CurrentDoc.content, w, 0)]
    BY <2>1, OccursZero DEF CountsSoFar, Occurs
  <2>4. \A w \in DOMAIN word_cnt_map : WeightOfCnt(word_cnt_map[w]) > 0
    BY <2>1 DEF CountsSoFar, InBuildInverted
  <2> QED
    BY <2>1, <2>2, <2>3, <2>4 DEF CountsSoFar
<1>5. CASE CountContent
  BY <1>5, CountContentKeepsCounts
<1>6. CASE ContentCounted
  <2>1. /\ pc = "content" /\ pc' = "insert"
        /\ counted = Len(CutForSearch[CurrentDoc.content])
        /\ word_cnt_map' = word_cnt_map /\ CurrentDoc' = CurrentDoc
    BY <1>6 DEF ContentCounted, CurrentDoc, CutWord
  <2>2. \A w \in Word : CntAt(word_cnt_map, w) =
          [title_cnt   |-> Occurs(CurrentDoc.title, w),
           content_cnt |-> Occurs(CurrentDoc.content, w)]
    BY <2>1 DEF CountsSoFar, Occurs
  <2>3. \A w \in DOMAIN word_cnt_map : WeightOfCnt(word_cnt_map[w]) > 0
    BY <2>1 DEF CountsSoFar, InBuildInverted
  <2> QED
    BY <2>1, <2>2, <2>3 DEF CountsSoFar
<1>7. ASSUME NEW word \in todo, InsertWord(word)
      PROVE  CountsSoFar'
  <2>1. /\ pc = "insert" /\ pc' = "insert"
        /\ word_cnt_map' = word_cnt_map /\ CurrentDoc' = CurrentDoc
    BY <1>7 DEF InsertWord, CurrentDoc
  <2> QED
    BY <2>1 DEF CountsSoFar, InBuildInverted
<1>8. CASE UNCHANGED vars
  BY <1>8 DEF vars, CountsSoFar, InBuildInverted, CurrentDoc
<1> QED
  BY <1>1, <1>2, <1>3, <1>4, <1>5, <1>6, <1>7, <1>8 DEF Next, BuildLine

\* PostedSoFar in every step.
LEMMA NextKeepsPosted ==
  ASSUME TypeInv, IndexFacts, PostedSoFar, [Next]_vars
  PROVE  PostedSoFar'
<1>1. CASE \/ OpenFails \/ OpenSucceeds \/ EndOfFile \/ RejectLine \/ LineIndexed
           \/ \E line \in Line : GetLine(line)
  BY <1>1 DEF OpenFails, OpenSucceeds, EndOfFile, RejectLine, LineIndexed,
              GetLine, PostedSoFar
<1>2. CASE BuildForward
  <2>1. pc' = "title" /\ inverted_index' = inverted_index
    BY <1>2 DEF BuildForward
  <2>2. Len(forward_index') - 1 = Len(forward_index)
    BY <1>2, PushEffect DEF TypeInv
  <2> QED
    BY <2>1, <2>2 DEF PostedSoFar, IndexFacts, PostingsInRange
<1>3. CASE CountTitle \/ TitleCounted \/ CountContent
  BY <1>3 DEF CountTitle, TitleCounted, CountContent, PostedSoFar
<1>4. CASE ContentCounted
  BY <1>4 DEF ContentCounted, PostedSoFar
<1>5. ASSUME NEW word \in todo, InsertWord(word)
      PROVE  PostedSoFar'
  <2>1. /\ pc = "insert" /\ pc' = "insert" /\ todo' = todo \ {word}
        /\ forward_index' = forward_index /\ word_cnt_map' = word_cnt_map
        /\ doc_info = Len(forward_index) /\ doc_info > 0
        /\ Len(forward_index) \in Nat
    BY <1>5 DEF InsertWord, TypeInv, TypeOK, PointsToBack, InBuildInverted
  <2>2. NewWeight(word).doc_id = Len(forward_index) - 1
    BY <2>1 DEF IndexFacts, DocIdsInOrder, CurrentDoc, NewWeight
  <2>3. ASSUME NEW w \in DOMAIN inverted_index' \cap todo',
               NEW k \in 1..Len(inverted_index'[w])
        PROVE  inverted_index'[w][k].doc_id < Len(forward_index) - 1
    <3>1. w \in DOMAIN inverted_index \cap todo /\ inverted_index'[w] = inverted_index[w]
      BY <1>5, <2>1, <2>3, InsertEffect DEF TypeInv
    <3> QED
      BY <2>1, <3>1 DEF PostedSoFar
  <2>4. ASSUME NEW w \in DOMAIN word_cnt_map \ todo'
        PROVE  /\ w \in DOMAIN inverted_index'
               /\ \E k \in 1..Len(inverted_index'[w]) :
                    inverted_index'[w][k].doc_id = Len(forward_index) - 1
    <3>1. CASE w = word
      <4>a. /\ word \in DOMAIN inverted_index'
            /\ Len(ListAt(word)) \in Nat
            /\ Len(inverted_index'[word]) = Len(ListAt(word)) + 1
            /\ inverted_index'[word][Len(ListAt(word)) + 1] = NewWeight(word)
        BY <1>5, InsertEffect, Zenon DEF TypeInv
      <4>1. Len(ListAt(word)) + 1 \in 1..Len(inverted_index'[word])
        BY <4>a
      <4> QED
        BY <2>2, <3>1, <4>a, <4>1
    <3>2. CASE w # word
      <4>1. w \in DOMAIN word_cnt_map \ todo
        BY <2>1, <2>4, <3>2
      <4>2. w \in DOMAIN inverted_index
        BY <2>1, <4>1 DEF PostedSoFar
      <4>3. w \in DOMAIN inverted_index' /\ inverted_index'[w] = inverted_index[w]
        BY <1>5, <3>2, <4>2, InsertEffect DEF TypeInv
      <4> QED
        BY <2>1, <4>1, <4>3 DEF PostedSoFar
    <3> QED
      BY <3>1, <3>2
  <2> QED
    BY <2>1, <2>3, <2>4 DEF PostedSoFar
<1>6. CASE UNCHANGED vars
  BY <1>6 DEF vars, PostedSoFar
<1> QED
  BY <1>1, <1>2, <1>3, <1>4, <1>5, <1>6 DEF Next, BuildLine

\* PostingsComplete in every step: the document in BuildInverted is owed its
\* postings until the last loop ends, and then it has them all.
LEMMA NextKeepsComplete ==
  ASSUME TypeInv, IndexFacts, CountsSoFar, PostedSoFar, PostingsComplete,
         [Next]_vars
  PROVE  PostingsComplete'
<1>1. CASE \/ OpenFails \/ OpenSucceeds \/ EndOfFile \/ RejectLine
           \/ \E line \in Line : GetLine(line)
  <2>1. ~InBuildInverted /\ forward_index' = forward_index
          /\ inverted_index' = inverted_index
    BY <1>1 DEF OpenFails, OpenSucceeds, EndOfFile, RejectLine, GetLine,
                InBuildInverted
  <2> QED
    BY <2>1 DEF PostingsComplete, Indexed
<1>2. CASE \/ CountTitle \/ TitleCounted \/ CountContent \/ ContentCounted
           \/ UNCHANGED vars
  <2>1. (InBuildInverted <=> InBuildInverted') /\ forward_index' = forward_index
          /\ inverted_index' = inverted_index
    BY <1>2 DEF CountTitle, TitleCounted, CountContent, ContentCounted, vars,
                InBuildInverted
  <2> QED
    BY <2>1 DEF PostingsComplete, Indexed
<1>3. CASE BuildForward
  <2>1. /\ ~InBuildInverted /\ InBuildInverted'
        /\ inverted_index' = inverted_index
    BY <1>3 DEF BuildForward, InBuildInverted
  <2>2. /\ Len(forward_index) \in Nat
        /\ Len(forward_index') = Len(forward_index) + 1
        /\ \A i \in 1..Len(forward_index) : forward_index'[i] = forward_index[i]
    BY <1>3, PushEffect DEF TypeInv
  <2>3. \A i \in 1..Len(forward_index') : Indexed(i)' => i \in 1..Len(forward_index)
    BY <2>1, <2>2 DEF Indexed
  <2>4. \A i \in 1..Len(forward_index) : Indexed(i)
    BY <2>1 DEF Indexed
  <2> QED
    BY <2>1, <2>2, <2>3, <2>4 DEF PostingsComplete, WeightIn
<1>4. ASSUME NEW word \in todo, InsertWord(word)
      PROVE  PostingsComplete'
  <2>1. forward_index' = forward_index /\ (InBuildInverted <=> InBuildInverted')
    BY <1>4 DEF InsertWord, InBuildInverted
  <2>2. /\ Len(ListAt(word)) \in Nat
        /\ Len(inverted_index'[word]) = Len(ListAt(word)) + 1
        /\ \A k \in 1..Len(ListAt(word)) :
             inverted_index'[word][k] = ListAt(word)[k]
        /\ DOMAIN inverted_index' = DOMAIN inverted_index \cup {word}
        /\ \A w \in DOMAIN inverted_index :
             w # word => inverted_index'[w] = inverted_index[w]
    BY <1>4, InsertEffect, Zenon DEF TypeInv
  <2>3. ASSUME NEW w \in DOMAIN inverted_index,
               NEW k \in 1..Len(inverted_index[w])
        PROVE  /\ w \in DOMAIN inverted_index'
               /\ k \in 1..Len(inverted_index'[w])
               /\ inverted_index'[w][k] = inverted_index[w][k]
    <3>1. w = word => ListAt(word) = inverted_index[w]
      BY DEF ListAt
    <3> QED
      BY <2>2, <3>1
  <2>4. SUFFICES ASSUME NEW i \in 1..Len(forward_index), Indexed(i),
                        NEW w \in Word, WeightIn(forward_index[i], w) > 0
                 PROVE  /\ w \in DOMAIN inverted_index'
                        /\ \E k \in 1..Len(inverted_index'[w]) :
                             inverted_index'[w][k].doc_id = forward_index[i].doc_id
    BY <2>1 DEF PostingsComplete, Indexed
  <2>5. w \in DOMAIN inverted_index
    BY <2>4 DEF PostingsComplete
  <2>6. PICK k \in 1..Len(inverted_index[w]) :
               inverted_index[w][k].doc_id = forward_index[i].doc_id
    BY <2>4 DEF PostingsComplete
  <2> QED
    BY <2>3, <2>5, <2>6
<1>5. CASE LineIndexed
  <2>1. /\ pc = "insert" /\ todo = {} /\ forward_index' = forward_index
        /\ inverted_index' = inverted_index
    BY <1>5 DEF LineIndexed
  <2>2. /\ doc_info = Len(forward_index) /\ doc_info > 0
        /\ Len(forward_index) \in Nat
    BY <2>1 DEF TypeInv, TypeOK, PointsToBack, InBuildInverted
  <2>3. SUFFICES ASSUME NEW i \in 1..Len(forward_index),
                        NEW w \in Word, WeightIn(forward_index[i], w) > 0
                 PROVE  /\ w \in DOMAIN inverted_index
                        /\ \E k \in 1..Len(inverted_index[w]) :
                             inverted_index[w][k].doc_id = forward_index[i].doc_id
    BY <2>1 DEF PostingsComplete
  <2>4. CASE i < Len(forward_index)
    BY <2>3, <2>4 DEF PostingsComplete, Indexed
  <2>5. CASE i = Len(forward_index)
    <3>1. forward_index[i].doc_id = Len(forward_index) - 1
      BY <2>5 DEF IndexFacts, DocIdsInOrder
    <3>2. CntAt(word_cnt_map, w) =
            [title_cnt   |-> Occurs(forward_index[i].title, w),
             content_cnt |-> Occurs(forward_index[i].content, w)]
      BY <2>1, <2>2, <2>5 DEF CountsSoFar, CurrentDoc
    <3>3. w \in DOMAIN word_cnt_map
      <4>1. WeightOfCnt(CntAt(word_cnt_map, w)) > 0
        BY <2>3, <3>2 DEF WeightOfCnt, WeightIn
      <4> QED
        BY <4>1 DEF CntAt, WeightOfCnt
    <3> QED
      BY <2>1, <3>1, <3>3 DEF PostedSoFar
  <2> QED
    BY <2>2, <2>4, <2>5
<1> QED
  BY <1>1, <1>2, <1>3, <1>4, <1>5 DEF Next, BuildLine

-----------------------------------------------------------------------------
(* The inductive step and the theorems.                                    *)

LEMMA NextIndexInv == IndexInv /\ [Next]_vars => IndexInv'
<1> SUFFICES ASSUME IndexInv, [Next]_vars PROVE IndexInv'
  OBVIOUS
<1>1. TypeInv /\ IndexFacts
  BY DEF IndexInv, TypeInv, IndexFacts
<1>2. CountsSoFar /\ PostedSoFar /\ PostingsComplete
  BY DEF IndexInv
<1>3. TypeInv'
  BY <1>1, NextTypeInv
<1>4. CountsSoFar'
  BY <1>1, <1>2, <1>3, NextKeepsCounts
<1>5. PostedSoFar'
  BY <1>1, <1>2, NextKeepsPosted
<1>6. PostingsComplete'
  BY <1>1, <1>2, NextKeepsComplete
<1>7. IndexFacts'
  <2>1. CASE BuildForward
    BY <1>1, <2>1, PushKeepsIndexFacts DEF TypeInv
  <2>2. ASSUME NEW word \in todo, InsertWord(word) PROVE IndexFacts'
    BY <1>1, <1>2, <2>2, InsertKeepsIndexFacts
  <2>3. CASE UNCHANGED <<forward_index, inverted_index>>
    BY <1>1, <2>3, IndexFactsKept
  <2> QED
    BY <2>1, <2>2, <2>3
    DEF Next, BuildLine, OpenFails, OpenSucceeds, GetLine, EndOfFile,
        RejectLine, CountTitle, TitleCounted, CountContent, ContentCounted,
        LineIndexed, vars
<1> QED
  BY <1>3, <1>4, <1>5, <1>6, <1>7 DEF IndexInv, TypeInv, IndexFacts

\* Whatever lines raw_input.txt holds, every step of Index::Build keeps the
\* inductive invariant.
THEOREM IndexInvariant == Spec => []IndexInv
BY InitIndexInv, NextIndexInv, PTL DEF Spec

\* Whatever the lines, every posting of the inverted index carries the weight
\* of its word in the document it names.
THEOREM PostingsAreSound == Spec => []PostingsSound
<1>1. IndexInv => PostingsSound
  BY DEF IndexInv
<1> QED
  BY <1>1, IndexInvariant, PTL

\* Whatever the lines, BuildInverted leaves out no word of a document.
THEOREM PostingsAreComplete == Spec => []PostingsComplete
<1>1. IndexInv => PostingsComplete
  BY DEF IndexInv
<1> QED
  BY <1>1, IndexInvariant, PTL

\* Whatever the lines, no inverted list names a document twice.
THEOREM PostingsAreAscending == Spec => []PostingsAscend
<1>1. IndexInv => PostingsAscend
  BY DEF IndexInv
<1> QED
  BY <1>1, IndexInvariant, PTL

\* GetDocInfo finds every document under the id it carries.
THEOREM DocIdsArePositions == Spec => []DocIdIsPosition
<1>1. ASSUME IndexInv PROVE DocIdIsPosition
  <2>1. /\ Len(forward_index) \in Nat
        /\ \A i \in 1..Len(forward_index) : forward_index[i].doc_id = i - 1
    BY <1>1 DEF IndexInv, TypeOK, DocIdsInOrder
  <2> QED
    BY <2>1 DEF DocIdIsPosition, GetDocInfo
<1> QED
  BY <1>1, IndexInvariant, PTL

\* At no moment of Build does a posting name a document GetDocInfo misses, so
\* the pointer that Search dereferences unchecked is never null.
THEOREM NoPostingDangles == Spec => []NoDanglingPosting
<1>1. ASSUME IndexInv PROVE NoDanglingPosting
  <2> SUFFICES ASSUME NEW w \in DOMAIN inverted_index,
                      NEW k \in 1..Len(inverted_index[w])
               PROVE  GetDocInfo(inverted_index[w][k].doc_id) # nullptr
    BY DEF NoDanglingPosting
  <2> DEFINE d == inverted_index[w][k].doc_id
  <2>1. inverted_index[w][k] \in Weight
    BY <1>1 DEF IndexInv, TypeOK, IsPartialMap, InvertedList
  <2>2. d \in Nat /\ d < Len(forward_index)
    BY <1>1, <2>1 DEF IndexInv, PostingsInRange, Weight
  <2>3. forward_index[d + 1] \in DocInfo
    BY <1>1, <2>2 DEF IndexInv, TypeOK
  <2>4. GetDocInfo(d) = forward_index[d + 1]
    BY <1>1, <2>2 DEF GetDocInfo, IndexInv, TypeOK
  <2> QED
    BY <2>3, <2>4, NullAssumption DEF DocInfo
<1> QED
  BY <1>1, IndexInvariant, PTL

\* What Append leaves in front of the new element.
LEMMA AppendKeepsPrefix ==
  ASSUME NEW S, NEW s \in Seq(S), NEW x \in S
  PROVE  SubSeq(Append(s, x), 1, Len(s)) = s
OBVIOUS

\* Build never changes, reorders or drops what it has indexed.
THEOREM IndexIsAppendOnly == Spec => AppendOnly
<1> DEFINE A ==
      /\ SubSeq(forward_index', 1, Len(forward_index)) = forward_index
      /\ \A w \in DOMAIN inverted_index :
           /\ w \in DOMAIN inverted_index'
           /\ SubSeq(inverted_index'[w], 1, Len(inverted_index[w]))
                = inverted_index[w]
<1>1. ASSUME IndexInv, IndexInv', [Next]_vars PROVE [A]_indexVars
  <2>1. TypeInv
    BY <1>1 DEF IndexInv, TypeInv
  <2>2. SubSeq(forward_index, 1, Len(forward_index)) = forward_index
    BY <2>1 DEF TypeInv, TypeOK
  <2>3. ASSUME NEW w \in DOMAIN inverted_index
        PROVE  /\ inverted_index[w] \in Seq(Weight)
               /\ SubSeq(inverted_index[w], 1, Len(inverted_index[w]))
                    = inverted_index[w]
    <3>1. inverted_index[w] \in Seq(Weight)
      BY <2>1 DEF TypeInv, TypeOK, IsPartialMap, InvertedList
    <3> QED
      BY <3>1
  <2>4. CASE BuildForward
    <3>1. inverted_index' = inverted_index
      BY <2>4 DEF BuildForward
    <3>2. SubSeq(forward_index', 1, Len(forward_index)) = forward_index
      <4>1. /\ Len(forward_index') = Len(forward_index) + 1
            /\ Len(forward_index) \in Nat
            /\ forward_index' \in Seq(DocInfo)
            /\ \A i \in 1..Len(forward_index) : forward_index'[i] = forward_index[i]
        BY <2>1, <2>4, PushEffect DEF TypeInv
      <4> QED
        BY <2>1, <4>1 DEF TypeInv, TypeOK
    <3> QED
      BY <2>3, <3>1, <3>2
  <2>5. ASSUME NEW word \in todo, InsertWord(word) PROVE A
    <3>1. forward_index' = forward_index
      BY <2>5 DEF InsertWord
    <3>2. /\ DOMAIN inverted_index' = DOMAIN inverted_index \cup {word}
          /\ \A w \in DOMAIN inverted_index :
               w # word => inverted_index'[w] = inverted_index[w]
          /\ inverted_index'[word] = Append(ListAt(word), NewWeight(word))
          /\ ListAt(word) \in Seq(Weight)
      BY <2>1, <2>5, InsertEffect, Zenon DEF TypeInv
    <3>3. NewWeight(word) \in Weight
      BY <2>1, <2>5, NewWeightType
    <3>4. SubSeq(inverted_index'[word], 1, Len(ListAt(word))) = ListAt(word)
      BY <3>2, <3>3, AppendKeepsPrefix
    <3>5. word \in DOMAIN inverted_index => ListAt(word) = inverted_index[word]
      BY DEF ListAt
    <3> QED
      BY <2>2, <2>3, <3>1, <3>2, <3>4, <3>5
  <2>6. CASE UNCHANGED <<forward_index, inverted_index>>
    BY <2>6 DEF indexVars
  <2> QED
    BY <1>1, <2>4, <2>5, <2>6
    DEF Next, BuildLine, OpenFails, OpenSucceeds, GetLine, EndOfFile,
        RejectLine, CountTitle, TitleCounted, CountContent, ContentCounted,
        LineIndexed, vars
<1> QED
  BY <1>1, IndexInvariant, PTL DEF Spec, AppendOnly

=============================================================================
