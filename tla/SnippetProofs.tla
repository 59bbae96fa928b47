--------------------------- MODULE SnippetProofs ---------------------------
(***************************************************************************)
(* GenerateDesc keeps its promises for every content, every keyword and    *)
(* every length of excerpt and lead.                                       *)
(***************************************************************************)
EXTENDS SnippetCall, TLAPS, WellFoundedInduction

\* A set of positions that is not empty has a first element.
LEMMA FirstPosition ==
  ASSUME NEW S \in SUBSET Nat, S # {}
  PROVE  \E p \in S : \A q \in S : p <= q
<1>1. \E p \in S : \A q \in S : ~(<<q, p>> \in OpToRel(<, Nat))
  BY WFMin, NatLessThanWellFounded
<1>2. PICK p \in S : \A q \in S : ~(<<q, p>> \in OpToRel(<, Nat))
  BY <1>1
<1>3. ASSUME NEW q \in S, q < p
      PROVE  <<q, p>> \in OpToRel(<, Nat)
  BY <1>3, Zenon DEF OpToRel
<1>4. \A q \in S : ~(q < p)
  BY <1>2, <1>3, Zenon
<1> QED
  BY <1>4

\* find returns npos or a position at which the word stands; it returns npos
\* only when there is no such position.
LEMMA FindFinds ==
  ASSUME NEW S, NEW text \in Seq(S), NEW w \in Seq(S)
  PROVE  /\ (\E p \in 0..Len(text) : OccursAt(text, w, p)) =>
              /\ Find(text, w) \in 0..Len(text)
              /\ OccursAt(text, w, Find(text, w))
         /\ ~(\E p \in 0..Len(text) : OccursAt(text, w, p)) =>
              Find(text, w) = npos
<1>1. ASSUME \E p \in 0..Len(text) : OccursAt(text, w, p)
      PROVE  /\ Find(text, w) \in 0..Len(text)
             /\ OccursAt(text, w, Find(text, w))
  <2> DEFINE P == {p \in 0..Len(text) : OccursAt(text, w, p)}
  <2>1. P \in SUBSET Nat /\ P # {}
    BY <1>1
  <2>2. \E p \in P : \A q \in P : p <= q
    BY <2>1, FirstPosition
  <2>3. \E p \in 0..Len(text) :
          /\ OccursAt(text, w, p)
          /\ \A q \in 0..Len(text) : OccursAt(text, w, q) => p <= q
    BY <2>2
  <2> QED
    BY <1>1, <2>3 DEF Find
<1>2. ASSUME ~(\E p \in 0..Len(text) : OccursAt(text, w, p))
      PROVE  Find(text, w) = npos
  BY <1>2 DEF Find
<1> QED
  BY <1>1, <1>2

\* The position where the excerpt starts lies in the content, Lead before the
\* word or at the beginning.
LEMMA DescBegBounds ==
  ASSUME NEW n \in Nat, NEW first_pos \in 0..n
  PROVE  /\ DescBeg(first_pos) \in 0..n
         /\ DescBeg(first_pos) <= first_pos
         /\ first_pos - DescBeg(first_pos) <= Lead
BY LeadAssumption DEF DescBeg

\* A full excerpt: DescLen characters of the content, the last three of them
\* dots.
LEMMA DottedExcerpt ==
  ASSUME NEW S, NEW text \in Seq(S), NEW beg \in Nat,
         beg + DescLen <= Len(text)
  PROVE  LET d == Dotted(SubstrTo(text, beg, DescLen))
         IN  /\ Len(d) = DescLen
             /\ \A k \in 1..DescLen :
                  d[k] = IF k > DescLen - 3 THEN Dot ELSE text[beg + k]
<1> DEFINE s == SubstrTo(text, beg, DescLen)
<1>1. s = SubSeq(text, beg + 1, beg + DescLen)
  BY DescLenAssumption DEF SubstrTo
<1>2. /\ Len(s) = DescLen
      /\ \A k \in 1..DescLen : s[k] = text[beg + k]
  BY <1>1, DescLenAssumption
<1> HIDE DEF s
<1>3. Dotted(s) = [k \in 1..DescLen |-> IF k > DescLen - 3 THEN Dot ELSE s[k]]
  BY <1>2 DEF Dotted
<1>4. Len(Dotted(s)) = DescLen
  BY <1>3, DescLenAssumption
<1>5. \A k \in 1..DescLen :
        Dotted(s)[k] = IF k > DescLen - 3 THEN Dot ELSE text[beg + k]
  BY <1>2, <1>3
<1> QED
  BY <1>4, <1>5 DEF s

\* The three ways GenerateDesc returns: the rest of the content from beg on,
\* short enough, or a full excerpt from beg on; where the word was found, beg
\* is at most Lead before it.
LEMMA GenerateDescCases ==
  ASSUME NEW c \in Content, NEW w \in Keyword
  PROVE  \E beg \in 0..Len(c) :
           /\ \/ /\ GenerateDesc(c, w) = SubSeq(c, beg + 1, Len(c))
                 /\ Len(c) <= beg + DescLen
              \/ /\ GenerateDesc(c, w) = Dotted(SubstrTo(c, beg, DescLen))
                 /\ beg + DescLen <= Len(c)
           /\ (\E p \in 0..Len(c) : OccursAt(c, w, p)) =>
                \E p \in 0..Len(c) :
                  OccursAt(c, w, p) /\ beg <= p /\ p - beg <= Lead
<1> DEFINE first_pos == Find(c, w)
<1>1. c \in Seq(Char) /\ w \in Seq(Char) /\ Len(c) \in Nat
  BY TextAssumption
<1>2. CASE ~(\E p \in 0..Len(c) : OccursAt(c, w, p))
  <2>1. first_pos = npos
    BY <1>1, <1>2, FindFinds
  <2>2. GenerateDesc(c, w) = IF Len(c) < DescLen
                               THEN c
                               ELSE Dotted(SubstrTo(c, 0, DescLen))
    BY <2>1 DEF GenerateDesc
  <2>3. c = SubSeq(c, 0 + 1, Len(c))
    BY <1>1
  <2> QED
    BY <1>1, <1>2, <2>2, <2>3, DescLenAssumption
<1>3. CASE \E p \in 0..Len(c) : OccursAt(c, w, p)
  <2> DEFINE desc_beg == DescBeg(first_pos)
  <2>1. first_pos \in 0..Len(c) /\ OccursAt(c, w, first_pos)
    BY <1>1, <1>3, FindFinds
  <2>2. /\ desc_beg \in 0..Len(c) /\ desc_beg <= first_pos
        /\ first_pos - desc_beg <= Lead
    BY <1>1, <2>1, DescBegBounds
  <2>3. first_pos # npos
    BY <1>1, <2>1 DEF npos
  <2>4. GenerateDesc(c, w) = IF desc_beg + DescLen >= Len(c)
                               THEN SubSeq(c, desc_beg + 1, Len(c))
                               ELSE Dotted(SubstrTo(c, desc_beg, DescLen))
    BY <2>3 DEF GenerateDesc, SubstrFrom
  <2> HIDE DEF desc_beg, first_pos
  <2> QED
    BY <1>1, <2>1, <2>2, <2>4, DescLenAssumption
<1> QED
  BY <1>2, <1>3

-----------------------------------------------------------------------------
\* The call and its result.
CallInv ==
  /\ content \in Content /\ word \in Keyword
  /\ pc = "call" => desc = <<>>
  /\ pc # "call" => desc = GenerateDesc(content, word)

LEMMA CallInvariant == Spec => []CallInv
<1>1. Init => CallInv
  BY DEF Init, CallInv
<1>2. CallInv /\ [Next]_vars => CallInv'
  BY DEF CallInv, Next, Return, vars
<1> QED
  BY <1>1, <1>2, PTL DEF Spec

\* GenerateDesc never returns more than DescLen characters.
THEOREM DescAlwaysFits == Spec => []DescFits
<1>1. ASSUME CallInv PROVE DescFits
  <2>1. CASE pc = "call"
    BY <1>1, <2>1, DescLenAssumption DEF CallInv, DescFits
  <2>2. CASE pc # "call"
    <3>1. content \in Seq(Char) /\ Len(content) \in Nat
      BY <1>1, TextAssumption DEF CallInv
    <3>2. PICK beg \in 0..Len(content) :
            \/ /\ desc = SubSeq(content, beg + 1, Len(content))
               /\ Len(content) <= beg + DescLen
            \/ /\ desc = Dotted(SubstrTo(content, beg, DescLen))
               /\ beg + DescLen <= Len(content)
      BY <1>1, <2>2, GenerateDescCases DEF CallInv
    <3>3. CASE /\ desc = SubSeq(content, beg + 1, Len(content))
               /\ Len(content) <= beg + DescLen
      <4>1. Len(desc) = Len(content) - beg
        BY <3>1, <3>3
      <4> QED
        BY <3>1, <3>3, <4>1, DescLenAssumption DEF DescFits
    <3>4. CASE /\ desc = Dotted(SubstrTo(content, beg, DescLen))
               /\ beg + DescLen <= Len(content)
      BY <3>1, <3>4, DottedExcerpt, DescLenAssumption DEF DescFits
    <3> QED
      BY <3>2, <3>3, <3>4
  <2> QED
    BY <2>1, <2>2
<1> QED
  BY <1>1, CallInvariant, PTL

\* What GenerateDesc returns is a piece of the content, cut only behind.
THEOREM DescAlwaysExcerpt == Spec => []DescIsExcerpt
<1>1. ASSUME CallInv PROVE DescIsExcerpt
  <2>0. content \in Seq(Char) /\ Len(content) \in Nat
    BY <1>1, TextAssumption DEF CallInv
  <2>1. CASE pc = "call"
    <3>1. desc = SubSeq(content, Len(content) + 1, Len(content))
      BY <1>1, <2>0, <2>1 DEF CallInv
    <3> QED
      BY <2>0, <3>1 DEF DescIsExcerpt
  <2>2. CASE pc # "call"
    <3>1. PICK beg \in 0..Len(content) :
            \/ /\ desc = SubSeq(content, beg + 1, Len(content))
               /\ Len(content) <= beg + DescLen
            \/ /\ desc = Dotted(SubstrTo(content, beg, DescLen))
               /\ beg + DescLen <= Len(content)
      BY <1>1, <2>2, GenerateDescCases DEF CallInv
    <3>2. CASE /\ desc = Dotted(SubstrTo(content, beg, DescLen))
               /\ beg + DescLen <= Len(content)
      <4>1. /\ Len(desc) = DescLen
            /\ \A k \in 1..DescLen :
                 desc[k] = IF k > DescLen - 3 THEN Dot ELSE content[beg + k]
        BY <2>0, <3>2, DottedExcerpt
      <4> QED
        BY <3>2, <4>1 DEF DescIsExcerpt
    <3> QED
      BY <3>1, <3>2 DEF DescIsExcerpt
  <2> QED
    BY <2>1, <2>2
<1> QED
  BY <1>1, CallInvariant, PTL

\* A keyword that stands in the content, and is not too long, stands in the
\* excerpt: the cut and the dots spare it.
THEOREM KeywordAlwaysShown == Spec => []KeywordShown
<1>1. ASSUME CallInv PROVE KeywordShown
  <2>0. /\ content \in Seq(Char) /\ Len(content) \in Nat
        /\ word \in Seq(Char) /\ Len(word) \in Nat
    BY <1>1, TextAssumption DEF CallInv
  <2>1. SUFFICES ASSUME pc = "return",
                        \E p \in 0..Len(content) : OccursAt(content, word, p),
                        Lead + Len(word) + 3 <= DescLen
                 PROVE  \E p \in 0..Len(desc) : OccursAt(desc, word, p)
    BY DEF KeywordShown
  <2>2. PICK beg \in 0..Len(content), p \in 0..Len(content) :
          /\ \/ /\ desc = SubSeq(content, beg + 1, Len(content))
                /\ Len(content) <= beg + DescLen
             \/ /\ desc = Dotted(SubstrTo(content, beg, DescLen))
                /\ beg + DescLen <= Len(content)
          /\ OccursAt(content, word, p) /\ beg <= p /\ p - beg <= Lead
    BY <1>1, <2>1, GenerateDescCases DEF CallInv
  <2>3. /\ p + Len(word) <= Len(content)
        /\ \A k \in 1..Len(word) : content[p + k] = word[k]
    BY <2>2 DEF OccursAt
  <2>4. CASE desc = SubSeq(content, beg + 1, Len(content))
    <3>1. /\ Len(desc) = Len(content) - beg
          /\ \A k \in 1..Len(content) - beg : desc[k] = content[beg + k]
      BY <2>0, <2>4
    <3>2. ASSUME NEW k \in 1..Len(word)
          PROVE  desc[(p - beg) + k] = content[p + k]
      <4>1. (p - beg) + k \in 1..Len(content) - beg
        BY <2>0, <2>2, <2>3
      <4>2. beg + ((p - beg) + k) = p + k
        BY <2>0
      <4> QED
        BY <3>1, <4>1, <4>2
    <3>3. p - beg \in 0..Len(desc) /\ (p - beg) + Len(word) <= Len(desc)
      BY <2>0, <2>2, <2>3, <3>1
    <3> QED
      BY <2>3, <3>2, <3>3 DEF OccursAt
  <2>5. CASE /\ desc = Dotted(SubstrTo(content, beg, DescLen))
             /\ beg + DescLen <= Len(content)
    <3>1. /\ Len(desc) = DescLen
          /\ \A k \in 1..DescLen :
               desc[k] = IF k > DescLen - 3 THEN Dot ELSE content[beg + k]
      BY <2>0, <2>5, DottedExcerpt
    <3>2. ASSUME NEW k \in 1..Len(word)
          PROVE  desc[(p - beg) + k] = content[p + k]
      <4>1. /\ (p - beg) + k \in 1..DescLen
            /\ ~((p - beg) + k > DescLen - 3)
        BY <2>0, <2>1, <2>2, LeadAssumption, DescLenAssumption
      <4>2. beg + ((p - beg) + k) = p + k
        BY <2>0
      <4> QED
        BY <3>1, <4>1, <4>2
    <3>3. p - beg \in 0..Len(desc) /\ (p - beg) + Len(word) <= Len(desc)
      BY <2>0, <2>1, <2>2, <3>1, LeadAssumption, DescLenAssumption
    <3> QED
      BY <2>3, <3>2, <3>3 DEF OccursAt
  <2> QED
    BY <2>2, <2>4, <2>5
<1> QED
  BY <1>1, CallInvariant, PTL

=============================================================================
