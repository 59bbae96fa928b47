------------------------------ MODULE Snippet ------------------------------
(***************************************************************************)
(* Searcher::GenerateDesc of searcher/searcher.cc: the excerpt of a page   *)
(* that is shown under a search result.                                    *)
(*                                                                         *)
(* Positions are those of std::string: they count from 0, and npos is what *)
(* find returns when there is nothing to find.                             *)
(***************************************************************************)
EXTENDS Integers, Sequences

CONSTANTS
  Dot,      \* '.'
  DescLen,  \* 160 in the code: the length of the excerpt
  Lead      \* 60 in the code: how far before the word the excerpt starts

ASSUME DescLenAssumption == DescLen \in Nat /\ DescLen >= 3

ASSUME LeadAssumption == Lead \in Nat

-----------------------------------------------------------------------------
npos == -1

OccursAt(text, w, p) ==
  /\ p + Len(w) <= Len(text)
  /\ \A k \in 1..Len(w) : text[p + k] = w[k]

\* std::string::find: the first occurrence.
Find(text, w) ==
  IF \E p \in 0..Len(text) : OccursAt(text, w, p)
    THEN CHOOSE p \in 0..Len(text) :
           /\ OccursAt(text, w, p)
           /\ \A q \in 0..Len(text) : OccursAt(text, w, q) => p <= q
    ELSE npos

\* std::string::substr, with and without a length.
SubstrTo(text, beg, n) ==
  SubSeq(text, beg + 1, IF beg + n < Len(text) THEN beg + n ELSE Len(text))

SubstrFrom(text, beg) == SubSeq(text, beg + 1, Len(text))

\* Mutation of Dotted: the dots are appended.
DotsAppended(text) == text \o <<Dot, Dot, Dot>>

\* The last three characters give way to dots.
Dotted(text) ==
  [k \in 1..Len(text) |-> IF k > Len(text) - 3 THEN Dot ELSE text[k]]

\* Mutation of DescBeg: the wrong sign.
DescBegBehind(first_pos) == IF first_pos < Lead THEN 0 ELSE first_pos + Lead

\* Where the excerpt starts when the word was found at first_pos.
DescBeg(first_pos) == IF first_pos < Lead THEN 0 ELSE first_pos - Lead

\* Mutation of GenerateDesc: a short rest is not told from a long one.
GenerateDescAlwaysDots(text, w) ==
  LET first_pos == Find(text, w)
  IN  IF first_pos = npos
        THEN IF Len(text) < DescLen THEN text
                                    ELSE Dotted(SubstrTo(text, 0, DescLen))
        ELSE Dotted(SubstrTo(text, DescBeg(first_pos), DescLen))

GenerateDesc(text, w) ==
  LET first_pos == Find(text, w)
      desc_beg  == DescBeg(first_pos)
  IN  IF first_pos = npos
        THEN IF Len(text) < DescLen THEN text
                                    ELSE Dotted(SubstrTo(text, 0, DescLen))
        ELSE IF desc_beg + DescLen >= Len(text)
               THEN SubstrFrom(text, desc_beg)
               ELSE Dotted(SubstrTo(text, desc_beg, DescLen))

=============================================================================
