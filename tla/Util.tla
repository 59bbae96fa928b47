-------------------------------- MODULE Util --------------------------------
(***************************************************************************)
(* common/util.hpp and the std::getline calls of the repository: how a     *)
(* stream of characters becomes lines and how a line becomes fields.       *)
(*                                                                         *)
(* A text is a sequence of atoms.  An atom is a character, or a run of     *)
(* characters that no operation of the program looks into (a word, a tag). *)
(* Two atoms are special: NL is '\n', ETX is '\3', the separator of the    *)
(* three fields of a line of raw_input.txt.                                *)
(***************************************************************************)
EXTENDS Integers, Sequences, FiniteSets

NL == "\n"

ETX == "\\3"

(***************************************************************************)
(* Util::Split: boost::split with is_any_of(delimiter) and                 *)
(* token_compress_off.  Every delimiter ends a field, so n delimiters make *)
(* n+1 fields, some of them possibly empty.                                *)
(***************************************************************************)
Split(input, delimiter) ==
  LET cuts == {i \in DOMAIN input : input[i] \in delimiter}
      n    == Cardinality(cuts)
      cut  == [k \in 0..n+1 |->
                 CASE k = 0     -> 0
                   [] k = n + 1 -> Len(input) + 1
                   [] OTHER     -> CHOOSE i \in cuts :
                                     Cardinality({j \in cuts : j <= i}) = k]
  IN  [k \in 1..n+1 |-> SubSeq(input, cut[k-1] + 1, cut[k] - 1)]

=============================================================================
