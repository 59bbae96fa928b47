-------------------------------- MODULE Html --------------------------------
(***************************************************************************)
(* What parser/parser.cc makes of the text of an .html file: its title and *)
(* its content.                                                            *)
(*                                                                         *)
(* A text is a sequence of atoms, as in Util.  The two title tags are      *)
(* atoms of their own; of the characters of any other tag only the angle   *)
(* brackets matter.                                                        *)
(***************************************************************************)
EXTENDS Util

LOCAL INSTANCE SequencesExt

TitleTag    == "<title>"
TitleEndTag == "</title>"
Open        == "<"
Close       == ">"
Space       == " "

\* ParseTitle returned false.
NoTitle == <<>>

\* std::string::find from a position on; 0 is npos.
FindFrom(html, atom, from) ==
  SelectInSubSeq(html, from, Len(html), LAMBDA a : a = atom)

\* The text between the first title tag and the end tag that follows it; an
\* empty title counts as none.
ParseTitle(html) ==
  LET begin == FindFrom(html, TitleTag, 1)
      end   == FindFrom(html, TitleEndTag, begin)
  IN  IF begin = 0 \/ end = 0 THEN NoTitle
                              ELSE SubSeq(html, begin + 1, end - 1)

\* Mutation of ContentStep: line breaks are kept.
ContentStepKeepsBreaks(s, c) ==
  CASE c \in {TitleTag, TitleEndTag} -> [s EXCEPT !.is_content = TRUE]
    [] s.is_content /\ c = Open      -> [s EXCEPT !.is_content = FALSE]
    [] s.is_content /\ c # Open      -> [s EXCEPT !.content = Append(@, c)]
    [] ~s.is_content                 -> [s EXCEPT !.is_content = (c = Close)]

\* One turn of the loop of ParseContent.  A title tag leaves the content and
\* comes back to it, or closes the tag that is open.
ContentStep(s, c) ==
  CASE c \in {TitleTag, TitleEndTag} -> [s EXCEPT !.is_content = TRUE]
    [] s.is_content /\ c = Open      -> [s EXCEPT !.is_content = FALSE]
    [] s.is_content /\ c # Open      ->
         [s EXCEPT !.content = Append(@, IF c = NL THEN Space ELSE c)]
    [] ~s.is_content                 -> [s EXCEPT !.is_content = (c = Close)]

ParseContent(html) ==
  FoldLeft(ContentStep, [is_content |-> TRUE, content |-> <<>>], html).content

=============================================================================
