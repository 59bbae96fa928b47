------------------------------ MODULE MCParser ------------------------------
(***************************************************************************)
(* Instances of Parser for TLC.                                            *)
(***************************************************************************)
EXTENDS Parser

\* A document, one with a title of two lines, one without a title, one with
\* an empty title and an empty file.
SomeTexts ==
  { <<TitleTag, "a", TitleEndTag, Open, "b", Close, "c", NL>>,
    <<TitleTag, "a", NL, "b", TitleEndTag>>,
    <<"c", NL>>,
    <<TitleTag, TitleEndTag>>,
    <<>> }

\* An earlier run left a record behind.
OneRecord == { <<"o", ETX, "u", ETX, "o", NL>> }
=============================================================================
