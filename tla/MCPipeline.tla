----------------------------- MODULE MCPipeline -----------------------------
(***************************************************************************)
(* Instances of Pipeline for TLC.                                          *)
(***************************************************************************)
EXTENDS Pipeline

LOCAL INSTANCE SequencesExt

\* A document, one with a title of two lines, one with a '\3' in its content
\* and one without a title.
MixedTexts ==
  { <<TitleTag, "t", TitleEndTag, "w", NL>>,
    <<TitleTag, "t", NL, "v", TitleEndTag>>,
    <<TitleTag, "t", TitleEndTag, "c", ETX>>,
    <<"c">> }

\* Documents without a '\3'.
CleanTexts ==
  { <<TitleTag, "t", TitleEndTag, "w", NL>>,
    <<TitleTag, "t", NL, "v", TitleEndTag>> }

MCRecords ==
  { Record([title   |-> ParseTitle(Read(text)),
            url     |-> ParseUrl(Path(f)),
            content |-> ParseContent(Read(text))])
    : f \in HtmlFile, text \in HtmlText }

\* The lines, and the beginnings of lines, of those records.
MCLine ==
  { l \in UNION { {SubSeq(r, i, j) : i \in 1..Len(r), j \in 0..Len(r)}
                  : r \in MCRecords } : ~Contains(l, NL) }

MCText == { <<>> } \cup
  UNION { ToSet(Tokes(l)) : l \in {k \in MCLine : WellFormed(Tokes(k))} }

MCLower == [w \in Word |-> w]

MCCut == [t \in MCText |-> SelectSeq(t, LAMBDA a : a \in Word)]

Nothing == {}
=============================================================================
