\* Parser and Build on two .html files, in every interleaving.
CONSTANTS
  File = {"f.html", "g.html"}
  HtmlFile = {"f.html", "g.html"}
  HtmlText <- MixedTexts
  Unreadable = Unreadable
  NoFile = NoFile
  OldOutput <- Nothing
  Line <- MCLine
  Text <- MCText
  Word = {"w"}
  Lower <- MCLower
  CutForSearch <- MCCut
  MaxLines = 4
  nullptr = nullptr
SPECIFICATION FairPipelineSpec
INVARIANTS PrefixServed CompleteServed
PROPERTY BuildReturns
CHECK_DEADLOCK FALSE
