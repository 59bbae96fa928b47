\* Documents that hold no separator, one of them with a title of two lines.
CONSTANTS
  File = {"f.html", "g.html"}
  HtmlFile = {"f.html", "g.html"}
  HtmlText <- CleanTexts
  Unreadable = Unreadable
  NoFile = NoFile
  OldOutput <- Nothing
  Line <- MCLine
  Text <- MCText
  Word = {"w"}
  Lower <- MCLower
  CutForSearch <- MCCut
  MaxLines = 4
  nullptr = nullptr
SPECIFICATION PipelineSpec
INVARIANT DocumentPerLine
CHECK_DEADLOCK FALSE
