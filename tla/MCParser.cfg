\* Two .html files and one other file, with failures and kills everywhere.
CONSTANTS
  File = {"f.html", "g.html", "h.css"}
  HtmlFile = {"f.html", "g.html"}
  HtmlText <- SomeTexts
  Unreadable = Unreadable
  NoFile = NoFile
  OldOutput <- OneRecord
SPECIFICATION FairParserSpec
INVARIANT OutputIsPrefix
PROPERTY ParserReturns
CHECK_DEADLOCK FALSE
