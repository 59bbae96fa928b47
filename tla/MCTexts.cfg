\* Contents of up to nine characters, and files of up to six atoms.
CONSTANTS
  Char <- MCChar
  Content <- MCContent
  Keyword <- MCKeyword
  ToLower <- MCToLower
  Dot = "."
  DescLen = 6
  Lead = 1
  Alphabet = {"a", "b"}
  MaxContent = 9
  MaxKeyword = 3
  Atom = {"<title>", "</title>", "<", ">", "\n", "a"}
  MaxText = 6
  Unreadable = Unreadable
  NoFile = NoFile

SPECIFICATION TextsSpec

INVARIANTS
  DescFits
  DescIsExcerpt
  KeywordShown
  ParsedAsDefined

CHECK_DEADLOCK FALSE
