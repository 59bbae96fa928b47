\* Contents with a capital letter.
CONSTANTS
  Char <- MCChar
  Content <- MCContent
  Keyword <- MCKeyword
  ToLower <- MCToLower
  Dot = "."
  DescLen = 6
  Lead = 1
  Alphabet = {"a", "A", "b"}
  MaxContent = 7
  MaxKeyword = 3
  Atom = {"a"}
  MaxText = 0
  Unreadable = Unreadable
  NoFile = NoFile

SPECIFICATION TextsSpec

INVARIANT
  KeywordShownInAnyCase

CHECK_DEADLOCK FALSE
