CONSTANTS
  Line <- MCLine
  Text <- MCText
  Word <- MCWord
  Lower <- MCLower
  CutForSearch <- MCCutForSearch
  MaxLines = 3
  nullptr = nullptr

SPECIFICATION FairSpec

INVARIANTS
  DocIdIsPosition
  NoDanglingPosting
  PostingsSound
  PostingsComplete
  PostingsAscend
  ForwardIsInput
  IndexInv

PROPERTIES
  AppendOnly
  BuildReturns

CHECK_DEADLOCK FALSE
