CONSTANTS
 Line <- MCLine
 Text <- MCText
 Word <- MCWord
 Lower <- MCLower
 CutForSearch <- MCCutForSearch
 Query <- MCQuery
 MaxLines = 2
 DescLen = 3
 Lead = 1
 Dot = "."
 Thread = {t1, t2}
 nullptr = nullptr
 JsonNull = JsonNull
 NoParam = NoParam
 BadRequest = BadRequest

SPECIFICATION FairServerSpec

INVARIANTS
 NoNullDereference
 ServerInv

PROPERTIES
 ImplementsService
 StartsUp
 EveryRequestAnswered

CHECK_DEADLOCK FALSE
