CONSTANTS
 MaxContent = 2
 Connection = {c1, c2, c3}
 N = 3
 MaxMade = 4
 Thread = {t1, t2}
 null = null
 Copy = {x1, x2, x3}
 Socket = {s1, s2, s3}
 none = none
 MaxUri = 4
 MaxPath = 3
 MaxFile = 3
 Buf = 2
 HeaderCounts = {0, 1, 2}
 MaxPieces = 3

SPECIFICATION Spec

INVARIANTS
 RequestInv
 ManagerInv
 ConnectionsApart
 AnswersWhole

PROPERTIES
 NothingTwice
 ProgramsEnd

CHECK_DEADLOCK FALSE
