--------------------------- MODULE PipelineProofs ---------------------------
(***************************************************************************)
(* The index is correct whatever the parser is doing to raw_input.txt.     *)
(***************************************************************************)
EXTENDS Pipeline, IndexProofs

\* Whether the parser has finished, is writing, has failed or was killed,
\* and wherever a getline of Build meets the end of the file, Build does
\* what the open specification of the index allows.
THEOREM PipelineImplementsIndex == PipelineSpec => Spec
<1>1. PipelineInit => Init
  BY DEF PipelineInit
<1>2. [PipelineNext]_pipelineVars => [Next]_vars
  <2> SUFFICES ASSUME [PipelineNext]_pipelineVars PROVE [Next]_vars
    OBVIOUS
  <2>1. CASE OpenInputFails \/ OpenInput
    BY <2>1 DEF OpenInputFails, OpenInput, Next
  <2>2. CASE GetWholeLine
    BY <2>2 DEF GetWholeLine, Next
  <2>3. CASE GetTornLine
    BY <2>3 DEF GetTornLine, Next
  <2>4. CASE GetNothing
    BY <2>4 DEF GetNothing, Next
  <2>5. CASE IndexLine
    BY <2>5 DEF IndexLine, Next
  <2>6. CASE ParserMoves
    BY <2>6 DEF ParserMoves
  <2>7. CASE UNCHANGED pipelineVars
    BY <2>7 DEF pipelineVars
  <2> QED
    BY <2>1, <2>2, <2>3, <2>4, <2>5, <2>6, <2>7 DEF PipelineNext, BuildNext
<1> QED
  BY <1>1, <1>2, PTL DEF PipelineSpec, Spec

\* In particular, a record torn by a crash of the parser, or read while it is
\* being written, leaves no posting with a wrong weight or for a word that
\* its document does not hold.
THEOREM TornRecordsAreSound == PipelineSpec => []PostingsSound
BY PipelineImplementsIndex, PostingsAreSound, PTL

\* Nor is a word of what was read of it missing from the inverted index.
THEOREM TornRecordsAreComplete == PipelineSpec => []PostingsComplete
BY PipelineImplementsIndex, PostingsAreComplete, PTL

=============================================================================
