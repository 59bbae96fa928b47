------------------------------ MODULE Pipeline ------------------------------
(***************************************************************************)
(* The parser and Index::Build, which meet in raw_input.txt and nowhere    *)
(* else.  Nothing orders the two programs: the server may start before,    *)
(* during or after a run of the parser, and after one that died.           *)
(*                                                                         *)
(* The parser runs once and finds no earlier output, so raw_input.txt only *)
(* grows: a line that an ifstream takes from its buffer is then the same   *)
(* as the line on the disk, and a read at the end of the file is final,    *)
(* because eofbit stays set.                                               *)
(***************************************************************************)
EXTENDS Index, Parser

LOCAL INSTANCE SequencesExt

VARIABLES
  offset,   \* atoms of raw_input.txt that Build's getline has extracted
  eofbit,   \* a getline of Build has met the end of the file
  settled   \* history: the parser had ended well when Build opened the file

readerVars == <<offset, eofbit, settled>>

pipelineVars == <<vars, parserVars, readerVars>>

Unread == SubSeq(raw_input, offset + 1, Len(raw_input))

\* The position of the next line break, or 0.
NextBreak == FindFrom(Unread, NL, 1)

PipelineInit ==
  /\ Init
  /\ ParserInit
  /\ raw_input = NoFile
  /\ offset = 0
  /\ eofbit = FALSE
  /\ settled = FALSE

\* Build's open fails for want of the file, or of a permission.
OpenInputFails ==
  /\ OpenFails
  /\ UNCHANGED <<parserVars, readerVars>>

OpenInput ==
  /\ raw_input # NoFile
  /\ OpenSucceeds
  /\ settled' = (parser = "exit 0" /\ ~bad)
  /\ UNCHANGED <<parserVars, offset, eofbit>>

\* std::getline extracts a line and its '\n'.
GetWholeLine ==
  /\ pc = "getline"
  /\ ~eofbit
  /\ NextBreak # 0
  /\ SubSeq(Unread, 1, NextBreak - 1) \in Line
  /\ GetLine(SubSeq(Unread, 1, NextBreak - 1))
  /\ offset' = offset + NextBreak
  /\ UNCHANGED <<parserVars, eofbit, settled>>

\* Mutation of GetTornLine: the stream does not remember the end of the file.
GetTornLineGoesOn ==
  /\ pc = "getline"
  /\ ~eofbit
  /\ NextBreak = 0
  /\ Unread # <<>>
  /\ Unread \in Line
  /\ GetLine(Unread)
  /\ offset' = Len(raw_input)
  /\ UNCHANGED <<parserVars, eofbit, settled>>

\* std::getline meets the end of the file behind some characters: it delivers
\* them as a line and sets eofbit.
GetTornLine ==
  /\ pc = "getline"
  /\ ~eofbit
  /\ NextBreak = 0
  /\ Unread # <<>>
  /\ Unread \in Line
  /\ GetLine(Unread)
  /\ offset' = Len(raw_input)
  /\ eofbit' = TRUE
  /\ UNCHANGED <<parserVars, settled>>

\* std::getline extracts nothing: the loop of Build ends.
GetNothing ==
  /\ pc = "getline"
  /\ eofbit \/ Unread = <<>>
  /\ EndOfFile
  /\ eofbit' = TRUE
  /\ UNCHANGED <<parserVars, offset, settled>>

IndexLine == BuildLine /\ UNCHANGED <<parserVars, readerVars>>

BuildNext ==
  \/ OpenInputFails
  \/ OpenInput
  \/ GetWholeLine
  \/ GetTornLine
  \/ GetNothing
  \/ IndexLine

ParserMoves == ParserNext /\ UNCHANGED <<vars, readerVars>>

PipelineNext == BuildNext \/ ParserMoves

PipelineSpec == PipelineInit /\ [][PipelineNext]_pipelineVars

\* Each of the two programs is one thread that runs on; none waits for the
\* other.
FairPipelineSpec ==
  /\ PipelineSpec
  /\ WF_pipelineVars(BuildNext)
  /\ WF_pipelineVars(ParserStep /\ UNCHANGED <<vars, readerVars>>)

-----------------------------------------------------------------------------
(* What the index holds of the documents.                                  *)

\* The documents that a complete run of the parser writes.
ParsedDocs ==
  LET parsed == SelectSeq(file_list, Parses)
  IN  [k \in DOMAIN parsed |-> ParsedDoc(parsed[k])]

\* The text behind the last line break of a title.
LastLineOf(text) ==
  LET break == SelectLastInSeq(text, LAMBDA a : a = NL)
  IN  SubSeq(text, break + 1, Len(text))

\* What a record leaves in the forward index when it is read in full: Build
\* takes the earlier lines of a title for lines of their own, and drops them.
Served(d) == [title   |-> LastLineOf(d.title),
              url     |-> d.url,
              content |-> d.content]

FieldsOf(d) == [title |-> d.title, url |-> d.url, content |-> d.content]

ForwardDocs == [i \in DOMAIN forward_index |-> FieldsOf(forward_index[i])]

SeparatorFree(text) == ~Contains(text, ETX)

\* Whatever the interleaving of parser and server, and wherever the parser
\* died or its disk filled up, the forward index holds the documents of the
\* parser, in its order and without a gap; of these only the last one may
\* have lost the end of its content, and only if Build met the end of the
\* file inside its record.  (A '\3' in a document can make other lines.)
PrefixServed ==
  LET whole == ParsedDocs
      n     == Len(forward_index)
  IN  /\ n > 0
      /\ \A k \in DOMAIN whole :
           SeparatorFree(whole[k].title) /\ SeparatorFree(whole[k].content)
      =>
      /\ n <= Len(whole)
      /\ \A i \in 1..n :
           \/ ForwardDocs[i] = Served(whole[i])
           \/ /\ i = n
              /\ eofbit
              /\ IsPrefix(ForwardDocs[n].content, whole[n].content)
              /\ [ForwardDocs[n] EXCEPT !.content = whole[n].content]
                   = Served(whole[n])

\* A parser that ended well before Build opened the file: the index holds
\* every document, complete and in order, but for those with a '\3' in their
\* content, whose line has too many fields.
CompleteServed ==
  LET Separable(d) == SeparatorFree(d.content)
      kept         == SelectSeq(ParsedDocs, Separable)
  IN  /\ pc = "built"
      /\ settled
      /\ \A k \in DOMAIN ParsedDocs : SeparatorFree(ParsedDocs[k].title)
      => ForwardDocs = [k \in DOMAIN kept |-> Served(kept[k])]

\* The comment on parser.cc says that the parser writes a file of lines, and
\* Build reads a document from each line: then a document whose fields hold
\* no '\3' is indexed as it was parsed, title included.
DocumentPerLine ==
  pc = "built" /\ settled => ForwardDocs = ParsedDocs

=============================================================================
