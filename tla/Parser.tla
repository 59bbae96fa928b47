------------------------------- MODULE Parser -------------------------------
(***************************************************************************)
(* parser/parser.cc: the program that turns the .html files below          *)
(* data/input/ into the records of data/tmp/raw_input.txt.                 *)
(*                                                                         *)
(* The input files do not change while the program runs.  A read error ends *)
(* the loop of Util::Read like the end of the file does: the text of a file *)
(* that has one is what its lines before the error hold.  The output       *)
(* stream is buffered: a part of a record may reach the disk before its    *)
(* std::endl flushes the rest, the stream may fail (a full disk), which    *)
(* nobody looks at, and the process may die between any two steps.         *)
(***************************************************************************)
EXTENDS Html

LOCAL INSTANCE SequencesExt

CONSTANTS
  File,        \* the regular files below g_input_path
  HtmlFile,    \* those whose extension is .html
  HtmlText,    \* the texts an .html file may hold
  Unreadable,  \* a file that cannot be opened
  NoFile,      \* raw_input.txt does not exist
  OldOutput    \* what earlier runs may have left in raw_input.txt

ASSUME HtmlFileAssumption == HtmlFile \subseteq File

VARIABLES
  parser,     \* where main is, or how the process ended
  disk,       \* what the .html files hold, as far as they can be read
  file_list,  \* the paths EnumFile found
  visited,    \* paths of file_list the loop of main is done with
  doc,        \* main's doc_info, once ParseFile has filled it
  sent,       \* atoms of its record that have reached the disk
  bad,        \* output_file is in a failed state
  raw_input   \* the contents of raw_input.txt, or NoFile

parserVars ==
  <<parser, disk, file_list, visited, doc, sent, bad, raw_input>>

g_input_path == "../data/input/"
g_url_head   == "https://www.boost.org/doc/libs/1_53_0/doc/"

Path(f) == <<g_input_path, f>>

\* The directory entry that a path of file_list leads to.
FileAt(path) == path[2]

\* Util::Read: every line gets its '\n', the last one too.
Read(text) ==
  IF text # <<>> /\ Last(text) # NL THEN Append(text, NL) ELSE text

\* The path below g_input_path, behind the address of the online documents.
ParseUrl(path) == <<g_url_head>> \o Tail(path)

\* The text that WriteOutput sends to the stream.
Record(d) ==
  d.title \o <<ETX>> \o d.url \o <<ETX>> \o d.content \o <<NL>>

\* ParseFile succeeds: the file opens and has a title.
Parses(path) ==
  /\ disk[FileAt(path)] # Unreadable
  /\ ParseTitle(Read(disk[FileAt(path)])) # NoTitle

\* What ParseFile puts in doc_info.
ParsedDoc(path) ==
  LET html == Read(disk[FileAt(path)])
  IN  [title   |-> ParseTitle(html),
       url     |-> ParseUrl(path),
       content |-> ParseContent(html)]

NoDoc == [title |-> <<>>, url |-> <<>>, content |-> <<>>]

-----------------------------------------------------------------------------
ParserInit ==
  /\ parser = "enum"
  /\ disk \in [HtmlFile -> HtmlText \cup {Unreadable}]
  /\ file_list = <<>>
  /\ visited = 0
  /\ doc = NoDoc
  /\ sent = 0
  /\ bad = FALSE
  /\ raw_input \in {NoFile} \cup OldOutput

\* The input directory does not exist: main returns 1.
EnumFails ==
  /\ parser = "enum"
  /\ parser' = "exit 1"
  /\ UNCHANGED <<disk, file_list, visited, doc, sent, bad, raw_input>>

\* EnumFile keeps the .html files.
IsListed(f) == f \in HtmlFile

\* The order in which a directory is traversed is unspecified.
EnumFile ==
  /\ parser = "enum"
  /\ file_list' \in SetToSeqs({Path(f) : f \in {g \in File : IsListed(g)}})
  /\ parser' = "open"
  /\ UNCHANGED <<disk, visited, doc, sent, bad, raw_input>>

OpenOutputFails ==
  /\ parser = "open"
  /\ parser' = "exit 1"
  /\ UNCHANGED <<disk, file_list, visited, doc, sent, bad, raw_input>>

\* An ofstream truncates the file it opens.
OpenOutput ==
  /\ parser = "open"
  /\ raw_input' = <<>>
  /\ parser' = "loop"
  /\ UNCHANGED <<disk, file_list, visited, doc, sent, bad>>

\* Mutation of SkipFile: the loop stays at the path.
SkipFileRetries ==
  /\ parser = "loop"
  /\ visited < Len(file_list)
  /\ ~Parses(file_list[visited + 1])
  /\ UNCHANGED parserVars

\* ParseFile returns false: main goes on with the next path.
SkipFile ==
  /\ parser = "loop"
  /\ visited < Len(file_list)
  /\ ~Parses(file_list[visited + 1])
  /\ visited' = visited + 1
  /\ UNCHANGED <<parser, disk, file_list, doc, sent, bad, raw_input>>

ParseFile ==
  /\ parser = "loop"
  /\ visited < Len(file_list)
  /\ Parses(file_list[visited + 1])
  /\ doc' = ParsedDoc(file_list[visited + 1])
  /\ sent' = 0
  /\ parser' = "write"
  /\ UNCHANGED <<disk, file_list, visited, bad, raw_input>>

\* The buffer runs full inside WriteOutput: a part of the record goes out.
FlushPart(n) ==
  /\ parser = "write"
  /\ ~bad
  /\ sent < n /\ n < Len(Record(doc))
  /\ raw_input' = raw_input \o SubSeq(Record(doc), sent + 1, n)
  /\ sent' = n
  /\ UNCHANGED <<parser, disk, file_list, visited, doc, bad>>

\* Mutation of WriteOutput: the record is sent again as a whole.
WriteOutputAgain ==
  /\ parser = "write"
  /\ raw_input' = IF bad THEN raw_input ELSE raw_input \o Record(doc)
  /\ visited' = visited + 1
  /\ parser' = "loop"
  /\ UNCHANGED <<disk, file_list, doc, sent, bad>>

\* std::endl at the end of WriteOutput.  On a failed stream every << is
\* without effect.
WriteOutput ==
  /\ parser = "write"
  /\ raw_input' = IF bad THEN raw_input
                         ELSE raw_input \o SubSeq(Record(doc), sent + 1,
                                                  Len(Record(doc)))
  /\ visited' = visited + 1
  /\ parser' = "loop"
  /\ UNCHANGED <<disk, file_list, doc, sent, bad>>

\* The rest of the record cannot be written.  WriteOutput returns nothing and
\* main does not look at the stream: the loop goes on.
WriteFails ==
  /\ parser = "write"
  /\ ~bad
  /\ bad' = TRUE
  /\ visited' = visited + 1
  /\ parser' = "loop"
  /\ UNCHANGED <<disk, file_list, doc, sent, raw_input>>

CloseOutput ==
  /\ parser = "loop"
  /\ visited = Len(file_list)
  /\ parser' = "exit 0"
  /\ UNCHANGED <<disk, file_list, visited, doc, sent, bad, raw_input>>

Ended == parser \in {"exit 0", "exit 1", "killed"}

\* A signal, or an exception that boost::filesystem throws.
Killed ==
  /\ ~Ended
  /\ parser' = "killed"
  /\ UNCHANGED <<disk, file_list, visited, doc, sent, bad, raw_input>>

ParserStep ==
  \/ EnumFails
  \/ EnumFile
  \/ OpenOutputFails
  \/ OpenOutput
  \/ SkipFile
  \/ ParseFile
  \/ \E n \in 1..Len(Record(doc)) : FlushPart(n)
  \/ WriteOutput
  \/ WriteFails
  \/ CloseOutput

ParserNext == ParserStep \/ Killed

ParserSpec == ParserInit /\ [][ParserNext]_parserVars

\* main is one thread of straight-line code and one loop.
FairParserSpec == ParserSpec /\ WF_parserVars(ParserStep)

-----------------------------------------------------------------------------
(* A second definition of title and content, which does not follow the     *)
(* code, and what the output must be.                                      *)

\* t is the text of the first title element of html.
IsTitleOf(html, t) ==
  \E i, j \in DOMAIN html :
    /\ html[i] = TitleTag
    /\ \A k \in 1..i-1 : html[k] # TitleTag
    /\ html[j] = TitleEndTag
    /\ \A k \in i+1..j-1 : html[k] # TitleEndTag
    /\ i + 1 < j
    /\ t = SubSeq(html, i + 1, j - 1)

\* Position i of html lies behind a '<' that nothing has closed before i.
InTag(html, i) ==
  \E j \in 1..i-1 :
    /\ html[j] = Open
    /\ \A k \in j+1..i-1 : html[k] \notin {Close, TitleTag, TitleEndTag}

\* The atoms outside tags, with a space for every line break.
TextOutsideTags(html) ==
  LET Shown(i) == /\ ~InTag(html, i)
                  /\ html[i] \notin {Open, TitleTag, TitleEndTag}
      shown    == SetToSortSeq({i \in DOMAIN html : Shown(i)}, <)
  IN  [k \in DOMAIN shown |->
         IF html[shown[k]] = NL THEN Space ELSE html[shown[k]]]

HasTitle(path) ==
  /\ disk[FileAt(path)] # Unreadable
  /\ \E i, j \in 1..Len(disk[FileAt(path)]) :
       IsTitleOf(disk[FileAt(path)], SubSeq(disk[FileAt(path)], i, j))

\* The records that main has decided to write: one for each visited path that
\* has a title, in the order of file_list, each in full.
Expected(paths) ==
  LET titled == SelectSeq(paths, HasTitle)
  IN  FlattenSeq([k \in DOMAIN titled |-> Record(ParsedDoc(titled[k]))])

\* ParseFile finds the first title element, whatever tags come before it, and
\* the text outside tags; the character loop of ParseContent and the two
\* finds of ParseTitle agree with the definitions above on every text.
ParsedAsDefined ==
  parser = "write" =>
    LET html == Read(disk[FileAt(file_list[visited + 1])])
    IN  /\ IsTitleOf(html, doc.title)
        /\ doc.content = TextOutsideTags(html)

\* Wherever the program stops, with whatever failure, raw_input.txt holds a
\* prefix of the records of the .html files with a title, and a run that ends
\* without a stream failure has written all of them.
OutputIsPrefix ==
  /\ parser \in {"loop", "write", "exit 0"} =>
       IsPrefix(raw_input, Expected(file_list))
  /\ parser = "killed" =>
       \/ raw_input \in {NoFile} \cup OldOutput
       \/ IsPrefix(raw_input, Expected(file_list))
  /\ parser = "exit 0" /\ ~bad => raw_input = Expected(file_list)

\* main returns, whatever the files hold, unless the process is killed.
ParserReturns == <>Ended

=============================================================================
