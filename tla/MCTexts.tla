------------------------------ MODULE MCTexts -------------------------------
(***************************************************************************)
(* The two functions of the engine that look into texts, on every small    *)
(* text: GenerateDesc on every content of up to MaxContent characters and  *)
(* every keyword of up to MaxKeyword, with a short excerpt, and ParseFile  *)
(* in a run of the parser on one file of up to MaxText atoms.  Each        *)
(* behaviour is about one of the two, chosen at the start.                 *)
(***************************************************************************)
EXTENDS SnippetCall

CONSTANTS
  Alphabet, MaxContent, MaxKeyword,    \* GenerateDesc
  Atom, MaxText, Unreadable, NoFile    \* ParseFile

VARIABLES
  function,
  parser, disk, file_list, visited, doc, sent, bad, raw_input

Strings(alphabet, n) == UNION {[1..k -> alphabet] : k \in 0..n}

MCChar == {"a", "A", "b", "."}

MCContent == Strings(Alphabet, MaxContent)

MCKeyword == Strings({"a", "b"}, MaxKeyword) \ {<<>>}

MCToLower == [c \in MCChar |-> IF c = "A" THEN "a" ELSE c]

P == INSTANCE Parser WITH
  File <- {"f.html"}, HtmlFile <- {"f.html"},
  HtmlText <- Strings(Atom, MaxText), OldOutput <- {}

parserVars == <<parser, disk, file_list, visited, doc, sent, bad, raw_input>>
textsVars == <<function, vars, parserVars>>

TextsInit ==
  /\ function \in {"GenerateDesc", "ParseFile"}
  /\ IF function = "GenerateDesc"
     THEN Init /\ disk = [f \in {"f.html"} |-> Unreadable]
     ELSE /\ pc = "call" /\ desc = <<>>
          /\ content = (CHOOSE c \in Content : TRUE)
          /\ word = (CHOOSE w \in Keyword : TRUE)
  /\ P!ParserInit

TextsNext ==
  /\ UNCHANGED function
  /\ \/ function = "GenerateDesc" /\ Next /\ UNCHANGED parserVars
     \/ function = "ParseFile" /\ P!ParserNext /\ UNCHANGED vars

TextsSpec == TextsInit /\ [][TextsNext]_textsVars

\* ParseTitle and ParseContent find the first title element and the text
\* outside tags, as Parser defines them without following the code.
ParsedAsDefined == P!ParsedAsDefined

=============================================================================
