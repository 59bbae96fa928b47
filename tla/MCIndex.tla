------------------------------ MODULE MCIndex ------------------------------
(***************************************************************************)
(* A small instance of Index.  The texts mix letter cases, repeat a word,  *)
(* share words between title and content, and hold a compound that the     *)
(* tokenizer also cuts into its parts; one text is empty.                  *)
(***************************************************************************)
EXTENDS Index

MCWord == {"Boost", "boost", "file", "system", "filesystem"}

MCLower == [w \in MCWord |-> IF w = "Boost" THEN "boost" ELSE w]

MCText == {<<>>, <<"Boost">>, <<"boost", "Boost">>, <<"filesystem">>,
           <<"filesystem", "boost">>}

\* cppjieba in search mode: a long word comes after the dictionary words
\* found inside it.
MCCutForSearch ==
  [t \in MCText |->
     CASE t = <<"filesystem">>          -> <<"file", "system", "filesystem">>
       [] t = <<"filesystem", "boost">> -> <<"file", "system", "filesystem",
                                             "boost">>
       [] OTHER                         -> t]

Record(title, url, content) ==
  title \o <<ETX>> \o url \o <<ETX>> \o content

\* Well formed lines, and lines cut to two, one and no fields or with a
\* separator too many.
MCLine ==
  {Record(<<"boost", "Boost">>, <<>>, <<"boost", "Boost">>),
   Record(<<"filesystem">>, <<"boost", "Boost">>, <<"filesystem", "boost">>),
   Record(<<"Boost">>, <<"Boost">>, <<>>),
   <<"Boost", ETX, "boost">>,
   <<>>,
   <<ETX, "Boost", ETX, ETX>>}

=============================================================================
