---------------------------- MODULE MCHttpServer ----------------------------
(***************************************************************************)
(* A small instance of HttpServer.  A word is the text of one atom, so     *)
(* that GenerateDesc can look for it in a content.                         *)
(***************************************************************************)
EXTENDS HttpServer

MCWord == {<<"Boost">>, <<"boost">>, <<"file">>}

MCLower == [w \in MCWord |-> IF w = <<"Boost">> THEN <<"boost">> ELSE w]

MCQuery == {<<>>, <<"Boost", "file">>, <<"file">>}

MCText == MCQuery \cup {<<"boost">>, <<"boost", "boost", "boost", "Boost">>}

\* One word for each atom.
MCCutForSearch == [t \in MCText |-> [k \in 1..Len(t) |-> <<t[k]>>]]

\* Two well formed lines in which "file" has the same weight, and a malformed
\* one.
MCLine ==
  {<<"Boost", "file", ETX, ETX, "boost">>,
   <<"file", ETX, "boost", ETX, "boost", "boost", "boost", "Boost">>,
   <<"file", ETX, "boost">>}

=============================================================================
