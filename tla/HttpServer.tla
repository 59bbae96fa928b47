----------------------------- MODULE HttpServer -----------------------------
(***************************************************************************)
(* http_server/http_server.cc: main builds the index, registers the        *)
(* handler of /searcher and listens; httplib runs the handler of each      *)
(* connection on a thread of its own, so that handlers interleave.         *)
(***************************************************************************)
EXTENDS Searcher

CONSTANTS
  Query,        \* the texts a request may carry in its query parameter
  NoParam,      \* a request without that parameter
  BadRequest    \* the plain text that answers it

ASSUME QueryAssumption == Query \subseteq Text /\ NoParam \notin Query

VARIABLES
  server,       \* where main is
  conn,         \* where each thread is with the connection it serves
  request,      \* the request it has read
  response      \* the response it will send

connVars == <<conn, request, response>>

serverVars == <<vars, searchVars, server, connVars>>

ServerInit ==
  /\ Init
  /\ SearchInit
  /\ server = "init"
  /\ conn = [t \in Thread |-> "idle"]
  /\ request = [t \in Thread |-> NoParam]
  /\ response = [t \in Thread |-> JsonNull]

\* searcher.Init: a step of Index::Build.
BuildStep ==
  /\ server = "init"
  /\ Next
  /\ UNCHANGED <<searchVars, server, connVars>>

InitFails ==
  /\ server = "init"
  /\ pc = "failed"
  /\ server' = "exit 1"
  /\ UNCHANGED <<vars, searchVars, connVars>>

Listen ==
  /\ server = "init"
  /\ pc = "built"
  /\ server' = "listening"
  /\ UNCHANGED <<vars, searchVars, connVars>>

\* listen returns at once when the port cannot be bound; its result is not
\* looked at and main returns 0.
ListenFails ==
  /\ server = "init"
  /\ pc = "built"
  /\ server' = "exit 0"
  /\ UNCHANGED <<vars, searchVars, connVars>>

\* httplib reads a request for /searcher and starts the handler.
Accept(t, req) ==
  /\ server = "listening"
  /\ conn[t] = "idle"
  /\ conn' = [conn EXCEPT ![t] = "handler"]
  /\ request' = [request EXCEPT ![t] = req]
  /\ UNCHANGED <<vars, searchVars, server, response>>

\* The request has no query parameter.
Refuse(t) ==
  /\ conn[t] = "handler"
  /\ request[t] = NoParam
  /\ response' = [response EXCEPT ![t] = BadRequest]
  /\ conn' = [conn EXCEPT ![t] = "respond"]
  /\ UNCHANGED <<vars, searchVars, server, request>>

CallSearch(t) ==
  /\ conn[t] = "handler"
  /\ request[t] # NoParam
  /\ CutQuery(t, request[t])
  /\ conn' = [conn EXCEPT ![t] = "search"]
  /\ UNCHANGED <<vars, server, request, response>>

InSearch(t) ==
  /\ conn[t] = "search"
  /\ SearchStep(t)
  /\ UNCHANGED <<vars, server, connVars>>

\* resp.set_content with the output of Search.
SetContent(t) ==
  /\ conn[t] = "search"
  /\ LeaveSearch(t)
  /\ response' = [response EXCEPT ![t] = output[t]]
  /\ conn' = [conn EXCEPT ![t] = "respond"]
  /\ UNCHANGED <<vars, server, request>>

\* httplib sends the response and the thread is free.
Respond(t) ==
  /\ conn[t] = "respond"
  /\ conn' = [conn EXCEPT ![t] = "idle"]
  /\ request' = [request EXCEPT ![t] = NoParam]
  /\ response' = [response EXCEPT ![t] = JsonNull]
  /\ UNCHANGED <<vars, searchVars, server>>

\* A step of the thread that serves a connection.
HandlerStep(t) ==
  Refuse(t) \/ CallSearch(t) \/ InSearch(t) \/ SetContent(t) \/ Respond(t)

MainStep == BuildStep \/ InitFails \/ Listen \/ ListenFails

ServerNext ==
  \/ MainStep
  \/ \E t \in Thread :
       \/ \E req \in Query \cup {NoParam} : Accept(t, req)
       \/ HandlerStep(t)

ServerSpec == ServerInit /\ [][ServerNext]_serverVars

(***************************************************************************)
(* Main and every handler are threads of the operating system: each runs   *)
(* on while it can.  Nothing makes a client ask.                           *)
(***************************************************************************)
FairServerSpec ==
  /\ ServerSpec
  /\ WF_serverVars(MainStep)
  /\ \A t \in Thread : WF_serverVars(HandlerStep(t))

-----------------------------------------------------------------------------
(* What the server promises.                                               *)

\* The type of the variables of Searcher and HttpServer.
ServerTypeOK ==
  /\ server \in {"init", "listening", "exit 0", "exit 1"}
  /\ conn \in [Thread -> {"idle", "handler", "search", "respond"}]
  /\ request \in [Thread -> Query \cup {NoParam}]
  /\ step \in [Thread -> {"idle", "lookup", "wrap", "returned",
                          "null dereferenced"}]
  /\ tokens \in [Thread -> Seq(Word)]
  /\ all_token_result \in [Thread -> InvertedList]

\* Search dereferences the result of GetDocInfo without a check.  Whatever
\* file was indexed and however the handlers interleave, it is never null.
NoNullDereference == \A t \in Thread : step[t] # "null dereferenced"

\* The server implements the service that knows no inverted index: what it
\* answers is determined by the documents of the forward index.
Service ==
  INSTANCE SearchService WITH
    Client     <- Thread,
    Doc        <- DocInfo,
    Request    <- Query \cup {NoParam},
    Tokens     <- LAMBDA query : CutForSearch[query],
    WeightOf   <- LAMBDA doc, word : WeightIn(doc, Lower[word]),
    ResultOf   <- LAMBDA doc, word :
                    [title |-> doc.title, url |-> doc.url,
                     desc  |-> GenerateDesc(doc.content, Lower[word])],
    NotFound   <- JsonNull,
    up         <- server = "listening",
    docs       <- IF server = "listening" THEN forward_index ELSE <<>>,
    asked      <- [t \in Thread |->
                     [phase   |-> CASE conn[t] = "idle"    -> "idle"
                                    [] conn[t] = "respond" -> "answered"
                                    [] OTHER               -> "asked",
                      request |-> request[t],
                      answer  |-> response[t]]]

ImplementsService == Service!Spec

\* Start-up ends: main listens or exits.
StartsUp == <>(server # "init")

\* Every request that is accepted is answered.
EveryRequestAnswered ==
  \A t \in Thread : conn[t] = "handler" ~> conn[t] = "respond"

-----------------------------------------------------------------------------
(* The inductive invariant behind NoNullDereference, together with the     *)
(* invariant of the index: handlers run on a complete index, and what a    *)
(* call has collected stays within the forward index.                      *)

\* No handler runs while main builds the index.
QuietDuringInit ==
  server = "init" => \A t \in Thread : /\ conn[t] = "idle"
                                      /\ all_token_result[t] = <<>>

\* Every Weight that a call of Search holds names a document.
CollectedInRange ==
  \A t \in Thread :
    \A k \in 1..Len(all_token_result[t]) :
      all_token_result[t][k].doc_id < Len(forward_index)

\* The conjunction that every step of the server preserves.
ServerInv ==
  /\ ServerTypeOK
  /\ QuietDuringInit
  /\ CollectedInRange
  /\ NoNullDereference

=============================================================================
