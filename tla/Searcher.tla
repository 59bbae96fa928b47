------------------------------ MODULE Searcher ------------------------------
(***************************************************************************)
(* searcher::Searcher of searcher/searcher.{h,cc}: Search, run by any      *)
(* number of threads on one Index.  Search only reads the Index; all that  *)
(* it writes is local to the call.                                         *)
(***************************************************************************)
EXTENDS Index, Snippet

CONSTANTS
  Thread,    \* the threads that may call Search
  JsonNull   \* the JSON value null

VARIABLES  \* for each thread
  step,              \* where its call of Search is
  tokens,            \* words of the query the lookup loop has not visited
  all_token_result,  \* Weights collected; once sorted, those not wrapped yet
  results,           \* the elements appended to the JSON value
  output             \* what Search returns

searchVars == <<step, tokens, all_token_result, results, output>>

SearchInit ==
  /\ step = [t \in Thread |-> "idle"]
  /\ tokens = [t \in Thread |-> <<>>]
  /\ all_token_result = [t \in Thread |-> <<>>]
  /\ results = [t \in Thread |-> <<>>]
  /\ output = [t \in Thread |-> JsonNull]

\* Mutation of CutQuery: the query is looked up as it is.
QueryNotCut(t, query) ==
  /\ step[t] = "idle"
  /\ step' = [step EXCEPT ![t] = "lookup"]
  /\ tokens' = [tokens EXCEPT ![t] = <<query>>]
  /\ UNCHANGED <<all_token_result, results, output>>

\* The call: the query is cut into words.
CutQuery(t, query) ==
  /\ step[t] = "idle"
  /\ step' = [step EXCEPT ![t] = "lookup"]
  /\ tokens' = [tokens EXCEPT ![t] = CutWord(query)]
  /\ UNCHANGED <<all_token_result, results, output>>

\* What a word adds to all_token_result.
Found(word) ==
  IF GetInvertedList(word) = nullptr THEN <<>> ELSE GetInvertedList(word)

\* Mutations of LookUp.  boost::to_lower is forgotten.
LookUpAnyCase(t) ==
  /\ step[t] = "lookup"
  /\ tokens[t] # <<>>
  /\ all_token_result' =
       [all_token_result EXCEPT ![t] = @ \o Found(Head(tokens[t]))]
  /\ tokens' = [tokens EXCEPT ![t] = Tail(@)]
  /\ UNCHANGED <<step, results, output>>

\* A word without a list is looked up again instead of being skipped.
LookUpAgain(t) ==
  /\ step[t] = "lookup"
  /\ tokens[t] # <<>>
  /\ all_token_result' =
       [all_token_result EXCEPT ![t] = @ \o Found(Lower[Head(tokens[t])])]
  /\ tokens' = IF GetInvertedList(Lower[Head(tokens[t])]) = nullptr
                 THEN tokens
                 ELSE [tokens EXCEPT ![t] = Tail(@)]
  /\ UNCHANGED <<step, results, output>>

\* One turn of the lookup loop.
LookUp(t) ==
  /\ step[t] = "lookup"
  /\ tokens[t] # <<>>
  /\ all_token_result' =
       [all_token_result EXCEPT ![t] = @ \o Found(Lower[Head(tokens[t])])]
  /\ tokens' = [tokens EXCEPT ![t] = Tail(@)]
  /\ UNCHANGED <<step, results, output>>

\* The ways std::sort may arrange a list of Weights: by falling weight, those
\* of equal weight in any order, for std::sort is not stable.
Sortings(list) ==
  {[k \in 1..Len(list) |-> list[order[k]]] :
     order \in {p \in [1..Len(list) -> 1..Len(list)] :
                  /\ \A j, k \in 1..Len(list) : j # k => p[j] # p[k]
                  /\ \A j, k \in 1..Len(list) :
                       j < k => list[p[j]].weight >= list[p[k]].weight}}

Sort(t) ==
  /\ step[t] = "lookup"
  /\ tokens[t] = <<>>
  /\ \E sorted \in Sortings(all_token_result[t]) :
       all_token_result' = [all_token_result EXCEPT ![t] = sorted]
  /\ step' = [step EXCEPT ![t] = "wrap"]
  /\ UNCHANGED <<tokens, results, output>>

\* The JSON object of a search result.
Result(doc, weight) ==
  [title |-> doc.title, url |-> doc.url,
   desc  |-> GenerateDesc(doc.content, weight.word)]

\* One turn of the wrapping loop, which dereferences what GetDocInfo returns;
\* a null pointer there is the end of the process.
Wrap(t) ==
  LET weight == Head(all_token_result[t])
      doc    == GetDocInfo(weight.doc_id)
  IN  /\ step[t] = "wrap"
      /\ all_token_result[t] # <<>>
      /\ IF doc = nullptr
           THEN /\ step' = [step EXCEPT ![t] = "null dereferenced"]
                /\ UNCHANGED <<results, all_token_result>>
           ELSE /\ results' = [results EXCEPT ![t] = Append(@, Result(doc, weight))]
                /\ all_token_result' = [all_token_result EXCEPT ![t] = Tail(@)]
                /\ UNCHANGED step
      /\ UNCHANGED <<tokens, output>>

\* Json::FastWriter on a Json::Value: one that was never appended to is null.
JsonOf(value) == IF value = <<>> THEN JsonNull ELSE value

Write(t) ==
  /\ step[t] = "wrap"
  /\ all_token_result[t] = <<>>
  /\ output' = [output EXCEPT ![t] = JsonOf(results[t])]
  /\ step' = [step EXCEPT ![t] = "returned"]
  /\ UNCHANGED <<tokens, all_token_result, results>>

\* A step of Search on thread t, between its call and its return.
SearchStep(t) == LookUp(t) \/ Sort(t) \/ Wrap(t) \/ Write(t)

\* The caller takes the output; the locals of the call are gone.
LeaveSearch(t) ==
  /\ step[t] = "returned"
  /\ step' = [step EXCEPT ![t] = "idle"]
  /\ results' = [results EXCEPT ![t] = <<>>]
  /\ output' = [output EXCEPT ![t] = JsonNull]
  /\ UNCHANGED <<tokens, all_token_result>>

=============================================================================
