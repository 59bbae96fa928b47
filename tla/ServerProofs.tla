---------------------------- MODULE ServerProofs ----------------------------
(***************************************************************************)
(* The server never dereferences a null pointer, for any number of threads *)
(* and whatever file it has indexed.                                       *)
(***************************************************************************)
EXTENDS HttpServer, IndexProofs

\* Main runs Index::Build and nothing else touches the index: the server
\* implements the specification of the index.
THEOREM ServerImplementsIndex == ServerSpec => Spec
<1>1. ServerInit => Init
  BY DEF ServerInit
<1>2. [ServerNext]_serverVars => [Next]_vars
  <2> SUFFICES ASSUME [ServerNext]_serverVars PROVE [Next]_vars
    OBVIOUS
  <2>1. CASE MainStep
    BY <2>1 DEF MainStep, BuildStep, InitFails, Listen, ListenFails
  <2>2. ASSUME NEW t \in Thread, NEW req, Accept(t, req)
        PROVE  [Next]_vars
    BY <2>2 DEF Accept
  <2>3. ASSUME NEW t \in Thread, HandlerStep(t)
        PROVE  [Next]_vars
    BY <2>3 DEF HandlerStep, Refuse, CallSearch, InSearch, SetContent, Respond
  <2>4. CASE UNCHANGED serverVars
    BY <2>4 DEF serverVars
  <2> QED
    BY <2>1, <2>2, <2>3, <2>4 DEF ServerNext
<1> QED
  BY <1>1, <1>2, PTL DEF ServerSpec, Spec

-----------------------------------------------------------------------------
(* What the steps of Search do to the Weights it has collected.            *)

\* A list of Weights whose documents all exist.
InRange(list) ==
  /\ list \in Seq(Weight)
  /\ \A k \in 1..Len(list) : list[k].doc_id < Len(forward_index)

\* GetInvertedList hands out lists in range.
LEMMA ListsInRange ==
  ASSUME IndexInv, NEW w, w \in DOMAIN inverted_index
  PROVE  InRange(inverted_index[w])
BY DEF IndexInv, TypeOK, IsPartialMap, InvertedList, PostingsInRange, InRange

\* insert at the end of all_token_result.
LEMMA ConcatInRange ==
  ASSUME NEW r, NEW s, InRange(r), InRange(s)
  PROVE  InRange(r \o s)
<1>1. /\ r \o s \in Seq(Weight)
      /\ Len(r \o s) = Len(r) + Len(s)
      /\ Len(r) \in Nat /\ Len(s) \in Nat
  BY DEF InRange
<1>2. ASSUME NEW k \in 1..Len(r \o s)
      PROVE  (r \o s)[k].doc_id < Len(forward_index)
  <2>1. (r \o s)[k] = IF k <= Len(r) THEN r[k] ELSE s[k - Len(r)]
    BY <1>1 DEF InRange
  <2> QED
    BY <1>1, <2>1 DEF InRange
<1> QED
  BY <1>1, <1>2 DEF InRange

\* std::sort only moves the elements.
LEMMA SortInRange ==
  ASSUME NEW r, InRange(r), NEW s \in Sortings(r)
  PROVE  InRange(s)
<1>1. PICK order \in [1..Len(r) -> 1..Len(r)] :
        s = [k \in 1..Len(r) |-> r[order[k]]]
  BY DEF Sortings
<1>2. Len(r) \in Nat /\ \A k \in 1..Len(r) : r[k] \in Weight
  BY DEF InRange
<1>3. s \in Seq(Weight) /\ Len(s) = Len(r)
  BY <1>1, <1>2
<1> QED
  BY <1>1, <1>2, <1>3 DEF InRange

\* The wrapping loop goes on with the rest.
LEMMA TailInRange ==
  ASSUME NEW r, InRange(r), r # <<>>
  PROVE  InRange(Tail(r)) /\ Head(r) \in Weight /\ Head(r).doc_id < Len(forward_index)
<1>1. /\ Tail(r) \in Seq(Weight) /\ Head(r) = r[1] /\ Len(r) \in Nat \ {0}
      /\ Len(Tail(r)) = Len(r) - 1
      /\ \A k \in 1..Len(r) - 1 : Tail(r)[k] = r[k + 1]
  BY DEF InRange
<1> QED
  BY <1>1 DEF InRange

\* GetDocInfo finds what is in range.
LEMMA GetDocInfoFinds ==
  ASSUME IndexInv, NEW d \in Nat, d < Len(forward_index)
  PROVE  GetDocInfo(d) # nullptr
<1>1. forward_index[d + 1] \in DocInfo /\ Len(forward_index) \in Nat
  BY DEF IndexInv, TypeOK
<1>2. GetDocInfo(d) = forward_index[d + 1]
  BY <1>1 DEF GetDocInfo
<1> QED
  BY <1>1, <1>2, NullAssumption DEF DocInfo

-----------------------------------------------------------------------------
\* A step of Search, its call and its return included.
SearchAction(t) ==
  \/ \E query \in Text : CutQuery(t, query)
  \/ SearchStep(t)
  \/ LeaveSearch(t)

\* The variables of Searcher, in good order.
SearchInv ==
  /\ step \in [Thread -> {"idle", "lookup", "wrap", "returned"}]
  /\ tokens \in [Thread -> Seq(Word)]
  /\ DOMAIN all_token_result = Thread
  /\ all_token_result = [t \in Thread |-> all_token_result[t]]
  /\ \A t \in Thread : InRange(all_token_result[t])

\* all_token_result stays in good order when one thread's list is replaced by
\* a list in range.
LEMMA ReplaceInRange ==
  ASSUME SearchInv, NEW t \in Thread, NEW list, InRange(list),
         forward_index' = forward_index,
         all_token_result' = [all_token_result EXCEPT ![t] = list]
  PROVE  /\ DOMAIN all_token_result' = Thread
         /\ all_token_result' = [u \in Thread |-> all_token_result'[u]]
         /\ \A u \in Thread : InRange(all_token_result[u])'
<1>1. \A u \in Thread :
        all_token_result'[u] = IF u = t THEN list ELSE all_token_result[u]
  BY DEF SearchInv
<1>2. \A u \in Thread : InRange(all_token_result'[u])
  BY <1>1 DEF SearchInv
<1>3. /\ DOMAIN all_token_result' = Thread
      /\ all_token_result' = [u \in Thread |-> all_token_result'[u]]
  BY DEF SearchInv
<1>4. \A u \in Thread : InRange(all_token_result[u])'
  BY <1>2 DEF InRange
<1> QED
  BY <1>3, <1>4

\* Every step of Search keeps the order, and so the pointer it dereferences
\* is not null.
LEMMA SearchActionKeepsInv ==
  ASSUME IndexInv, SearchInv, UNCHANGED vars,
         NEW t \in Thread, SearchAction(t)
  PROVE  SearchInv'
<1> DEFINE list == all_token_result[t]
<1>0. /\ forward_index' = forward_index /\ InRange(list)
      /\ tokens[t] \in Seq(Word)
  BY DEF vars, SearchInv
<1>1. ASSUME UNCHANGED all_token_result
      PROVE  /\ DOMAIN all_token_result' = Thread
             /\ all_token_result' = [u \in Thread |-> all_token_result'[u]]
             /\ \A u \in Thread : InRange(all_token_result[u])'
  BY <1>0, <1>1 DEF SearchInv, InRange
<1>2. ASSUME NEW query \in Text, CutQuery(t, query)
      PROVE  SearchInv'
  <2>1. CutWord(query) \in Seq(Word)
    BY CutAssumption DEF CutWord
  <2> QED
    BY <1>1, <1>2, <2>1 DEF CutQuery, SearchInv
<1>3. CASE LookUp(t)
  <2> DEFINE found == Found(Lower[Head(tokens[t])])
  <2>1. Tail(tokens[t]) \in Seq(Word)
    BY <1>0, <1>3 DEF LookUp
  <2>2. InRange(found)
    <3>1. <<>> \in Seq(Weight) /\ Len(<<>>) = 0
      OBVIOUS
    <3>2. InRange(<<>>)
      BY <3>1 DEF InRange
    <3> QED
      BY <3>2, ListsInRange DEF Found, GetInvertedList
  <2>3. InRange(list \o found)
    BY <1>0, <2>2, ConcatInRange
  <2>4. all_token_result' = [all_token_result EXCEPT ![t] = list \o found]
    BY <1>3 DEF LookUp
  <2> HIDE DEF found
  <2>5. /\ DOMAIN all_token_result' = Thread
        /\ all_token_result' = [u \in Thread |-> all_token_result'[u]]
        /\ \A u \in Thread : InRange(all_token_result[u])'
    BY <1>0, <2>3, <2>4, ReplaceInRange
  <2>6. tokens' \in [Thread -> Seq(Word)] /\ step' = step
    BY <1>3, <2>1 DEF LookUp, SearchInv
  <2> QED
    BY <2>5, <2>6 DEF SearchInv
<1>4. CASE Sort(t)
  <2>1. PICK sorted \in Sortings(list) :
          all_token_result' = [all_token_result EXCEPT ![t] = sorted]
    BY <1>4 DEF Sort
  <2>2. InRange(sorted)
    BY <1>0, SortInRange
  <2>3. /\ DOMAIN all_token_result' = Thread
        /\ all_token_result' = [u \in Thread |-> all_token_result'[u]]
        /\ \A u \in Thread : InRange(all_token_result[u])'
    BY <1>0, <2>1, <2>2, ReplaceInRange
  <2> QED
    BY <1>4, <2>3 DEF Sort, SearchInv
<1>5. CASE Wrap(t)
  <2> DEFINE weight == Head(list)
  <2>1. InRange(Tail(list)) /\ weight \in Weight
          /\ weight.doc_id < Len(forward_index)
    BY <1>0, <1>5, TailInRange DEF Wrap
  <2>2. GetDocInfo(weight.doc_id) # nullptr
    <3>1. weight.doc_id \in Nat
      BY <2>1 DEF Weight
    <3> QED
      BY <2>1, <3>1, GetDocInfoFinds
  <2>3. /\ all_token_result' = [all_token_result EXCEPT ![t] = Tail(list)]
        /\ step' = step /\ tokens' = tokens
    BY <1>5, <2>2 DEF Wrap
  <2>4. /\ DOMAIN all_token_result' = Thread
        /\ all_token_result' = [u \in Thread |-> all_token_result'[u]]
        /\ \A u \in Thread : InRange(all_token_result[u])'
    BY <1>0, <2>1, <2>3, ReplaceInRange
  <2> QED
    BY <2>3, <2>4 DEF SearchInv
<1>6. CASE Write(t)
  BY <1>1, <1>6 DEF Write, SearchInv
<1>7. CASE LeaveSearch(t)
  BY <1>1, <1>7 DEF LeaveSearch, SearchInv
<1> QED
  BY <1>2, <1>3, <1>4, <1>5, <1>6, <1>7 DEF SearchAction, SearchStep

-----------------------------------------------------------------------------
\* The invariant of the server in the terms of the lemmas above.
LEMMA ServerInvSplit ==
  ServerInv <=> ServerTypeOK /\ QuietDuringInit /\ SearchInv
<1>1. ASSUME ServerInv PROVE SearchInv
  BY <1>1 DEF ServerInv, ServerTypeOK, CollectedInRange, NoNullDereference,
              SearchInv, InRange, InvertedList
<1>2. ASSUME ServerTypeOK, QuietDuringInit, SearchInv PROVE ServerInv
  BY <1>2 DEF ServerInv, ServerTypeOK, CollectedInRange, NoNullDereference,
              SearchInv, InRange
<1> QED
  BY <1>1, <1>2 DEF ServerInv

LEMMA InitServerInv == ServerInit => ServerInv
<1> SUFFICES ASSUME ServerInit PROVE ServerInv
  OBVIOUS
<1>1. <<>> \in Seq(Word) /\ <<>> \in Seq(Weight) /\ Len(<<>>) = 0
  OBVIOUS
<1> QED
  BY <1>1 DEF ServerInit, SearchInit, ServerInv, ServerTypeOK, QuietDuringInit,
              CollectedInRange, NoNullDereference, InvertedList

LEMMA NextServerInv ==
  ASSUME IndexInv, ServerInv, [ServerNext]_serverVars
  PROVE  ServerInv'
<1>0. ServerTypeOK /\ QuietDuringInit /\ SearchInv
  BY ServerInvSplit
<1>1. CASE BuildStep
  <2>1. /\ server = "init" /\ server' = server /\ connVars' = connVars
        /\ searchVars' = searchVars
    BY <1>1 DEF BuildStep
  <2>2. \A t \in Thread : Len(all_token_result'[t]) = 0
    BY <1>0, <2>1 DEF QuietDuringInit, searchVars
  <2>3. CollectedInRange'
    BY <2>2 DEF CollectedInRange
  <2> QED
    BY <2>1, <2>3 DEF ServerInv, ServerTypeOK, QuietDuringInit,
                      NoNullDereference, connVars, searchVars
<1>2. CASE InitFails \/ Listen \/ ListenFails
  BY <1>2 DEF InitFails, Listen, ListenFails, vars, searchVars, connVars,
              ServerInv, ServerTypeOK, QuietDuringInit, CollectedInRange,
              NoNullDereference
<1>3. ASSUME NEW t \in Thread, NEW req \in Query \cup {NoParam}, Accept(t, req)
      PROVE  ServerInv'
  BY <1>3 DEF Accept, vars, searchVars, ServerInv, ServerTypeOK,
              QuietDuringInit, CollectedInRange, NoNullDereference
<1>4. ASSUME NEW t \in Thread, Refuse(t) \/ Respond(t)
      PROVE  ServerInv'
  <2>1. ServerTypeOK'
    BY <1>0, <1>4 DEF Refuse, Respond, vars, searchVars, ServerTypeOK
  <2>2. QuietDuringInit'
    BY <1>0, <1>4 DEF Refuse, Respond, vars, searchVars, ServerTypeOK,
                      QuietDuringInit
  <2> QED
    BY <1>4, <2>1, <2>2 DEF Refuse, Respond, vars, searchVars, ServerInv,
                            CollectedInRange, NoNullDereference
<1>5. ASSUME NEW t \in Thread, CallSearch(t) \/ InSearch(t) \/ SetContent(t)
      PROVE  ServerInv'
  <2>1. UNCHANGED vars /\ server' = server /\ request' = request
    BY <1>5 DEF CallSearch, InSearch, SetContent, connVars
  <2>2. SearchAction(t)
    BY <1>0, <1>5, QueryAssumption
    DEF CallSearch, InSearch, SetContent, SearchAction, ServerTypeOK
  <2>3. SearchInv'
    BY <1>0, <2>1, <2>2, SearchActionKeepsInv
  <2>4. conn' \in [Thread -> {"idle", "handler", "search", "respond"}]
    BY <1>0, <1>5 DEF CallSearch, InSearch, SetContent, connVars, ServerTypeOK
  <2>5. server' # "init"
    BY <1>0, <1>5, <2>1
    DEF CallSearch, InSearch, SetContent, QuietDuringInit
  <2>6. all_token_result' \in [Thread -> InvertedList]
    BY <2>3 DEF SearchInv, InRange, InvertedList
  <2>7. ServerTypeOK'
    <3>1. step' \in [Thread -> {"idle", "lookup", "wrap", "returned",
                                "null dereferenced"}]
      BY <2>3 DEF SearchInv
    <3>2. tokens' \in [Thread -> Seq(Word)]
      BY <2>3 DEF SearchInv
    <3>3. server' \in {"init", "listening", "exit 0", "exit 1"}
          /\ request' \in [Thread -> Query \cup {NoParam}]
      BY <1>0, <2>1 DEF ServerTypeOK
    <3> QED
      BY <2>4, <2>6, <3>1, <3>2, <3>3 DEF ServerTypeOK
  <2>8. CollectedInRange' /\ NoNullDereference'
    BY <2>3 DEF SearchInv, InRange, CollectedInRange, NoNullDereference
  <2> QED
    BY <2>5, <2>7, <2>8 DEF ServerInv, QuietDuringInit
<1>6. CASE UNCHANGED serverVars
  BY <1>6 DEF serverVars, vars, searchVars, connVars, ServerInv, ServerTypeOK,
              QuietDuringInit, CollectedInRange, NoNullDereference
<1> QED
  BY <1>1, <1>2, <1>3, <1>4, <1>5, <1>6 DEF ServerNext, MainStep, HandlerStep

\* For any number of threads, every step of the server keeps its invariant.
THEOREM ServerInvariant == ServerSpec => []ServerInv
<1>1. ServerSpec => []IndexInv
  BY ServerImplementsIndex, IndexInvariant, PTL
<1>2. IndexInv /\ ServerInv /\ [ServerNext]_serverVars => ServerInv'
  BY NextServerInv
<1> QED
  BY <1>1, <1>2, InitServerInv, PTL DEF ServerSpec

\* Whatever file the server has indexed, and however its handlers interleave,
\* Search never dereferences a null pointer.
THEOREM ServerNeverCrashes == ServerSpec => []NoNullDereference
<1>1. ServerInv => NoNullDereference
  BY DEF ServerInv
<1> QED
  BY <1>1, ServerInvariant, PTL

=============================================================================
