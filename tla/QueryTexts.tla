----------------------------- MODULE QueryTexts -----------------------------
(***************************************************************************)
(* What the parser of KNIRVQL and the optimizer do with every text, which  *)
(* a client types token by token.                                          *)
(***************************************************************************)
EXTENDS QueryOptimizer, SequencesExt

CONSTANTS Beginnings,  \* the texts there are to go on from
          Tokens,      \* what a client types
          MaxTokens,   \* bound of the model: how much more it types
          Indexes      \* the indexes there may be

ASSUME TextAssumption ==
    /\ MaxTokens \in Nat
    /\ Tokens \subseteq TokenSet
    /\ Beginnings \subseteq Seq(TokenSet) \ {<<>>}

VARIABLES text,  \* what has been typed
          more   \* how many tokens of it

textVars == <<text, more>>

TextInit == text \in Beginnings /\ more = 0

Type(t) == more < MaxTokens /\ text' = Append(text, t) /\ more' = more + 1

TextNext == \E t \in Tokens : Type(t)

TextSpec == TextInit /\ [][TextNext]_textVars

-----------------------------------------------------------------------------
(***************************************************************************)
(* The parser reads beyond the end of no text but a DELETE that is cut off *)
(* after "id" or after "=" (parseDelete checks for two tokens and reads    *)
(* four); that one it does not refuse, it takes the process with it.       *)
(***************************************************************************)
CutOff == {<<Word("WHERE"), Word("id")>>, <<Word("WHERE"), Word("id"), Word("=")>>}

OnlyShortDeletesPanic ==
    Parse(text).type = "panics" <=>
        ToUpper(text[1]) = Word("DELETE") /\ Tail(text) \in CutOff

(***************************************************************************)
(* The filters of a GET are the triples of tokens after WHERE, one after   *)
(* the other, in order and without a gap: parseGet stops before the first  *)
(* that begins with SIMILAR TO or LIMIT, or that is cut off.               *)
(***************************************************************************)
EndsFilters(clause, i) ==
    \/ i + 2 > Len(clause)
    \/ clause[i] = Word("LIMIT")
    \/ clause[i] = Word("SIMILAR") /\ clause[i + 1] = Word("TO")

FiltersReadInOrder ==
    LET query  == Parse(text)
        clause == SubSeq(text, 4, Len(text))
        n      == Len(query.filters)
    IN  query.type = "get" /\ text[3] = Word("WHERE") =>
          /\ \A i \in 1 .. n : /\ ~ EndsFilters(clause, 3 * i - 2)
                              /\ query.filters[i] = Triple(clause, 3 * i - 2)
          /\ EndsFilters(clause, 3 * n + 1)

(***************************************************************************)
(* What Parse makes of a text is what the text says: written back in the   *)
(* words of the grammar, a query is the text, but for capitals and for     *)
(* what the parser ignores at its end, and is read again as that query.    *)
(* (Of a GET without WHERE only the type of entry is read, and a list of   *)
(* no fields, as if it were not there.)                                    *)
(***************************************************************************)
SaysMore(q) == \/ q.type = "get" /\ text[3] # Word("WHERE")
               \/ q.type = "create_index" /\ Len(text) >= 6 /\ text[6] = List(<<>>)

If(condition, tokens) == IF condition THEN tokens ELSE <<>>

FilterTokens(filters) ==
    [i \in 1 .. 3 * Len(filters) |->
       LET filter == filters[(i + 2) \div 3]
       IN  CASE i % 3 = 1 -> filter.key
             [] i % 3 = 2 -> filter.operator
             [] i % 3 = 0 -> filter.value]

Written(q) ==
    CASE q.type = "get" ->
             <<Word("GET"), q.entryType, Word("WHERE")>> \o FilterTokens(q.filters)
             \o If(q.similarTo # <<>>, <<Word("SIMILAR"), Word("TO")>> \o q.similarTo)
             \o If(q.limit # 0, <<Word("LIMIT"), Number(q.limit)>>)
      [] q.type = "set"    -> <<Word("SET"), q.key, Word("=")>> \o q.value
      [] q.type = "delete" -> <<Word("DELETE"), Word("WHERE"), Word("id"), Word("="), q.id>>
      [] q.type = "create_index" ->
             <<Word("CREATE"), Word("INDEX"),
               Reference(q.collection.parts[1], q.indexName.parts[1]), Word("ON"), q.collection>>
             \o If(q.fields # <<>>, <<List(q.fields)>>)
             \o If(q.unique, <<Word("UNIQUE")>>)
      [] q.type = "drop_index" ->
             <<Word("DROP"), Word("INDEX"), Reference(q.collection.parts[1], q.indexName.parts[1])>>
      [] q.type = "create_collection" -> <<Word("CREATE"), Word("COLLECTION"), q.collection>>
      [] q.type = "drop_collection"   -> <<Word("DROP"), Word("COLLECTION"), q.collection>>

QueryIsTheText ==
    LET q == Parse(text)
    IN  q.type \notin {"invalid", "panics"} /\ ~ SaysMore(q) =>
          /\ Len(Written(q)) <= Len(text)
          /\ \A i \in DOMAIN Written(q) : ToUpper(text[i]) = ToUpper(Written(q)[i])
          /\ Parse(Written(q)) = q

(***************************************************************************)
(* Whatever indexes there are, a plan keeps each filter of its query once, *)
(* for the index or for after it, and leaves to an index what it is for.   *)
(***************************************************************************)
PlanKeepsFilters ==
    LET query == Parse(text)
    IN  \A indexes \in SUBSET Indexes : \A plan \in Optimize(query, indexes) :
          /\ \A f \in ToSet(query.filters) :
                Times(plan.indexFilters, f) + Times(plan.postFilters, f) = Times(query.filters, f)
          /\ Len(plan.indexFilters) + Len(plan.postFilters) = Len(query.filters)
          /\ plan.scanType = "full" <=> plan.indexFilters = <<>>
          /\ plan.scanType # "full" => plan.index \in indexes

(***************************************************************************)
(* A query with a filter that some index takes is not answered by a full   *)
(* scan, and no other index takes more of its filters than the one chosen, *)
(* as long as more filters leave fewer rows: a second one does, a third    *)
(* does not.                                                               *)
(***************************************************************************)
Taken(idx, filters) == LET n == Len(IndexFilters(idx, filters)) IN IF n < 2 THEN n ELSE 2

BestIndexTakesMost ==
    LET query == Parse(text)
    IN  \A indexes \in SUBSET Indexes : \A plan \in Optimize(query, indexes), idx \in indexes :
          Taken(idx, query.filters) <= Taken(plan.index, query.filters)
=============================================================================
