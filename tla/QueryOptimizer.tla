--------------------------- MODULE QueryOptimizer ---------------------------
(***************************************************************************)
(* internal/query/optimizer.go: which index a GET uses, and for which of   *)
(* its filters.  Every GET makes an optimizer of its own, without          *)
(* statistics, which then takes each index to hold 100 keys and a GIN      *)
(* index to find one document in 100.                                      *)
(***************************************************************************)
EXTENDS KNIRVQL, FiniteSets

\* How often an element is in a sequence.
Times(s, e) == Cardinality({i \in DOMAIN s : s[i] = e})

\* What the optimizer knows of an index.
Index(name, type, fields) == [name |-> name, type |-> type, fields |-> fields]

canUseIndex(idx, filter) ==
    CASE idx.type = "btree" -> \E i \in DOMAIN idx.fields : filter.key = Word(idx.fields[i])
      [] idx.type = "gin"   -> TRUE
      [] OTHER              -> FALSE

\* The elements of a sequence at some of its positions, taken one by one.
Selected(s, positions) ==
    LET upTo[i \in 0 .. Len(s)] ==
          IF i = 0 THEN <<>>
          ELSE IF i \in positions THEN Append(upTo[i - 1], s[i]) ELSE upTo[i - 1]
    IN  upTo[Len(s)]

Usable(idx, filters) == {i \in DOMAIN filters : canUseIndex(idx, filters[i])}

\* analyzeIndexSuitability.
IndexFilters(idx, filters) == Selected(filters, Usable(idx, filters))

\* Mutant: the filters after the first that needs no index are forgotten.
OneFilterLeft(idx, filters) ==
    LET left == Selected(filters, DOMAIN filters \ Usable(idx, filters))
    IN  SubSeq(left, 1, IF left = <<>> THEN 0 ELSE 1)

PostFilters(idx, filters) == Selected(filters, DOMAIN filters \ Usable(idx, filters))

TotalDocuments == 1000
Cardinality100 == 100
AvgBucketSize  == 10

\* Each filter leaves one document in 100, and one at least is left.
estimateIndexRows(filters) ==
    LET left[i \in 0 .. Len(filters)] ==
          IF i = 0 THEN TotalDocuments ELSE left[i - 1] \div Cardinality100
        rows == left[Len(filters)]
    IN  IF rows < 1 THEN 1 ELSE rows

\* Mutant: an index costs more the more filters it takes.
costPerFilter(filters) == 1 + Len(filters) * AvgBucketSize

estimateIndexCost(filters) == 1 + estimateIndexRows(filters) * AvgBucketSize

\* The indexes selectBestIndex may choose: the cheapest among those that take a
\* filter, in the order of a Go map.
BestIndexes(filters, indexes) ==
    LET candidates == {idx \in indexes : IndexFilters(idx, filters) # <<>>}
        cost(idx)  == estimateIndexCost(IndexFilters(idx, filters))
    IN  {idx \in candidates : \A other \in candidates : cost(idx) <= cost(other)}

NoIndex == Index("", "none", <<>>)

\* The plans Optimize may return; one of them, if there is one index at most.
Optimize(query, indexes) ==
    LET best == BestIndexes(query.filters, indexes)
    IN  IF best = {}
        THEN {[scanType |-> "full", index |-> NoIndex, indexFilters |-> <<>>,
               postFilters |-> query.filters]}
        ELSE {[scanType     |-> IF PostFilters(idx, query.filters) = <<>> THEN "index_only" ELSE "index",
               index        |-> idx,
               indexFilters |-> IndexFilters(idx, query.filters),
               postFilters  |-> PostFilters(idx, query.filters)] : idx \in best}
=============================================================================
