-------------------------- MODULE MCIndexedStorage --------------------------
(***************************************************************************)
(* Documents and indexes for TLC.                                          *)
(***************************************************************************)
EXTENDS IndexedStorage, TLC

CONSTANTS f1, f2, x, u, a, b

Doc(v1, v2, word, vector) ==
    [field |-> (f1 :> v1 @@ f2 :> v2), payload |-> (f1 :> word @@ f2 :> Absent), vector |-> vector]

\* The first two have the same composite key, the third a word twice.
SomeDocs == {Doc(x, Absent, Absent, u), Doc(Absent, x, Absent, Absent), Doc(x, Absent, x, Absent)}

NoExpr == [field |-> f1, value |-> Absent]

\* A unique index, a partial inverted one, and one of vectors.
SomeIndexes ==
    [keys    |-> [type |-> "btree", fields |-> <<f1, f2>>, unique |-> TRUE, partial |-> NoExpr],
     words   |-> [type |-> "gin", fields |-> <<>>, unique |-> FALSE,
                  partial |-> [field |-> f1, value |-> x]],
     similar |-> [type |-> "hnsw", fields |-> <<>>, unique |-> FALSE, partial |-> NoExpr]]

SomeDefinitions == [n \in Names |-> SomeIndexes[n]]

Symmetry == Permutations(IDs)
=============================================================================
