---------------------------- MODULE MCQueryTexts ----------------------------
(***************************************************************************)
(* Tokens and indexes for TLC.                                             *)
(***************************************************************************)
EXTENDS QueryTexts

W == {Word(w) : w \in {"WHERE", "SIMILAR", "TO", "LIMIT", "=", "id", "ON", "unique", "c"}}

SomeTokens == W \cup {Number(2), Vector("v"), Reference("c", "i"), List(<<"id", "c">>)}

\* One beginning of each command, and GETs that have filters already.
SomeBeginnings ==
    {<<Word("get"), Word("memory"), Word("WHERE")>>,
     <<Word("GET"), Word("memory"), Word("WHERE"), Word("id"), Word("="), Number(2)>>,
     <<Word("GET"), Word("memory"), Word("WHERE"), Word("id"), Word("="), Number(2),
       Word("c"), Word("="), Number(2)>>,
     <<Word("GET")>>, <<Word("SET")>>, <<Word("delete")>>, <<Word("c")>>,
     <<Word("DELETE"), Word("WHERE")>>,
     <<Word("CREATE"), Word("INDEX")>>, <<Word("create"), Word("collection")>>,
     <<Word("CREATE"), Word("INDEX"), Reference("c", "i"), Word("ON"), Word("c"), List(<<>>)>>,
     <<Word("DROP"), Word("INDEX")>>, <<Word("drop"), Word("collection")>>}

SomeIndexes ==
    {Index("i", "btree", <<"id">>), Index("j", "btree", <<"id", "c">>),
     Index("k", "gin", <<>>), Index("vector", "hnsw", <<"c">>)}
=============================================================================
