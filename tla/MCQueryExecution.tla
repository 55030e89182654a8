-------------------------- MODULE MCQueryExecution --------------------------
(***************************************************************************)
(* Statements for TLC.                                                     *)
(***************************************************************************)
EXTENDS QueryExecution

Where(field, value) == <<Word(field), Word("="), Word(value)>>

Sets    == {<<Word("SET"), Word(id), Word("="), Word("x")>> : id \in IDs}
Deletes == {<<Word("DELETE"), Word("WHERE")>> \o Where("id", "a")}

\* No document has a field "key" outside of its payload: the second index takes
\* one document, whichever comes first.
Create(n, field) ==
    <<Word("CREATE"), Word("INDEX"), Reference("auth", n), Word("ON"), Word("auth"), List(<<field>>)>>
    \o (IF n = "key" THEN <<Word("UNIQUE")>> ELSE <<>>)

Drops   == {<<Word("DROP"), Word("INDEX"), Reference("auth", n)>> : n \in Names}
Gets    == {<<Word("GET"), Word("AUTH"), Word("WHERE")>> \o where :
               where \in {Where("entryType", "AUTH"),
                          Where("entryType", "AUTH") \o Where("value", "x"),
                          <<Word("key"), Word("!="), Word("x"), Word("LIMIT"), Number(1)>>}}

SomeStatements == Sets \cup Deletes \cup Drops \cup Gets
                  \cup {Create("auth", "entryType"), Create("key", "key")}

SomeDocs == {SetDocument(Parse(s)) : s \in Sets}

SomeDefinitions ==
    [auth |-> DefinitionOf(Parse(Create("auth", "entryType"))),
     key  |-> DefinitionOf(Parse(Create("key", "key")))]

\* The state without the history that these properties do not look at.
NoCovered == <<files, metadata, indexes, entries, vectors, op, get>>
=============================================================================
