------------------------------ MODULE KNIRVQL ------------------------------
(***************************************************************************)
(* internal/query/knirvql.go: the parser of KNIRVQL.  A text is the        *)
(* sequence of tokens that strings.Fields cuts it into.  Of a token it     *)
(* matters whether it is a plain word, a number, or something that is cut  *)
(* further: a reference (collection:index), a list ((a,b)), a vector       *)
(* ([1,2]).  Quotes around a word, which the parser drops, are left out,   *)
(* and so is the difference between "2", 2 and 2.0, which no filter sees:  *)
(* it compares formatted values.                                           *)
(***************************************************************************)
EXTENDS Naturals, Sequences

Token(kind, parts, n) == [kind |-> kind, parts |-> parts, number |-> n]

Word(w)         == Token("word", <<w>>, 0)
Reference(c, i) == Token("reference", <<c, i>>, 0)
List(ws)        == Token("list", ws, 0)
Vector(v)       == Token("vector", <<v>>, 0)
Number(n)       == Token("number", <<>>, n)

\* The tokens there are.
TokenSet ==
    {t \in [kind   : {"word", "reference", "list", "vector", "number"},
            parts  : Seq(STRING),
            number : Nat] :
       /\ t.kind # "number" => t.number = 0
       /\ CASE t.kind \in {"word", "vector"} -> Len(t.parts) = 1
            [] t.kind = "reference"          -> Len(t.parts) = 2
            [] t.kind = "number"             -> t.parts = <<>>
            [] OTHER                         -> TRUE}

\* Keywords are known in small letters too where the parser says so.
Capital == [get |-> "GET", set |-> "SET", delete |-> "DELETE", create |-> "CREATE",
            drop |-> "DROP", index |-> "INDEX", collection |-> "COLLECTION",
            unique |-> "UNIQUE", auth |-> "AUTH", memory |-> "MEMORY"]

ToUpper(t) == IF t.kind = "word" /\ t.parts[1] \in DOMAIN Capital
              THEN Word(Capital[t.parts[1]]) ELSE t

None == Word("")

\* Query, with every field that a kind of query leaves alone at its zero value.
NoQuery == [type |-> "none", entryType |-> None, collection |-> None, id |-> None, key |-> None,
            value |-> <<>>, filters |-> <<>>, similarTo |-> <<>>, limit |-> 0,
            indexName |-> None, fields |-> <<>>, unique |-> FALSE]

\* An error is returned; an index is out of range.
Invalid == [NoQuery EXCEPT !.type = "invalid"]
Panics  == [NoQuery EXCEPT !.type = "panics"]

-----------------------------------------------------------------------------
(***************************************************************************)
(* GET.  The WHERE clause is a sequence of filters, of three tokens each,  *)
(* ended by SIMILAR TO, by LIMIT, or by what is too short for a filter;    *)
(* what comes after that is not looked at.                                 *)
(***************************************************************************)
Triple(parts, i) == [key |-> parts[i], operator |-> parts[i + 1], value |-> parts[i + 2]]

\* Mutant: filters are expected to be separated by a word.
whereWithSeparators(parts) ==
    LET from[i \in 1 .. Len(parts) + 4] ==
          IF i + 2 > Len(parts) THEN NoQuery
          ELSE [from[i + 4] EXCEPT !.filters = <<Triple(parts, i)>> \o @]
    IN  from[1]

\* The clause from its first token.
whereClause(parts) ==
    LET Has(i, t) == i <= Len(parts) /\ parts[i] = t
        from[i \in 1 .. Len(parts) + 3] ==
          IF Has(i, Word("SIMILAR")) /\ Has(i + 1, Word("TO"))
          THEN [NoQuery EXCEPT !.similarTo =
                   IF i + 2 <= Len(parts) /\ parts[i + 2].kind \in {"vector", "number"}
                   THEN <<parts[i + 2]>> ELSE <<>>]
          ELSE IF Has(i, Word("LIMIT"))
          THEN [NoQuery EXCEPT !.limit = IF i + 1 <= Len(parts) THEN parts[i + 1].number ELSE 0]
          ELSE IF i + 2 <= Len(parts)
          THEN [from[i + 3] EXCEPT !.filters = <<Triple(parts, i)>> \o @]
          ELSE NoQuery
    IN  from[1]

parseGet(parts) ==
    IF Len(parts) < 2 THEN Invalid
    ELSE [IF parts[2] = Word("WHERE") THEN whereClause(SubSeq(parts, 3, Len(parts))) ELSE NoQuery
          EXCEPT !.type = "get", !.entryType = ToUpper(parts[1])]

-----------------------------------------------------------------------------
(***************************************************************************)
(* SET and DELETE.                                                         *)
(***************************************************************************)
\* Mutant: the value is the last token.
setLastToken(parts) ==
    IF Len(parts) < 3 \/ parts[2] # Word("=") THEN Invalid
    ELSE [NoQuery EXCEPT !.type = "set", !.key = parts[1], !.value = <<parts[Len(parts)]>>,
                         !.entryType = Word("AUTH")]

parseSet(parts) ==
    IF Len(parts) < 3 \/ parts[2] # Word("=") THEN Invalid
    ELSE [NoQuery EXCEPT !.type = "set", !.key = parts[1], !.value = SubSeq(parts, 3, Len(parts)),
                         !.entryType = Word("AUTH")]

\* The length is checked to be two, and up to four tokens are read.
parseDelete(parts) ==
    IF Len(parts) < 2 \/ parts[1] # Word("WHERE") \/ parts[2] # Word("id") THEN Invalid
    ELSE IF Len(parts) < 3 THEN Panics
    ELSE IF parts[3] # Word("=") THEN Invalid
    ELSE IF Len(parts) < 4 THEN Panics
    ELSE [NoQuery EXCEPT !.type = "delete", !.id = parts[4]]

-----------------------------------------------------------------------------
(***************************************************************************)
(* CREATE and DROP.                                                        *)
(***************************************************************************)
\* Mutant: as in parseDelete, one token more is read than there need be.
createIndexReadsOn(parts) ==
    IF Len(parts) < 2 THEN Invalid
    ELSE IF parts[1].kind # "reference" \/ parts[2] # Word("ON") THEN Invalid
    ELSE IF Len(parts) < 3 THEN Panics
    ELSE IF parts[3] # Word(parts[1].parts[1]) THEN Invalid
    ELSE [NoQuery EXCEPT !.type = "create_index", !.collection = Word(parts[1].parts[1]),
                         !.indexName = Word(parts[1].parts[2])]

parseCreateIndex(parts) ==
    IF Len(parts) < 3 \/ parts[1].kind # "reference" THEN Invalid
    ELSE LET collection == Word(parts[1].parts[1])
             listed     == Len(parts) >= 4 /\ parts[4].kind = "list"
             next       == IF listed THEN 5 ELSE 4
         IN  IF parts[2] # Word("ON") \/ parts[3] # collection THEN Invalid
             ELSE [NoQuery EXCEPT
                      !.type       = "create_index",
                      !.collection = collection,
                      !.indexName  = Word(parts[1].parts[2]),
                      !.fields     = IF listed THEN parts[4].parts ELSE <<>>,
                      !.unique     = next <= Len(parts) /\ ToUpper(parts[next]) = Word("UNIQUE")]

parseDropIndex(parts) ==
    IF parts[1].kind # "reference" THEN Invalid
    ELSE [NoQuery EXCEPT !.type       = "drop_index",
                         !.collection = Word(parts[1].parts[1]),
                         !.indexName  = Word(parts[1].parts[2])]

\* parseCreateCollection and parseDropCollection.
parseCollection(type, parts) == [NoQuery EXCEPT !.type = type, !.collection = parts[1]]

parseCreate(parts) ==
    IF Len(parts) < 2 THEN Invalid
    ELSE CASE ToUpper(parts[1]) = Word("INDEX")      -> parseCreateIndex(Tail(parts))
           [] ToUpper(parts[1]) = Word("COLLECTION") ->
                  parseCollection("create_collection", Tail(parts))
           [] OTHER -> Invalid

parseDrop(parts) ==
    IF Len(parts) < 2 THEN Invalid
    ELSE CASE ToUpper(parts[1]) = Word("INDEX")      -> parseDropIndex(Tail(parts))
           [] ToUpper(parts[1]) = Word("COLLECTION") ->
                  parseCollection("drop_collection", Tail(parts))
           [] OTHER -> Invalid

Parse(text) ==
    IF text = <<>> THEN Invalid
    ELSE LET cmd == ToUpper(text[1])
         IN  CASE cmd = Word("GET")    -> parseGet(Tail(text))
               [] cmd = Word("SET")    -> parseSet(Tail(text))
               [] cmd = Word("DELETE") -> parseDelete(Tail(text))
               [] cmd = Word("CREATE") -> parseCreate(Tail(text))
               [] cmd = Word("DROP")   -> parseDrop(Tail(text))
               [] OTHER                -> Invalid
=============================================================================
