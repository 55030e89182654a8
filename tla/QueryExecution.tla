--------------------------- MODULE QueryExecution ---------------------------
(***************************************************************************)
(* internal/query/knirvql.go: executing statements on one collection, its  *)
(* storage and its indexes.  SET, DELETE and the index commands are one    *)
(* call each.  A GET is several: it looks up the indexes there are, plans, *)
(* asks the chosen index for document IDs, and fetches them one by one,    *)
(* while other clients' statements go on.                                  *)
(*                                                                         *)
(* The IDs an index gives out are the slice it keeps under the key, not a  *)
(* copy.  A delete moves the slice's elements in its place, so that a scan *)
(* that is under way, or a caller who was given the slice, sees them move. *)
(***************************************************************************)
EXTENDS IndexedStorage, QueryOptimizer

CONSTANTS Collection,  \* the name of the collection
          Statements,  \* the texts of clients
          NoGet        \* no GET is being executed

VARIABLE get  \* the GET that is executed, or whose answer is still held

queryVars == <<vars, get>>

\* What a word, and the document of a SET, are to the storage.
Value(t) == t.parts[1]

SetDocument(q) ==
    [field   |-> [f \in Fields |-> CASE f = "id" -> Value(q.key)
                                     [] f = "entryType" -> Value(q.entryType)
                                     [] OTHER -> Absent],
     payload |-> [f \in Fields |-> CASE f = "key" -> Value(q.key)
                                     [] f = "value" -> Value(q.value[1])
                                     [] OTHER -> Absent],
     vector  |-> Absent]

DefinitionOf(q) ==
    [type |-> IF q.indexName = Word("vector") THEN "hnsw" ELSE "btree", fields |-> q.fields,
     unique |-> q.unique, partial |-> [field |-> "id", value |-> Absent]]

\* Statements are about the documents, words and indexes that are modelled.
ASSUME StatementAssumption ==
    /\ {"id", "entryType", "key", "value"} \subseteq Fields
    /\ Statements \subseteq Seq(TokenSet)
    /\ Docs = {SetDocument(Parse(s)) : s \in {t \in Statements : Parse(t).type = "set"}}
    /\ \A s \in Statements : LET q == Parse(s) IN
          /\ q.type = "set" => Value(q.key) \in IDs
          /\ q.type = "delete" => Value(q.id) \in IDs
          /\ \A i \in DOMAIN q.filters : Value(q.filters[i].value) \in Values
          /\ q.type = "create_index" =>
                /\ q.collection = Word(Collection)
                /\ Value(q.indexName) \in Names
                /\ Definition[Value(q.indexName)] = DefinitionOf(q)

-----------------------------------------------------------------------------
(***************************************************************************)
(* Executing a GET.                                                        *)
(***************************************************************************)
\* The collection whose indexes are looked up, whatever collection is read.
CollectionOf(q) == IF q.entryType = Word("AUTH") THEN "auth" ELSE "memory"

IndexesOf(collection) ==
    IF collection = Collection
    THEN {Index(n, Definition[n].type, Definition[n].fields) : n \in indexes} ELSE {}

matchesFilter(payload, filter) ==
    LET f == Value(filter.key)
    IN  /\ f \in Fields /\ payload[f] # Absent
        /\ CASE filter.operator = Word("=")  -> payload[f] = Value(filter.value)
             [] filter.operator = Word("!=") -> payload[f] # Value(filter.value)

\* A document without payload matches nothing.
matchesFilters(doc, filters) ==
    /\ \E f \in Fields : doc.payload[f] # Absent
    /\ \A i \in DOMAIN filters : matchesFilter(doc.payload, filters[i])

Limited(results) ==
    IF get.limit > 0 /\ Len(results) > get.limit THEN SubSeq(results, 1, get.limit) ELSE results

Answered(results) ==
    get' = [get EXCEPT !.phase = "answered", !.answer = Limited(results),
                       !.slice = <<>>, !.shared = FALSE, !.next = 1]

Untouched == [id \in IDs |-> "untouched"]

\* GetIndexesForCollection and Optimize.
Get(q) ==
    /\ get = NoGet /\ q.type = "get"
    /\ \E plan \in Optimize(q, IndexesOf(CollectionOf(q))) :
          get' = [phase |-> "planned", plan |-> plan, limit |-> q.limit, slice |-> <<>>,
                  shared |-> FALSE, next |-> 1, docID |-> <<>>, answer |-> <<>>,
                  asked |-> <<>>, since |-> Untouched, dropped |-> FALSE]
    /\ UNCHANGED vars

\* The documents come in the order of their names.
executeFullScan ==
    /\ get # NoGet /\ get.phase = "planned" /\ get.plan.scanType = "full"
    /\ op = Idle
    /\ LET found == {id \in FindAll : matchesFilters(files[id], get.plan.postFilters)}
       IN  Answered(SetToSeq(found))
    /\ UNCHANGED vars

\* The key that queryBTree looks up is the value of the first filter.
Key == <<Value(get.plan.indexFilters[1].value)>>

\* Mutant: a key that is not in the index is an error.
QueryIndexStrictly ==
    /\ get # NoGet /\ get.phase = "planned" /\ get.plan.scanType # "full"
    /\ LET n == get.plan.index.name
       IN  get' = IF n = Collection /\ n \in indexes /\ entries[n][Key] # <<>>
                  THEN [get EXCEPT !.phase = "scanning", !.slice = entries[n][Key],
                                   !.asked = entries[n][Key], !.shared = TRUE]
                  ELSE [get EXCEPT !.phase = "failed"]
    /\ UNCHANGED vars

\* The index is looked up under its own name for a collection; queryGIN is not
\* given the token it looks for and finds nothing.
QueryIndex ==
    /\ get # NoGet /\ get.phase = "planned" /\ get.plan.scanType # "full"
    /\ LET n     == get.plan.index.name
           slice == IF get.plan.index.type = "btree" THEN entries[n][Key] ELSE <<>>
       IN  get' = IF n = Collection /\ n \in indexes
                  THEN [get EXCEPT !.phase = "scanning", !.slice = slice, !.asked = slice,
                                   !.shared = slice # <<>>,
                                   !.since = IF op = Idle THEN @ ELSE [@ EXCEPT ![op.id] = op.type]]
                  ELSE [get EXCEPT !.phase = "failed"]
    /\ UNCHANGED vars

\* The scan takes the next ID from the slice, as it is now.
NextID ==
    /\ get # NoGet /\ get.phase = "scanning" /\ get.plan.scanType = "index"
    /\ get.docID = <<>> /\ get.next \in DOMAIN get.slice
    /\ get' = [get EXCEPT !.docID = <<get.slice[get.next]>>, !.next = @ + 1]
    /\ UNCHANGED vars

\* Mutant: the scan is over when a document is not there.
StopAtMissing ==
    /\ get # NoGet /\ get.docID # <<>>
    /\ op = Idle
    /\ LET id == get.docID[1]
       IN  get' = IF id \in FindAll
                  THEN [get EXCEPT !.docID = <<>>, !.answer =
                           IF matchesFilters(files[id], get.plan.postFilters)
                           THEN Append(@, id) ELSE @]
                  ELSE [get EXCEPT !.docID = <<>>, !.next = Len(get.slice) + 1]
    /\ UNCHANGED vars

\* It gets the document when no operation runs.  What cannot be read is skipped.
Fetch ==
    /\ get # NoGet /\ get.docID # <<>>
    /\ op = Idle
    /\ LET id == get.docID[1]
       IN  get' = [get EXCEPT !.docID = <<>>, !.answer =
                      IF id \in FindAll /\ matchesFilters(files[id], get.plan.postFilters)
                      THEN Append(@, id) ELSE @]
    /\ UNCHANGED vars

executeIndexScan ==
    /\ get # NoGet /\ get.phase = "scanning" /\ get.plan.scanType = "index"
    /\ get.docID = <<>> /\ get.next \notin DOMAIN get.slice
    /\ Answered(get.answer)
    /\ UNCHANGED vars

\* The caller is given the slice itself.
executeIndexOnlyScan ==
    /\ get # NoGet /\ get.phase = "scanning" /\ get.plan.scanType = "index_only"
    /\ get' = [get EXCEPT !.phase = "answered", !.slice = Limited(@)]
    /\ UNCHANGED vars

\* The caller is done with the answer.
Drop ==
    /\ get # NoGet /\ get.phase \in {"answered", "failed"}
    /\ get' = NoGet
    /\ UNCHANGED vars

-----------------------------------------------------------------------------
(***************************************************************************)
(* The other statements, and the steps of the storage, with what they do   *)
(* to the GET.                                                             *)
(***************************************************************************)
\* What has become of a document since the index was asked.
Touches(id, how) ==
    get' = IF get = NoGet \/ get.asked = <<>> THEN get
           ELSE [get EXCEPT !.since[id] = IF @ = "delete" THEN @ ELSE how]

ExecuteSet(q) ==
    /\ q.type = "set"
    /\ Insert(Value(q.key), SetDocument(q))
    /\ Touches(Value(q.key), "insert")

ExecuteDelete(q) ==
    /\ q.type = "delete"
    /\ Delete(Value(q.id))
    /\ Touches(Value(q.id), "delete")

ExecuteCreateIndex(q) ==
    /\ q.type = "create_index"
    /\ CreateIndex(Value(q.indexName))
    /\ UNCHANGED get

Holds(n) == get # NoGet /\ get.shared /\ get.plan.index.name = n

\* Elements beyond what the index keeps stay as they are.
InPlace(slice, kept) == [i \in DOMAIN slice |-> IF i \in DOMAIN kept THEN kept[i] ELSE slice[i]]

\* A slice that becomes empty is given up by the index.  One that grows beyond
\* what was handed out may be moved elsewhere; up to there it stays in place.
IndexMoves(n) ==
    IF ~ Holds(n) \/ entries'[n][Key] = entries[n][Key] THEN UNCHANGED get
    ELSE LET kept == entries'[n][Key]
         IN  IF kept = <<>> THEN get' = [get EXCEPT !.shared = FALSE]
             ELSE IF Len(kept) > Len(entries[n][Key]) /\ Len(kept) > Len(get.slice)
             THEN \E shared \in BOOLEAN : get' = [get EXCEPT !.shared = shared]
             ELSE get' = [get EXCEPT !.slice = InPlace(@, kept)]

\* What an operation that has looked up an index before it was dropped will
\* make of the IDs under the key.
Late(n) ==
    LET ids == entries[n][Key]
        def == Definition[n]
    IN  IF op = Idle \/ n \notin op.todo THEN ids
        ELSE IF op.type = "delete" THEN RemoveFirst(ids, op.id)
        ELSE IF /\ matchesPartial(def, op.doc) /\ buildCompositeKey(def.fields, op.doc) = Key
                /\ ~ def.unique \/ ids = <<>>
        THEN Append(ids, op.id)
        ELSE ids

\* It will do so between two of the elements that are still to be read, or
\* after them.
ExecuteDropIndex(q) ==
    LET n == Value(q.indexName)
    IN  /\ q.type = "drop_index"
        /\ DropIndex(n)
        /\ IF get = NoGet \/ get.plan.index.name # n THEN UNCHANGED get
           ELSE LET late == IF get.shared THEN InPlace(get.slice, Late(n)) ELSE get.slice
                IN  \E k \in 0 .. Len(get.slice) :
                       get' = [get EXCEPT !.shared = FALSE, !.dropped = TRUE,
                                          !.slice = SubSeq(@, 1, k) \o SubSeq(late, k + 1, Len(late))]

StorageStep ==
    \/ (WriteFile \/ WriteFileFails \/ GetIndexes \/ Return) /\ UNCHANGED get
    \/ \E n \in Names : (InsertIntoIndex(n) \/ DeleteFromIndex(n)) /\ IndexMoves(n)
    \/ Restart /\ get' = NoGet

Execute(q) ==
    \/ Get(q)
    \/ ExecuteSet(q)
    \/ ExecuteDelete(q)
    \/ ExecuteCreateIndex(q)
    \/ ExecuteDropIndex(q)

QueryInit == Init /\ get = NoGet

QueryNext ==
    \/ \E s \in Statements : Execute(Parse(s))
    \/ executeFullScan
    \/ QueryIndex
    \/ NextID
    \/ Fetch
    \/ executeIndexScan
    \/ executeIndexOnlyScan
    \/ Drop
    \/ StorageStep

QuerySpec == QueryInit /\ [][QueryNext]_queryVars

-----------------------------------------------------------------------------
(***************************************************************************)
(* Properties.                                                             *)
(***************************************************************************)
(***************************************************************************)
(* What other clients do in the middle of a GET by index loses and repeats *)
(* nothing of what the index named, except that a delete moves what stands *)
(* behind it: a document that is stored and has not been written since the *)
(* index was asked, and before which in the index no other was deleted, is *)
(* in the answer as often as the index named it.                           *)
(***************************************************************************)
StandsFirm(id) ==
    /\ get.since[id] = "untouched"
    /\ \A i, j \in DOMAIN get.asked :
          i < j /\ get.asked[j] = id => get.since[get.asked[i]] # "delete"

ScanIsComplete ==
    get # NoGet /\ get.phase = "answered" /\ get.limit = 0 =>
        \A id \in ToSet(get.asked) : StandsFirm(id) =>
            IF get.plan.scanType = "index_only" THEN Times(get.slice, id) = Times(get.asked, id)
            ELSE id \in FindAll /\ matchesFilters(files[id], get.plan.postFilters) =>
                    Times(get.answer, id) = Times(get.asked, id)

(***************************************************************************)
(* A GET fails for no other reason than its index: one that is not named   *)
(* like the collection (executeIndexScan passes the name of the index for  *)
(* that of the collection), or one that was dropped in the meantime.       *)
(***************************************************************************)
FailuresAreNameless ==
    get # NoGet /\ get.phase = "failed" => get.plan.index.name # Collection \/ get.dropped
=============================================================================
