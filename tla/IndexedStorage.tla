--------------------------- MODULE IndexedStorage ---------------------------
(***************************************************************************)
(* internal/storage: what the operations of a FileStorage do to the files  *)
(* of one collection, and to its indexes (index.go), which are in memory   *)
(* except for a metadata file each.                                        *)
(*                                                                         *)
(* Insert and Delete run one at a time (FileStorageLock): op is the one    *)
(* that runs.  They work in steps, one per file or index they touch, in    *)
(* between which indexes are created, dropped and queried: the index       *)
(* manager's lock is not held across steps.  Update never gets to files or *)
(* indexes.  Documents go to the file as they are: the blob of a MEMORY    *)
(* entry would go to a file of its own, but the copy that Insert looks at  *)
(* has been through JSON, where no value has the type it looks for.        *)
(***************************************************************************)
EXTENDS Naturals, SequencesExt

CONSTANTS IDs,           \* document IDs
          Fields,        \* fields of a document
          Values,        \* the strings a field can hold, of one word each
          Absent,        \* no such field
          Vectors,       \* embeddings
          Docs,          \* the documents that are inserted
          Names,         \* names of indexes
          Definition,    \* what CreateIndex is called with, per name
          NoFile, Torn,  \* no file; a file that holds no complete document
          Idle,          \* no operation
          MaxEntries     \* bound of the model: the documents under a key

\* A document: its fields, those of its payload, and the vector in the payload.
Document == [field   : [Fields -> Values \cup {Absent}],
             payload : [Fields -> Values \cup {Absent}],
             vector  : Vectors \cup {Absent}]

\* A partial index has a field and the value it must have, Absent for none.
IndexDefinition == [type    : {"btree", "gin", "hnsw"},
                    fields  : Seq(Fields),
                    unique  : BOOLEAN,
                    partial : [field : Fields, value : Values \cup {Absent}]]

Keys == UNION {[1 .. n -> Values] : n \in 0 .. 2}

ASSUME StorageAssumption ==
    /\ Absent \notin Values /\ Absent \notin Vectors
    /\ Docs \subseteq Document
    /\ {NoFile, Torn} \cap Document = {} /\ NoFile # Torn
    /\ Definition \in [Names -> IndexDefinition]
    /\ IsFiniteSet(Fields)
    /\ MaxEntries \in Nat

VARIABLES files,     \* the collection's directory
          metadata,  \* indexes that have a metadata file
          indexes,   \* indexes there are in memory
          entries,   \* btree and gin: document IDs under each key or token
          vectors,   \* hnsw: the vector of a document ID
          op,        \* the Insert or Delete that runs
          covered    \* history: documents whose last Insert found the index there

vars == <<files, metadata, indexes, entries, vectors, op, covered>>

Operation ==
    [type : {"insert"}, id : IDs, doc : Docs, step : {"write", "lookup"}, todo : {{}}]
    \cup [type : {"insert"}, id : IDs, doc : Docs, step : {"index"}, todo : SUBSET Names]
    \cup [type : {"delete"}, id : IDs, step : {"lookup"}, todo : {{}}]
    \cup [type : {"delete"}, id : IDs, step : {"index"}, todo : SUBSET Names]

ASSUME IdleAssumption == Idle \notin Operation

NoEntries == [k \in Keys |-> <<>>]
NoVectors == [id \in IDs |-> Absent]

Init ==
    /\ files    = [id \in IDs |-> NoFile]
    /\ metadata = {}
    /\ indexes  = {}
    /\ entries  = [n \in Names |-> NoEntries]
    /\ vectors  = [n \in Names |-> NoVectors]
    /\ op       = Idle
    /\ covered  = [n \in Names |-> {}]

-----------------------------------------------------------------------------
(***************************************************************************)
(* The three kinds of index.                                               *)
(***************************************************************************)
\* The field=value condition of a partial index.
matchesPartial(def, doc) ==
    def.partial.value = Absent \/ doc.field[def.partial.field] = def.partial.value

\* Fields the document lacks do not show in its key.
buildCompositeKey(fields, doc) ==
    LET present(f) == doc.field[f] # Absent
        value(f)   == doc.field[f]
        kept       == SelectSeq(fields, present)
    IN  [i \in DOMAIN kept |-> value(kept[i])]

\* The keys of the documents are among those modelled.
ASSUME KeysAssumption ==
    \A n \in Names, doc \in Docs : buildCompositeKey(Definition[n].fields, doc) \in Keys

\* How often a token is in a document, its payload included.
tokenizeJSON(doc, token) == Cardinality({f \in Fields : token = <<doc.field[f]>>})
                            + Cardinality({f \in Fields : token = <<doc.payload[f]>>})

\* Mutant: a unique index takes any document.
InsertUnchecked(n, id, doc) ==
    LET key == buildCompositeKey(Definition[n].fields, doc)
    IN  entries' = [entries EXCEPT ![n][key] = Append(@, id)]

\* A unique index leaves a document out whose key is taken; nobody is told.
insertBTree(n, id, doc) ==
    LET key   == buildCompositeKey(Definition[n].fields, doc)
        taken == Definition[n].unique /\ entries[n][key] # <<>>
    IN  IF taken THEN UNCHANGED entries
        ELSE entries' = [entries EXCEPT ![n][key] = Append(@, id)]

insertGIN(n, id, doc) ==
    entries' = [entries EXCEPT ![n] = [k \in Keys |->
                   @[k] \o [i \in 1 .. tokenizeJSON(doc, k) |-> id]]]

\* A document without a vector leaves the index as it is.
insertHNSW(n, id, doc) ==
    vectors' = IF doc.vector = Absent THEN vectors
               ELSE [vectors EXCEPT ![n][id] = doc.vector]

\* Mutant: everything under a key goes.
deleteWholeKeys(n, id) ==
    entries' = [entries EXCEPT ![n] = [k \in Keys |->
                   IF id \in ToSet(@[k]) THEN <<>> ELSE @[k]]]

\* The first occurrence of the document under each key (deleteBTree and
\* deleteGIN are the same but for the map they work on).
deleteEntries(n, id) ==
    entries' = [entries EXCEPT ![n] = [k \in Keys |-> RemoveFirst(@[k], id)]]

\* Mutant: the vector stays.
keepHNSW(n, id) == UNCHANGED vectors

deleteHNSW(n, id) == vectors' = [vectors EXCEPT ![n][id] = Absent]

Room == \A n \in Names, k \in Keys : Len(entries'[n][k]) <= MaxEntries

-----------------------------------------------------------------------------
(***************************************************************************)
(* Insert: the file is truncated and written, then the indexes there are   *)
(* are looked up, then each of them takes the document, in any order.      *)
(***************************************************************************)
Insert(id, doc) ==
    /\ op = Idle
    /\ op'    = [type |-> "insert", id |-> id, doc |-> doc, step |-> "write", todo |-> {}]
    /\ files' = [files EXCEPT ![id] = Torn]
    /\ UNCHANGED <<metadata, indexes, entries, vectors, covered>>

WriteFile ==
    /\ op # Idle /\ op.step = "write"
    /\ op'    = [op EXCEPT !.step = "lookup"]
    /\ files' = [files EXCEPT ![op.id] = op.doc]
    /\ UNCHANGED <<metadata, indexes, entries, vectors, covered>>

\* The write fails, and so does the Insert: its caller is told.
WriteFileFails ==
    /\ op # Idle /\ op.step = "write"
    /\ op' = Idle
    /\ UNCHANGED <<files, metadata, indexes, entries, vectors, covered>>

\* Delete: the file is removed first, if there is one.
Delete(id) ==
    /\ op = Idle
    /\ op'    = [type |-> "delete", id |-> id, step |-> "lookup", todo |-> {}]
    /\ files' = [files EXCEPT ![id] = NoFile]
    /\ UNCHANGED <<metadata, indexes, entries, vectors, covered>>

\* Mutant: the step that looks up the indexes is not over when it has.
GetIndexesAgain ==
    /\ op # Idle /\ op.step = "lookup"
    /\ op' = [op EXCEPT !.todo = indexes]
    /\ UNCHANGED <<files, metadata, indexes, entries, vectors, covered>>

\* GetIndexesForCollection, for an Insert or a Delete.
GetIndexes ==
    /\ op # Idle /\ op.step = "lookup"
    /\ op' = [op EXCEPT !.step = "index", !.todo = indexes]
    /\ covered' = [n \in Names |->
                     IF op.type = "delete" THEN covered[n] \ {op.id}
                     ELSE IF n \in indexes THEN covered[n] \cup {op.id} ELSE covered[n]]
    /\ UNCHANGED <<files, metadata, indexes, entries, vectors>>

InsertIntoIndex(n) ==
    /\ op # Idle /\ op.type = "insert" /\ n \in op.todo
    /\ op' = [op EXCEPT !.todo = @ \ {n}]
    /\ LET def == Definition[n]
       IN  IF ~ matchesPartial(def, op.doc) THEN UNCHANGED <<entries, vectors>>
           ELSE CASE def.type = "btree" -> insertBTree(n, op.id, op.doc) /\ UNCHANGED vectors
                  [] def.type = "gin"   -> insertGIN(n, op.id, op.doc) /\ UNCHANGED vectors
                  [] def.type = "hnsw"  -> insertHNSW(n, op.id, op.doc) /\ UNCHANGED entries
    /\ Room
    /\ UNCHANGED <<files, metadata, indexes, covered>>

DeleteFromIndex(n) ==
    /\ op # Idle /\ op.type = "delete" /\ n \in op.todo
    /\ op' = [op EXCEPT !.todo = @ \ {n}]
    /\ IF Definition[n].type = "hnsw" THEN deleteHNSW(n, op.id) /\ UNCHANGED entries
                                      ELSE deleteEntries(n, op.id) /\ UNCHANGED vectors
    /\ UNCHANGED <<files, metadata, indexes, covered>>

Return ==
    /\ op # Idle /\ op.step = "index" /\ op.todo = {}
    /\ op' = Idle
    /\ UNCHANGED <<files, metadata, indexes, entries, vectors, covered>>

-----------------------------------------------------------------------------
(***************************************************************************)
(* Index management.  A new index is empty, whatever has been stored.  An  *)
(* operation that has looked up an index before it was dropped goes on     *)
(* writing to the old one, which nobody can reach any more.                *)
(***************************************************************************)
CreateIndex(n) ==
    /\ n \notin indexes
    /\ indexes'  = indexes \cup {n}
    /\ metadata' = metadata \cup {n}
    /\ UNCHANGED <<files, entries, vectors, op, covered>>

Forget(n) ==
    /\ entries' = [entries EXCEPT ![n] = NoEntries]
    /\ vectors' = [vectors EXCEPT ![n] = NoVectors]
    /\ covered' = [covered EXCEPT ![n] = {}]

DropIndex(n) ==
    /\ n \in indexes
    /\ indexes'  = indexes \ {n}
    /\ metadata' = metadata \ {n}
    /\ op' = IF op = Idle THEN Idle ELSE [op EXCEPT !.todo = @ \ {n}]
    /\ Forget(n)
    /\ UNCHANGED files

\* The process ends and a new one comes up on the directory: NewFileStorage
\* loads the metadata of the indexes there were, and no entries.
Restart ==
    /\ op'      = Idle
    /\ indexes' = metadata
    /\ entries' = [n \in Names |-> NoEntries]
    /\ vectors' = [n \in Names |-> NoVectors]
    /\ covered' = [n \in Names |-> {}]
    /\ UNCHANGED <<files, metadata>>

Next ==
    \/ \E id \in IDs : Delete(id) \/ \E doc \in Docs : Insert(id, doc)
    \/ WriteFile \/ WriteFileFails \/ GetIndexes \/ Return
    \/ \E n \in Names : \/ InsertIntoIndex(n) \/ DeleteFromIndex(n)
                        \/ CreateIndex(n) \/ DropIndex(n)
    \/ Restart

Spec == Init /\ [][Next]_vars

-----------------------------------------------------------------------------
(***************************************************************************)
(* Properties.                                                             *)
(***************************************************************************)
TypeOK ==
    /\ files    \in [IDs -> Document \cup {NoFile, Torn}]
    /\ metadata \subseteq Names
    /\ indexes  \subseteq Names
    /\ op       \in Operation \cup {Idle}
    /\ \A n \in Names : /\ entries[n] \in [Keys -> Seq(IDs)]
                        /\ vectors[n] \in [IDs -> Vectors \cup {Absent}]
                        /\ covered[n] \subseteq IDs
                        /\ \A k \in Keys : Len(entries[n][k]) <= MaxEntries

\* What the reads return: an operation holds the storage's lock, so Find and
\* FindAll see no file halfway, but one that was left so FindAll skips.
FindAll == {id \in IDs : files[id] \in Document}

queryBTree(n, key) == ToSet(entries[n][key])
queryGIN(n, token) == ToSet(entries[n][token])

\* All IDs; the code returns the ten most similar.
queryHNSW(n) == {id \in IDs : vectors[n][id] # Absent}

Running(id) == op # Idle /\ op.id = id

\* An index that is to have the document has it: under its key, under each of
\* its words, by its vector.
IsFound(n, id, doc) ==
    LET def == Definition[n]
    IN  matchesPartial(def, doc) =>
          CASE def.type = "btree" ->
                    def.unique \/ id \in queryBTree(n, buildCompositeKey(def.fields, doc))
            [] def.type = "gin"   ->
                    \A k \in Keys : tokenizeJSON(doc, k) > 0 => id \in queryGIN(n, k)
            [] def.type = "hnsw"  ->
                    doc.vector # Absent => vectors[n][id] = doc.vector

(***************************************************************************)
(* A stored document is found by every index that was there when it was    *)
(* last inserted, if the index is to have it.  Neither other documents'    *)
(* operations, nor indexes coming and going in the middle of one, lose it. *)
(* (A unique index may leave a document out, and never takes it in later.) *)
(***************************************************************************)
CoveredIsFound ==
    \A n \in indexes : \A id \in covered[n] \cap FindAll :
        Running(id) \/ IsFound(n, id, files[id])

(***************************************************************************)
(* Two documents are never under one key of a unique btree index (a gin    *)
(* index never looks whether it is to be unique).                          *)
(***************************************************************************)
UniqueIndexNamesOne ==
    \A n \in Names : Definition[n].type = "btree" /\ Definition[n].unique =>
        \A k \in Keys : Len(entries[n][k]) <= 1

(***************************************************************************)
(* Similarity search proposes no document that has been deleted, at any    *)
(* moment of an operation but the one that deletes it: not through an      *)
(* index that came or went in the middle of the deletion, either.          *)
(***************************************************************************)
NoGhostVectors ==
    \A n \in Names : \A id \in queryHNSW(n) : files[id] # NoFile \/ Running(id)
=============================================================================
